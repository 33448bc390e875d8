-------------------------- MODULE WriteAdmission --------------------------
(***************************************************************************)
(* Time in the path of a write: what a page allows itself, and what the    *)
(* server lets it do.                                                      *)
(*                                                                         *)
(* Rate limits.  The server counts the cost of what an IP address writes   *)
(* in fixed windows, which start with the first counted write, and cuts    *)
(* off who exceeds the limit.  The page cannot know where the windows      *)
(* start: it paces its buffer so that no interval of a period and a safety *)
(* margin holds more than the limit.                                       *)
(*                                                                         *)
(* Turnstile.  On the anonymous board a connection may write for a time    *)
(* after it has solved a challenge.  The page stops a margin earlier; what *)
(* it draws then waits for the next challenge.  The server ignores a write *)
(* it has not validated, without an answer.                                *)
(***************************************************************************)
EXTENDS Naturals, Sequences

CONSTANTS
    Ips,         \* addresses; the page's is Mine
    Mine,
    KindOrder,   \* the kinds of limits, in the order they are enforced
    Limit,       \* per kind and period
    Period,      \* periodMs, per kind
    Costs,       \* the costs, per kind, a write may have
    Safety,      \* RATE_LIMIT_WINDOW_SAFETY_MS
    Window,      \* TURNSTILE_VALIDATION_WINDOW_MS
    Margin,      \* the part of it that the page does not use
    AckTimeout,  \* TURNSTILE_ACK_TIMEOUT_MS
    RetryDelay,  \* TURNSTILE_RETRY_DELAY_MS
    MapSize,     \* RATE_LIMIT_MAP_MAX_SIZE
    ScanLimit,   \* RATE_LIMIT_STALE_SCAN_LIMIT
    MaxTime,     \* bound on the clock
    Scenarios    \* what the board is like, and the bounds

Kinds == {KindOrder[k] : k \in DOMAIN KindOrder}

\* The first kind, "general", counts every write once.
ASSUME WriteAdmissionAssumption ==
    /\ Mine \in Ips /\ KindOrder \in Seq(Kinds) /\ KindOrder # << >>
    /\ \A j, k \in DOMAIN KindOrder : KindOrder[j] = KindOrder[k] => j = k
    /\ \A kind \in Kinds : Limit[kind] \in Nat \ {0} /\ Period[kind] \in Nat \ {0}
    /\ Costs \subseteq [Kinds -> Nat] /\ \A cost \in Costs : cost[KindOrder[1]] = 1
    /\ {Safety, Window, Margin, AckTimeout, RetryDelay, ScanLimit} \subseteq Nat
    /\ {MapSize, MaxTime} \subseteq Nat \ {0}
    /\ Scenarios \subseteq [protected : BOOLEAN, alone : BOOLEAN, jitter : Nat, own : Nat,
                             others : Nat, cuts : Nat, fails : Nat]

VARIABLES
    now,
    page,      \* the page's buffer, usage, validation and timer (when it fires)
    up,        \* the writes under way, with the time they were sent
    submits,   \* the challenge tokens under way, and their answers
    maps,      \* per kind, the entries of the server, the oldest first
    verified,  \* turnstileValidatedUntil of the page's connection
    online,    \* whether the page is connected
    passed,    \* what was let through in the last period, per kind and address,
               \* but for addresses a full table has no room for
    limited,   \* whether the page was ever cut off for writing too fast
    ignored,   \* the writes that were ignored
    left       \* what remains of the bounds, and the scenario

vars == <<now, page, up, submits, maps, verified, online, passed, limited,
          ignored, left>>

-----------------------------------------------------------------------------
(* Amounts over time *)

Times == 0 .. MaxTime
Nothing == [t \in Times |-> 0]
Plus(amounts, cost) == [amounts EXCEPT ![now] = @ + cost]
Recent(amounts, period, time) ==
    [t \in Times |-> IF t + period > time THEN amounts[t] ELSE 0]
Total(amounts) ==
    LET upTo[t \in Times] == amounts[t] + (IF t = 0 THEN 0 ELSE upTo[t - 1])
    IN  upTo[MaxTime]

-----------------------------------------------------------------------------
Spend(what) == left[what] > 0 /\ left' = [left EXCEPT ![what] = @ - 1]

Init ==
    /\ now = 1
    /\ page = [queue |-> << >>, usage |-> [kind \in Kinds |-> Nothing], paused |-> 0,
               valid |-> 0, checks |-> << >>, pending |-> FALSE, widget |-> FALSE,
               timer |-> 0]
    /\ up = << >> /\ submits = {}
    /\ maps = [kind \in Kinds |-> << >>]
    /\ verified = 0 /\ online = TRUE
    /\ passed = [kind \in Kinds |-> [ip \in Ips |-> Nothing]]
    /\ limited = FALSE /\ ignored = {}
    /\ left \in Scenarios

-----------------------------------------------------------------------------
(* The server's windows (bounded_state_map.mjs, rate_limits.mjs) *)

Entry(ip, start) == [ip |-> ip, start |-> start, count |-> 0, seen |-> start]
IsStale(kind, e) == now >= e.seen + 2 * Period[kind]

\* Mutant of Pruned: the first entry that is not stale goes too.
PrunedOneMore(kind, map) ==
    LET stale == {n \in 0 .. Len(map) :
                    n <= ScanLimit /\ \A k \in 1 .. n - 1 : IsStale(kind, map[k])}
        most == CHOOSE n \in stale : \A k \in stale : k <= n
    IN  SubSeq(map, most + 1, Len(map))

\* pruneStaleEntries: the leading stale entries, at most ScanLimit.
Pruned(kind, map) ==
    LET stale == {n \in 0 .. Len(map) :
                    n <= ScanLimit /\ \A k \in 1 .. n : IsStale(kind, map[k])}
        most == CHOOSE n \in stale : \A k \in stale : k <= n
    IN  SubSeq(map, most + 1, Len(map))

\* touchExisting, or a new entry, and capToMaxSize
EntryOf(map, ip) == {k \in DOMAIN map : map[k].ip = ip}
Touched(map, ip) ==
    LET own == CHOOSE k \in EntryOf(map, ip) : TRUE
        all == IF EntryOf(map, ip) = {} THEN Append(map, Entry(ip, now))
               ELSE Append(SubSeq(map, 1, own - 1) \o SubSeq(map, own + 1, Len(map)), map[own])
    IN  SubSeq(all, IF Len(all) > MapSize THEN Len(all) - MapSize + 1 ELSE 1, Len(all))

\* Mutant of Consumed: a batch counts once.
ConsumedOnce(kind, e, cost) ==
    LET w == IF now >= e.start + Period[kind] THEN Entry(e.ip, now) ELSE e
    IN  [w EXCEPT !.count = @ + (IF cost > 0 THEN 1 ELSE 0), !.seen = now]

\* consumeFixedWindowRateLimit: the window starts over when its period is over.
Consumed(kind, e, cost) ==
    LET w == IF now >= e.start + Period[kind] THEN Entry(e.ip, now) ELSE e
    IN  [w EXCEPT !.count = @ + cost, !.seen = now]

\* enforceIpRateLimit; what exceeds the limit is counted too.
Counted(kind, map, ip, cost) ==
    LET t == Touched(Pruned(kind, map), ip)
    IN  [t EXCEPT ![Len(t)] = Consumed(kind, @, cost)]
Newest(map) == map[Len(map)]

\* The first n kinds are enforced in their order, up to one that is exceeded.
Enforced(ip, cost, n) ==
    LET counted == [kind \in Kinds |-> Counted(kind, maps[kind], ip, cost[kind])]
        over == {k \in 1 .. n : /\ cost[KindOrder[k]] > 0
                                /\ Newest(counted[KindOrder[k]]).count > Limit[KindOrder[k]]}
        reached == {k \in 1 .. n : \A j \in over : k <= j}
    IN  [maps |-> [kind \in Kinds |->
                     IF cost[kind] > 0 /\ \E k \in reached : KindOrder[k] = kind
                     THEN counted[kind] ELSE maps[kind]],
         exceeded |-> {KindOrder[k] : k \in over \cap reached}]

\* An entry that was not stale has no room any more in a full table.
Displaced(kind, map, new, ip) ==
    /\ EntryOf(Pruned(kind, map), ip) # {} /\ EntryOf(new, ip) = {}
    /\ Len(new) = MapSize

Remember(ms, ip, cost, through) ==
    [kind \in Kinds |-> [other \in Ips |->
       IF Displaced(kind, maps[kind], ms[kind], other) THEN Nothing
       ELSE IF through /\ other = ip THEN Plus(passed[kind][ip], cost[kind])
       ELSE passed[kind][other]]]

\* Somebody else writes, from another address unless the page shares its own.
OtherWrites(ip, cost) ==
    LET e == Enforced(ip, cost, Len(KindOrder))
    IN  /\ Spend("others")
        /\ left.alone => ip # Mine
        /\ maps' = e.maps
        /\ passed' = Remember(e.maps, ip, cost, e.exceeded = {})
        /\ UNCHANGED <<now, page, up, submits, verified, online, limited, ignored>>

-----------------------------------------------------------------------------
(* The page writes (board_write_module.js) *)

Validated == page.valid > now
Protected == left.protected
CanWrite == online /\ now >= page.paused

\* drawAndSend; what needs a check that is not valid waits for the next one.
DrawAndSend(cost) ==
    /\ CanWrite
    /\ Spend("own")
    /\ page' = IF Protected /\ ~Validated
               THEN [page EXCEPT !.checks = Append(@, cost),
                        !.widget = @ \/ (page.checks = << >> /\ ~page.pending),
                        !.pending = @ \/ page.checks = << >>,
                        !.timer = IF page.checks = << >> THEN 0 ELSE @]
               ELSE [page EXCEPT !.queue = Append(@, cost)]
    /\ UNCHANGED <<now, up, submits, maps, verified, online, passed, limited, ignored>>

\* Mutant of Paced: no safety margin.
PacedTightly(kind) == Period[kind]

Paced(kind) == Period[kind] + Safety

\* getRateLimitHistoryWaitMs is zero.
Used(kind) == Total(Recent(page.usage[kind], Paced(kind), now))
WithinBudget(cost) ==
    \A kind \in Kinds : cost[kind] > 0 =>
        cost[kind] > Limit[kind] \/ Used(kind) + cost[kind] <= Limit[kind]

MayEmit == CanWrite /\ page.queue # << >> /\ WithinBudget(Head(page.queue))

\* emitBufferedWrite, which does not ask again whether the check is valid.
\* Usage that no interval reaches any more is forgotten.
Emit ==
    /\ MayEmit
    /\ up' = Append(up, [cost |-> Head(page.queue), at |-> now, valid |-> Validated])
    /\ page' = [page EXCEPT !.queue = Tail(@),
           !.usage = [kind \in Kinds |->
                        Plus(Recent(@[kind], Paced(kind), now), Head(page.queue)[kind])]]
    /\ UNCHANGED <<now, submits, maps, verified, online, passed, limited, ignored, left>>

\* handleBroadcastWriteMessage: the general limit, the check, the other limits.
\* Who exceeds a limit is cut off; the page holds back what was not accepted
\* until the window is over.
Receive ==
    LET w == Head(up)
        unverified == Protected /\ verified <= now
        e == Enforced(Mine, w.cost, IF unverified THEN 1 ELSE Len(KindOrder))
    IN  /\ up # << >>
        /\ maps' = e.maps
        /\ passed' = Remember(e.maps, Mine, w.cost, e.exceeded = {} /\ ~unverified)
        /\ \/ /\ up' = << >> /\ online' = FALSE /\ limited' = TRUE
              /\ \E kind \in e.exceeded :
                    page' = [page EXCEPT
                        !.paused = Newest(e.maps[kind]).start + Period[kind],
                        !.checks = << >>,
                        !.queue = [k \in DOMAIN up |-> up[k].cost] \o @]
              /\ submits' = {[s EXCEPT !.phase = "lost"] : s \in submits}
              /\ UNCHANGED ignored
           \/ /\ e.exceeded = {}
              /\ up' = Tail(up)
              /\ ignored' = IF unverified THEN ignored \cup {[valid |-> w.valid]}
                            ELSE ignored
              /\ UNCHANGED <<page, online, limited, submits>>
        /\ UNCHANGED <<now, verified, left>>

\* The connection breaks; beginAuthoritativeResync forgets the writes that wait
\* for a check, and the buffer unless it is held back.
Cut ==
    /\ online /\ Spend("cuts")
    /\ online' = FALSE /\ up' = << >>
    /\ page' = [page EXCEPT !.checks = << >>,
                            !.queue = IF now < page.paused THEN @ ELSE << >>]
    /\ submits' = {[s EXCEPT !.phase = "lost"] : s \in submits}
    /\ UNCHANGED <<now, maps, verified, passed, limited, ignored>>

\* start() and CONNECT: the new connection is not validated, and the page
\* starts the challenge over.
Reconnect ==
    /\ ~online
    /\ online' = TRUE /\ verified' = 0
    /\ page' = [page EXCEPT !.valid = 0, !.widget = Protected,
                            !.queue = IF now < page.paused THEN @ ELSE << >>]
    /\ UNCHANGED <<now, up, submits, maps, passed, limited, ignored, left>>

-----------------------------------------------------------------------------
(* The challenge (board_turnstile.js, socket/turnstile.mjs) *)

\* scheduleRetry: only while writes wait.
Retry(p) == IF p.checks = << >> THEN 0 ELSE now + RetryDelay
Unvalidated(p) == [p EXCEPT !.pending = FALSE, !.valid = 0, !.timer = Retry(p)]

\* refresh(), by the timer that refreshes a validation or retries a check
Refresh ==
    /\ page.timer \in 1 .. now
    /\ page' = [page EXCEPT !.timer = 0, !.pending = TRUE,
                            !.widget = @ \/ ~page.pending]
    /\ UNCHANGED <<now, up, submits, maps, verified, online, passed, limited,
                   ignored, left>>

\* The widget calls back with a token, which is submitted if there is a socket.
Solved ==
    /\ page.widget
    /\ page' = IF online THEN [page EXCEPT !.widget = FALSE]
               ELSE [page EXCEPT !.widget = FALSE, !.pending = FALSE,
                                 !.timer = IF page.checks = << >> THEN @ ELSE Retry(page)]
    /\ submits' = IF online THEN submits \cup {[born |-> now, at |-> now, phase |-> "sent"]}
                  ELSE submits
    /\ UNCHANGED <<now, up, maps, verified, online, passed, limited, ignored, left>>

\* error-callback, timeout-callback, expired-callback
ChallengeFails ==
    /\ page.widget /\ Spend("fails")
    /\ page' = [Unvalidated(page) EXCEPT !.widget = FALSE]
    /\ UNCHANGED <<now, up, submits, maps, verified, online, passed, limited, ignored>>

\* handleTurnstileTokenMessage
Verify(s, accepted) ==
    /\ s \in submits /\ s.phase = "sent"
    /\ IF accepted THEN UNCHANGED left ELSE Spend("fails")
    /\ verified' = IF accepted THEN now + Window ELSE verified
    /\ submits' = (submits \ {s}) \cup
                  {[s EXCEPT !.at = now, !.phase = IF accepted THEN "yes" ELSE "no"]}
    /\ UNCHANGED <<now, page, up, maps, online, passed, limited, ignored>>

\* Mutant of ValidUntil: the page uses the whole window.
ValidUntilTheEnd == now + Window

\* computeTurnstileValidation
ValidUntil == IF Window > Margin THEN now + Window - Margin ELSE 0

\* The acknowledgement: what waited is sent.
Acknowledged(s) ==
    /\ s \in submits /\ s.phase \in {"yes", "no"}
    /\ submits' = submits \ {s}
    /\ page' = IF s.phase = "no" THEN Unvalidated(page)
               ELSE [page EXCEPT !.pending = FALSE, !.valid = ValidUntil,
                        !.timer = now + (8 * Window) \div 10, !.checks = << >>,
                        !.queue = IF CanWrite THEN @ \o page.checks ELSE @]
    /\ UNCHANGED <<now, up, maps, verified, online, passed, limited, ignored, left>>

\* No acknowledgement in time, maybe because the connection is gone; a newer
\* validation is forgotten too.
SubmitTimesOut(s) ==
    /\ s \in submits /\ now >= s.born + AckTimeout
    /\ submits' = submits \ {s}
    /\ page' = Unvalidated(page)
    /\ UNCHANGED <<now, up, maps, verified, online, passed, limited, ignored, left>>

\* Time passes; a message takes no longer than the scenario's jitter.  The timer of
\* the buffer is set for when the budget allows a write, and may fire late.
Tick ==
    /\ now < MaxTime
    /\ \A k \in DOMAIN up : now < up[k].at + left.jitter
    /\ \A s \in submits : s.phase \in {"yes", "no"} => now < s.at + left.jitter
    /\ now' = now + 1
    /\ passed' = [kind \in Kinds |-> [ip \in Ips |->
                    Recent(passed[kind][ip], Period[kind], now + 1)]]
    /\ UNCHANGED <<page, up, submits, maps, verified, online, limited, ignored, left>>

Next ==
    \/ \E ip \in Ips, cost \in Costs : OtherWrites(ip, cost)
    \/ \E cost \in Costs : DrawAndSend(cost)
    \/ Emit \/ Receive \/ Cut \/ Reconnect
    \/ Refresh \/ Solved \/ ChallengeFails
    \/ \E s \in submits :
          \/ \E accepted \in BOOLEAN : Verify(s, accepted)
          \/ Acknowledged(s) \/ SubmitTimesOut(s)
    \/ Tick

Spec == Init /\ [][Next]_vars

-----------------------------------------------------------------------------
(* Properties *)

\* A page that is alone on its address, and whose messages are late by no more
\* than the safety margin, is never cut off for writing too fast, whatever the
\* costs of its writes, unless one is larger than the limit.
PacedPageNeverLimited ==
    (left.alone /\ left.jitter <= Safety
       /\ \A cost \in Costs, kind \in Kinds : cost[kind] <= Limit[kind]) => ~limited

\* In no interval of a period is an address let through more than twice its
\* limit, however its entry is kept, pruned and found again, unless a full table
\* dropped the entry for newer ones.
AtMostTwoWindows ==
    \A ip \in Ips, kind \in Kinds :
        Total(Recent(passed[kind][ip], Period[kind], now)) <= 2 * Limit[kind]

\* The server silently ignores a write only if the page's own validation was
\* over when it sent it: the margin covers what the answer and the write take.
IgnoredOnlyIfOver ==
    2 * left.jitter <= Margin => \A w \in ignored : ~w.valid
=============================================================================
