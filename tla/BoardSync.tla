----------------------------- MODULE BoardSync -----------------------------
(***************************************************************************)
(* How a page keeps up with a board: it shows a stored SVG (its baseline), *)
(* connects a socket that replays what the baseline lacks, then applies    *)
(* the sequenced mutations it hears.  Whenever it misses something it      *)
(* fetches a new baseline and connects again.  The network may cut the     *)
(* connection, the server may restart without its last unsaved writes, and *)
(* applying a mutation may wait for the code of its tool.                  *)
(*                                                                         *)
(* Pages do not influence each other except by writing, so there is one;   *)
(* everybody's writes are the server's.  A mutation is a number, content a *)
(* sequence of mutations, and a sequence number a length.                  *)
(***************************************************************************)
EXTENDS Integers, Sequences

CONSTANTS
    MaxWrites,    \* bound on accepted mutations
    MaxDrops,     \* bound on cut connections, failed fetches, failed draws and
                  \* refreshes
    MaxRestarts,  \* bound on restarts of the server
    MaxMissed     \* bound on mutations that a joined page is not told of

ASSUME BoardSyncAssumption ==
    {MaxWrites, MaxDrops, MaxRestarts, MaxMissed} \subseteq Nat

VARIABLES
    hist,      \* the mutations the server has accepted and not lost
    disk,      \* the stored SVG
    floor,     \* minReplayableSeq
    link,      \* the socket, from both ends
    page,
    unheard,   \* whether the page has yet to find out that a mutation was
               \* kept from it, or that it could not draw one
    written, drops, restarts, missed  \* counters for the bounds

vars == <<hist, disk, floor, link, page, unheard, written, drops, restarts,
          missed>>
server == <<hist, disk, floor, unheard, written, restarts, missed>>

Writes == 1 .. MaxWrites
Contents == UNION {[1 .. n -> Writes] : n \in 0 .. MaxWrites}
Prefix(seq, n) == SubSeq(seq, 1, n)
IsPrefixOf(s, t) == Len(s) <= Len(t) /\ Prefix(t, Len(s)) = s
Range1(seq) == {seq[n] : n \in 1 .. Len(seq)}

\* Broadcasts: the replay batch of a handshake, and live mutations.
Batches == [kind : {"batch"}, from : Nat, seq : Nat, children : Contents]
Lives == [kind : {"live"}, seq : Nat, mutation : Writes]
Broadcasts == Batches \cup Lives

\* The socket is absent ("none"), waits for the handshake ("connecting"), is
\* joined to the board ("open"), "refused", "cut" or "failed"; the page has yet to
\* receive `chan' and, once that is empty, the news that it is refused or cut.
\* It is then "dead".
NoLink == [phase |-> "none", base |-> 0, chan |-> << >>]

\* An activation of processIncomingBroadcast: the mutations it has still to
\* apply, and whether it waits for a tool whose pending message is the first.
Drains == [gen : Nat, left : Contents, batch : BOOLEAN,
           tool : {"ready", "pending", "forgotten"}]

Pages == [view : Contents,       \* what the drawing area shows
          seq : Nat,             \* authoritativeSeq
          awaiting : BOOLEAN,    \* awaitingSnapshot
          refresh : BOOLEAN,     \* refreshBaselineBeforeConnect
          generation : Nat,
          starting : {"no", "fetching", "fetched", "connecting"},
          body : Contents,       \* the baseline in the response
          timer : BOOLEAN,       \* reconnectTimerId
          queue : Seq(Broadcasts),
          failed : BOOLEAN,      \* (history) a mutation of this baseline failed
          stray : Contents,      \* its message waits for a tool nobody loads
          drains : SUBSET Drains]

TypeOK ==
    /\ hist \in Contents /\ disk \in Contents /\ floor \in Nat
    /\ link.phase \in {"none", "connecting", "open", "refused", "cut", "failed",
                       "dead"}
    /\ Range1(link.chan) \subseteq Broadcasts
    /\ page.view \in Contents
    /\ page.starting \in {"no", "fetching", "fetched", "connecting"}
    /\ page.drains \subseteq Drains
    /\ unheard \in BOOLEAN
    /\ Range1(page.queue) \subseteq Broadcasts

Init ==
    /\ hist = << >> /\ disk = << >> /\ floor = 0
    /\ link = NoLink
    /\ page = [view |-> << >>, seq |-> 0, awaiting |-> TRUE, refresh |-> FALSE,
               generation |-> 0, starting |-> "no", body |-> << >>,
               timer |-> TRUE, queue |-> << >>, failed |-> FALSE, stray |-> << >>,
               drains |-> {}]
    /\ unheard = FALSE
    /\ written = 0 /\ drops = 0 /\ restarts = 0 /\ missed = 0

-----------------------------------------------------------------------------
(* The server *)

\* A joined page is told of a write, unless it has outlived the instance of
\* the board that accepts it (see BoardLifecycle).
Write(told) ==
    /\ written < MaxWrites
    /\ ~told => link.phase = "open" /\ missed < MaxMissed
    /\ missed' = IF told THEN missed ELSE missed + 1
    /\ unheard' = ~told
    /\ written' = written + 1
    /\ hist' = Append(hist, written')
    /\ link' = IF link.phase = "open" /\ told
               THEN [link EXCEPT !.chan = Append(@, [kind |-> "live",
                        seq |-> Len(hist'), mutation |-> written'])]
               ELSE link
    /\ UNCHANGED <<disk, floor, page, drops, restarts>>

\* A save stores the board and trims the history it no longer keeps.
Save(keepFrom) ==
    /\ disk # hist
    /\ disk' = hist
    /\ keepFrom \in floor .. Len(hist)
    /\ floor' = keepFrom
    /\ UNCHANGED <<hist, link, page, unheard, written, drops, restarts, missed>>

\* prepareConnectionReplay and bootstrapSocketBoard.
Handshake ==
    /\ link.phase = "connecting"
    /\ link' = IF floor <= link.base /\ link.base <= Len(hist)
               THEN [link EXCEPT !.phase = "open",
                        !.chan = <<[kind |-> "batch", from |-> link.base,
                                    seq |-> Len(hist),
                                    children |-> SubSeq(hist, link.base + 1,
                                                        Len(hist))]>>]
               ELSE [link EXCEPT !.phase = "refused"]
    /\ unheard' = FALSE
    /\ UNCHANGED <<hist, disk, floor, page, written, drops, restarts, missed>>

\* The connection breaks: a part of what was sent still arrives.
Broken(l, arrives) ==
    CASE l.phase = "open" -> [l EXCEPT !.phase = "cut",
                                       !.chan = Prefix(@, arrives)]
      [] l.phase = "connecting" -> [l EXCEPT !.phase = "failed"]
      [] OTHER -> l

Drop(arrives) ==
    /\ link.phase \in {"open", "connecting"}
    /\ drops < MaxDrops
    /\ drops' = drops + 1
    /\ arrives \in 0 .. Len(link.chan)
    /\ link' = Broken(link, arrives)
    /\ UNCHANGED <<page, server>>

\* The process dies: what was not saved is lost.
Restart ==
    /\ restarts < MaxRestarts
    /\ restarts' = restarts + 1
    /\ hist' = disk
    /\ floor' = Len(disk)
    /\ link' = Broken(link, Len(link.chan))
    /\ unheard' = FALSE
    /\ UNCHANGED <<disk, page, written, drops, missed>>

-----------------------------------------------------------------------------
(* Connecting (board_connection_module.js) *)

\* Mutant of Forget: the activation goes on.
ForgetNothing(d) == d

Forget(d) == [d EXCEPT !.tool = "forgotten"]

\* Mutant of Resync: what was queued stays queued.
ResyncKeepsQueue(p) ==
    [p EXCEPT !.generation = @ + 1, !.awaiting = TRUE, !.refresh = TRUE,
              !.stray = << >>, !.drains = {Forget(d) : d \in @}]

\* beginAuthoritativeResync: pending messages are dropped; an activation that
\* waits for a tool finds that it is out of date when it goes on.
Resync(p) ==
    [p EXCEPT !.generation = @ + 1, !.awaiting = TRUE, !.refresh = TRUE,
              !.queue = << >>, !.stray = << >>, !.drains = {Forget(d) : d \in @}]

\* start(): the old socket is closed; the caller sets link' to NoLink.
Starting(p, l) ==
    LET q == IF l.phase = "none" THEN p ELSE Resync(p)
    IN  [q EXCEPT !.generation = @ + 1, !.awaiting = TRUE, !.timer = FALSE,
                  !.starting = IF q.refresh THEN "fetching" ELSE "connecting"]

Start ==
    /\ page.timer
    /\ page.starting = "no"
    /\ page' = Starting(page, link)
    /\ link' = NoLink
    /\ UNCHANGED <<server, drops>>

\* The access refresh timer starts over, also while connected.
RefreshAccess ==
    /\ drops < MaxDrops
    /\ drops' = drops + 1
    /\ link.phase = "open"
    /\ page' = Starting(page, link)
    /\ link' = NoLink
    /\ UNCHANGED server

ServeBaseline ==
    /\ page.starting = "fetching"
    /\ page' = [page EXCEPT !.starting = "fetched", !.body = disk]
    /\ UNCHANGED <<link, server, drops>>

\* applyAuthoritativeBaseline
BaselineArrives ==
    /\ page.starting = "fetched"
    /\ page' = [page EXCEPT !.starting = "connecting", !.body = << >>,
                            !.view = page.body, !.seq = Len(page.body),
                            !.refresh = FALSE, !.failed = FALSE]
    /\ UNCHANGED <<link, server, drops>>

FetchFails ==
    /\ page.starting \in {"fetching", "fetched"}
    /\ drops < MaxDrops
    /\ drops' = drops + 1
    /\ page' = [page EXCEPT !.starting = "no", !.body = << >>, !.timer = TRUE]
    /\ UNCHANGED <<link, server>>

OpenSocket ==
    /\ page.starting = "connecting"
    /\ page' = [page EXCEPT !.starting = "no"]
    /\ link' = [NoLink EXCEPT !.phase = "connecting", !.base = page.seq]
    /\ UNCHANGED <<server, drops>>

\* Mutant of Refused: no new attempt is scheduled.
RefusedForGood ==
    /\ link.phase = "refused"
    /\ page' = Resync(page)
    /\ link' = NoLink
    /\ UNCHANGED <<server, drops>>

\* CONNECT_ERROR for a baseline that cannot be replayed
Refused ==
    /\ link.phase = "refused"
    /\ page' = [Resync(page) EXCEPT !.timer = TRUE]
    /\ link' = NoLink
    /\ UNCHANGED <<server, drops>>

\* any other CONNECT_ERROR
ConnectFails ==
    /\ link.phase = "failed"
    /\ page' = [page EXCEPT !.timer = TRUE]
    /\ link' = [link EXCEPT !.phase = "dead"]
    /\ UNCHANGED <<server, drops>>

\* DISCONNECT
Disconnected ==
    /\ link.phase = "cut" /\ link.chan = << >>
    /\ page' = [Resync(page) EXCEPT !.timer = TRUE]
    /\ link' = [link EXCEPT !.phase = "dead"]
    /\ UNCHANGED <<server, drops>>

-----------------------------------------------------------------------------
(* Applying what is heard (board_replay_module.js) *)

\* enqueueIncomingBroadcast
Deliver ==
    /\ link.chan # << >>
    /\ page' = [page EXCEPT !.queue = Append(@, Head(link.chan))]
    /\ link' = [link EXCEPT !.chan = Tail(@)]
    /\ UNCHANGED <<server, drops>>

Current(d) == d.gen = page.generation

\* A replay that is complete makes the page a synchronized one.
Caught(p) == [p EXCEPT !.awaiting = FALSE, !.refresh = FALSE]

\* The queue is drained one message at a time: an old mutation is ignored, one
\* that does not follow what the page shows makes it start over.
Process ==
    LET msg == Head(page.queue)
        rest == [page EXCEPT !.queue = Tail(@)]
        batch == msg.kind = "batch"
        from == IF batch THEN msg.from ELSE msg.seq - 1
        children == IF batch THEN msg.children ELSE <<msg.mutation>>
        drain == [gen |-> page.generation, left |-> children, batch |-> batch,
                  tool |-> "ready"]
        old == ~batch /\ from < page.seq
    IN  /\ page.queue # << >>
        /\ ~\E d \in page.drains : Current(d)
        /\ CASE old -> page' = rest /\ link' = link
             [] ~old /\ (from # page.seq \/ Len(children) # msg.seq - from) ->
                   page' = Starting(Resync(rest), link) /\ link' = NoLink
             [] OTHER ->
                   /\ page' = IF children = << >> THEN Caught(rest)
                              ELSE [rest EXCEPT !.drains = @ \cup {drain}]
                   /\ link' = link
        /\ UNCHANGED <<server, drops>>

\* The tool of the next mutation is not mounted yet.
AwaitTool(d) ==
    /\ Current(d)
    /\ d.tool = "ready"
    /\ page' = [page EXCEPT !.drains = (@ \ {d}) \cup
                                       {[d EXCEPT !.tool = "pending"]}]
    /\ UNCHANGED <<link, server, drops>>

\* The next mutation is drawn, now or when its tool is mounted, unless the page
\* has started over meanwhile; then the activation ends without effect.
Advance(d) ==
    LET others == page.drains \ {d}
        drawn == IF d.tool = "forgotten" THEN page.view
                 ELSE Append(page.view, Head(d.left))
        next == [d EXCEPT !.left = Tail(@), !.tool = "ready"]
        moved == [page EXCEPT !.view = drawn, !.seq = @ + 1]
    IN  page' = IF ~Current(d) THEN [page EXCEPT !.view = drawn, !.drains = others]
                ELSE IF next.left # << >>
                     THEN [moved EXCEPT !.drains = others \cup {next}]
                ELSE IF d.batch THEN Caught([moved EXCEPT !.drains = others])
                     ELSE [moved EXCEPT !.drains = others]

Draw(d) == Advance(d) /\ UNCHANGED <<link, server, drops>>

\* The tool cannot be loaded, or drawing throws: the activation ends, a batch with
\* all that it had left, and the page stays where it was.  The message of a tool
\* that could not be loaded stays among the pending ones.
DrawFails(d, kept) ==
    /\ drops < MaxDrops
    /\ drops' = drops + 1
    /\ kept => Current(d) /\ d.tool = "pending"
    /\ page' = [page EXCEPT !.drains = @ \ {d}, !.failed = @ \/ Current(d),
                            !.stray = IF kept THEN <<Head(d.left)>> ELSE @]
    /\ unheard' = (unheard \/ Current(d))
    /\ UNCHANGED <<link, hist, disk, floor, written, restarts, missed>>

\* mountTool, when the user chooses that tool later: what is pending is drawn.
MountLate ==
    /\ page.stray # << >>
    /\ page' = [page EXCEPT !.view = @ \o page.stray, !.stray = << >>]
    /\ UNCHANGED <<link, server, drops>>

Next ==
    \/ \E told \in BOOLEAN : Write(told)
    \/ Handshake \/ Restart
    \/ \E n \in 0 .. MaxWrites : Save(n)
    \/ \E n \in 0 .. MaxWrites + 1 : Drop(n)
    \/ Start \/ RefreshAccess
    \/ ServeBaseline \/ BaselineArrives \/ FetchFails \/ OpenSocket
    \/ Refused \/ ConnectFails \/ Disconnected
    \/ Deliver \/ Process
    \/ \E d \in page.drains : \/ AwaitTool(d) \/ Draw(d)
                             \/ \E kept \in BOOLEAN : DrawFails(d, kept)
    \/ MountLate

(***************************************************************************)
(* Everything the page and the server have begun goes on; writes, saves    *)
(* and failures need not happen.                                           *)
(***************************************************************************)
Fairness ==
    /\ WF_vars(Handshake)
    /\ WF_vars(Start) /\ WF_vars(ServeBaseline) /\ WF_vars(BaselineArrives)
    /\ WF_vars(OpenSocket)
    /\ WF_vars(Refused) /\ WF_vars(ConnectFails) /\ WF_vars(Disconnected)
    /\ WF_vars(Deliver) /\ WF_vars(Process)
    /\ WF_vars(\E d \in page.drains : Draw(d))

Spec == Init /\ [][Next]_vars /\ Fairness

-----------------------------------------------------------------------------
(* Properties *)

Left(p) == LET d == {c \in p.drains : c.gen = p.generation}
           IN  IF d = {} THEN << >> ELSE (CHOOSE c \in d : TRUE).left

\* A message takes a board from one sequence number to another.
From(msg) == IF msg.kind = "batch" THEN msg.from ELSE msg.seq - 1
To(msg) == msg.seq
Adds(msg) == IF msg.kind = "batch" THEN msg.children ELSE <<msg.mutation>>
Pipe == page.queue \o link.chan
Reached == page.seq + Len(Left(page))

\* While the socket is joined, what the page shows, what it is applying, what
\* it has queued and what is under way are together the board's history:
\* nothing is missing, nothing comes twice, nothing is out of order.  (A page
\* that was not told of a mutation, or could not draw one, does miss it.)
NothingMissing ==
    link.phase = "open" /\ missed = 0 /\ ~page.failed =>
        /\ page.view \o Left(page) = Prefix(hist, Reached)
        /\ \A k \in DOMAIN Pipe :
              /\ From(Pipe[k]) = IF k = 1 THEN Reached ELSE To(Pipe[k - 1])
              /\ Adds(Pipe[k]) = SubSeq(hist, From(Pipe[k]) + 1, To(Pipe[k]))
        /\ Len(hist) = IF Pipe = << >> THEN Reached ELSE To(Pipe[Len(Pipe)])

\* Even then it never shows anything but a beginning of the history, the one that
\* its sequence number stands for, or one mutation more when a tool was loaded
\* after all: it starts over when the next mutation shows it the gap.
NeverWrong ==
    /\ TypeOK
    /\ Len(page.view) - page.seq \in IF page.failed THEN {0, 1} ELSE {0}
    /\ link.phase = "open" => IsPrefixOf(page.view \o Left(page), hist)

\* Once writes and failures are over, the page shows the whole board, unless
\* it is joined and the last mutation was kept from it or could not be drawn.
EventuallySynchronized ==
    []<>~unheard => <>[](page.view = hist /\ ~page.awaiting)
=============================================================================
