------------------------- MODULE OptimisticWrites -------------------------
(***************************************************************************)
(* How a page writes.  It draws its own mutation at once, remembers how to *)
(* undo it (the journal), and keeps it in a buffer until the server has    *)
(* answered.  The server accepts a mutation (it becomes part of the        *)
(* board's history and is cast to every joined page), rejects it, or cuts  *)
(* off a page that writes too fast, which then holds its buffer back and   *)
(* sends it again after a reconnection.  Meanwhile others write.           *)
(*                                                                         *)
(* On a guarded board (Turnstile) a write that is made before the page has *)
(* passed a check is drawn and remembered, but kept apart from the buffer  *)
(* until the check is passed; a write that reaches the server without one  *)
(* is dropped, and the page is not told.                                   *)
(*                                                                         *)
(* Other pages are not modelled but for their accepted mutations.  The     *)
(* content of an item is the sequence of the mutations that made it.       *)
(***************************************************************************)
EXTENDS Naturals, Sequences, FiniteSets

CONSTANTS
    Items,       \* identifiers of items
    Stored,      \* the items of the board when the page opens it
    Scenarios    \* the bounds

ASSUME OptimisticWritesAssumption ==
    /\ Stored \subseteq Items
    /\ Scenarios \subseteq [own : Nat, others : Nat, refusals : Nat, limits : Nat,
                             cuts : Nat, waits : Nat, guarded : BOOLEAN]

VARIABLES
    hist,       \* the accepted mutations; their number is the board's seq
    stored,     \* no baseline older than this sequence number is served
    page,       \* the page's side
    up, down,   \* what is under way to the server, and to the page
    link,       \* the socket, from both ends
    used,       \* the items that were ever created
    left,       \* what remains of the bounds, and whether the board is guarded
    gate,       \* the check: what the server and the page hold of it
    unacked     \* own accepted mutations whose cast a reconnection dropped

vars == <<hist, stored, page, up, down, link, used, left, gate, unacked>>

-----------------------------------------------------------------------------
(* Mutations and what they do *)

\* `on' are the items a mutation is about (several for a batch of deletions),
\* `to' the item that a copy creates.
Mutation(id, op, on, to) == [id |-> id, op |-> op, on |-> on, to |-> to]

Affected(m) == IF m.op = "copy" THEN m.to ELSE m.on
Depends(m) == IF m.op \in {"update", "delete", "copy"} THEN m.on ELSE {}
Invalidates(m) == IF m.op = "delete" THEN m.on ELSE {}
Touches(m) == Affected(m) \cup Depends(m)
\* Two mutations whose order matters.
Collide(m, n) == "clear" \in {m.op, n.op} \/ Touches(m) \cap Touches(n) # {}

Blank == << >>
TheItem(S) == CHOOSE i \in S : TRUE

\* What a mutation makes of a board or of a drawing.  An update of an item that
\* is not shown draws a fallback.
Drawn(view, m) ==
    [i \in Items |->
        IF m.op # "clear" /\ i \notin Affected(m) THEN view[i]
        ELSE CASE m.op \in {"clear", "delete"} -> Blank
               [] m.op = "create" -> <<m.id>>
               [] m.op = "update" -> Append(view[i], m.id)
               [] m.op = "copy" -> Append(view[TheItem(m.on)], m.id)]

Opened == [i \in Items |-> IF i \in Stored THEN <<<<"stored", 0>>>> ELSE Blank]
\* The board after the first n mutations.
Board[n \in 0 .. Len(hist)] == IF n = 0 THEN Opened ELSE Drawn(Board[n - 1], hist[n])
Now == Board[Len(hist)]

\* BoardData.processMessage: what cannot be applied is refused.
Applies(m) ==
    /\ m.op \in {"update", "copy"} => \A i \in m.on : Now[i] # Blank
    /\ m.op \in {"create", "copy"} => \A i \in Affected(m) : Now[i] = Blank

-----------------------------------------------------------------------------
(* The journal and the buffer *)

\* A journal entry is a drawn mutation, what it depends on, and what its items
\* were before.  A buffered write is queued or in flight; `redraw' marks one
\* that is drawn again when it is sent.
Entry(m, journal, view) ==
    LET latest(i) == {k \in DOMAIN journal :
                        /\ i \in Affected(journal[k].m)
                        /\ \A n \in k + 1 .. Len(journal) :
                              i \notin Affected(journal[n].m)}
    IN  [m |-> m,
         deps |-> {journal[k].m.id : k \in UNION {latest(i) : i \in Depends(m)}},
         snap |-> [i \in IF m.op = "clear" THEN Items ELSE Affected(m) |-> view[i]]]

Ids(seq) == {seq[k].m.id : k \in DOMAIN seq}

\* What is at some of the positions, in their order.  (The provers know nothing of
\* SelectSeq.)
Rank(K, i) == Cardinality({j \in K : j < i})
Part(seq, K) == [k \in 1 .. Cardinality(K) |-> seq[CHOOSE i \in K : Rank(K, i) = k - 1]]

Without(seq, ids) == Part(seq, {k \in DOMAIN seq : seq[k].m.id \notin ids})

\* append: an entry of the same mutation is replaced.
Track(journal, entry) == Append(Without(journal, {entry.m.id}), entry)

\* expandRejectedIds
Dependents(journal, ids) ==
    LET more[n \in 0 .. Len(journal)] ==
            IF n = 0 THEN ids
            ELSE more[n - 1] \cup
                 {journal[k].m.id : k \in {j \in DOMAIN journal :
                                      journal[j].deps \cap more[n - 1] # {}}}
    IN  ids \cup more[Len(journal)]

\* Mutant of Restored: the oldest one first, as they come.
RestoredInOrder(view, journal, ids) ==
    LET undone(i) == {k \in DOMAIN journal :
                        journal[k].m.id \in ids /\ i \in DOMAIN journal[k].snap}
        newest(i) == CHOOSE k \in undone(i) : \A j \in undone(i) : j <= k
    IN  [i \in Items |-> IF undone(i) = {} THEN view[i] ELSE journal[newest(i)].snap[i]]

\* restoreRollback of the removed entries, the last one first: what the oldest one
\* replaced is what stays.
Restored(view, journal, ids) ==
    LET undone(i) == {k \in DOMAIN journal :
                        journal[k].m.id \in ids /\ i \in DOMAIN journal[k].snap}
        oldest(i) == CHOOSE k \in undone(i) : \A j \in undone(i) : k <= j
    IN  [i \in Items |-> IF undone(i) = {} THEN view[i] ELSE journal[oldest(i)].snap[i]]

\* Entries that stay although an older one they collide with is undone.
Uncovered(journal, ids) ==
    \E j, k \in DOMAIN journal :
        /\ j < k /\ Collide(journal[j].m, journal[k].m)
        /\ journal[j].m.id \in ids /\ journal[k].m.id \notin ids

\* applyRejectedEntries
Undo(p, ids) ==
    [p EXCEPT !.journal = Without(@, ids), !.buffer = Without(@, ids),
              !.view = Restored(@, p.journal, ids),
              !.crossed = @ \/ Uncovered(p.journal, ids)]

\* rejectMutation, after resolveBufferedWrite
Reject(p, id) ==
    [Undo(p, IF id \in Ids(p.journal) THEN Dependents(p.journal, {id}) ELSE {})
        EXCEPT !.buffer = Without(@, {id})]

\* pruneForAuthoritativeMessage
PruneJournal(p, m) ==
    IF m.op = "clear" THEN Undo(p, Ids(p.journal))
    ELSE LET hit == {k \in DOMAIN p.journal :
                       Touches(p.journal[k].m) \cap Invalidates(m) # {}}
         IN  Undo(p, Dependents(p.journal, {p.journal[k].m.id : k \in hit}))

\* resolveBufferedWrite and pruneBufferedWritesForInvalidatingMessage
Voids(m, own) ==
    m.op = "clear" \/ own.id = m.id \/ Touches(own) \cap Invalidates(m) # {}
PruneBuffer(buffer, ms) ==
    Part(buffer, {k \in DOMAIN buffer : ~\E n \in DOMAIN ms : Voids(ms[n], buffer[k].m)})

Queued(buffer) == {k \in DOMAIN buffer : buffer[k].queued}

\* redrawBufferedWriteIfNeeded: one that was held is drawn again.
Redrawn(d, w) ==
    IF ~w.redraw THEN d
    ELSE [view |-> Drawn(d.view, w.m),
          journal |-> Track(d.journal, Entry(w.m, d.journal, d.view))]

\* pumpBufferedWrites emits the first n queued writes, in their order; the
\* local budget makes the others wait.
First(K, n) == {i \in K : Rank(K, i) < n}
Pumped(p, n) ==
    LET next == First(Queued(p.buffer), n)
        writes == Part(p.buffer, next)
        upTo[k \in 0 .. Len(writes)] ==
            IF k = 0 THEN [view |-> p.view, journal |-> p.journal]
            ELSE Redrawn(upTo[k - 1], writes[k])
        drawn == upTo[Len(writes)]
    IN  [p EXCEPT !.view = drawn.view, !.journal = drawn.journal,
                  !.buffer = [k \in DOMAIN p.buffer |->
                      IF k \in next
                      THEN [m |-> p.buffer[k].m, queued |-> FALSE, redraw |-> FALSE]
                      ELSE p.buffer[k]]]
Messages(p, n) ==
    LET writes == Part(p.buffer, First(Queued(p.buffer), n))
    IN  [k \in DOMAIN writes |-> writes[k].m]
\* What is emitted on a broken connection is lost.
Sent(ms) == IF link = "joined" THEN up \o ms ELSE up

\* flushPendingWrites: what was kept for the check is buffered as if it was written
\* now; its journal entry is left as it is, or as it is not.
Kept(p) == {p.pending[k].id : k \in DOMAIN p.pending}
Released(p) ==
    [p EXCEPT !.buffer = @ \o [k \in DOMAIN p.pending |->
                                 [m |-> p.pending[k], queued |-> TRUE, redraw |-> FALSE]],
              !.pending = << >>,
              !.stray = @ \cup (Kept(p) \ Ids(p.journal))]

-----------------------------------------------------------------------------
Spend(what) == left[what] > 0 /\ left' = [left EXCEPT ![what] = @ - 1]
\* Every mutation has its own number.
NewId(who) == <<who, left[who]>>
Fresh == Items \ used
Shown(view) == {i \in Items : view[i] # Blank}

\* The mutations that can be made of what a drawing shows.
Makes(who, view) ==
    LET id == NewId(who)
    IN  {Mutation(id, "create", {i}, {}) : i \in Fresh}
        \cup {Mutation(id, "update", {i}, {}) : i \in Shown(view)}
        \cup {Mutation(id, "copy", {c[1]}, {c[2]}) : c \in Shown(view) \X Fresh}
        \cup {Mutation(id, "delete", S, {}) : S \in (SUBSET Shown(view)) \ {{}}}
        \cup {Mutation(id, "clear", {}, {})}

\* The server knows that the socket passed the check, tells the page, and the page
\* knows; and what the server dropped without an answer since the last baseline.
Unchecked == [cleared |-> FALSE, told |-> FALSE, valid |-> FALSE, ignored |-> {}]

Init ==
    /\ hist = << >> /\ stored = 0
    /\ page = [view |-> Opened, seq |-> 0, awaiting |-> FALSE, paused |-> FALSE,
               journal |-> << >>, buffer |-> << >>, inbox |-> << >>,
               waiting |-> << >>, pending |-> << >>, stray |-> {},
               crossed |-> FALSE]
    /\ up = << >> /\ down = << >> /\ link = "joined"
    /\ used = Stored
    /\ left \in Scenarios
    /\ gate = Unchecked
    /\ unacked = {}

-----------------------------------------------------------------------------
(* The page writes *)

\* Callbacks of the event loop run when no message is being applied, or when
\* the one being applied waits for its tool.
EventLoop == page.inbox = << >> \/ page.waiting # << >>
Connected == link \in {"joined", "broken"}
CanWrite(p) == Connected /\ ~p.awaiting /\ ~p.paused

\* A write that is held back, and older, is not drawn while this one is.
Overtakes(m) ==
    \E k \in Queued(page.buffer) :
        page.buffer[k].redraw /\ Collide(page.buffer[k].m, m)

\* drawAndSend.  What the mutation replaces is captured before it is drawn;
\* it enters the journal after it is buffered, and maybe sent.
DrawAndSend(m, n) ==
    LET drawn == [page EXCEPT !.view = Drawn(@, m),
                              !.buffer = Append(@, [m |-> m, queued |-> TRUE,
                                                    redraw |-> FALSE])]
        sent == Pumped(drawn, n)
    IN  /\ EventLoop
        /\ CanWrite(page)
        /\ left.guarded => gate.valid
        /\ Spend("own")
        /\ n <= Cardinality(Queued(drawn.buffer))
        /\ page' = [sent EXCEPT
                      !.journal = Track(@, Entry(m, sent.journal, page.view)),
                      !.crossed = @ \/ Overtakes(m)]
        /\ up' = Sent(Messages(drawn, n))
        /\ used' = used \cup Affected(m)
        /\ UNCHANGED <<hist, stored, down, link, gate, unacked>>

\* drawAndSend before the check is passed: the write is drawn and enters the journal,
\* and is kept apart.
DrawAndKeep(m) ==
    /\ EventLoop
    /\ CanWrite(page)
    /\ left.guarded /\ ~gate.valid
    /\ Spend("own")
    /\ page' = [page EXCEPT !.view = Drawn(@, m),
                            !.journal = Track(@, Entry(m, @, page.view)),
                            !.pending = Append(@, m),
                            !.crossed = @ \/ Overtakes(m)]
    /\ used' = used \cup Affected(m)
    /\ UNCHANGED <<hist, stored, up, down, link, gate, unacked>>

\* The page hears that it passed the check, and sends what it kept.  (The answer is
\* not ordered with the other messages.  On a connection that was cut off for writing
\* too fast nothing is heard after that.)
FlushPendingWrites(n) ==
    LET q == Released(page)
    IN  /\ EventLoop
        /\ CanWrite(page)
        /\ gate.told
        /\ n <= IF page.pending = << >> THEN 0 ELSE Cardinality(Queued(q.buffer))
        /\ page' = Pumped(q, n)
        /\ up' = Sent(Messages(q, n))
        /\ gate' = [gate EXCEPT !.told = FALSE, !.valid = TRUE]
        /\ UNCHANGED <<hist, stored, down, link, used, left, unacked>>

\* The page no longer counts on its last check: it grew old, or a new one failed.
ValidationEnds ==
    /\ EventLoop
    /\ gate.valid
    /\ gate' = [gate EXCEPT !.valid = FALSE]
    /\ UNCHANGED <<hist, stored, page, up, down, link, used, left, unacked>>

\* The timer of the buffer
PumpBufferedWrites(n) ==
    /\ EventLoop
    /\ CanWrite(page)
    /\ n \in 1 .. Cardinality(Queued(page.buffer))
    /\ page' = Pumped(page, n)
    /\ up' = Sent(Messages(page, n))
    /\ UNCHANGED <<hist, stored, down, link, used, left, unacked, gate>>

-----------------------------------------------------------------------------
(* The server (socket/broadcasts.mjs) *)

Cast(m, own) == [kind |-> "cast", m |-> m, own |-> own, seq |-> Len(hist) + 1]

\* isTurnstileValidationActive
Cleared == left.guarded => gate.cleared

Accept ==
    /\ up # << >> /\ Cleared /\ Applies(Head(up))
    /\ hist' = Append(hist, Head(up))
    /\ up' = Tail(up)
    /\ down' = Append(down, Cast(Head(up), TRUE))
    /\ UNCHANGED <<stored, page, link, used, left, unacked, gate>>

\* Mutant of Refuse: the page is not told.
RefuseSilently ==
    /\ up # << >> /\ Cleared
    /\ IF Applies(Head(up)) THEN Spend("refusals") ELSE UNCHANGED left
    /\ up' = Tail(up)
    /\ UNCHANGED <<hist, stored, page, down, link, used, unacked, gate>>

\* The board refuses, or the policy does.
Refuse ==
    /\ up # << >> /\ Cleared
    /\ IF Applies(Head(up)) THEN Spend("refusals") ELSE UNCHANGED left
    /\ up' = Tail(up)
    /\ down' = Append(down, [kind |-> "rejected", id |-> Head(up).id])
    /\ UNCHANGED <<hist, stored, page, link, used, unacked, gate>>

\* A write to a guarded board on a connection that did not pass the check: the page is
\* not told.
Ignore ==
    /\ up # << >> /\ ~Cleared
    /\ up' = Tail(up)
    /\ gate' = [gate EXCEPT !.ignored = @ \cup {Head(up).id}]
    /\ UNCHANGED <<hist, stored, page, down, link, used, left, unacked>>

\* The socket passed the check, or did so too long ago.
VerifyToken ==
    /\ link = "joined" /\ left.guarded
    /\ gate' = [gate EXCEPT !.cleared = TRUE, !.told = TRUE]
    /\ UNCHANGED <<hist, stored, page, up, down, link, used, left, unacked>>
ClearanceEnds ==
    /\ gate.cleared
    /\ gate' = [gate EXCEPT !.cleared = FALSE]
    /\ UNCHANGED <<hist, stored, page, up, down, link, used, left, unacked>>

\* The page writes too fast: it is told, and cut off.
Limit ==
    /\ up # << >> /\ Spend("limits")
    /\ up' = << >>
    /\ down' = Append(down, [kind |-> "limited"])
    /\ link' = "broken"
    /\ UNCHANGED <<hist, stored, page, used, unacked, gate>>

OtherWrites(m) ==
    /\ Spend("others")
    /\ Applies(m)
    /\ hist' = Append(hist, m)
    /\ used' = used \cup Affected(m)
    /\ down' = IF link = "joined" THEN Append(down, Cast(m, FALSE)) ELSE down
    /\ UNCHANGED <<stored, page, up, link, unacked, gate>>

\* The connection breaks; a part of what was sent still arrives.
Cut(arrives) ==
    /\ link = "joined" /\ Spend("cuts")
    /\ arrives \in 0 .. Len(down)
    /\ down' = SubSeq(down, 1, arrives)
    /\ up' = << >>
    /\ link' = "broken"
    /\ UNCHANGED <<hist, stored, page, used, unacked, gate>>

-----------------------------------------------------------------------------
(* The page hears (board_replay_module.js, board_connection_module.js) *)

\* Mutant of Resync: the journal survives.
ResyncKeepsJournal(p, keep) ==
    [p EXCEPT !.buffer = IF keep THEN @ ELSE << >>,
              !.inbox = << >>, !.waiting = << >>, !.pending = << >>, !.awaiting = TRUE]

\* beginAuthoritativeResync: nothing is undone, the next baseline replaces
\* the drawing.
Resync(p, keep) ==
    [p EXCEPT !.journal = << >>, !.buffer = IF keep THEN @ ELSE << >>,
              !.inbox = << >>, !.waiting = << >>, !.pending = << >>, !.awaiting = TRUE]
Dropped(p) == {p.inbox[k].m.id : k \in {j \in DOMAIN p.inbox :
                                   p.inbox[j].kind = "cast" /\ p.inbox[j].own}}

\* Mutant of Acknowledge: the buffer is left alone.
AcknowledgeInJournal(p, m) ==
    [p EXCEPT !.journal = Without(@, {m.id}), !.seq = @ + 1,
              !.crossed = @ \/ m.id \notin Ids(p.journal)]

\* An own mutation is not drawn again when its cast arrives.
Acknowledge(p, m) ==
    [p EXCEPT !.journal = Without(@, {m.id}), !.buffer = Without(@, {m.id}),
              !.seq = @ + 1, !.crossed = @ \/ m.id \notin Ids(p.journal)]

\* Somebody else's mutation is drawn, over what is still in the journal.
Show(p, m) ==
    [p EXCEPT !.view = Drawn(@, m), !.seq = @ + 1,
              !.crossed = @ \/ \E k \in DOMAIN p.journal :
                                  Collide(p.journal[k].m, m)]

\* The drawing of a tool fails on an item that is not shown: the message is
\* lost, and the next one shows the gap.
Fails(p, m) == m.op \in {"update", "copy"} /\ \E i \in m.on : p.view[i] = Blank

Draw(p, m) ==
    \/ Fails(p, m) /\ page' = p
    \/ ~(Fails(p, m) /\ m.op = "copy") /\ page' = Show(p, m)

\* processIncomingBroadcast of a replay: what it answers or makes void leaves
\* the buffer, and the writes that are held are sent if the pause is over.
Replayed(p, b) ==
    LET drawn[k \in 0 .. Len(b.ms)] ==
            IF k = 0 THEN p.view ELSE Drawn(drawn[k - 1], b.ms[k])
    IN  [p EXCEPT !.view = drawn[Len(b.ms)], !.seq = @ + Len(b.ms), !.awaiting = FALSE,
                  !.buffer = PruneBuffer(@, b.ms)]

ApplyReplay(p, b) ==
    LET q == Replayed(p, b)
    IN  /\ b.kind = "batch"
        /\ \E n \in 0 .. IF q.paused THEN 0 ELSE Cardinality(Queued(q.buffer)) :
              page' = Pumped(q, n) /\ up' = Sent(Messages(q, n))
        /\ UNCHANGED <<link, left, unacked>>

\* processIncomingBroadcast of a mutation
ApplyCast(p, c) ==
    /\ c.kind = "cast"
    /\ c.seq = p.seq + 1
    /\ \/ c.own /\ page' = Acknowledge(p, c.m) /\ UNCHANGED left
       \/ /\ ~c.own
          /\ \E q \in {[PruneJournal(p, c.m) EXCEPT !.buffer = PruneBuffer(@, <<c.m>>)]} :
                \/ Draw(q, c.m) /\ UNCHANGED left
                \/ Spend("waits") /\ page' = [q EXCEPT !.waiting = <<c.m>>]
    /\ UNCHANGED <<up, link, unacked>>

\* A mutation that does not follow what the page shows makes it start over.
ApplyGap(p, c) ==
    /\ c.kind = "cast" /\ c.seq > p.seq + 1
    /\ page' = Resync(p, FALSE)
    /\ unacked' = unacked \cup Dropped(p) \cup (IF c.own THEN {c.m.id} ELSE {})
    /\ link' = "none" /\ up' = << >>
    /\ UNCHANGED left

Apply(p, msg) == ApplyReplay(p, msg) \/ ApplyCast(p, msg) \/ ApplyGap(p, msg)

\* enqueueIncomingBroadcast: a broadcast is applied at once unless an earlier
\* one waits for its tool.
HearBroadcast ==
    /\ EventLoop
    /\ down # << >> /\ Head(down).kind \in {"cast", "batch"}
    /\ IF page.waiting = << >> THEN Apply(page, Head(down))
       ELSE /\ page' = [page EXCEPT !.inbox = Append(@, Head(down))]
            /\ UNCHANGED <<up, link, left, unacked>>
    /\ down' = IF link' = "none" THEN << >> ELSE Tail(down)
    /\ UNCHANGED <<hist, stored, used, gate>>

\* The tool is mounted, and draws what waited.
ToolReady ==
    /\ page.waiting # << >>
    /\ Draw([page EXCEPT !.waiting = << >>], Head(page.waiting))
    /\ UNCHANGED <<hist, stored, up, down, link, used, left, unacked, gate>>

\* The rest of the queue follows before anything else happens.
DrainInbox ==
    /\ ~EventLoop
    /\ Apply([page EXCEPT !.inbox = Tail(@)], Head(page.inbox))
    /\ down' = IF link' = "none" THEN << >> ELSE down
    /\ UNCHANGED <<hist, stored, used, gate>>

\* MUTATION_REJECTED does not wait for the queue.
HearRejection ==
    /\ EventLoop
    /\ down # << >> /\ Head(down).kind = "rejected"
    /\ page' = Reject(page, Head(down).id)
    /\ down' = Tail(down)
    /\ UNCHANGED <<hist, stored, up, link, used, left, unacked, gate>>

\* RATE_LIMITED: the whole buffer is held back.
HearLimit ==
    /\ EventLoop
    /\ down # << >> /\ Head(down).kind = "limited"
    /\ page' = [page EXCEPT !.paused = TRUE,
                            !.buffer = [k \in DOMAIN @ |->
                                [m |-> @[k].m, queued |-> TRUE, redraw |-> TRUE]]]
    /\ down' = Tail(down)
    /\ UNCHANGED <<hist, stored, up, link, used, left, unacked, gate>>

PauseEnds ==
    /\ EventLoop
    /\ page.paused
    /\ page' = [page EXCEPT !.paused = FALSE]
    /\ UNCHANGED <<hist, stored, up, down, link, used, left, unacked, gate>>

\* DISCONNECT
Disconnected ==
    /\ EventLoop
    /\ link = "broken" /\ down = << >>
    /\ link' = "none"
    /\ page' = Resync(page, page.paused)
    /\ unacked' = unacked \cup Dropped(page)
    /\ UNCHANGED <<hist, stored, up, down, used, left, gate>>

\* start(): the page begins again from a baseline that may be older than the
\* board.
Start(n) ==
    /\ link = "none"
    /\ n \in stored .. Len(hist)
    /\ stored' = n
    /\ page' = [Resync(page, page.paused) EXCEPT !.view = Board[n], !.seq = n,
                                                 !.crossed = FALSE]
    /\ link' = "connecting"
    /\ gate' = [gate EXCEPT !.ignored = {}]
    /\ UNCHANGED <<hist, up, down, used, left, unacked>>

\* The handshake replays what the baseline lacks.  A new socket has passed no check.
Join ==
    /\ link = "connecting"
    /\ link' = "joined"
    /\ gate' = Unchecked
    /\ up' = << >>
    /\ down' = <<[kind |-> "batch", ms |-> SubSeq(hist, page.seq + 1, Len(hist))]>>
    /\ UNCHANGED <<hist, stored, page, used, left, unacked>>

Next ==
    \/ \E m \in Makes("own", page.view), n \in 0 .. Len(page.buffer) + 1 :
          DrawAndSend(m, n)
    \/ \E m \in Makes("own", page.view) : DrawAndKeep(m)
    \/ \E n \in 0 .. Len(page.buffer) + Len(page.pending) : FlushPendingWrites(n)
    \/ ValidationEnds
    \/ \E n \in 1 .. Len(page.buffer) : PumpBufferedWrites(n)
    \/ Accept \/ Refuse \/ Ignore \/ VerifyToken \/ ClearanceEnds \/ Limit
    \/ \E m \in Makes("others", Now) : OtherWrites(m)
    \/ \E n \in 0 .. Len(down) : Cut(n)
    \/ HearBroadcast \/ ToolReady \/ DrainInbox \/ HearRejection \/ HearLimit
    \/ PauseEnds \/ Disconnected
    \/ \E n \in stored .. Len(hist) : Start(n)
    \/ Join

(***************************************************************************)
(* The server answers, the network delivers, timers fire, tools get        *)
(* mounted, and the page connects again.  Nobody has to write or to pass a *)
(* check, and nothing has to fail.                                         *)
(***************************************************************************)
Fairness ==
    /\ WF_vars(Accept \/ Refuse \/ Ignore)
    /\ WF_vars(HearBroadcast \/ HearRejection \/ HearLimit \/ Disconnected)
    /\ WF_vars(ToolReady \/ DrainInbox)
    /\ WF_vars(PauseEnds)
    /\ WF_vars(\E n \in 1 .. Len(page.buffer) : PumpBufferedWrites(n))
    /\ WF_vars(\E n \in stored .. Len(hist) : Start(n))
    /\ WF_vars(Join)

Spec == Init /\ [][Next]_vars /\ Fairness

-----------------------------------------------------------------------------
(* Properties *)

\* What is drawn ahead of the server is what waits for its answer, or for the check: a
\* journal entry is in the buffer or kept, so an answer, a pause or a reconnection
\* reaches it; a buffered write that is not held is in the journal, so it can be
\* undone, unless it was undone while it was kept; and neither has two of the same
\* mutation.
Distinct(seq) == \A j, k \in DOMAIN seq : seq[j].m.id = seq[k].m.id => j = k
JournalFollowsBuffer ==
    /\ Ids(page.journal) \subseteq Ids(page.buffer) \cup Kept(page)
    /\ \A k \in DOMAIN page.buffer :
          \/ page.buffer[k].redraw
          \/ page.buffer[k].m.id \in Ids(page.journal) \cup page.stray
    /\ Distinct(page.buffer) /\ Distinct(page.journal)

\* Nothing is under way between the page and the server, and nothing is drawn
\* that the server has not answered.
Settled ==
    /\ link = "joined" /\ ~page.awaiting /\ page.seq = Len(hist)
    /\ up = << >> /\ down = << >>
    /\ page.journal = << >> /\ page.buffer = << >>

\* Then the page shows the board, unless since its last baseline
\*  - an own write that was no longer in the journal was acknowledged,
\*  - somebody else's mutation was drawn over a pending own one, or
\*  - an own write was drawn before an older one that was held back,
\* or the server dropped one without an answer.
AgreesUnlessCrossed ==
    Settled /\ ~page.crossed /\ gate.ignored = {} => page.view = Now

\* What is pending can be answered and undone, and what is answered agrees.
PageFollowsServer == JournalFollowsBuffer /\ AgreesUnlessCrossed

\* A write that is sent again after a pause was not accepted before, unless its
\* acknowledgement waited behind a tool that was being loaded when the
\* connection ended.
AcceptedOnce ==
    \A j, k \in DOMAIN hist :
        hist[j].id = hist[k].id => j = k \/ hist[j].id \in unacked

\* Every own write is answered or given up: in the end nothing is pending, but for what
\* the server dropped since the last baseline and what waits for a check that nobody
\* passes.
EventuallyAnswered ==
    <>[](Ids(page.journal) \cup Ids(page.buffer) \subseteq gate.ignored \cup Kept(page))

\* "They must not be sent or redrawn after their optimistic source has been removed":
\* no write is sent whose drawing was undone.
UndoneIsNotSent == page.stray = {}

\* "optimistic rollback restores client state after rejection": a page that is
\* alone on its board shows the board when all its writes are answered.
RollbackRestores == Settled => page.view = Now
=============================================================================
