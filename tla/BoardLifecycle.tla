--------------------------- MODULE BoardLifecycle ---------------------------
(***************************************************************************)
(* The life of one board in a server process: instances of BoardData are   *)
(* loaded when a socket needs the board, joined and written, saved through *)
(* a queue per instance, and unloaded after the last user leaves.  Several *)
(* instances may exist at once, because loads, saves and unloads wait for  *)
(* the disk; only one of them is in the registry.                          *)
(*                                                                         *)
(* An action is one turn of the event loop: the callback that the loop     *)
(* delivers and every promise continuation it releases.  A board is the    *)
(* sequence of writes it contains; its sequence number is the length.      *)
(***************************************************************************)
EXTENDS Naturals, Sequences, FiniteSets

CONSTANTS
    Sockets,       \* browser pages
    MaxInstances,  \* bound on the loads in one run of the process
    Scenarios      \* the bounds that a behaviour may run under

\* A scenario bounds the mutations sent, the saves waiting in one queue, the
\* files replaced by another process, the failed loads and saves and the timers
\* of postponed unloads; overlap says whether sockets connect while an unload
\* is under way, blank after which writes there is a stroke without points, and empty
\* after which ones there is nothing to store.
ASSUME BoardLifecycleAssumption ==
    /\ MaxInstances \in Nat
    /\ Scenarios \subseteq [writes : Nat, queued : Nat, foreign : Nat,
                            failures : Nat, retries : Nat, overlap : BOOLEAN,
                            blank : SUBSET Nat, empty : SUBSET Nat]

VARIABLES
    disk,      \* the stored SVG
    registry,  \* loadedBoards: the instance that requests find, or None
    boards,    \* every instance of this run of the process
    pins,      \* pinned replay baselines
    retry,     \* timers of postponed unloads, waiting for a pin and due
    socks,     \* the pages and their sockets
    stopping,  \* shuttingDown
    sent,      \* mutations sent so far
    foreign,   \* files replaced by another process so far
    failures,  \* failed loads and saves so far
    scenario   \* the bounds of this behaviour

vars == <<disk, registry, boards, pins, retry, socks, stopping, sent, foreign,
          failures, scenario>>
bounds == <<sent, foreign, failures, scenario>>

None == 0
Instances == 1 .. MaxInstances
Writes == 1 .. scenario.writes + scenario.foreign
Contents == UNION {[1 .. n -> Writes] : n \in 0 .. scenario.writes + scenario.foreign}

Idle == [phase |-> "idle"]
Saves == [phase : {"checking", "renaming", "renamed"}, target : Nat,
          unload : BOOLEAN]
Boards == [phase : {"free", "opening", "read", "loaded"},
           hist : Contents,      \* the canonical items, as accepted writes
           persisted : Nat,      \* mutationLog.persistedSeq()
           floor : Nat,          \* mutationLog.minReplayableSeq()
           left : BOOLEAN,       \* an item stayed dirty in the last save
           stored : BOOLEAN,     \* persistedItemIds.size > 0
           users : SUBSET Sockets,
           disposed : BOOLEAN,
           save : {Idle} \cup Saves,   \* the save that is running
           queued : 0 .. scenario.queued,    \* unload saves waiting behind it
           unload : BOOLEAN,     \* an unload waits for this load
           late : SUBSET Sockets]  \* senders of a write that waits for this load
FreeBoard == [phase |-> "free", hist |-> << >>, persisted |-> 0, floor |-> 0,
              left |-> FALSE, stored |-> FALSE, users |-> {}, disposed |-> FALSE,
              save |-> Idle, queued |-> 0, unload |-> FALSE, late |-> {}]

\* A page is away, shows a baseline, waits for a load or for the sequence
\* number on disk, or is a synchronized member of the board instance `inst'.
Pages == [at : {"away", "page", "loading", "probing", "joined"},
          inst : {None} \cup Instances,
          view : Contents,      \* what the page shows
          latest : Nat,         \* latestSeq, read before the disk was probed
          probed : BOOLEAN]
Away == [at |-> "away", inst |-> None, view |-> << >>, latest |-> 0,
         probed |-> FALSE]

NoTimers == [armed |-> 0, due |-> 0]

TypeOK ==
    /\ disk \in Contents
    /\ registry \in {None} \cup Instances
    /\ boards \in [Instances -> Boards]
    /\ pins \subseteq Nat
    /\ retry \in [armed : 0 .. scenario.retries, due : 0 .. scenario.retries]
    /\ socks \in [Sockets -> Pages]
    /\ stopping \in BOOLEAN
    /\ {sent, foreign, failures} \subseteq Nat

Init ==
    /\ disk = << >>
    /\ registry = None
    /\ boards = [i \in Instances |-> FreeBoard]
    /\ pins = {}
    /\ retry = NoTimers
    /\ socks = [s \in Sockets |-> Away]
    /\ stopping = FALSE
    /\ sent = 0 /\ foreign = 0 /\ failures = 0
    /\ scenario \in Scenarios

NextWrite == sent + 1 + foreign
Prefix(seq, n) == SubSeq(seq, 1, n)

\* What the items are after the writes of a file (CanonicalItems): a save has nothing
\* to write of a stroke without points, and leaves it dirty; the file of a board that
\* was cleared has no item.
LeavesDirty(file) == file # << >> /\ file[Len(file)] \in scenario.blank
HasItems(file) == file # << >> /\ file[Len(file)] \notin scenario.empty

\* hasDirtyItems, and the sequence numbers.
Dirty(b) == b.left \/ Len(b.hist) # b.persisted
Server == [registry |-> registry, boards |-> boards, pins |-> pins,
           retry |-> retry]

\* The handlers below compute the next server from v, continuation by
\* continuation; an action ends by installing the result.
Install(v) ==
    /\ registry' = v.registry
    /\ boards' = v.boards
    /\ pins' = v.pins
    /\ retry' = v.retry

-----------------------------------------------------------------------------
(* Unloading (socket/index.mjs) and the save queue (serial_task_queue.mjs) *)

\* Mutants of AfterUnloadSave: the users who joined during the save are ignored;
\* so is a failed save.
AfterUnloadSaveIgnoringUsers(v, i, status) ==
    LET b == v.boards[i]
        stays == status = "stale" \/ (status = "failed" /\ ~stopping)
        pinned == \E p \in v.pins : p < b.persisted
    IN  CASE stays -> v
          [] ~stays /\ pinned -> [v EXCEPT !.retry.armed = 1]
          [] OTHER -> [v EXCEPT !.registry = None, !.boards[i].disposed = TRUE]

AfterUnloadSaveIgnoringFailure(v, i, status) ==
    IF status = "stale" \/ v.boards[i].users # {} THEN v
    ELSE [v EXCEPT !.registry = None, !.boards[i].disposed = TRUE]

\* unloadBoard after its save: it deletes the registry entry by name.
AfterUnloadSave(v, i, status) ==
    LET b == v.boards[i]
        stays == \/ status = "stale" \/ (status = "failed" /\ ~stopping)
                 \/ b.users # {}
        pinned == \E p \in v.pins : p < b.persisted
    IN  CASE stays -> v
          [] ~stays /\ pinned ->
                [v EXCEPT !.retry.armed = IF @ < scenario.retries THEN @ + 1 ELSE @]
          [] OTHER -> [v EXCEPT !.registry = None,
                                !.boards[i].disposed = TRUE,
                                !.pins = {p \in @ : p >= b.persisted}]

Continue(v, i, unload, status) ==
    IF unload THEN AfterUnloadSave(v, i, status) ELSE v

\* A save task that has nothing to do ends in the turn that starts it.
NothingToSave(b) == b.disposed \/ ~Dirty(b)

Begin(b, unload) ==
    [b EXCEPT !.save = [phase |-> "checking", target |-> Len(b.hist),
                        unload |-> unload]]

CanRequestSave(v, i) ==
    v.boards[i].save # Idle => v.boards[i].queued < scenario.queued

\* board.save() for an unload or from the save timer.
RequestSave(v, i, unload) ==
    LET b == v.boards[i] IN
    CASE ~b.disposed /\ b.save # Idle -> [v EXCEPT !.boards[i].queued = @ + 1]
      [] b.save = Idle /\ ~NothingToSave(b) ->
            [v EXCEPT !.boards[i] = Begin(b, unload)]
      [] OTHER -> Continue(v, i, unload, "skipped")

\* The running save of i ends.  The next task of the queue starts before the
\* unload that waited for this save goes on.
EndSave(v, i, status) ==
    LET b == v.boards[i]
        ended == [b EXCEPT !.save = Idle]
        skips == b.queued > 0 /\ NothingToSave(ended)
        next == CASE skips -> [ended EXCEPT !.queued = 0]
                  [] b.queued > 0 /\ ~skips -> [Begin(ended, TRUE) EXCEPT !.queued = @ - 1]
                  [] OTHER -> ended
        went == Continue([v EXCEPT !.boards[i] = next], i, b.save.unload, status)
    IN  Continue(went, i, skips, "skipped")

\* unloadBoard and the disconnecting handler wait for a load in progress.
Unload(v, i) ==
    IF v.boards[i].phase = "loaded" THEN RequestSave(v, i, TRUE)
    ELSE [v EXCEPT !.boards[i].unload = TRUE]

\* dropLoadedBoardInstance: nothing happens to an instance that has been
\* replaced; otherwise its sockets are closed.
Drop(v, i) ==
    IF v.registry # i THEN v
    ELSE [v EXCEPT !.registry = None,
                   !.boards[i].disposed = TRUE,
                   !.boards[i].users = {}]
Dropped(v, i) == IF v.registry # i THEN {} ELSE v.boards[i].users

-----------------------------------------------------------------------------
(* Loading and joining (getBoard, prepareConnectionReplay) *)

\* getBoard: the registered instance, or a new one whose load starts.
GetBoard(v, i) ==
    IF v.registry # None THEN i = v.registry
    ELSE /\ v.boards[i].phase = "free"
         /\ \A j \in 1 .. i - 1 : v.boards[j].phase # "free"
Loading(v, i) ==
    IF v.registry # None THEN v
    ELSE [v EXCEPT !.registry = i, !.boards[i].phase = "opening"]

\* What the handshake makes of a page once board i is loaded.
Replayable(b, base) == b.floor <= base /\ base <= Len(b.hist)
Joins(v, p, i) == Replayable(v.boards[i], Len(p.view))

\* Mutant of ReplayBatch: everything that is kept.
ReplayEverything(b, base) == SubSeq(b.hist, b.floor + 1, Len(b.hist))

ReplayBatch(b, base) == SubSeq(b.hist, base + 1, Len(b.hist))
Handshake(v, p, i) ==
    LET b == v.boards[i] IN
    CASE Joins(v, p, i) ->
            [Away EXCEPT !.at = "joined", !.inst = i,
                         !.view = p.view \o ReplayBatch(b, Len(p.view))]
      [] Len(p.view) > Len(b.hist) /\ ~p.probed ->
            [p EXCEPT !.at = "probing", !.inst = i, !.latest = Len(b.hist)]
      [] OTHER -> Away

\* Mutation w is accepted by instance i: it is sent to the joined users of
\* that instance and to its sender s.  A page ignores an old sequence number,
\* and one that leaves a gap: it then leaves to fetch a new baseline.
Hear(p, seq, w) ==
    IF p.at = "joined" /\ seq = Len(p.view) + 1
    THEN [p EXCEPT !.view = Append(@, w)] ELSE p
Accept(v, i, w) == [v EXCEPT !.boards[i].hist = Append(@, w)]

\* Mutant of Broadcast: the sender is left out.
BroadcastToOthers(v, pages, i, s, w) ==
    [r \in Sockets |->
        IF r # s /\ r \in v.boards[i].users
        THEN Hear(pages[r], Len(v.boards[i].hist) + 1, w) ELSE pages[r]]

Broadcast(v, pages, i, s, w) ==
    [r \in Sockets |->
        IF r = s \/ (r \in v.boards[i].users /\ pages[r].at = "joined")
        THEN Hear(pages[r], Len(v.boards[i].hist) + 1, w) ELSE pages[r]]

Quiet == \A i \in Instances :
            /\ boards[i].queued = 0 /\ ~boards[i].unload
            /\ boards[i].save # Idle => ~boards[i].save.unload

\* The page of s is served: the stored SVG, and a pin on its sequence number.
OpenPage(s) ==
    /\ ~stopping
    /\ socks[s].at \in {"away", "page"}
    /\ socks' = [socks EXCEPT ![s] = [Away EXCEPT !.at = "page", !.view = disk]]
    /\ socks[s] # socks'[s]
    /\ pins' = pins \cup {Len(disk)}
    /\ UNCHANGED <<disk, registry, boards, retry, stopping, bounds>>

\* A loaded board answers the handshake in the same turn; otherwise the socket
\* waits for the load.
Enter(v, pages, s, i) ==
    LET ready == v.boards[i].phase = "loaded" IN
    /\ Install(IF ready /\ Joins(v, pages[s], i)
               THEN [v EXCEPT !.boards[i].users = @ \cup {s}] ELSE v)
    /\ socks' = [pages EXCEPT ![s] =
                    IF ready THEN Handshake(v, @, i)
                    ELSE [@ EXCEPT !.at = "loading", !.inst = i]]

Connect(s, i) ==
    /\ ~stopping
    /\ scenario.overlap \/ Quiet
    /\ socks[s].at = "page"
    /\ GetBoard(Server, i)
    /\ Enter(Loading(Server, i), socks, s, i)
    /\ UNCHANGED <<disk, stopping, bounds>>

\* readStoredSvgSeq returned to a page whose baseline is ahead of the board.
ProbeDisk(s, i) ==
    LET old == socks[s].inst
        stale == Len(disk) > socks[s].latest
        dropped == IF stale THEN Drop(Server, old) ELSE Server
        pages == [r \in Sockets |->
                     IF stale /\ r \in Dropped(Server, old) THEN Away ELSE socks[r]]
        page == [socks[s] EXCEPT !.probed = TRUE]
    IN  /\ ~stopping
        /\ socks[s].at = "probing"
        /\ IF stale
           THEN /\ GetBoard(dropped, i)
                /\ Enter(Loading(dropped, i), [pages EXCEPT ![s] = page], s, i)
           ELSE /\ i = old
                /\ socks' = [socks EXCEPT ![s] = Away]
                /\ Install(Server)
        /\ UNCHANGED <<disk, stopping, bounds>>

\* Mutant of ReadBoard: the stored file is taken for an empty one.
ReadEmptyBoard(i) ==
    /\ boards[i].phase = "opening"
    /\ boards' = [boards EXCEPT ![i].phase = "read"]
    /\ UNCHANGED <<disk, registry, pins, retry, socks, stopping, bounds>>

\* The file is opened: what the instance will contain is decided here.
ReadBoard(i) ==
    /\ boards[i].phase = "opening"
    /\ boards' = [boards EXCEPT ![i] =
                    [@ EXCEPT !.phase = "read", !.hist = disk,
                              !.persisted = Len(disk), !.floor = Len(disk),
                              !.stored = HasItems(disk)]]
    /\ UNCHANGED <<disk, registry, pins, retry, socks, stopping, bounds>>

\* The load ends.  The waiting handshakes compute their replay first, then a
\* waiting write is accepted, then a waiting unload asks for a save; the sockets
\* join when these have finished, on the instance they waited for.
FinishLoad(i) ==
    LET loaded == [Server EXCEPT !.boards[i].phase = "loaded",
                                 !.boards[i].late = {},
                                 !.boards[i].unload = FALSE]
        late == boards[i].late
        wrote == IF late = {} THEN loaded ELSE Accept(loaded, i, NextWrite)
        pages == IF late = {} THEN socks
                 ELSE Broadcast(loaded, socks, i, CHOOSE s \in late : TRUE,
                                NextWrite)
        settled == IF boards[i].unload THEN RequestSave(wrote, i, TRUE) ELSE wrote
        waiting == {s \in Sockets : socks[s].at = "loading" /\ socks[s].inst = i}
        joining == {s \in waiting : Joins(loaded, socks[s], i)}
    IN  /\ boards[i].phase = "read"
        /\ late # {} => sent < scenario.writes
        /\ Install([settled EXCEPT !.boards[i].users = @ \cup joining])
        /\ socks' = [s \in Sockets |-> IF s \in waiting
                                       THEN Handshake(loaded, socks[s], i)
                                       ELSE pages[s]]
        /\ sent' = IF late = {} THEN sent ELSE sent + 1
        /\ UNCHANGED <<disk, stopping, foreign, failures, scenario>>

\* The stored file is unreadable: the handshakes are refused.
FailLoad(i) ==
    /\ boards[i].phase = "opening"
    /\ failures < scenario.failures
    /\ failures' = failures + 1
    /\ boards' = [boards EXCEPT ![i] = [FreeBoard EXCEPT !.phase = "loaded",
                                                         !.disposed = TRUE]]
    /\ registry' = IF registry = i THEN None ELSE registry
    /\ socks' = [s \in Sockets |->
                    IF socks[s].at = "loading" /\ socks[s].inst = i THEN Away
                    ELSE socks[s]]
    /\ UNCHANGED <<disk, pins, retry, stopping, sent, foreign, scenario>>

-----------------------------------------------------------------------------
(* Writing and leaving *)

\* handleBroadcastWriteMessage asks the registry for the board, not the socket.
Write(s) ==
    /\ socks[s].at = "joined"
    /\ registry # None
    /\ boards[registry].phase = "loaded"
    /\ sent < scenario.writes
    /\ sent' = sent + 1
    /\ Install(Accept(Server, registry, NextWrite))
    /\ socks' = Broadcast(Server, socks, registry, s, NextWrite)
    /\ UNCHANGED <<disk, stopping, foreign, failures, scenario>>

\* The same, when the socket has outlived its instance: the write loads the
\* board or waits for the load.
WriteUnloaded(s, i) ==
    /\ socks[s].at = "joined"
    /\ GetBoard(Server, i)
    /\ boards[i].phase # "loaded"
    /\ boards[i].late = {}
    /\ sent < scenario.writes
    /\ Install([Loading(Server, i) EXCEPT !.boards[i].late = {s}])
    /\ UNCHANGED <<disk, socks, stopping, bounds>>

\* The disconnecting handler looks the board up by name as well.
Leave(s) ==
    LET left == [Server EXCEPT !.boards[registry].users = @ \ {s}] IN
    /\ ~stopping
    /\ socks[s].at = "joined"
    /\ socks' = [socks EXCEPT ![s] = Away]
    /\ IF registry = None THEN Install(Server)
       ELSE IF left.boards[registry].users # {} THEN Install(left)
       ELSE CanRequestSave(left, registry) /\ Install(Unload(left, registry))
    /\ UNCHANGED <<disk, stopping, bounds>>

\* The connection closes during the handshake: the board is loaded for nobody.
Abandon(s) ==
    /\ socks[s].at = "loading"
    /\ socks' = [socks EXCEPT ![s] = Away]
    /\ UNCHANGED <<disk, registry, boards, pins, retry, stopping, bounds>>

-----------------------------------------------------------------------------
(* Saving (unsafeSaveBoard, rewriteStoredSvgFromCanonical) *)

\* The save timer, which is armed for writes only (SaveScheduler says when).
TimerSave(i) ==
    /\ boards[i].phase = "loaded"
    /\ boards[i].save = Idle
    /\ ~NothingToSave(boards[i])
    /\ Len(boards[i].hist) # boards[i].persisted
    /\ Install(RequestSave(Server, i, FALSE))
    /\ UNCHANGED <<disk, socks, stopping, bounds>>

\* A rewrite reads the sequence number of the stored file first.  A board with
\* no persisted item is written without looking at the file.
Checking(i) == boards[i].save # Idle /\ boards[i].save.phase = "checking"
Stale(i) ==
    /\ Checking(i)
    /\ boards[i].stored
    /\ Len(disk) # boards[i].persisted

CheckStored(i) ==
    /\ Checking(i) /\ ~Stale(i)
    /\ boards' = [boards EXCEPT ![i].save.phase = "renaming"]
    /\ UNCHANGED <<disk, registry, pins, retry, socks, stopping, bounds>>

StaleSave(i) ==
    /\ Stale(i)
    /\ Install(EndSave(Drop(Server, i), i, "stale"))
    /\ socks' = [s \in Sockets |->
                    IF s \in Dropped(Server, i) THEN Away ELSE socks[s]]
    /\ UNCHANGED <<disk, stopping, bounds>>

RenameStored(i) ==
    LET b == boards[i] IN
    /\ b.save # Idle /\ b.save.phase = "renaming"
    /\ disk' = Prefix(b.hist, b.save.target)
    /\ boards' = [boards EXCEPT ![i].save.phase = "renamed"]
    /\ UNCHANGED <<registry, pins, retry, socks, stopping, bounds>>

\* Mutant of FinishSave: the save is not recorded.
FinishSaveUnrecorded(i, floor) ==
    /\ boards[i].save # Idle /\ boards[i].save.phase = "renamed"
    /\ floor = boards[i].floor
    /\ Install(EndSave(Server, i, "saved"))
    /\ UNCHANGED <<disk, socks, stopping, bounds>>

\* What the save of b has stored.
Recorded(b, floor) ==
    LET file == Prefix(b.hist, b.save.target)
    IN  [b EXCEPT !.persisted = b.save.target, !.floor = floor,
                  !.left = LeavesDirty(file), !.stored = HasItems(file)]

\* Trimming keeps what a pin protects; how much older history stays depends
\* on its age (ReplayLog).
FinishSave(i, floor) ==
    LET b == boards[i] IN
    /\ b.save # Idle /\ b.save.phase = "renamed"
    /\ floor \in {b.floor, b.save.target}
    /\ \A p \in pins : floor = b.floor \/ floor <= p
    /\ Install(EndSave([Server EXCEPT !.boards[i] = Recorded(b, floor)], i, "saved"))
    /\ UNCHANGED <<disk, socks, stopping, bounds>>

FailSave(i) ==
    LET b == boards[i] IN
    /\ b.save # Idle /\ b.save.phase \in {"checking", "renaming"}
    /\ failures < scenario.failures
    /\ failures' = failures + 1
    /\ Install(EndSave(Server, i, "failed"))
    /\ UNCHANGED <<disk, socks, stopping, sent, foreign, scenario>>

-----------------------------------------------------------------------------
(* Time, the environment, and the end of the process *)

\* A postponed unload waits for the next pin to expire.
ExpirePin(p) ==
    LET due == retry.armed + retry.due IN
    /\ p \in pins
    /\ pins' = pins \ {p}
    /\ retry' = [armed |-> 0, due |-> IF due < scenario.retries THEN due ELSE scenario.retries]
    /\ UNCHANGED <<disk, registry, boards, socks, stopping, bounds>>

RetryUnload ==
    /\ retry.due > 0
    /\ registry # None => scenario.overlap \/ boards[registry].phase = "loaded"
    /\ registry # None => CanRequestSave(Server, registry)
    /\ LET v == [Server EXCEPT !.retry.due = @ - 1]
       IN  Install(IF registry = None THEN v ELSE Unload(v, registry))
    /\ UNCHANGED <<disk, socks, stopping, bounds>>

ForeignWrite ==
    /\ foreign < scenario.foreign
    /\ foreign' = foreign + 1
    /\ disk' = Append(disk, NextWrite)
    /\ UNCHANGED <<registry, boards, pins, retry, socks, stopping, sent, failures,
                   scenario>>

\* Mutant of Shutdown: the boards are not unloaded.
ShutdownWithoutUnload ==
    /\ ~stopping
    /\ stopping' = TRUE
    /\ socks' = [s \in Sockets |-> Away]
    /\ UNCHANGED <<disk, registry, boards, pins, retry, bounds>>

\* shutdownBoards closes every socket and unloads the registered board.
Shutdown ==
    LET left == [Server EXCEPT !.boards[registry].users = {}] IN
    /\ ~stopping
    /\ stopping' = TRUE
    /\ socks' = [s \in Sockets |-> Away]
    /\ IF registry = None THEN Install(Server)
       ELSE CanRequestSave(left, registry) /\ Install(Unload(left, registry))
    /\ UNCHANGED <<disk, bounds>>

Restart ==
    /\ registry' = None
    /\ boards' = [i \in Instances |-> FreeBoard]
    /\ pins' = {}
    /\ retry' = NoTimers
    /\ socks' = [s \in Sockets |-> Away]
    /\ stopping' = FALSE
    /\ UNCHANGED <<disk, bounds>>

\* Every unload that shutdownBoards waits for has ended.
Exit == stopping /\ Quiet /\ Restart

Crash == Restart

Next ==
    \/ \E s \in Sockets : OpenPage(s) \/ Write(s) \/ Leave(s) \/ Abandon(s)
    \/ \E s \in Sockets, i \in Instances :
          Connect(s, i) \/ ProbeDisk(s, i) \/ WriteUnloaded(s, i)
    \/ \E i \in Instances :
          \/ ReadBoard(i) \/ FinishLoad(i) \/ FailLoad(i)
          \/ TimerSave(i) \/ CheckStored(i) \/ StaleSave(i) \/ RenameStored(i)
          \/ FailSave(i)
          \/ \E floor \in 0 .. scenario.writes + scenario.foreign : FinishSave(i, floor)
    \/ \E p \in pins : ExpirePin(p)
    \/ RetryUnload \/ ForeignWrite \/ Shutdown \/ Exit \/ Crash

Spec == Init /\ [][Next]_vars

-----------------------------------------------------------------------------
(* Properties *)

\* Sockets connecting while an unload is under way break most of what follows
\* (README, findings 2 and 3), and so does a file replaced by somebody else.
Calm == ~scenario.overlap /\ scenario.foreign = 0

\* However connections, unloads and other writers of the file overlap: requests
\* never find an instance that has stopped saving, and no page shows a write twice.
RegisteredIsAlive == registry # None => ~boards[registry].disposed
NoWriteTwice ==
    \A s \in Sockets :
        LET v == socks[s].view
        IN  \A m, n \in 1 .. Len(v) : v[m] = v[n] => m = n
SoundWhenOverlapping == TypeOK /\ RegisteredIsAlive /\ NoWriteTwice

\* Every joined page is a user of the registered instance and shows exactly the
\* writes that instance has accepted.
JoinedAgree ==
    \A s \in Sockets : socks[s].at = "joined" =>
        /\ registry = socks[s].inst
        /\ s \in boards[registry].users
        /\ socks[s].view = boards[registry].hist
JoinedShowsHistory == Calm => JoinedAgree

\* Also when pages connect, join and write while the save of an unload runs, as long
\* as no other unload is asked for meanwhile: the unload leaves them their board.
JoinDuringUnload ==
    scenario.overlap /\ {scenario.foreign, scenario.queued, scenario.retries} = {0}
        => JoinedAgree

\* "Accepted mutations receive sequences and are broadcast to synchronized
\* clients, including the sender" (ARCHITECTURE.md).
HeardByJoined ==
    sent' # sent =>
        \A s \in Sockets :
           socks[s].at = "joined" /\ socks'[s].at = "joined"
              => socks'[s].view = Append(socks[s].view, sent' + foreign)
AcceptedReachesJoined == [][Calm => HeardByJoined]_vars

\* The same of every operation, which the process does not keep (finding 2).
AcceptedIsBroadcast == [][HeardByJoined]_vars

Stores(file, hist) == Len(hist) <= Len(file) /\ Prefix(file, Len(hist)) = hist

\* No save takes a stored write back or replaces one by another.
StoredNeverUndone == [][Calm => Stores(disk', disk)]_vars

\* A graceful exit leaves every accepted write on disk unless a save failed.
ExitSaves ==
    [][Calm /\ Exit /\ failures = 0 =>
          \A i \in Instances :
             boards[i].phase = "loaded" => Stores(disk, boards[i].hist)]_vars

\* Unloading forgets nothing: what leaves memory is stored, or the save that
\* is running stores it.  (A process that is shutting down also unloads a
\* board whose save failed, and an unreadable board never had any content.)
UnloadStores ==
    [][\A i \in Instances :
          /\ Calm /\ ~stopping /\ boards[i].phase = "loaded"
          /\ ~boards[i].disposed /\ boards'[i].disposed
          => \/ boards[i].hist = disk'
             \/ /\ boards'[i].save # Idle
                /\ boards'[i].save.target = Len(boards[i].hist)]_vars

\* A process that alone writes its files never takes its own board for stale.
SoleWriterNeverStale == Calm => \A i \in Instances : ~Stale(i)

\* Both: what pages show and what the process believes of its files.
CalmIsExact == JoinedShowsHistory /\ SoleWriterNeverStale
=============================================================================
