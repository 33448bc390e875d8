------------------------ MODULE BoardLifecycleProofs ------------------------
(***************************************************************************)
(* Proofs about BoardLifecycle: first in every scenario, whatever overlaps *)
(* and whoever else writes the file, then in calm operation.               *)
(*                                                                         *)
(* The inductive invariant is IInv.  Requests find only instances that     *)
(* have not stopped saving (Sound), because whatever disposes of an        *)
(* instance also removes an entry of the registry, be it another one's.    *)
(* That no page shows a write twice does not follow from the pages alone:  *)
(* a replay comes from an instance, the instance from the file, the file   *)
(* from a save.  PlacesInv says it of all of them at once: there is one    *)
(* numbering of the writes to which every content in the system keeps,     *)
(* though contents may differ in which writes they have lost.              *)
(*                                                                         *)
(* Handlers are operators from servers to servers, so most lemmas are      *)
(* about one such operator and any server, and the lemma of an action      *)
(* composes them as the action does.                                       *)
(***************************************************************************)
EXTENDS BoardLifecycle, TLAPS, SequenceTheorems

SaveStates == {Idle} \cup Saves
BoardPhases == {"free", "opening", "read", "loaded"}

BoardStates ==
    [phase : BoardPhases, hist : Seq(Nat), persisted : Nat, floor : Nat,
     left : BOOLEAN, stored : BOOLEAN,
     users : SUBSET Sockets, disposed : BOOLEAN, save : SaveStates,
     queued : Nat, unload : BOOLEAN, late : SUBSET Sockets]

Places == {"away", "page", "loading", "probing", "joined"}

PageStates ==
    [at : Places, inst : {None} \cup Instances, view : Seq(Nat), latest : Nat,
     probed : BOOLEAN]

Timers == [armed : 0 .. scenario.retries, due : 0 .. scenario.retries]

Servers ==
    [registry : {None} \cup Instances, boards : [Instances -> BoardStates],
     pins : SUBSET Nat, retry : Timers]

\* What every board instance satisfies.
BoardInv(b) ==
    /\ b.phase = "free" => b = FreeBoard
    /\ b.phase # "loaded" => b.save = Idle /\ b.queued = 0
    /\ b.save # Idle => b.save.target <= Len(b.hist)
    /\ b.queued <= scenario.queued
    /\ b.queued > 0 => b.save # Idle

\* Handlers compute with servers that satisfy this.
Sound(v) ==
    /\ v \in Servers
    /\ v.registry # None => /\ v.boards[v.registry].phase # "free"
                            /\ ~v.boards[v.registry].disposed
    /\ \A i \in Instances : BoardInv(v.boards[i])

\* f gives every write its place.
Placed(u, f, k) ==
    Len(u) <= k /\ \A m \in 1 .. Len(u) : u[m] \in 1 .. k /\ f[u[m]] = m

Bound == sent + foreign

Shown(f) ==
    /\ Placed(disk, f, Bound)
    /\ \A i \in Instances : Placed(boards[i].hist, f, Bound)
    /\ \A s \in Sockets : Placed(socks[s].view, f, Bound)

\* A write has the same place wherever it is found.
PlacesInv == \E f \in [Nat -> Nat] : Shown(f)

CountInv ==
    /\ sent \in Nat /\ foreign \in Nat /\ failures \in Nat
    /\ scenario \in Scenarios
    /\ sent <= scenario.writes /\ foreign <= scenario.foreign

PageInv(p) == p.at \in {"loading", "probing", "joined"} => p.inst # None

PagesInv ==
    /\ disk \in Seq(Nat) /\ stopping \in BOOLEAN
    /\ socks \in [Sockets -> PageStates]
    /\ \A s \in Sockets : PageInv(socks[s])

IInv == Sound(Server) /\ PagesInv /\ CountInv /\ PlacesInv

-----------------------------------------------------------------------------
(* Constants and records *)

LEMMA Numbers ==
    ASSUME CountInv
    PROVE  /\ MaxInstances \in Nat /\ scenario.writes \in Nat
           /\ scenario.queued \in Nat /\ scenario.foreign \in Nat
           /\ scenario.failures \in Nat /\ scenario.retries \in Nat
           /\ scenario.overlap \in BOOLEAN /\ Bound \in Nat
           /\ Bound <= scenario.writes + scenario.foreign
<1>1. /\ MaxInstances \in Nat
      /\ scenario \in [writes : Nat, queued : Nat, foreign : Nat,
                       failures : Nat, retries : Nat, overlap : BOOLEAN,
                       blank : SUBSET Nat, empty : SUBSET Nat]
  BY BoardLifecycleAssumption DEF CountInv
<1>2. sent \in Nat /\ foreign \in Nat /\ sent <= scenario.writes
      /\ foreign <= scenario.foreign
  BY DEF CountInv
<1> QED
  BY <1>1, <1>2 DEF Bound

LEMMA IdleFacts ==
    /\ \A s \in Saves : s # Idle
    /\ \A s \in SaveStates : s # Idle => s \in Saves
    /\ \A s \in Saves : /\ s.target \in Nat /\ s.unload \in BOOLEAN
                        /\ s.phase \in {"checking", "renaming", "renamed"}
<1>1. \A s \in Saves : s.phase # "idle" /\ s.target \in Nat /\ s.unload \in BOOLEAN
                       /\ s.phase \in {"checking", "renaming", "renamed"}
  BY DEF Saves
<1>2. Idle.phase = "idle"
  BY DEF Idle
<1> QED
  BY <1>1, <1>2 DEF SaveStates

LEMMA FreeFacts ==
    /\ FreeBoard \in BoardStates /\ FreeBoard.phase = "free"
    /\ FreeBoard.hist = << >> /\ FreeBoard.persisted = 0 /\ FreeBoard.floor = 0
    /\ FreeBoard.users = {} /\ FreeBoard.disposed = FALSE /\ FreeBoard.save = Idle
    /\ FreeBoard.queued = 0 /\ FreeBoard.unload = FALSE /\ FreeBoard.late = {}
<1>1. << >> \in Seq(Nat)
  BY EmptySeq
<1> QED
  BY <1>1 DEF FreeBoard, BoardStates, BoardPhases, SaveStates

LEMMA AwayFacts ==
    /\ Away \in PageStates /\ Away.at = "away" /\ Away.inst = None
    /\ Away.view = << >> /\ Away.probed = FALSE /\ Away.latest = 0
    /\ PageInv(Away)
<1>1. << >> \in Seq(Nat)
  BY EmptySeq
<1> QED
  BY <1>1 DEF Away, PageStates, Places, PageInv, None

\* Boards of a server.
LEMMA BoardFacts ==
    ASSUME NEW v, Sound(v), NEW i \in Instances
    PROVE  /\ v.boards[i] \in BoardStates /\ BoardInv(v.boards[i])
           /\ v \in Servers /\ v.pins \subseteq Nat
           /\ v.registry \in {None} \cup Instances
           /\ v.boards \in [Instances -> BoardStates] /\ v.retry \in Timers
BY DEF Sound, Servers

\* Replacing one board.
SetBoard(v, i, b) == [v EXCEPT !.boards = [v.boards EXCEPT ![i] = b]]

LEMMA SetBoardFacts ==
    ASSUME NEW v \in Servers, NEW i \in Instances, NEW b \in BoardStates
    PROVE  /\ SetBoard(v, i, b) \in Servers
           /\ SetBoard(v, i, b).registry = v.registry
           /\ SetBoard(v, i, b).pins = v.pins
           /\ SetBoard(v, i, b).retry = v.retry
           /\ SetBoard(v, i, b).boards[i] = b
           /\ \A j \in Instances : j # i => SetBoard(v, i, b).boards[j] = v.boards[j]
<1>1. PICK f : f = [v.boards EXCEPT ![i] = b]
  OBVIOUS
<1>2. /\ f \in [Instances -> BoardStates] /\ f[i] = b
      /\ \A j \in Instances : j # i => f[j] = v.boards[j]
  BY <1>1 DEF Servers
<1>3. PICK w : w = [v EXCEPT !.boards = f]
  OBVIOUS
<1>4. /\ w \in Servers /\ w.registry = v.registry /\ w.pins = v.pins
      /\ w.retry = v.retry /\ w.boards = f
  BY <1>2, <1>3 DEF Servers
<1> QED
  BY <1>1, <1>2, <1>3, <1>4 DEF SetBoard

LEMMA SetBoardSound ==
    ASSUME NEW v, Sound(v), NEW i \in Instances, NEW b \in BoardStates, BoardInv(b),
           v.registry = i => b.phase # "free" /\ ~b.disposed
    PROVE  Sound(SetBoard(v, i, b))
<1>1. PICK w : w = SetBoard(v, i, b)
  OBVIOUS
<1>2. /\ w \in Servers /\ w.registry = v.registry /\ w.boards[i] = b
      /\ \A j \in Instances : j # i => w.boards[j] = v.boards[j]
  <2>1. v \in Servers
    BY DEF Sound
  <2> QED
    BY <1>1, <2>1, SetBoardFacts
<1>3. v.registry # None => v.registry \in Instances
  BY DEF Sound, Servers
<1>4. \A j \in Instances : BoardInv(w.boards[j])
  BY <1>2 DEF Sound
<1>5. w.registry # None => /\ w.boards[w.registry].phase # "free"
                           /\ ~w.boards[w.registry].disposed
  <2>1. CASE v.registry = i
    BY <1>2, <2>1
  <2>2. CASE v.registry # i
    BY <1>2, <1>3, <2>2 DEF Sound
  <2> QED
    BY <2>1, <2>2
<1>6. Sound(w)
  BY <1>2, <1>4, <1>5 DEF Sound
<1> QED
  BY <1>1, <1>6

-----------------------------------------------------------------------------
(* Unloading and saving *)

\* An instance stays, or is disposed of and nobody finds the board any more.
Kept(v, w) == w.registry = v.registry /\ w.boards = v.boards /\ w.pins = v.pins
Gone(v, w, i) ==
    /\ w.registry = None /\ w.pins \subseteq v.pins
    /\ v.boards[i].users = {}
    /\ w.boards = [v.boards EXCEPT ![i] = [v.boards[i] EXCEPT !.disposed = TRUE]]

LEMMA GoneFacts ==
    ASSUME NEW v, Sound(v), NEW i \in Instances, NEW w, w \in Servers, Gone(v, w, i),
           v.boards[i].phase # "free"
    PROVE  /\ Sound(w)
           /\ w.boards[i] \in BoardStates /\ w.boards[i].disposed
           /\ w.boards[i].phase = v.boards[i].phase
           /\ w.boards[i].hist = v.boards[i].hist
           /\ w.boards[i].persisted = v.boards[i].persisted
           /\ w.boards[i].floor = v.boards[i].floor
           /\ w.boards[i].users = v.boards[i].users
           /\ w.boards[i].save = v.boards[i].save
           /\ w.boards[i].queued = v.boards[i].queued
           /\ w.boards[i].unload = v.boards[i].unload
           /\ w.boards[i].late = v.boards[i].late
           /\ \A j \in Instances : j # i => w.boards[j] = v.boards[j]
<1>1. v.boards[i] \in BoardStates /\ BoardInv(v.boards[i]) /\ v \in Servers
  BY BoardFacts
<1>2. PICK b : b = [v.boards[i] EXCEPT !.disposed = TRUE]
  OBVIOUS
<1>3. /\ b \in BoardStates /\ b.disposed /\ b.phase = v.boards[i].phase
      /\ b.hist = v.boards[i].hist /\ b.persisted = v.boards[i].persisted
      /\ b.floor = v.boards[i].floor /\ b.users = v.boards[i].users
      /\ b.save = v.boards[i].save /\ b.queued = v.boards[i].queued
      /\ b.unload = v.boards[i].unload /\ b.late = v.boards[i].late
  BY <1>1, <1>2 DEF BoardStates
<1>4. w.boards = [v.boards EXCEPT ![i] = b] /\ w.registry = None
  BY <1>2 DEF Gone
<1>5. w.boards[i] = b /\ \A j \in Instances : j # i => w.boards[j] = v.boards[j]
  BY <1>1, <1>4 DEF Servers
<1>6. BoardInv(b)
  BY <1>1, <1>3 DEF BoardInv
<1>7. \A j \in Instances : BoardInv(w.boards[j])
  BY <1>5, <1>6 DEF Sound
<1>8. Sound(w)
  BY <1>4, <1>7 DEF Sound
<1> QED
  BY <1>2, <1>3, <1>5, <1>8

LEMMA AfterUnloadSaveFacts ==
    ASSUME NEW v, Sound(v), NEW i \in Instances, NEW status, CountInv
    PROVE  LET w == AfterUnloadSave(v, i, status)
           IN  /\ w \in Servers
               /\ Kept(v, w) \/ (Gone(v, w, i) /\ status # "stale"
                                 /\ (status # "failed" \/ stopping))
<1>1. PICK w : w = AfterUnloadSave(v, i, status)
  OBVIOUS
<1>2. v.boards[i] \in BoardStates /\ v \in Servers /\ scenario.retries \in Nat
  BY BoardFacts, Numbers
<1>3. PICK b : b = v.boards[i]
  OBVIOUS
<1>4. CASE w = v
  BY <1>1, <1>2, <1>4 DEF Kept
<1>5. CASE w = [v EXCEPT !.retry.armed = IF @ < scenario.retries THEN @ + 1 ELSE @]
  <2>1. PICK n : n = IF v.retry.armed < scenario.retries THEN v.retry.armed + 1
                     ELSE v.retry.armed
    OBVIOUS
  <2>2. n \in 0 .. scenario.retries
    BY <1>2, <2>1 DEF Servers, Timers
  <2>3. PICK r : r = [v.retry EXCEPT !.armed = n]
    OBVIOUS
  <2>4. r \in Timers
    BY <1>2, <2>2, <2>3 DEF Servers, Timers
  <2>5. w = [v EXCEPT !.retry = r]
    BY <1>5, <2>1, <2>3
  <2>6. w \in Servers /\ Kept(v, w)
    BY <1>2, <2>4, <2>5 DEF Servers, Kept
  <2> QED
    BY <1>1, <2>6
<1>6. CASE /\ w = [v EXCEPT !.registry = None, !.boards[i].disposed = TRUE,
                            !.pins = {p \in @ : p >= b.persisted}]
           /\ b.users = {} /\ status # "stale" /\ (status # "failed" \/ stopping)
  <2>1. PICK pinned : pinned = {p \in v.pins : p >= b.persisted}
    OBVIOUS
  <2>2. PICK c : c = [v.boards[i] EXCEPT !.disposed = TRUE]
    OBVIOUS
  <2>3. c \in BoardStates
    BY <1>2, <2>2 DEF BoardStates
  <2>4. PICK f : f = [v.boards EXCEPT ![i] = c]
    OBVIOUS
  <2>5. f \in [Instances -> BoardStates] /\ pinned \subseteq v.pins
        /\ pinned \in SUBSET Nat
    BY <1>2, <2>1, <2>3, <2>4 DEF Servers
  <2>6. w = [v EXCEPT !.registry = None, !.boards = f, !.pins = pinned]
    BY <1>6, <2>1, <2>2, <2>4
  <2>7. w \in Servers /\ w.registry = None /\ w.boards = f /\ w.pins = pinned
    BY <1>2, <2>5, <2>6 DEF Servers
  <2>8. Gone(v, w, i)
    BY <1>3, <1>6, <2>2, <2>4, <2>5, <2>7 DEF Gone
  <2> QED
    BY <1>1, <1>6, <2>7, <2>8
<1>7. \/ w = v
      \/ w = [v EXCEPT !.retry.armed = IF @ < scenario.retries THEN @ + 1 ELSE @]
      \/ /\ w = [v EXCEPT !.registry = None, !.boards[i].disposed = TRUE,
                          !.pins = {p \in @ : p >= b.persisted}]
         /\ b.users = {} /\ status # "stale" /\ (status # "failed" \/ stopping)
  BY <1>1, <1>3 DEF AfterUnloadSave
<1> QED
  BY <1>4, <1>5, <1>6, <1>7

\* What no save and no unload changes in an instance.
Keeps(b, c) ==
    /\ c.phase = b.phase /\ c.hist = b.hist /\ c.persisted = b.persisted
    /\ c.floor = b.floor /\ c.users = b.users /\ c.unload = b.unload
    /\ c.late = b.late

\* A save of all that b contains has begun.
Starts(b, c, unload) ==
    /\ ~b.disposed /\ Dirty(b)
    /\ c.save \in Saves /\ c.save.phase = "checking"
    /\ c.save.target = Len(b.hist) /\ c.save.unload = unload

LEMMA StaysBoard ==
    ASSUME NEW b, NEW c, BoardInv(b), b.phase = "loaded", c.phase = b.phase,
           c.hist = b.hist, c.save = b.save, c.queued <= scenario.queued,
           c.queued > 0 => c.save # Idle
    PROVE  BoardInv(c)
BY DEF BoardInv

LEMMA ContinueFacts ==
    ASSUME NEW v, Sound(v), NEW i \in Instances, NEW unload \in BOOLEAN, NEW status,
           CountInv
    PROVE  LET w == Continue(v, i, unload, status)
           IN  /\ w \in Servers
               /\ Kept(v, w) \/ (Gone(v, w, i) /\ unload /\ status # "stale"
                                 /\ (status # "failed" \/ stopping))
<1>1. CASE unload
  BY <1>1, AfterUnloadSaveFacts DEF Continue
<1>2. CASE ~unload
  BY <1>2 DEF Continue, Kept, Sound
<1> QED
  BY <1>1, <1>2

LEMMA KeptFacts ==
    ASSUME NEW v, Sound(v), NEW w, w \in Servers, Kept(v, w)
    PROVE  Sound(w)
BY DEF Sound, Kept

LEMMA BeginFacts ==
    ASSUME NEW b \in BoardStates, NEW unload \in BOOLEAN,
           b.queued <= scenario.queued, b.phase = "loaded", ~b.disposed, Dirty(b)
    PROVE  /\ Begin(b, unload) \in BoardStates /\ BoardInv(Begin(b, unload))
           /\ Keeps(b, Begin(b, unload)) /\ Starts(b, Begin(b, unload), unload)
           /\ Begin(b, unload).disposed = b.disposed
           /\ Begin(b, unload).queued = b.queued
<1>1. Len(b.hist) \in Nat
  BY LenProperties DEF BoardStates
<1>2. PICK n \in Nat : n = Len(b.hist)
  BY <1>1
<1>3. PICK s : s = [phase |-> "checking", target |-> n, unload |-> unload]
  OBVIOUS
<1>4. s \in Saves /\ s.phase = "checking" /\ s.target = n /\ s.unload = unload
  BY <1>3 DEF Saves
<1>5. s \in SaveStates /\ s # Idle
  BY <1>4, IdleFacts DEF SaveStates
<1>6. PICK c : c = [b EXCEPT !.save = s]
  OBVIOUS
<1>7. c = Begin(b, unload)
  BY <1>2, <1>3, <1>6 DEF Begin
<1>8. /\ c \in BoardStates /\ c.save = s /\ c.disposed = b.disposed
      /\ c.queued = b.queued /\ Keeps(b, c)
  BY <1>5, <1>6 DEF BoardStates, Keeps
<1>9. Starts(b, c, unload)
  BY <1>2, <1>4, <1>8 DEF Starts
<1>10. BoardInv(c)
  BY <1>1, <1>2, <1>4, <1>5, <1>8 DEF BoardInv, Keeps
<1> QED
  BY <1>7, <1>8, <1>9, <1>10

Enqueue(b) == [b EXCEPT !.queued = @ + 1]

LEMMA Requests ==
    ASSUME NEW v, NEW i, NEW unload
    PROVE  LET b == v.boards[i]
               w == RequestSave(v, i, unload)
           IN  /\ b.disposed => w = Continue(v, i, unload, "skipped")
               /\ ~b.disposed /\ b.save # Idle => w = SetBoard(v, i, Enqueue(b))
               /\ ~b.disposed /\ b.save = Idle /\ ~Dirty(b)
                     => w = Continue(v, i, unload, "skipped")
               /\ ~b.disposed /\ b.save = Idle /\ Dirty(b)
                     => w = SetBoard(v, i, Begin(b, unload))
<1>1. RequestSave(v, i, unload) =
         CASE ~v.boards[i].disposed /\ v.boards[i].save # Idle ->
                 SetBoard(v, i, Enqueue(v.boards[i]))
           [] v.boards[i].save = Idle /\ ~NothingToSave(v.boards[i]) ->
                 SetBoard(v, i, Begin(v.boards[i], unload))
           [] OTHER -> Continue(v, i, unload, "skipped")
  BY Zenon DEF RequestSave, SetBoard, Enqueue
<1> QED
  BY <1>1 DEF NothingToSave

\* What the request for a save of i does to a server.
Requested(v, w, i, unload) ==
    LET b == v.boards[i]
        c == w.boards[i]
    IN  /\ Sound(w) /\ w.pins \subseteq v.pins
        /\ \A j \in Instances : j # i => w.boards[j] = v.boards[j]
        /\ Keeps(b, c)
        /\ \/ /\ w.registry = v.registry /\ c = b
              /\ b.disposed \/ (b.save = Idle /\ ~Dirty(b))
           \/ /\ w.registry = None /\ c.disposed /\ b.users = {} /\ unload
              /\ c.save = b.save /\ c.queued = b.queued
              /\ b.disposed \/ (b.save = Idle /\ ~Dirty(b))
           \/ /\ w.registry = v.registry /\ c.disposed = b.disposed
              /\ c.save = b.save /\ b.save # Idle /\ c.queued = b.queued + 1
              /\ ~b.disposed
           \/ /\ w.registry = v.registry /\ c.disposed = b.disposed
              /\ b.save = Idle /\ c.queued = b.queued /\ Starts(b, c, unload)

LEMMA RequestSaveFacts ==
    ASSUME NEW v, Sound(v), NEW i \in Instances, NEW unload \in BOOLEAN, CountInv,
           v.boards[i].phase = "loaded", CanRequestSave(v, i)
    PROVE  Requested(v, RequestSave(v, i, unload), i, unload)
<1>1. PICK w : w = RequestSave(v, i, unload)
  OBVIOUS
<1>2. PICK b : b = v.boards[i]
  OBVIOUS
<1>3. b \in BoardStates /\ BoardInv(b) /\ b.phase = "loaded" /\ v \in Servers
      /\ scenario.queued \in Nat
  BY <1>2, BoardFacts, Numbers
<1>4. CASE /\ w = Continue(v, i, unload, "skipped")
           /\ b.disposed \/ (b.save = Idle /\ ~Dirty(b))
  <2>1. /\ w \in Servers
        /\ Kept(v, w) \/ (Gone(v, w, i) /\ unload)
    BY <1>4, ContinueFacts
  <2>2. CASE Kept(v, w)
    <3>1. Sound(w) /\ w.pins = v.pins /\ w.boards = v.boards
          /\ w.registry = v.registry
      BY <2>1, <2>2, KeptFacts DEF Kept
    <3> QED
      BY <1>1, <1>2, <1>4, <3>1 DEF Keeps, Requested
  <2>3. CASE Gone(v, w, i) /\ unload
    <3>1. w.registry = None /\ w.pins \subseteq v.pins /\ b.users = {}
      BY <1>2, <2>3 DEF Gone
    <3>2. /\ Sound(w) /\ w.boards[i].disposed /\ Keeps(b, w.boards[i])
          /\ w.boards[i].save = b.save /\ w.boards[i].queued = b.queued
          /\ \A j \in Instances : j # i => w.boards[j] = v.boards[j]
      <4>1. v.boards[i].phase # "free"
        BY <1>2, <1>3
      <4>2. /\ Sound(w) /\ w.boards[i].disposed
            /\ w.boards[i].phase = v.boards[i].phase
            /\ w.boards[i].hist = v.boards[i].hist
            /\ w.boards[i].persisted = v.boards[i].persisted
            /\ w.boards[i].floor = v.boards[i].floor
            /\ w.boards[i].users = v.boards[i].users
            /\ w.boards[i].save = v.boards[i].save
            /\ w.boards[i].queued = v.boards[i].queued
            /\ w.boards[i].unload = v.boards[i].unload
            /\ w.boards[i].late = v.boards[i].late
            /\ \A j \in Instances : j # i => w.boards[j] = v.boards[j]
        BY <2>1, <2>3, <4>1, GoneFacts
      <4> QED
        BY <1>2, <4>2 DEF Keeps
    <3> QED
      BY <1>1, <1>2, <1>4, <2>3, <3>1, <3>2 DEF Requested
  <2> QED
    BY <2>1, <2>2, <2>3
<1>5. CASE ~b.disposed /\ b.save # Idle
  <2>1. PICK n : n = b.queued + 1
    OBVIOUS
  <2>2. n \in Nat /\ n <= scenario.queued /\ n > 0
    <3>1. b.queued < scenario.queued
      BY <1>2, <1>5 DEF CanRequestSave
    <3> QED
      BY <1>3, <2>1, <3>1 DEF BoardStates
  <2>3. PICK c : c = [b EXCEPT !.queued = n]
    OBVIOUS
  <2>4. /\ c \in BoardStates /\ c.queued = n /\ c.save = b.save
        /\ c.disposed = b.disposed /\ Keeps(b, c)
    BY <1>3, <2>2, <2>3 DEF BoardStates, Keeps
  <2>5. BoardInv(c)
    BY <1>3, <1>5, <2>2, <2>4, StaysBoard DEF Keeps
  <2>6. w = SetBoard(v, i, c)
    <3>1. w = SetBoard(v, i, Enqueue(v.boards[i]))
      <4>1. ~v.boards[i].disposed /\ v.boards[i].save # Idle
        BY <1>2, <1>5
      <4> QED
        BY <1>1, <4>1, Requests
    <3>2. c = Enqueue(v.boards[i])
      BY <1>2, <2>1, <2>3 DEF Enqueue
    <3> QED
      BY <3>1, <3>2
  <2>7. v.registry = i => c.phase # "free" /\ ~c.disposed
    BY <1>3, <1>5, <2>4 DEF Keeps
  <2>8. Sound(w)
    BY <2>4, <2>5, <2>6, <2>7, SetBoardSound
  <2>9. /\ w.registry = v.registry /\ w.pins = v.pins /\ w.boards[i] = c
        /\ \A j \in Instances : j # i => w.boards[j] = v.boards[j]
    BY <1>3, <2>4, <2>6, SetBoardFacts
  <2> QED
    BY <1>1, <1>2, <1>5, <2>1, <2>4, <2>8, <2>9 DEF Requested
<1>6. CASE ~b.disposed /\ b.save = Idle /\ Dirty(b)
  <2>1. PICK c : c = Begin(b, unload)
    OBVIOUS
  <2>2. /\ c \in BoardStates /\ BoardInv(c) /\ Keeps(b, c) /\ Starts(b, c, unload)
        /\ c.disposed = b.disposed /\ c.queued = b.queued
    <3>1. b.queued <= scenario.queued
      BY <1>3 DEF BoardInv
    <3> QED
      BY <1>3, <1>6, <2>1, <3>1, BeginFacts
  <2>3. w = SetBoard(v, i, c)
    BY <1>1, <1>2, <1>6, <2>1, Requests
  <2>4. v.registry = i => c.phase # "free" /\ ~c.disposed
    BY <1>3, <1>6, <2>2 DEF Keeps
  <2>5. Sound(w)
    BY <2>2, <2>3, <2>4, SetBoardSound
  <2>6. /\ w.registry = v.registry /\ w.pins = v.pins /\ w.boards[i] = c
        /\ \A j \in Instances : j # i => w.boards[j] = v.boards[j]
    BY <1>3, <2>2, <2>3, SetBoardFacts
  <2> QED
    BY <1>1, <1>2, <1>6, <2>2, <2>5, <2>6 DEF Requested
<1>7. \/ /\ w = Continue(v, i, unload, "skipped")
         /\ b.disposed \/ (b.save = Idle /\ ~Dirty(b))
      \/ ~b.disposed /\ b.save # Idle
      \/ ~b.disposed /\ b.save = Idle /\ Dirty(b)
  BY <1>1, <1>2, Requests
<1> QED
  BY <1>4, <1>5, <1>6, <1>7

\* The board once its save has ended and the next task of its queue, if there
\* is one, has begun.
NextTask(b) ==
    LET ended == [b EXCEPT !.save = Idle]
    IN  IF b.queued = 0 THEN ended
        ELSE IF NothingToSave(b) THEN [ended EXCEPT !.queued = 0]
        ELSE [Begin(ended, TRUE) EXCEPT !.queued = @ - 1]

Skips(b) == b.queued > 0 /\ NothingToSave(b)

LEMMA NextTaskFacts ==
    ASSUME NEW b \in BoardStates, BoardInv(b), b.save # Idle, CountInv
    PROVE  LET c == NextTask(b)
           IN  /\ c \in BoardStates /\ BoardInv(c) /\ Keeps(b, c)
               /\ c.disposed = b.disposed /\ b.phase = "loaded"
               /\ b.queued = 0 \/ Skips(b) => c.save = Idle /\ c.queued = 0
               /\ b.queued # 0 /\ ~Skips(b) => Starts(b, c, TRUE)
<1>0. b.phase = "loaded" /\ b.queued \in Nat /\ b.queued <= scenario.queued
      /\ scenario.queued \in Nat /\ Len(b.hist) \in Nat
  BY Numbers, LenProperties DEF BoardInv, BoardStates
<1>1. PICK e : e = [b EXCEPT !.save = Idle]
  OBVIOUS
<1>2. /\ e \in BoardStates /\ e.save = Idle /\ e.queued = b.queued
      /\ e.disposed = b.disposed /\ Keeps(b, e)
  BY <1>1 DEF BoardStates, SaveStates, Keeps
<1>3. PICK c : c = NextTask(b)
  OBVIOUS
<1>4. CASE b.queued = 0
  <2>1. c = e
    BY <1>1, <1>3, <1>4 DEF NextTask
  <2>2. BoardInv(e)
    BY <1>0, <1>2, <1>4 DEF BoardInv, Keeps
  <2> QED
    BY <1>0, <1>2, <1>3, <1>4, <2>1, <2>2
<1>5. CASE b.queued # 0 /\ Skips(b)
  <2>1. c = [e EXCEPT !.queued = 0]
    BY <1>1, <1>3, <1>5 DEF NextTask, Skips
  <2>2. /\ c \in BoardStates /\ c.save = Idle /\ c.queued = 0
        /\ c.disposed = b.disposed /\ Keeps(b, c)
    BY <1>2, <2>1 DEF BoardStates, Keeps
  <2>3. BoardInv(c)
    BY <1>0, <2>2 DEF BoardInv, Keeps
  <2> QED
    BY <1>0, <1>3, <1>5, <2>2, <2>3
<1>6. CASE b.queued # 0 /\ ~Skips(b)
  <2>1. ~b.disposed /\ Dirty(b)
    BY <1>0, <1>6 DEF Skips, NothingToSave
  <2>2. PICK d : d = Begin(e, TRUE)
    OBVIOUS
  <2>3. e.queued <= scenario.queued /\ ~e.disposed /\ e.phase = "loaded" /\ Dirty(e)
    <3>1. e.phase = "loaded" /\ e.hist = b.hist /\ e.persisted = b.persisted
          /\ e.left = b.left
      BY <1>0, <1>1, <1>2 DEF Keeps, BoardStates
    <3> QED
      BY <1>0, <1>2, <2>1, <3>1 DEF Dirty
  <2>4. /\ d \in BoardStates /\ BoardInv(d) /\ Keeps(e, d) /\ Starts(e, d, TRUE)
        /\ d.disposed = e.disposed /\ d.queued = e.queued
    BY <1>2, <2>2, <2>3, BeginFacts
  <2>5. PICK n : n = b.queued - 1
    OBVIOUS
  <2>6. n \in Nat /\ n <= scenario.queued
    BY <1>0, <1>6, <2>5
  <2>7. c = [d EXCEPT !.queued = n]
    <3>1. ~NothingToSave(b)
      BY <1>0, <1>6 DEF Skips
    <3>2. c = [d EXCEPT !.queued = d.queued - 1]
      BY <1>1, <1>3, <1>6, <2>2, <3>1 DEF NextTask
    <3> QED
      BY <1>2, <2>4, <2>5, <3>2
  <2>8. /\ c \in BoardStates /\ c.save = d.save /\ c.queued = n
        /\ c.disposed = b.disposed /\ Keeps(d, c)
    BY <1>2, <2>4, <2>6, <2>7 DEF BoardStates, Keeps
  <2>9. Keeps(b, c)
    BY <1>2, <2>4, <2>8 DEF Keeps
  <2>10. Starts(b, c, TRUE)
    <3>1. d.save \in Saves /\ d.save.phase = "checking"
          /\ d.save.target = Len(e.hist) /\ d.save.unload = TRUE
      BY <2>4 DEF Starts
    <3>2. e.hist = b.hist
      BY <1>2 DEF Keeps
    <3> QED
      BY <2>1, <2>8, <3>1, <3>2 DEF Starts
  <2>11. BoardInv(c)
    <3>1. d.save # Idle /\ d.phase = "loaded"
      BY <2>3, <2>4, IdleFacts DEF Starts, Keeps
    <3> QED
      BY <2>4, <2>6, <2>8, <3>1, StaysBoard DEF Keeps
  <2> QED
    BY <1>0, <1>3, <1>6, <2>8, <2>9, <2>10, <2>11
<1> QED
  BY <1>4, <1>5, <1>6

LEMMA EndSaveIs ==
    ASSUME NEW v, Sound(v), NEW i \in Instances, NEW status
    PROVE  EndSave(v, i, status) =
              Continue(Continue(SetBoard(v, i, NextTask(v.boards[i])), i,
                                v.boards[i].save.unload, status),
                       i, Skips(v.boards[i]), "skipped")
<1>1. PICK b : b = v.boards[i]
  OBVIOUS
<1>2. PICK e : e = [b EXCEPT !.save = Idle]
  OBVIOUS
<1>3. NothingToSave(e) = NothingToSave(b)
  <2>1. /\ e.hist = b.hist /\ e.persisted = b.persisted /\ e.disposed = b.disposed
        /\ e.left = b.left
    BY <1>1, <1>2, BoardFacts DEF BoardStates
  <2> QED
    BY <2>1 DEF NothingToSave, Dirty
<1>4. PICK n : n = CASE b.queued > 0 /\ NothingToSave(e) -> [e EXCEPT !.queued = 0]
                     [] b.queued > 0 /\ ~(b.queued > 0 /\ NothingToSave(e)) ->
                           [Begin(e, TRUE) EXCEPT !.queued = @ - 1]
                     [] OTHER -> e
  OBVIOUS
<1>5. EndSave(v, i, status) =
         Continue(Continue([v EXCEPT !.boards[i] = n], i, b.save.unload, status),
                  i, b.queued > 0 /\ NothingToSave(e), "skipped")
  BY <1>1, <1>2, <1>4, Zenon DEF EndSave
<1>6. b.queued \in Nat
  BY <1>1, BoardFacts DEF BoardStates
<1>7. n = NextTask(b)
  <2>1. CASE b.queued = 0
    BY <1>2, <1>4, <2>1 DEF NextTask
  <2>2. CASE b.queued > 0 /\ NothingToSave(b)
    BY <1>2, <1>3, <1>4, <2>2 DEF NextTask
  <2>3. CASE b.queued > 0 /\ ~NothingToSave(b)
    BY <1>2, <1>3, <1>4, <2>3 DEF NextTask
  <2> QED
    BY <1>6, <2>1, <2>2, <2>3
<1>8. [v EXCEPT !.boards[i] = n] = SetBoard(v, i, n)
  BY Zenon DEF SetBoard
<1>9. (b.queued > 0 /\ NothingToSave(e)) = Skips(b)
  BY <1>3 DEF Skips
<1> QED
  BY <1>1, <1>5, <1>7, <1>8, <1>9, Zenon

\* Two continuations, one after the other, of the unloads of one instance.
LEMMA Continues ==
    ASSUME NEW v, Sound(v), NEW i \in Instances, v.boards[i].phase = "loaded",
           NEW first \in BOOLEAN, NEW status, NEW second \in BOOLEAN, CountInv
    PROVE  LET w == Continue(Continue(v, i, first, status), i, second, "skipped")
           IN  /\ Sound(w) /\ w.pins \subseteq v.pins
               /\ \A j \in Instances : j # i => w.boards[j] = v.boards[j]
               /\ Keeps(v.boards[i], w.boards[i])
               /\ w.boards[i].save = v.boards[i].save
               /\ w.boards[i].queued = v.boards[i].queued
               /\ \/ w.registry = v.registry /\ w.boards[i] = v.boards[i]
                  \/ /\ w.registry = None /\ w.boards[i].disposed
                     /\ v.boards[i].users = {}
                     /\ \/ second
                        \/ first /\ status # "stale" /\ (status # "failed" \/ stopping)
<1>0. \A x, y : Kept(x, y) => y.pins = x.pins /\ y.boards = x.boards
                              /\ y.registry = x.registry
  BY DEF Kept
<1>1. PICK u : u = Continue(v, i, first, status)
  OBVIOUS
<1>2. PICK w : w = Continue(u, i, second, "skipped")
  OBVIOUS
<1>3. /\ u \in Servers
      /\ Kept(v, u) \/ (Gone(v, u, i) /\ first /\ status # "stale"
                        /\ (status # "failed" \/ stopping))
  BY <1>1, ContinueFacts
<1>4. ASSUME NEW x, NEW y, Sound(x), y \in Servers, x.boards[i].phase = "loaded",
             Gone(x, y, i)
      PROVE  /\ Sound(y) /\ y.pins \subseteq x.pins /\ y.registry = None
             /\ \A j \in Instances : j # i => y.boards[j] = x.boards[j]
             /\ Keeps(x.boards[i], y.boards[i]) /\ y.boards[i].disposed
             /\ y.boards[i].save = x.boards[i].save
             /\ y.boards[i].queued = x.boards[i].queued
             /\ x.boards[i].users = {}
  <2>1. y.registry = None /\ y.pins \subseteq x.pins /\ x.boards[i].users = {}
    BY <1>4 DEF Gone
  <2>2. /\ Sound(y) /\ y.boards[i].disposed
        /\ y.boards[i].phase = x.boards[i].phase
        /\ y.boards[i].hist = x.boards[i].hist
        /\ y.boards[i].persisted = x.boards[i].persisted
        /\ y.boards[i].floor = x.boards[i].floor
        /\ y.boards[i].users = x.boards[i].users
        /\ y.boards[i].save = x.boards[i].save
        /\ y.boards[i].queued = x.boards[i].queued
        /\ y.boards[i].unload = x.boards[i].unload
        /\ y.boards[i].late = x.boards[i].late
        /\ \A j \in Instances : j # i => y.boards[j] = x.boards[j]
    BY <1>4, GoneFacts
  <2> QED
    BY <2>1, <2>2 DEF Keeps
<1>5. Sound(u) /\ u.boards[i].phase = "loaded"
  <2>1. CASE Kept(v, u)
    BY <1>0, <1>3, <2>1, KeptFacts
  <2>2. CASE Gone(v, u, i)
    BY <1>3, <1>4, <2>2 DEF Keeps
  <2> QED
    BY <1>3, <2>1, <2>2
<1>6. /\ w \in Servers
      /\ Kept(u, w) \/ (Gone(u, w, i) /\ second)
  BY <1>2, <1>5, ContinueFacts
<1>7. /\ \A b : Keeps(b, b)
      /\ \A b, c, d : Keeps(b, c) /\ Keeps(c, d) => Keeps(b, d)
      /\ \A b, c : Keeps(b, c) => c.users = b.users
  BY DEF Keeps
<1>8. CASE Kept(v, u) /\ Kept(u, w)
  <2>1. /\ Sound(w) /\ w.pins = v.pins /\ w.boards = v.boards
        /\ w.registry = v.registry
    BY <1>0, <1>5, <1>6, <1>8, KeptFacts
  <2> QED
    BY <1>1, <1>2, <1>7, <2>1
<1>9. CASE Kept(v, u) /\ Gone(u, w, i) /\ second
  <2>1. u.pins = v.pins /\ u.boards = v.boards /\ u.registry = v.registry
    BY <1>0, <1>9
  <2>2. /\ Sound(w) /\ w.pins \subseteq u.pins /\ w.registry = None
        /\ \A j \in Instances : j # i => w.boards[j] = u.boards[j]
        /\ Keeps(u.boards[i], w.boards[i]) /\ w.boards[i].disposed
        /\ w.boards[i].save = u.boards[i].save
        /\ w.boards[i].queued = u.boards[i].queued
        /\ u.boards[i].users = {}
    BY <1>4, <1>5, <1>6, <1>9
  <2> QED
    BY <1>1, <1>2, <1>9, <2>1, <2>2
<1>10. CASE /\ Gone(v, u, i) /\ first /\ status # "stale"
            /\ status # "failed" \/ stopping
  <2>1. /\ u.pins \subseteq v.pins /\ u.registry = None
        /\ \A j \in Instances : j # i => u.boards[j] = v.boards[j]
        /\ Keeps(v.boards[i], u.boards[i]) /\ u.boards[i].disposed
        /\ u.boards[i].save = v.boards[i].save
        /\ u.boards[i].queued = v.boards[i].queued
        /\ v.boards[i].users = {}
    BY <1>3, <1>4, <1>10
  <2>2. CASE Kept(u, w)
    <3>1. /\ Sound(w) /\ w.pins = u.pins /\ w.boards = u.boards
          /\ w.registry = u.registry
      BY <1>0, <1>5, <1>6, <2>2, KeptFacts
    <3> QED
      BY <1>1, <1>2, <1>10, <2>1, <3>1
  <2>3. CASE Gone(u, w, i)
    <3>1. /\ Sound(w) /\ w.pins \subseteq u.pins /\ w.registry = None
          /\ \A j \in Instances : j # i => w.boards[j] = u.boards[j]
          /\ Keeps(u.boards[i], w.boards[i]) /\ w.boards[i].disposed
          /\ w.boards[i].save = u.boards[i].save
          /\ w.boards[i].queued = u.boards[i].queued
      BY <1>4, <1>5, <1>6, <2>3
    <3>2. Keeps(v.boards[i], w.boards[i])
      BY <1>7, <2>1, <3>1
    <3> QED
      BY <1>1, <1>2, <1>10, <2>1, <3>1, <3>2
  <2> QED
    BY <1>6, <2>2, <2>3
<1> QED
  BY <1>3, <1>6, <1>8, <1>9, <1>10

\* What the end of the save of i does to a server.
Ended(v, w, i, status) ==
    LET b == v.boards[i]
        c == w.boards[i]
    IN  /\ Sound(w) /\ w.pins \subseteq v.pins
        /\ \A j \in Instances : j # i => w.boards[j] = v.boards[j]
        /\ Keeps(b, c) /\ b.phase = "loaded"
        /\ b.queued = 0 \/ Skips(b) => c.save = Idle /\ c.queued = 0
        /\ b.queued # 0 /\ ~Skips(b) => Starts(b, c, TRUE)
        /\ \/ w.registry = v.registry /\ c.disposed = b.disposed
           \/ /\ w.registry = None /\ c.disposed /\ b.users = {}
              /\ \/ Skips(b)
                 \/ /\ b.save.unload /\ status # "stale"
                    /\ status # "failed" \/ stopping

LEMMA EndSaveFacts ==
    ASSUME NEW v, Sound(v), NEW i \in Instances, NEW status, CountInv,
           v.boards[i].save # Idle
    PROVE  Ended(v, EndSave(v, i, status), i, status)
<1>1. PICK b : b = v.boards[i]
  OBVIOUS
<1>2. b \in BoardStates /\ BoardInv(b) /\ v \in Servers
  BY <1>1, BoardFacts
<1>3. PICK n : n = NextTask(b)
  OBVIOUS
<1>4. /\ n \in BoardStates /\ BoardInv(n) /\ Keeps(b, n)
      /\ n.disposed = b.disposed /\ b.phase = "loaded"
      /\ b.queued = 0 \/ Skips(b) => n.save = Idle /\ n.queued = 0
      /\ b.queued # 0 /\ ~Skips(b) => Starts(b, n, TRUE)
  BY <1>1, <1>2, <1>3, NextTaskFacts
<1>5. PICK u : u = SetBoard(v, i, n)
  OBVIOUS
<1>6. /\ u.registry = v.registry /\ u.pins = v.pins /\ u.boards[i] = n
      /\ \A j \in Instances : j # i => u.boards[j] = v.boards[j]
  BY <1>2, <1>4, <1>5, SetBoardFacts
<1>7. n.phase = "loaded" /\ n.users = b.users
  BY <1>4 DEF Keeps
<1>8. Sound(u)
  <2>1. v.registry = i => ~b.disposed
    BY <1>1 DEF Sound, Instances, None
  <2> QED
    BY <1>4, <1>5, <1>7, <2>1, SetBoardSound
<1>9. b.save.unload \in BOOLEAN /\ Skips(b) \in BOOLEAN
  BY <1>1, <1>2, IdleFacts DEF BoardStates, Skips
<1>10. PICK w : w = EndSave(v, i, status)
  OBVIOUS
<1>11. w = Continue(Continue(u, i, b.save.unload, status), i, Skips(b), "skipped")
  BY <1>1, <1>3, <1>5, <1>10, EndSaveIs
<1>12. /\ Sound(w) /\ w.pins \subseteq u.pins
       /\ \A j \in Instances : j # i => w.boards[j] = u.boards[j]
       /\ Keeps(n, w.boards[i])
       /\ w.boards[i].save = n.save /\ w.boards[i].queued = n.queued
       /\ \/ w.registry = u.registry /\ w.boards[i] = n
          \/ /\ w.registry = None /\ w.boards[i].disposed /\ n.users = {}
             /\ \/ Skips(b)
                \/ /\ b.save.unload /\ status # "stale"
                   /\ status # "failed" \/ stopping
  BY <1>6, <1>7, <1>8, <1>9, <1>11, Continues
<1>13. Keeps(b, w.boards[i])
  BY <1>4, <1>12 DEF Keeps
<1>14. b.queued # 0 /\ ~Skips(b) => Starts(b, w.boards[i], TRUE)
  BY <1>4, <1>12 DEF Starts
<1> QED
  BY <1>1, <1>4, <1>6, <1>7, <1>10, <1>12, <1>13, <1>14 DEF Ended

-----------------------------------------------------------------------------
(* The other steps of the handlers *)

\* An unload waits for the load.
Waits(b) == [b EXCEPT !.unload = TRUE]

LEMMA UnloadWaits ==
    ASSUME NEW v, Sound(v), NEW i \in Instances,
           v.boards[i].phase \notin {"free", "loaded"}
    PROVE  LET w == Unload(v, i)
               c == w.boards[i]
           IN  /\ Sound(w) /\ w.pins = v.pins /\ w.registry = v.registry
               /\ \A j \in Instances : j # i => w.boards[j] = v.boards[j]
               /\ c \in BoardStates /\ c.unload /\ c.disposed = v.boards[i].disposed
               /\ c.phase = v.boards[i].phase /\ c.hist = v.boards[i].hist
               /\ c.persisted = v.boards[i].persisted /\ c.save = v.boards[i].save
               /\ c.queued = v.boards[i].queued /\ c.users = v.boards[i].users
               /\ c.late = v.boards[i].late
<1>1. PICK b : b = v.boards[i]
  OBVIOUS
<1>2. b \in BoardStates /\ BoardInv(b) /\ v \in Servers
  BY <1>1, BoardFacts
<1>3. PICK c : c = Waits(b)
  OBVIOUS
<1>4. /\ c \in BoardStates /\ c.unload /\ c.disposed = b.disposed
      /\ c.phase = b.phase /\ c.hist = b.hist /\ c.save = b.save
      /\ c.queued = b.queued /\ c.users = b.users /\ c.persisted = b.persisted
      /\ c.late = b.late
  BY <1>2, <1>3 DEF BoardStates, Waits
<1>5. BoardInv(c)
  BY <1>1, <1>2, <1>4 DEF BoardInv
<1>6. PICK w : w = SetBoard(v, i, c)
  OBVIOUS
<1>7. Unload(v, i) = w
  <2>1. Unload(v, i) = [v EXCEPT !.boards[i].unload = TRUE]
    BY DEF Unload
  <2>2. [v EXCEPT !.boards[i].unload = TRUE] = SetBoard(v, i, Waits(v.boards[i]))
    BY Zenon DEF SetBoard, Waits
  <2> QED
    BY <1>1, <1>3, <1>6, <2>1, <2>2, Zenon
<1>8. /\ w.registry = v.registry /\ w.pins = v.pins /\ w.boards[i] = c
      /\ \A j \in Instances : j # i => w.boards[j] = v.boards[j]
  BY <1>2, <1>4, <1>6, SetBoardFacts
<1>9. Sound(w)
  <2>1. v.registry = i => c.phase # "free" /\ ~c.disposed
    BY <1>1, <1>4 DEF Sound, None, Instances
  <2> QED
    BY <1>4, <1>5, <1>6, <2>1, SetBoardSound
<1> QED
  BY <1>1, <1>4, <1>7, <1>8, <1>9

\* The instance is dropped.
LEMMA DropFacts ==
    ASSUME NEW v, Sound(v), NEW i \in Instances
    PROVE  LET w == Drop(v, i)
               c == w.boards[i]
           IN  /\ Sound(w) /\ w.pins = v.pins
               /\ v.registry # i => w = v
               /\ v.registry = i => w.registry = None
               /\ \A j \in Instances : j # i => w.boards[j] = v.boards[j]
               /\ c.phase = v.boards[i].phase /\ c.hist = v.boards[i].hist
               /\ c.save = v.boards[i].save /\ c.queued = v.boards[i].queued
<1>1. CASE v.registry # i
  BY <1>1 DEF Drop
<1>2. CASE v.registry = i
  <2>1. PICK b : b = v.boards[i]
    OBVIOUS
  <2>2. b \in BoardStates /\ BoardInv(b) /\ v \in Servers
    BY <2>1, BoardFacts
  <2>3. PICK c : c = [b EXCEPT !.disposed = TRUE, !.users = {}]
    OBVIOUS
  <2>4. /\ c \in BoardStates /\ c.disposed /\ c.users = {}
        /\ c.phase = b.phase /\ c.hist = b.hist /\ c.save = b.save
        /\ c.queued = b.queued
    BY <2>2, <2>3 DEF BoardStates
  <2>5. b.phase # "free"
    BY <1>2, <2>1 DEF Sound, None, Instances
  <2>6. BoardInv(c)
    BY <2>2, <2>4, <2>5 DEF BoardInv
  <2>7. PICK u : u = [v EXCEPT !.registry = None]
    OBVIOUS
  <2>8. /\ u \in Servers /\ u.registry = None /\ u.boards = v.boards
        /\ u.pins = v.pins
    BY <2>2, <2>7 DEF Servers
  <2>9. Sound(u)
    BY <2>8 DEF Sound
  <2>10. Drop(v, i) = SetBoard(u, i, c)
    <3>1. PICK f : f = [v.boards EXCEPT ![i] = c]
      OBVIOUS
    <3>2. Drop(v, i) = [v EXCEPT !.registry = None, !.boards = f]
      <4>1. \A g : [g EXCEPT ![i] = [[v.boards[i] EXCEPT !.disposed = TRUE]
                                     EXCEPT !.users = {}]]
                   = [g EXCEPT ![i] = c]
        BY <2>1, <2>3
      <4> QED
        BY <1>2, <2>1, <2>2, <2>3, <3>1 DEF Drop, Servers, BoardStates
    <3>3. SetBoard(u, i, c) = [v EXCEPT !.registry = None, !.boards = f]
      BY <2>2, <2>7, <2>8, <3>1 DEF SetBoard, Servers
    <3> QED
      BY <3>2, <3>3
  <2>11. PICK w : w = SetBoard(u, i, c)
    OBVIOUS
  <2>12. /\ w.registry = u.registry /\ w.pins = u.pins /\ w.boards[i] = c
         /\ \A j \in Instances : j # i => w.boards[j] = u.boards[j]
    BY <2>4, <2>8, <2>11, SetBoardFacts
  <2>13. Sound(w)
    <3>1. u.registry # i
      BY <2>8 DEF None, Instances
    <3> QED
      BY <2>4, <2>6, <2>9, <2>11, <3>1, SetBoardSound
  <2> QED
    BY <1>2, <2>1, <2>4, <2>8, <2>10, <2>11, <2>12, <2>13
<1> QED
  BY <1>1, <1>2

-----------------------------------------------------------------------------
(* Contents *)

\* A sequence of writes that has its place in every assignment of places.
Known(u) ==
    /\ u \in Seq(Nat)
    /\ \A f \in [Nat -> Nat] : Shown(f) => Placed(u, f, Bound)

\* The same, for a sequence that the next write has been appended to as number n.
Grown(u, n) == \E t : Known(t) /\ Len(t) + 1 = n /\ u = Append(t, NextWrite)

GoodServer(v) == Sound(v) /\ \A i \in Instances : Known(v.boards[i].hist)
GoodPage(p) == p \in PageStates /\ PageInv(p) /\ Known(p.view)
GoodPages(pages) == pages \in [Sockets -> PageStates]
                    /\ \A s \in Sockets : GoodPage(pages[s])

LEMMA PrefixFacts ==
    ASSUME NEW u \in Seq(Nat), NEW n \in Nat, n <= Len(u)
    PROVE  /\ Prefix(u, n) \in Seq(Nat) /\ Len(Prefix(u, n)) = n
           /\ \A m \in 1 .. n : Prefix(u, n)[m] = u[m]
<1>1. Len(u) \in Nat
  BY LenProperties
<1>2. PICK t : t = SubSeq(u, 1, n)
  OBVIOUS
<1>3. n = 0 \/ (n >= 1 /\ 1 \in 1 .. Len(u) + 1 /\ n \in 0 .. Len(u))
  BY <1>1
<1>4. t \in Seq(Nat) /\ Len(t) = n /\ \A m \in 1 .. n : t[m] = u[m]
  BY <1>1, <1>2, SubSeqProperties
<1> QED
  BY <1>2, <1>4 DEF Prefix

LEMMA Replayed ==
    ASSUME NEW u \in Seq(Nat), NEW t \in Seq(Nat), Len(u) <= Len(t)
    PROVE  LET c == u \o SubSeq(t, Len(u) + 1, Len(t))
           IN  /\ c \in Seq(Nat) /\ Len(c) = Len(t)
               /\ \A m \in 1 .. Len(u) : c[m] = u[m]
               /\ \A m \in 1 .. Len(t) : m > Len(u) => c[m] = t[m]
<1>1. PICK k \in Nat : k = Len(u)
  BY LenProperties
<1>2. PICK l \in Nat : l = Len(t)
  BY LenProperties
<1>3. PICK r : r = SubSeq(t, k + 1, l)
  OBVIOUS
<1>4. \A x, y \in Nat : x <= y => /\ x + 1 \in 1 .. y + 1 /\ y \in x .. y
                                 /\ y - (x + 1) + 1 = y - x /\ y - x \in Nat
                                 /\ x + (y - x) = y
                                 /\ \A m \in 1 .. y : m > x => m - x \in 1 .. y - x
                                 /\ \A d \in 1 .. y - x : x + 1 + d - 1 = x + d
  OBVIOUS
<1>5. r \in Seq(Nat) /\ Len(r) = l - k /\ \A m \in 1 .. l - k : r[m] = t[k + m]
  <2>1. k + 1 \in 1 .. Len(t) + 1 /\ Len(t) \in k + 1 - 1 .. Len(t)
    BY <1>1, <1>2
  <2> QED
    BY <1>1, <1>2, <1>3, SubSeqProperties
<1>6. PICK c : c = u \o r
  OBVIOUS
<1>7. /\ c \in Seq(Nat) /\ Len(c) = Len(u) + Len(r)
      /\ \A m \in 1 .. Len(u) + Len(r) : c[m] = IF m <= Len(u) THEN u[m] ELSE r[m - Len(u)]
  BY <1>5, <1>6, ConcatProperties
<1>8. Len(c) = l /\ \A m \in 1 .. l : c[m] = IF m <= k THEN u[m] ELSE r[m - k]
  BY <1>1, <1>2, <1>5, <1>7
<1>9. \A m \in 1 .. l : m > k => m - k \in 1 .. l - k /\ k + (m - k) = m
  BY <1>1, <1>2
<1>10. \A m \in 1 .. l : m > k => c[m] = t[m]
  BY <1>5, <1>8, <1>9
<1>11. \A m \in 1 .. k : c[m] = u[m]
  <2>1. \A m \in 1 .. k : m \in 1 .. l /\ m <= k
    BY <1>1, <1>2
  <2> QED
    BY <1>8, <2>1
<1> QED
  BY <1>1, <1>2, <1>3, <1>6, <1>7, <1>8, <1>10, <1>11

LEMMA KnownFacts ==
    ASSUME IInv
    PROVE  /\ Known(disk) /\ Known(<< >>) /\ Bound \in Nat
           /\ GoodServer(Server) /\ GoodPages(socks)
<1>1. Bound \in Nat
  BY Numbers DEF IInv
<1>2. << >> \in Seq(Nat) /\ Len(<< >>) = 0
  BY EmptySeq
<1>3. Known(<< >>)
  BY <1>1, <1>2 DEF Known, Placed
<1>4. Known(disk)
  BY DEF IInv, PagesInv, Known, Shown
<1>5. \A i \in Instances : Known(boards[i].hist)
  <2>1. \A i \in Instances : boards[i] \in BoardStates
    BY DEF IInv, Sound, Servers, Server
  <2> QED
    BY <2>1 DEF Known, Shown, BoardStates
<1>6. GoodServer(Server)
  BY <1>5 DEF GoodServer, IInv, Server
<1>7. GoodPages(socks)
  BY DEF GoodPages, GoodPage, Known, Shown, IInv, PagesInv, PageStates
<1> QED
  BY <1>1, <1>3, <1>4, <1>6, <1>7

LEMMA KnownPrefix ==
    ASSUME NEW u, Known(u), NEW n \in Nat, n <= Len(u), Bound \in Nat
    PROVE  Known(Prefix(u, n))
<1>1. PICK t : t = Prefix(u, n)
  OBVIOUS
<1>2. u \in Seq(Nat) /\ Len(u) \in Nat
  BY LenProperties DEF Known
<1>3. t \in Seq(Nat) /\ Len(t) = n /\ \A m \in 1 .. n : t[m] = u[m]
  BY <1>1, <1>2, PrefixFacts
<1>4. \A m \in 1 .. n : m \in 1 .. Len(u)
  BY <1>2
<1>5. ASSUME NEW f \in [Nat -> Nat], Shown(f)
      PROVE  Placed(t, f, Bound)
  <2>1. Len(u) <= Bound /\ \A m \in 1 .. Len(u) : u[m] \in 1 .. Bound /\ f[u[m]] = m
    BY <1>5 DEF Placed, Known
  <2>2. \A l, k \in Nat : n <= l /\ l <= k => n <= k
    OBVIOUS
  <2>3. n <= Bound
    BY <1>2, <2>1, <2>2
  <2> QED
    BY <1>3, <1>4, <2>1, <2>3 DEF Placed
<1> QED
  BY <1>1, <1>3, <1>5 DEF Known

LEMMA KnownReplay ==
    ASSUME NEW u, Known(u), NEW t, Known(t), Len(u) <= Len(t)
    PROVE  Known(u \o SubSeq(t, Len(u) + 1, Len(t)))
<1>1. PICK c : c = u \o SubSeq(t, Len(u) + 1, Len(t))
  OBVIOUS
<1>2. u \in Seq(Nat) /\ t \in Seq(Nat) /\ Len(u) \in Nat /\ Len(t) \in Nat
  BY LenProperties DEF Known
<1>3. /\ c \in Seq(Nat) /\ Len(c) = Len(t)
      /\ \A m \in 1 .. Len(u) : c[m] = u[m]
      /\ \A m \in 1 .. Len(t) : m > Len(u) => c[m] = t[m]
  BY <1>1, <1>2, Replayed
<1>4. ASSUME NEW f \in [Nat -> Nat], Shown(f)
      PROVE  Placed(c, f, Bound)
  <2>1. Placed(u, f, Bound) /\ Placed(t, f, Bound)
    BY <1>4 DEF Known
  <2>2. \A m \in 1 .. Len(t) : m \in 1 .. Len(u) \/ m > Len(u)
    BY <1>2
  <2> QED
    BY <1>3, <2>1, <2>2 DEF Placed
<1> QED
  BY <1>1, <1>3, <1>4 DEF Known

-----------------------------------------------------------------------------
(* The end of a turn *)

LEMMA NextSound ==
    ASSUME NEW v, Sound(v), Install(v), scenario' = scenario
    PROVE  Sound(Server)'
<1>1. v \in Servers
  BY DEF Sound
<1>2. v = [registry |-> v.registry, boards |-> v.boards, pins |-> v.pins,
           retry |-> v.retry]
  BY <1>1 DEF Servers
<1>3. v = Server'
  BY <1>2 DEF Install, Server
<1>4. Servers' = Servers
  BY DEF Servers, Timers
<1>5. \A b : BoardInv(b)' <=> BoardInv(b)
  BY DEF BoardInv
<1> QED
  BY <1>3, <1>4, <1>5 DEF Sound

\* Nothing is accepted in this turn.
LEMMA Quietly ==
    ASSUME IInv, NEW v, GoodServer(v), Install(v), GoodPages(socks'), Known(disk'),
           stopping' \in BOOLEAN, CountInv', scenario' = scenario, Bound' = Bound
    PROVE  IInv'
<1>1. Sound(Server)'
  BY NextSound DEF GoodServer
<1>2. PagesInv'
  BY DEF PagesInv, GoodPages, GoodPage, Known, PageInv, PageStates
<1>3. PlacesInv'
  <2>1. PICK f \in [Nat -> Nat] : Shown(f)
    BY DEF IInv, PlacesInv
  <2>2. \A u : Known(u) => Placed(u, f, Bound)
    BY <2>1 DEF Known
  <2>3. boards' = v.boards
    BY DEF Install
  <2>4. Shown(f)'
    BY <2>2, <2>3 DEF Shown, GoodServer, GoodPages, GoodPage, Placed
  <2> QED
    BY <2>4 DEF PlacesInv
<1> QED
  BY <1>1, <1>2, <1>3 DEF IInv

LEMMA PlacedGrows ==
    ASSUME NEW f \in [Nat -> Nat], NEW k \in Nat, NEW n \in Nat
    PROVE  \E g \in [Nat -> Nat] :
              \A u \in Seq(Nat) : Placed(u, f, k) =>
                 /\ Placed(u, g, k + 1)
                 /\ Len(u) + 1 = n => Placed(Append(u, k + 1), g, k + 1)
<1>1. PICK g : g = [f EXCEPT ![k + 1] = n]
  OBVIOUS
<1>2. g \in [Nat -> Nat] /\ g[k + 1] = n /\ \A m \in 1 .. k : g[m] = f[m]
  BY <1>1
<1>3. ASSUME NEW u \in Seq(Nat), Placed(u, f, k)
      PROVE  /\ Placed(u, g, k + 1)
             /\ Len(u) + 1 = n => Placed(Append(u, k + 1), g, k + 1)
  <2>1. PICK l \in Nat : l = Len(u)
    BY LenProperties
  <2>2. l <= k /\ \A m \in 1 .. l : u[m] \in 1 .. k + 1 /\ g[u[m]] = m
    <3>1. l <= k /\ \A m \in 1 .. l : u[m] \in 1 .. k /\ f[u[m]] = m
      BY <1>3, <2>1 DEF Placed
    <3>2. \A x \in 1 .. k : x \in 1 .. k + 1
      OBVIOUS
    <3> QED
      BY <1>2, <3>1, <3>2
  <2>3. PICK a : a = Append(u, k + 1)
    OBVIOUS
  <2>4. Len(a) = l + 1 /\ a[l + 1] = k + 1 /\ \A m \in 1 .. l : a[m] = u[m]
    BY <2>1, <2>3, AppendProperties
  <2>5. /\ \A m \in 1 .. l + 1 : m = l + 1 \/ m \in 1 .. l
        /\ l + 1 <= k + 1 /\ l <= k + 1 /\ k + 1 \in 1 .. k + 1
    <3>1. \A x, y \in Nat : x <= y =>
             /\ \A m \in 1 .. x + 1 : m = x + 1 \/ m \in 1 .. x
             /\ x + 1 <= y + 1 /\ x <= y + 1 /\ y + 1 \in 1 .. y + 1
      OBVIOUS
    <3> QED
      BY <2>2, <3>1
  <2>6. l + 1 = n => \A m \in 1 .. l + 1 : a[m] \in 1 .. k + 1 /\ g[a[m]] = m
    <3>1. ASSUME l + 1 = n, NEW m \in 1 .. l + 1
          PROVE  a[m] \in 1 .. k + 1 /\ g[a[m]] = m
      <4>1. CASE m = l + 1
        BY <1>2, <2>4, <2>5, <3>1, <4>1
      <4>2. CASE m \in 1 .. l
        BY <2>2, <2>4, <4>2
      <4> QED
        BY <2>5, <4>1, <4>2
    <3> QED
      BY <3>1
  <2>7. l + 1 = n => Placed(a, g, k + 1)
    BY <2>4, <2>5, <2>6 DEF Placed
  <2>8. Placed(u, g, k + 1)
    BY <2>1, <2>2, <2>5 DEF Placed
  <2> QED
    BY <2>1, <2>3, <2>7, <2>8
<1> QED
  BY <1>2, <1>3

\* Write number n of an instance is accepted, or another process writes it.
LEMMA Growing ==
    ASSUME IInv, NEW n \in Nat, NEW v, Sound(v), Install(v),
           \A i \in Instances : Known(v.boards[i].hist) \/ Grown(v.boards[i].hist, n),
           socks' \in [Sockets -> PageStates],
           \A s \in Sockets : PageInv(socks'[s])
                              /\ (Known(socks'[s].view) \/ Grown(socks'[s].view, n)),
           Known(disk') \/ Grown(disk', n), stopping' \in BOOLEAN, CountInv',
           scenario' = scenario, Bound' = Bound + 1
    PROVE  IInv'
<1>1. Sound(Server)'
  BY NextSound
<1>2. Bound \in Nat /\ NextWrite = Bound + 1
  BY Numbers DEF IInv, CountInv, Bound, NextWrite
<1>3. PICK f \in [Nat -> Nat] : Shown(f)
  BY DEF IInv, PlacesInv
<1>4. PICK g \in [Nat -> Nat] :
         \A u \in Seq(Nat) : Placed(u, f, Bound) =>
            /\ Placed(u, g, Bound + 1)
            /\ Len(u) + 1 = n => Placed(Append(u, Bound + 1), g, Bound + 1)
  BY <1>2, PlacedGrows
<1>5. \A u : Known(u) \/ Grown(u, n) => u \in Seq(Nat) /\ Placed(u, g, Bound + 1)
  <2>1. \A u : Known(u) => u \in Seq(Nat) /\ Placed(u, f, Bound)
    BY <1>3 DEF Known
  <2>2. \A u : Grown(u, n) => u \in Seq(Nat) /\ Placed(u, g, Bound + 1)
    <3>1. \A t \in Seq(Nat) : Append(t, Bound + 1) \in Seq(Nat)
      BY <1>2, AppendProperties
    <3> QED
      BY <1>2, <1>4, <2>1, <3>1 DEF Grown
  <2> QED
    BY <1>4, <2>1, <2>2
<1>6. PagesInv'
  BY <1>5 DEF PagesInv, PageInv
<1>7. PlacesInv'
  <2>1. boards' = v.boards
    BY DEF Install
  <2>2. Shown(g)'
    BY <1>5, <2>1 DEF Shown, Placed
  <2> QED
    BY <2>2 DEF PlacesInv
<1> QED
  BY <1>1, <1>6, <1>7 DEF IInv

-----------------------------------------------------------------------------
(* Connecting, joining and writing *)

\* One instance changes, and neither appears nor disappears.
LEMMA Changed ==
    ASSUME NEW v, Sound(v), NEW i \in Instances, NEW c \in BoardStates, BoardInv(c),
           c.phase = "free" <=> v.boards[i].phase = "free",
           c.disposed = v.boards[i].disposed
    PROVE  LET w == SetBoard(v, i, c)
           IN  /\ Sound(w) /\ w.registry = v.registry /\ w.pins = v.pins
               /\ w.boards[i] = c
               /\ \A j \in Instances : j # i => w.boards[j] = v.boards[j]
<1>1. v \in Servers
  BY DEF Sound
<1>2. v.registry = i => c.phase # "free" /\ ~c.disposed
  BY DEF Sound, None, Instances
<1>3. Sound(SetBoard(v, i, c))
  BY <1>2, SetBoardSound
<1> QED
  BY <1>1, <1>3, SetBoardFacts

LEMMA ChangedGood ==
    ASSUME NEW v, GoodServer(v), NEW i \in Instances, NEW w, Sound(w),
           Known(w.boards[i].hist),
           \A j \in Instances : j # i => w.boards[j] = v.boards[j]
    PROVE  GoodServer(w)
BY DEF GoodServer

\* getBoard returns the registered instance, or registers a free one.
Opening(b) == [b EXCEPT !.phase = "opening"]

LEMMA LoadingFacts ==
    ASSUME NEW v, Sound(v), NEW i \in Instances, GetBoard(v, i)
    PROVE  LET w == Loading(v, i)
           IN  /\ Sound(w) /\ w.registry = i /\ w.pins = v.pins
               /\ w.boards[i].phase # "free" /\ w.boards[i].hist = v.boards[i].hist
               /\ \A j \in Instances : j # i => w.boards[j] = v.boards[j]
               /\ v.registry # None => v.registry = i /\ w = v
               /\ v.registry = None => v.boards[i] = FreeBoard
                                       /\ w.boards[i] = Opening(FreeBoard)
<1>1. CASE v.registry # None
  BY <1>1 DEF Loading, GetBoard, Sound
<1>2. CASE v.registry = None
  <2>1. v.boards[i] = FreeBoard /\ v \in Servers
    BY <1>2, BoardFacts DEF GetBoard, BoardInv
  <2>2. PICK c : c = Opening(FreeBoard)
    OBVIOUS
  <2>3. /\ c \in BoardStates /\ c.phase = "opening" /\ c.hist = FreeBoard.hist
        /\ c.save = FreeBoard.save /\ c.queued = FreeBoard.queued
        /\ c.disposed = FreeBoard.disposed
    BY <2>2, FreeFacts DEF Opening, BoardStates, BoardPhases
  <2>4. BoardInv(c)
    <3>1. BoardInv(FreeBoard)
      BY <2>1, BoardFacts
    <3> QED
      BY <2>3, <3>1, FreeFacts DEF BoardInv
  <2>5. PICK u : u = SetBoard(v, i, c)
    OBVIOUS
  <2>6. /\ Sound(u) /\ u.registry = v.registry /\ u.pins = v.pins /\ u.boards[i] = c
        /\ \A j \in Instances : j # i => u.boards[j] = v.boards[j]
    <3>1. v.registry # i
      BY <1>2 DEF None, Instances
    <3> QED
      BY <2>1, <2>3, <2>4, <2>5, <3>1, SetBoardSound, SetBoardFacts
  <2>7. PICK w : w = [u EXCEPT !.registry = i]
    OBVIOUS
  <2>8. /\ w \in Servers /\ w.registry = i /\ w.pins = u.pins /\ w.boards = u.boards
    BY <2>6, <2>7 DEF Sound, Servers
  <2>9. Sound(w)
    BY <2>3, <2>6, <2>8, FreeFacts DEF Sound
  <2>10. Loading(v, i) = w
    <3>1. Loading(v, i) = [v EXCEPT !.registry = i, !.boards[i].phase = "opening"]
      BY <1>2 DEF Loading
    <3>2. PICK f : f = [v.boards EXCEPT ![i] = c]
      OBVIOUS
    <3>3. [v EXCEPT !.registry = i, !.boards[i].phase = "opening"]
             = [v EXCEPT !.registry = i, !.boards = f]
      <4>1. c = [v.boards[i] EXCEPT !.phase = "opening"]
        BY <2>1, <2>2 DEF Opening
      <4> QED
        BY <2>1, <3>2, <4>1 DEF Servers
    <3>4. w = [v EXCEPT !.registry = i, !.boards = f]
      BY <2>1, <2>5, <2>7, <3>2 DEF SetBoard, Servers
    <3> QED
      BY <3>1, <3>3, <3>4
  <2> QED
    BY <1>2, <2>1, <2>2, <2>3, <2>6, <2>8, <2>9, <2>10
<1> QED
  BY <1>1, <1>2

LEMMA LoadingGood ==
    ASSUME NEW v, GoodServer(v), NEW i \in Instances, GetBoard(v, i)
    PROVE  GoodServer(Loading(v, i))
<1>1. PICK w : w = Loading(v, i)
  OBVIOUS
<1>2. /\ Sound(w) /\ w.boards[i].hist = v.boards[i].hist
      /\ \A j \in Instances : j # i => w.boards[j] = v.boards[j]
  BY <1>1, LoadingFacts DEF GoodServer
<1>3. Known(w.boards[i].hist)
  BY <1>2 DEF GoodServer
<1> QED
  BY <1>1, <1>2, <1>3, ChangedGood

\* The users of an instance change.
UsedBy(b, U) == [b EXCEPT !.users = U]
WithUsers(v, i, U) == [v EXCEPT !.boards[i].users = U]

LEMMA UsersFacts ==
    ASSUME NEW v, Sound(v), NEW i \in Instances, NEW U \in SUBSET Sockets,
           v.boards[i].phase # "free"
    PROVE  LET w == WithUsers(v, i, U)
               b == v.boards[i]
               c == w.boards[i]
           IN  /\ Sound(w) /\ w.registry = v.registry /\ w.pins = v.pins
               /\ \A j \in Instances : j # i => w.boards[j] = v.boards[j]
               /\ c.users = U
               /\ c.phase = b.phase /\ c.hist = b.hist /\ c.persisted = b.persisted
               /\ c.floor = b.floor /\ c.disposed = b.disposed /\ c.save = b.save
               /\ c.queued = b.queued /\ c.unload = b.unload /\ c.late = b.late
<1>1. PICK b : b = v.boards[i]
  OBVIOUS
<1>2. b \in BoardStates /\ BoardInv(b) /\ v \in Servers
  BY <1>1, BoardFacts
<1>3. PICK c : c = UsedBy(b, U)
  OBVIOUS
<1>4. /\ c \in BoardStates /\ c.users = U
      /\ c.phase = b.phase /\ c.hist = b.hist /\ c.persisted = b.persisted
      /\ c.floor = b.floor /\ c.disposed = b.disposed /\ c.save = b.save
      /\ c.queued = b.queued /\ c.unload = b.unload /\ c.late = b.late
  BY <1>2, <1>3 DEF BoardStates, UsedBy
<1>5. BoardInv(c)
  BY <1>1, <1>2, <1>4 DEF BoardInv
<1>6. PICK w : w = SetBoard(v, i, c)
  OBVIOUS
<1>7. WithUsers(v, i, U) = w
  <2>1. WithUsers(v, i, U) = SetBoard(v, i, UsedBy(v.boards[i], U))
    BY Zenon DEF SetBoard, UsedBy, WithUsers
  <2> QED
    BY <1>1, <1>3, <1>6, <2>1, Zenon
<1>8. /\ Sound(w) /\ w.registry = v.registry /\ w.pins = v.pins /\ w.boards[i] = c
      /\ \A j \in Instances : j # i => w.boards[j] = v.boards[j]
  BY <1>1, <1>4, <1>5, <1>6, Changed
<1> QED
  BY <1>1, <1>4, <1>7, <1>8

LEMMA HandshakeFacts ==
    ASSUME NEW v, GoodServer(v), NEW i \in Instances, NEW p, GoodPage(p), Known(<< >>)
    PROVE  LET q == Handshake(v, p, i)
           IN  /\ GoodPage(q)
               /\ q.at \in {"joined", "probing", "away"}
               /\ Joins(v, p, i) => /\ q.at = "joined" /\ q.inst = i
                                    /\ q.view = p.view \o ReplayBatch(v.boards[i], Len(p.view))
               /\ ~Joins(v, p, i) /\ Len(p.view) <= Len(v.boards[i].hist) => q = Away
<1>1. PICK q : q = Handshake(v, p, i)
  OBVIOUS
<1>2. PICK b : b = v.boards[i]
  OBVIOUS
<1>3. /\ b \in BoardStates /\ Known(b.hist) /\ Known(p.view) /\ p \in PageStates
      /\ p.view \in Seq(Nat) /\ b.hist \in Seq(Nat)
  BY <1>2, BoardFacts DEF GoodServer, GoodPage, Known
<1>4. PICK m \in Nat : m = Len(p.view)
  BY <1>3, LenProperties
<1>5. PICK n \in Nat : n = Len(b.hist)
  BY <1>3, LenProperties
<1>6. CASE Joins(v, p, i)
  <2>1. m <= n
    BY <1>2, <1>4, <1>5, <1>6 DEF Joins, Replayable
  <2>2. PICK c : c = p.view \o ReplayBatch(b, Len(p.view))
    OBVIOUS
  <2>3. Known(c)
    BY <1>3, <1>4, <1>5, <2>1, <2>2, KnownReplay DEF ReplayBatch
  <2>4. q = [Away EXCEPT !.at = "joined", !.inst = i, !.view = c]
    <3>1. ~(Len(p.view) > Len(b.hist) /\ ~p.probed)
      BY <1>4, <1>5, <2>1
    <3> QED
      BY <1>1, <1>2, <1>6, <2>2, <3>1 DEF Handshake
  <2>5. q \in PageStates /\ q.at = "joined" /\ q.inst = i /\ q.view = c
    BY <2>3, <2>4, AwayFacts DEF Known, PageStates, Places
  <2>6. GoodPage(q)
    BY <2>3, <2>5 DEF GoodPage, PageInv, None, Instances
  <2> QED
    BY <1>1, <1>2, <1>6, <2>2, <2>5, <2>6
<1>7. CASE ~Joins(v, p, i) /\ m > n /\ ~p.probed
  <2>1. q = [p EXCEPT !.at = "probing", !.inst = i, !.latest = n]
    BY <1>1, <1>2, <1>4, <1>5, <1>7 DEF Handshake
  <2>2. q \in PageStates /\ q.at = "probing" /\ q.inst = i /\ q.view = p.view
    BY <1>3, <2>1 DEF PageStates, Places
  <2>3. GoodPage(q)
    BY <1>3, <2>2 DEF GoodPage, PageInv, None, Instances
  <2>4. ~(m <= n)
    BY <1>7
  <2> QED
    BY <1>1, <1>2, <1>4, <1>5, <1>7, <2>2, <2>3, <2>4
<1>8. CASE ~Joins(v, p, i) /\ ~(m > n /\ ~p.probed)
  <2>1. q = Away
    BY <1>1, <1>2, <1>4, <1>5, <1>8 DEF Handshake
  <2>2. GoodPage(Away)
    BY AwayFacts DEF GoodPage
  <2> QED
    BY <1>1, <1>8, <2>1, <2>2, AwayFacts
<1> QED
  BY <1>6, <1>7, <1>8

LEMMA GoodAway ==
    ASSUME Known(<< >>)
    PROVE  GoodPage(Away)
BY AwayFacts DEF GoodPage

LEMMA EnterFacts ==
    ASSUME Known(<< >>), NEW v, GoodServer(v), NEW i \in Instances,
           v.boards[i].phase # "free", NEW pages, GoodPages(pages), NEW s \in Sockets,
           Enter(v, pages, s, i)
    PROVE  /\ GoodPages(socks')
           /\ \E w : GoodServer(w) /\ Install(w)
<1>1. PICK w : /\ w = IF v.boards[i].phase = "loaded" /\ Joins(v, pages[s], i)
                      THEN WithUsers(v, i, v.boards[i].users \cup {s}) ELSE v
               /\ Install(w)
  BY Zenon DEF Enter, WithUsers
<1>2. GoodServer(w)
  <2>1. CASE w = v
    BY <2>1
  <2>2. CASE w = WithUsers(v, i, v.boards[i].users \cup {s})
    <3>1. v.boards[i].users \cup {s} \in SUBSET Sockets /\ Sound(v)
      BY BoardFacts DEF GoodServer, BoardStates
    <3>2. /\ Sound(w) /\ w.boards[i].hist = v.boards[i].hist
          /\ \A j \in Instances : j # i => w.boards[j] = v.boards[j]
      BY <2>2, <3>1, UsersFacts
    <3>3. Known(w.boards[i].hist)
      BY <3>2 DEF GoodServer
    <3> QED
      BY <3>2, <3>3, ChangedGood
  <2> QED
    BY <1>1, <2>1, <2>2
<1>3. GoodPages(socks')
  <2>1. PICK q : q = IF v.boards[i].phase = "loaded" THEN Handshake(v, pages[s], i)
                     ELSE [pages[s] EXCEPT !.at = "loading", !.inst = i]
    OBVIOUS
  <2>2. pages \in [Sockets -> PageStates] /\ GoodPage(pages[s])
    BY DEF GoodPages
  <2>3. GoodPage(q)
    <3>1. CASE q = Handshake(v, pages[s], i)
      BY <2>2, <3>1, HandshakeFacts
    <3>2. CASE q = [pages[s] EXCEPT !.at = "loading", !.inst = i]
      <4>1. PICK p : p = pages[s]
        OBVIOUS
      <4>2. q \in PageStates /\ q.view = p.view /\ q.inst = i
        BY <2>2, <3>2, <4>1 DEF GoodPage, PageStates, Places
      <4> QED
        BY <2>2, <4>1, <4>2 DEF GoodPage, PageInv, None, Instances
    <3> QED
      BY <2>1, <3>1, <3>2
  <2>4. socks' = [pages EXCEPT ![s] = q]
    BY <2>1 DEF Enter
  <2> QED
    BY <2>2, <2>3, <2>4 DEF GoodPages, GoodPage
<1> QED
  BY <1>1, <1>2, <1>3

\* A write is appended to an instance.
Appends(b, w) == [b EXCEPT !.hist = Append(@, w)]

LEMMA AcceptFacts ==
    ASSUME NEW v, Sound(v), NEW i \in Instances, NEW n \in Nat,
           v.boards[i].phase # "free"
    PROVE  LET w == Accept(v, i, n)
               b == v.boards[i]
               c == w.boards[i]
           IN  /\ Sound(w) /\ w.registry = v.registry /\ w.pins = v.pins
               /\ \A j \in Instances : j # i => w.boards[j] = v.boards[j]
               /\ c.hist = Append(b.hist, n)
               /\ c.phase = b.phase /\ c.persisted = b.persisted /\ c.floor = b.floor
               /\ c.users = b.users /\ c.disposed = b.disposed /\ c.save = b.save
               /\ c.queued = b.queued /\ c.unload = b.unload /\ c.late = b.late
<1>1. PICK b : b = v.boards[i]
  OBVIOUS
<1>2. b \in BoardStates /\ BoardInv(b) /\ v \in Servers /\ b.hist \in Seq(Nat)
  BY <1>1, BoardFacts DEF BoardStates
<1>3. PICK h : h = Append(b.hist, n)
  OBVIOUS
<1>4. h \in Seq(Nat) /\ Len(h) = Len(b.hist) + 1
  BY <1>2, <1>3, AppendProperties
<1>5. PICK c : c = [b EXCEPT !.hist = h]
  OBVIOUS
<1>6. /\ c \in BoardStates /\ c.hist = h
      /\ c.phase = b.phase /\ c.persisted = b.persisted /\ c.floor = b.floor
      /\ c.users = b.users /\ c.disposed = b.disposed /\ c.save = b.save
      /\ c.queued = b.queued /\ c.unload = b.unload /\ c.late = b.late
  BY <1>2, <1>4, <1>5 DEF BoardStates
<1>7. BoardInv(c)
  <2>1. b.save # Idle => b.save.target <= Len(h)
    <3>1. \A x, y \in Nat : x <= y => x <= y + 1
      OBVIOUS
    <3>2. Len(b.hist) \in Nat /\ (b.save # Idle => b.save.target \in Nat)
      BY <1>2, LenProperties, IdleFacts DEF BoardStates
    <3> QED
      BY <1>2, <1>4, <3>1, <3>2 DEF BoardInv
  <2> QED
    BY <1>1, <1>2, <1>6, <2>1 DEF BoardInv
<1>8. PICK w : w = SetBoard(v, i, c)
  OBVIOUS
<1>9. Accept(v, i, n) = w
  <2>1. Accept(v, i, n) = SetBoard(v, i, Appends(v.boards[i], n))
    BY Zenon DEF SetBoard, Appends, Accept
  <2>2. Appends(b, n) = c
    BY <1>3, <1>5 DEF Appends
  <2> QED
    BY <1>1, <1>8, <2>1, <2>2, Zenon
<1>10. /\ Sound(w) /\ w.registry = v.registry /\ w.pins = v.pins /\ w.boards[i] = c
       /\ \A j \in Instances : j # i => w.boards[j] = v.boards[j]
  BY <1>1, <1>6, <1>7, <1>8, Changed
<1> QED
  BY <1>1, <1>3, <1>6, <1>9, <1>10

\* A page hears write n, or stays as it is.
LEMMA BroadcastFacts ==
    ASSUME NextWrite \in Nat, NEW v, GoodServer(v), NEW i \in Instances, NEW pages,
           GoodPages(pages), NEW s \in Sockets
    PROVE  LET n == Len(v.boards[i].hist) + 1
               heard == Broadcast(v, pages, i, s, NextWrite)
           IN  /\ heard \in [Sockets -> PageStates]
               /\ \A r \in Sockets :
                     /\ PageInv(heard[r]) /\ heard[r].at = pages[r].at
                     /\ heard[r].inst = pages[r].inst
                     /\ Known(heard[r].view) \/ Grown(heard[r].view, n)
                     /\ IF /\ r = s \/ r \in v.boards[i].users
                           /\ pages[r].at = "joined" /\ n = Len(pages[r].view) + 1
                        THEN heard[r].view = Append(pages[r].view, NextWrite)
                        ELSE heard[r] = pages[r]
<1>1. PICK n : n = Len(v.boards[i].hist) + 1
  OBVIOUS
<1>2. PICK heard : heard = Broadcast(v, pages, i, s, NextWrite)
  OBVIOUS
<1>3. ASSUME NEW r \in Sockets
      PROVE  /\ heard[r] \in PageStates
             /\ PageInv(heard[r]) /\ heard[r].at = pages[r].at
             /\ heard[r].inst = pages[r].inst
             /\ Known(heard[r].view) \/ Grown(heard[r].view, n)
             /\ IF /\ r = s \/ r \in v.boards[i].users
                   /\ pages[r].at = "joined" /\ n = Len(pages[r].view) + 1
                THEN heard[r].view = Append(pages[r].view, NextWrite)
                ELSE heard[r] = pages[r]
  <2>1. PICK p : p = pages[r]
    OBVIOUS
  <2>2. GoodPage(p) /\ p \in PageStates /\ p.view \in Seq(Nat)
    BY <2>1 DEF GoodPages, GoodPage, Known
  <2>3. PICK u : u = Append(p.view, NextWrite)
    OBVIOUS
  <2>4. u \in Seq(Nat)
    BY <2>2, <2>3, AppendProperties
  <2>5. heard[r] = IF r = s \/ (r \in v.boards[i].users /\ p.at = "joined")
                   THEN Hear(p, n, NextWrite) ELSE p
    BY <1>1, <1>2, <2>1 DEF Broadcast
  <2>6. Hear(p, n, NextWrite) = IF p.at = "joined" /\ n = Len(p.view) + 1
                                THEN [p EXCEPT !.view = u] ELSE p
    BY <2>3 DEF Hear
  <2>7. CASE /\ r = s \/ r \in v.boards[i].users
             /\ p.at = "joined" /\ n = Len(p.view) + 1
    <3>1. heard[r] = [p EXCEPT !.view = u]
      BY <2>5, <2>6, <2>7
    <3>2. /\ heard[r] \in PageStates /\ heard[r].view = u /\ heard[r].at = p.at
          /\ heard[r].inst = p.inst
      BY <2>2, <2>4, <3>1 DEF PageStates
    <3>3. PageInv(heard[r])
      BY <2>2, <3>2 DEF GoodPage, PageInv
    <3>4. Grown(heard[r].view, n)
      BY <2>2, <2>3, <2>7, <3>2 DEF Grown, GoodPage
    <3> QED
      BY <2>1, <2>3, <2>7, <3>2, <3>3, <3>4
  <2>8. CASE ~(/\ r = s \/ r \in v.boards[i].users
               /\ p.at = "joined" /\ n = Len(p.view) + 1)
    <3>1. heard[r] = p
      BY <2>5, <2>6, <2>8
    <3> QED
      BY <2>1, <2>2, <2>8, <3>1 DEF GoodPage
  <2> QED
    BY <2>7, <2>8
<1>4. heard \in [Sockets -> PageStates]
  <2>1. heard = [r \in Sockets |-> heard[r]]
    BY <1>2 DEF Broadcast
  <2> QED
    BY <1>3, <2>1
<1> QED
  BY <1>1, <1>2, <1>3, <1>4

-----------------------------------------------------------------------------
(* The steps *)

LEMMA Uncounted ==
    ASSUME IInv, UNCHANGED bounds
    PROVE  /\ CountInv' /\ scenario' = scenario /\ Bound' = Bound
           /\ CountInv /\ Bound \in Nat
BY Numbers DEF IInv, CountInv, bounds, Bound

LEMMA Same ==
    ASSUME UNCHANGED <<registry, boards, pins, retry>>
    PROVE  Install(Server)
BY DEF Install, Server

LEMMA OneBoard ==
    ASSUME UNCHANGED <<registry, pins, retry>>, NEW i, NEW c,
           boards' = [boards EXCEPT ![i] = c]
    PROVE  Install(SetBoard(Server, i, c))
BY DEF Install, Server, SetBoard

LEMMA SameBoards ==
    ASSUME NEW v, GoodServer(v), NEW w \in Servers, w.boards = v.boards,
           w.registry = v.registry
    PROVE  GoodServer(w)
BY DEF GoodServer, Sound

LEMMA ServerFacts ==
    ASSUME IInv
    PROVE  /\ registry \in {None} \cup Instances /\ boards \in [Instances -> BoardStates]
           /\ pins \in SUBSET Nat /\ retry \in Timers /\ disk \in Seq(Nat)
           /\ Len(disk) \in Nat /\ stopping \in BOOLEAN
           /\ socks \in [Sockets -> PageStates] /\ Server \in Servers
           /\ Server.registry = registry /\ Server.boards = boards
           /\ Server.pins = pins /\ Server.retry = retry /\ Sound(Server)
           /\ NextWrite \in Nat /\ CountInv
<1>1. Server \in Servers /\ Server.registry = registry /\ Server.boards = boards
      /\ Server.pins = pins /\ Server.retry = retry
  BY DEF IInv, Sound, Server
<1>2. disk \in Seq(Nat) /\ Len(disk) \in Nat
  BY LenProperties DEF IInv, PagesInv
<1>3. NextWrite \in Nat
  BY DEF IInv, CountInv, NextWrite
<1> QED
  BY <1>1, <1>2, <1>3 DEF IInv, PagesInv, Servers

\* One page changes.
LEMMA OnePage ==
    ASSUME NEW pages, GoodPages(pages), NEW s \in Sockets, NEW p, GoodPage(p)
    PROVE  GoodPages([pages EXCEPT ![s] = p])
<1>1. PICK q : q = [pages EXCEPT ![s] = p]
  OBVIOUS
<1>2. q \in [Sockets -> PageStates] /\ \A r \in Sockets : GoodPage(q[r])
  BY <1>1 DEF GoodPages, GoodPage
<1> QED
  BY <1>1, <1>2 DEF GoodPages

\* Some pages are closed.
LEMMA Closing ==
    ASSUME IInv, NEW S
    PROVE  GoodPages([s \in Sockets |-> IF s \in S THEN Away ELSE socks[s]])
<1>1. GoodPage(Away) /\ GoodPages(socks)
  BY KnownFacts, GoodAway
<1> QED
  BY <1>1 DEF GoodPages, GoodPage

LEMMA OpenPageStep ==
    ASSUME IInv, NEW s \in Sockets, OpenPage(s)
    PROVE  IInv'
<1>1. PICK p : p = [Away EXCEPT !.at = "page", !.view = disk]
  OBVIOUS
<1>2. p \in PageStates /\ p.at = "page" /\ p.view = disk
  BY <1>1, AwayFacts, ServerFacts DEF PageStates, Places
<1>3. GoodPage(p)
  BY <1>2, KnownFacts DEF GoodPage, PageInv
<1>4. GoodPages(socks')
  <2>1. socks' = [socks EXCEPT ![s] = p]
    BY <1>1 DEF OpenPage
  <2> QED
    BY <1>3, <2>1, KnownFacts, OnePage
<1>5. PICK w : w = [registry |-> registry, boards |-> boards,
                    pins |-> pins \cup {Len(disk)}, retry |-> retry]
  OBVIOUS
<1>6. w \in Servers /\ w.boards = boards /\ w.registry = registry
  BY <1>5, ServerFacts DEF Servers
<1>7. GoodServer(w) /\ Install(w)
  <2>1. GoodServer(w)
    BY <1>6, ServerFacts, KnownFacts, SameBoards
  <2> QED
    BY <1>5, <2>1 DEF Install, OpenPage
<1>8. UNCHANGED <<disk, stopping, bounds>>
  BY DEF OpenPage
<1> QED
  BY <1>4, <1>7, <1>8, KnownFacts, ServerFacts, Uncounted, Quietly

LEMMA UnloadFacts ==
    ASSUME CountInv, NEW v, GoodServer(v), NEW i \in Instances,
           v.boards[i].phase # "free", CanRequestSave(v, i)
    PROVE  GoodServer(Unload(v, i))
<1>1. Sound(v)
  BY DEF GoodServer
<1>2. CASE v.boards[i].phase = "loaded"
  <2>1. PICK w : w = RequestSave(v, i, TRUE)
    OBVIOUS
  <2>2. /\ Sound(w) /\ Keeps(v.boards[i], w.boards[i])
        /\ \A j \in Instances : j # i => w.boards[j] = v.boards[j]
    BY <1>1, <1>2, <2>1, RequestSaveFacts DEF Requested
  <2>3. Known(w.boards[i].hist)
    BY <2>2 DEF Keeps, GoodServer
  <2>4. GoodServer(w)
    BY <2>2, <2>3, ChangedGood
  <2> QED
    BY <1>2, <2>1, <2>4 DEF Unload
<1>3. CASE v.boards[i].phase # "loaded"
  <2>1. PICK w : w = Unload(v, i)
    OBVIOUS
  <2>2. /\ Sound(w) /\ w.boards[i].hist = v.boards[i].hist
        /\ \A j \in Instances : j # i => w.boards[j] = v.boards[j]
    BY <1>1, <1>3, <2>1, UnloadWaits
  <2>3. Known(w.boards[i].hist)
    BY <2>2 DEF GoodServer
  <2> QED
    BY <2>1, <2>2, <2>3, ChangedGood
<1> QED
  BY <1>2, <1>3

\* The users of the registered instance change.
LEMMA RegisteredUsers ==
    ASSUME IInv, registry # None, NEW U \in SUBSET Sockets
    PROVE  LET w == WithUsers(Server, registry, U)
           IN  /\ GoodServer(w) /\ registry \in Instances
               /\ w.boards[registry].phase # "free"
<1>1. registry \in Instances /\ boards[registry].phase # "free" /\ Sound(Server)
      /\ Server.boards = boards
  BY ServerFacts DEF Sound
<1>2. PICK w : w = WithUsers(Server, registry, U)
  OBVIOUS
<1>3. /\ Sound(w) /\ w.boards[registry].hist = boards[registry].hist
      /\ w.boards[registry].phase = boards[registry].phase
      /\ \A j \in Instances : j # registry => w.boards[j] = boards[j]
  BY <1>1, <1>2, UsersFacts
<1>4. GoodServer(w)
  <2>1. Known(w.boards[registry].hist) /\ GoodServer(Server)
    BY <1>1, <1>3, KnownFacts DEF GoodServer
  <2> QED
    BY <1>1, <1>3, <2>1, ChangedGood
<1> QED
  BY <1>1, <1>2, <1>3, <1>4

LEMMA LeaveStep ==
    ASSUME IInv, NEW s \in Sockets, Leave(s)
    PROVE  IInv'
<1>1. GoodPages(socks')
  <2>1. GoodPage(Away) /\ GoodPages(socks)
    BY KnownFacts, GoodAway
  <2>2. socks' = [socks EXCEPT ![s] = Away]
    BY DEF Leave
  <2> QED
    BY <2>1, <2>2, OnePage
<1>2. PICK U : U = boards[registry].users \ {s}
  OBVIOUS
<1>3. PICK left : left = WithUsers(Server, registry, U)
  OBVIOUS
<1>4. \/ registry = None /\ Install(Server)
      \/ registry # None /\ Install(left)
      \/ registry # None /\ CanRequestSave(left, registry)
         /\ Install(Unload(left, registry))
  <2>1. left = [Server EXCEPT !.boards[registry].users = @ \ {s}]
    BY <1>2, <1>3, Zenon DEF WithUsers, Server
  <2> QED
    BY <2>1, Zenon DEF Leave
<1>5. registry # None => GoodServer(left) /\ registry \in Instances
                         /\ left.boards[registry].phase # "free"
  <2>1. registry # None => U \in SUBSET Sockets
    BY <1>2, ServerFacts DEF BoardStates
  <2> QED
    BY <1>3, <2>1, RegisteredUsers
<1>6. \E w : GoodServer(w) /\ Install(w)
  <2>1. CountInv /\ GoodServer(Server)
    BY ServerFacts, KnownFacts
  <2> QED
    BY <1>4, <1>5, <2>1, UnloadFacts
<1>7. UNCHANGED <<disk, stopping, bounds>>
  BY DEF Leave
<1> QED
  BY <1>1, <1>6, <1>7, KnownFacts, ServerFacts, Uncounted, Quietly

LEMMA AbandonStep ==
    ASSUME IInv, NEW s \in Sockets, Abandon(s)
    PROVE  IInv'
<1>1. GoodPages(socks')
  <2>1. GoodPage(Away) /\ GoodPages(socks)
    BY KnownFacts, GoodAway
  <2>2. socks' = [socks EXCEPT ![s] = Away]
    BY DEF Abandon
  <2> QED
    BY <2>1, <2>2, OnePage
<1>2. UNCHANGED <<disk, stopping, bounds>> /\ Install(Server)
  BY Same DEF Abandon
<1> QED
  BY <1>1, <1>2, KnownFacts, ServerFacts, Uncounted, Quietly

LEMMA ConnectStep ==
    ASSUME IInv, NEW s \in Sockets, NEW i \in Instances, Connect(s, i)
    PROVE  IInv'
<1>1. GetBoard(Server, i) /\ Enter(Loading(Server, i), socks, s, i)
      /\ UNCHANGED <<disk, stopping, bounds>>
  BY DEF Connect
<1>2. PICK v : v = Loading(Server, i)
  OBVIOUS
<1>3. GoodServer(v) /\ v.boards[i].phase # "free"
  BY <1>1, <1>2, KnownFacts, ServerFacts, LoadingFacts, LoadingGood
<1>4. GoodPages(socks') /\ \E w : GoodServer(w) /\ Install(w)
  BY <1>1, <1>2, <1>3, KnownFacts, EnterFacts
<1> QED
  BY <1>1, <1>4, KnownFacts, ServerFacts, Uncounted, Quietly

LEMMA ProbeDiskStep ==
    ASSUME IInv, NEW s \in Sockets, NEW i \in Instances, ProbeDisk(s, i)
    PROVE  IInv'
<1>1. PICK old : old = socks[s].inst
  OBVIOUS
<1>2. PICK dropped : dropped = Drop(Server, old)
  OBVIOUS
<1>3. PICK pages : pages = [r \in Sockets |->
                              IF r \in Dropped(Server, old) THEN Away ELSE socks[r]]
  OBVIOUS
<1>4. PICK page : page = [socks[s] EXCEPT !.probed = TRUE]
  OBVIOUS
<1>5. socks[s].at = "probing" /\ UNCHANGED <<disk, stopping, bounds>>
  BY DEF ProbeDisk
<1>6. PICK stale \in BOOLEAN : stale <=> Len(disk) > socks[s].latest
  OBVIOUS
<1>7. CASE stale
  <2>1. /\ GetBoard(dropped, i)
        /\ Enter(Loading(dropped, i), [pages EXCEPT ![s] = page], s, i)
    BY <1>1, <1>2, <1>3, <1>4, <1>6, <1>7 DEF ProbeDisk
  <2>2. GoodPage(socks[s]) /\ socks[s] \in PageStates
    BY KnownFacts DEF GoodPages, GoodPage
  <2>3. old \in Instances
    BY <1>1, <1>5, <2>2 DEF GoodPage, PageInv, PageStates
  <2>4. GoodServer(dropped)
    <3>1. /\ Sound(dropped) /\ dropped.boards[old].hist = Server.boards[old].hist
          /\ \A j \in Instances : j # old => dropped.boards[j] = Server.boards[j]
      BY <1>2, <2>3, ServerFacts, DropFacts
    <3>2. GoodServer(Server)
      BY KnownFacts
    <3>3. Known(dropped.boards[old].hist)
      BY <2>3, <3>1, <3>2 DEF GoodServer
    <3> QED
      BY <2>3, <3>1, <3>2, <3>3, ChangedGood
  <2>5. GoodPages([pages EXCEPT ![s] = page])
    <3>1. GoodPages(pages)
      BY <1>3, Closing
    <3>2. page \in PageStates /\ page.view = socks[s].view /\ page.at = "probing"
          /\ page.inst = socks[s].inst
      BY <1>4, <1>5, <2>2 DEF PageStates
    <3>3. GoodPage(page)
      BY <1>5, <2>2, <3>2 DEF GoodPage, PageInv
    <3> QED
      BY <3>1, <3>3, OnePage
  <2>6. PICK v : v = Loading(dropped, i)
    OBVIOUS
  <2>7. GoodServer(v) /\ v.boards[i].phase # "free"
    BY <2>1, <2>4, <2>6, LoadingFacts, LoadingGood DEF GoodServer
  <2>8. PICK q : q = [pages EXCEPT ![s] = page]
    OBVIOUS
  <2>9. Enter(v, q, s, i) /\ GoodPages(q) /\ Known(<< >>)
    BY <2>1, <2>5, <2>6, <2>8, KnownFacts
  <2>10. GoodPages(socks') /\ \E w : GoodServer(w) /\ Install(w)
    BY <2>7, <2>9, EnterFacts
  <2> QED
    BY <1>5, <2>10, KnownFacts, ServerFacts, Uncounted, Quietly
<1>8. CASE ~stale
  <2>1. socks' = [socks EXCEPT ![s] = Away] /\ Install(Server)
    BY <1>6, <1>8 DEF ProbeDisk
  <2>2. GoodPages(socks')
    BY <2>1, KnownFacts, GoodAway, OnePage
  <2> QED
    BY <1>5, <2>1, <2>2, KnownFacts, ServerFacts, Uncounted, Quietly
<1> QED
  BY <1>7, <1>8

\* The instance in which a write waits for the load.
LateBy(b, S) == [b EXCEPT !.late = S]

LEMMA WriteUnloadedStep ==
    ASSUME IInv, NEW s \in Sockets, NEW i \in Instances, WriteUnloaded(s, i)
    PROVE  IInv'
<1>1. PICK v : v = Loading(Server, i)
  OBVIOUS
<1>2. GetBoard(Server, i) /\ UNCHANGED <<disk, socks, stopping, bounds>>
  BY DEF WriteUnloaded
<1>3. GoodServer(v) /\ Sound(v)
  BY <1>1, <1>2, KnownFacts, LoadingGood DEF GoodServer
<1>4. PICK b : b = v.boards[i]
  OBVIOUS
<1>5. b \in BoardStates /\ BoardInv(b) /\ v.boards[i].phase # "free"
  BY <1>1, <1>2, <1>3, <1>4, BoardFacts, ServerFacts, LoadingFacts
<1>6. PICK c : c = LateBy(b, {s})
  OBVIOUS
<1>7. /\ c \in BoardStates /\ c.phase = b.phase /\ c.hist = b.hist
      /\ c.save = b.save /\ c.queued = b.queued /\ c.disposed = b.disposed
  BY <1>5, <1>6 DEF BoardStates, LateBy
<1>8. BoardInv(c)
  BY <1>4, <1>5, <1>7 DEF BoardInv
<1>9. PICK w : w = SetBoard(v, i, c)
  OBVIOUS
<1>10. /\ Sound(w) /\ w.boards[i] = c
       /\ \A j \in Instances : j # i => w.boards[j] = v.boards[j]
  BY <1>3, <1>4, <1>7, <1>8, <1>9, Changed
<1>11. GoodServer(w)
  <2>1. Known(w.boards[i].hist)
    BY <1>3, <1>4, <1>7, <1>10 DEF GoodServer
  <2> QED
    BY <1>3, <1>10, <2>1, ChangedGood
<1>12. Install(w)
  <2>1. Install([Loading(Server, i) EXCEPT !.boards[i].late = {s}])
    BY DEF WriteUnloaded
  <2>2. [v EXCEPT !.boards[i].late = {s}] = SetBoard(v, i, LateBy(v.boards[i], {s}))
    BY Zenon DEF SetBoard, LateBy
  <2> QED
    BY <1>1, <1>4, <1>6, <1>9, <2>1, <2>2, Zenon
<1> QED
  BY <1>2, <1>11, <1>12, KnownFacts, ServerFacts, Uncounted, Quietly

\* One instance changes, and nothing else in the server.
LEMMA OneBoardGood ==
    ASSUME IInv, NEW i \in Instances, NEW c \in BoardStates, BoardInv(c), Known(c.hist),
           c.phase = "free" <=> boards[i].phase = "free",
           c.disposed = boards[i].disposed,
           UNCHANGED <<registry, pins, retry>>, boards' = [boards EXCEPT ![i] = c]
    PROVE  \E w : GoodServer(w) /\ Install(w)
<1>1. PICK w : w = SetBoard(Server, i, c)
  OBVIOUS
<1>2. Sound(w) /\ w.boards[i] = c
      /\ \A j \in Instances : j # i => w.boards[j] = Server.boards[j]
  BY <1>1, ServerFacts, Changed
<1>3. GoodServer(w)
  BY <1>2, KnownFacts, ChangedGood
<1> QED
  BY <1>1, <1>3, OneBoard

LEMMA ReadBoardStep ==
    ASSUME IInv, NEW i \in Instances, ReadBoard(i)
    PROVE  IInv'
<1>1. PICK b : b = boards[i]
  OBVIOUS
<1>2. b \in BoardStates /\ BoardInv(b) /\ b.phase = "opening"
  BY <1>1, ServerFacts, BoardFacts DEF ReadBoard
<1>3. PICK c : c = [b EXCEPT !.phase = "read", !.hist = disk,
                             !.persisted = Len(disk), !.floor = Len(disk),
                             !.stored = HasItems(disk)]
  OBVIOUS
<1>4. /\ c \in BoardStates /\ c.phase = "read" /\ c.hist = disk
      /\ c.save = b.save /\ c.queued = b.queued /\ c.disposed = b.disposed
  BY <1>2, <1>3, ServerFacts DEF BoardStates, BoardPhases, HasItems
<1>5. BoardInv(c)
  BY <1>2, <1>4 DEF BoardInv
<1>6. UNCHANGED <<disk, registry, pins, retry, socks, stopping, bounds>>
      /\ boards' = [boards EXCEPT ![i] = c]
  BY <1>1, <1>3 DEF ReadBoard
<1>7. \E w : GoodServer(w) /\ Install(w)
  BY <1>1, <1>2, <1>4, <1>5, <1>6, KnownFacts, OneBoardGood
<1> QED
  BY <1>6, <1>7, KnownFacts, ServerFacts, Uncounted, Quietly

LEMMA CheckStoredStep ==
    ASSUME IInv, NEW i \in Instances, CheckStored(i)
    PROVE  IInv'
<1>1. PICK b : b = boards[i]
  OBVIOUS
<1>2. b \in BoardStates /\ BoardInv(b) /\ b.save # Idle /\ Known(b.hist)
  BY <1>1, KnownFacts, ServerFacts, BoardFacts DEF CheckStored, Checking, GoodServer
<1>3. PICK t : t = [b.save EXCEPT !.phase = "renaming"]
  OBVIOUS
<1>4. t \in Saves /\ t.target = b.save.target
  BY <1>2, <1>3, IdleFacts DEF BoardStates, Saves
<1>5. PICK c : c = [b EXCEPT !.save = t]
  OBVIOUS
<1>6. /\ c \in BoardStates /\ c.save = t /\ c.phase = b.phase /\ c.hist = b.hist
      /\ c.queued = b.queued /\ c.disposed = b.disposed
  BY <1>2, <1>4, <1>5 DEF BoardStates, SaveStates
<1>7. BoardInv(c)
  BY <1>2, <1>4, <1>6, IdleFacts DEF BoardInv
<1>8. UNCHANGED <<disk, registry, pins, retry, socks, stopping, bounds>>
      /\ boards' = [boards EXCEPT ![i] = c]
  BY <1>1, <1>3, <1>5 DEF CheckStored
<1>9. \E w : GoodServer(w) /\ Install(w)
  BY <1>1, <1>2, <1>6, <1>7, <1>8, OneBoardGood
<1> QED
  BY <1>8, <1>9, KnownFacts, ServerFacts, Uncounted, Quietly

LEMMA RenameStoredStep ==
    ASSUME IInv, NEW i \in Instances, RenameStored(i)
    PROVE  IInv'
<1>1. PICK b : b = boards[i]
  OBVIOUS
<1>2. b \in BoardStates /\ BoardInv(b) /\ b.save # Idle /\ Known(b.hist)
  BY <1>1, KnownFacts, ServerFacts, BoardFacts DEF RenameStored, GoodServer
<1>3. PICK t : t = [b.save EXCEPT !.phase = "renamed"]
  OBVIOUS
<1>4. t \in Saves /\ t.target = b.save.target /\ b.save.target \in Nat
  BY <1>2, <1>3, IdleFacts DEF BoardStates, Saves
<1>5. PICK c : c = [b EXCEPT !.save = t]
  OBVIOUS
<1>6. /\ c \in BoardStates /\ c.save = t /\ c.phase = b.phase /\ c.hist = b.hist
      /\ c.queued = b.queued /\ c.disposed = b.disposed
  BY <1>2, <1>4, <1>5 DEF BoardStates, SaveStates
<1>7. BoardInv(c)
  BY <1>2, <1>4, <1>6, IdleFacts DEF BoardInv
<1>8. UNCHANGED <<registry, pins, retry, socks, stopping, bounds>>
      /\ boards' = [boards EXCEPT ![i] = c] /\ disk' = Prefix(b.hist, b.save.target)
  BY <1>1, <1>3, <1>5 DEF RenameStored
<1>9. \E w : GoodServer(w) /\ Install(w)
  BY <1>1, <1>2, <1>6, <1>7, <1>8, OneBoardGood
<1>10. Known(disk')
  BY <1>2, <1>4, <1>8, KnownFacts, KnownPrefix DEF BoardInv
<1> QED
  BY <1>8, <1>9, <1>10, KnownFacts, ServerFacts, Uncounted, Quietly

\* A save ends.
LEMMA EndSaveGood ==
    ASSUME CountInv, NEW v, GoodServer(v), NEW i \in Instances, NEW status,
           v.boards[i].save # Idle
    PROVE  GoodServer(EndSave(v, i, status))
<1>1. PICK w : w = EndSave(v, i, status)
  OBVIOUS
<1>2. /\ Sound(w) /\ Keeps(v.boards[i], w.boards[i])
      /\ \A j \in Instances : j # i => w.boards[j] = v.boards[j]
  <2>1. Sound(v)
    BY DEF GoodServer
  <2>2. Ended(v, w, i, status)
    BY <1>1, <2>1, EndSaveFacts
  <2> QED
    BY <2>2 DEF Ended
<1>3. Known(w.boards[i].hist)
  BY <1>2 DEF Keeps, GoodServer
<1> QED
  BY <1>1, <1>2, <1>3, ChangedGood

LEMMA TimerSaveStep ==
    ASSUME IInv, NEW i \in Instances, TimerSave(i)
    PROVE  IInv'
<1>1. PICK w : w = RequestSave(Server, i, FALSE)
  OBVIOUS
<1>2. boards[i].phase = "loaded" /\ boards[i].save = Idle /\ Install(w)
      /\ UNCHANGED <<disk, socks, stopping, bounds>>
  BY <1>1 DEF TimerSave
<1>3. GoodServer(w)
  <2>1. CanRequestSave(Server, i) /\ Server.boards[i].phase = "loaded"
    BY <1>2, ServerFacts DEF CanRequestSave
  <2>2. /\ Sound(w) /\ Keeps(Server.boards[i], w.boards[i])
        /\ \A j \in Instances : j # i => w.boards[j] = Server.boards[j]
    <3>1. Sound(Server) /\ CountInv /\ FALSE \in BOOLEAN
      BY ServerFacts
    <3> QED
      BY <1>1, <2>1, <3>1, RequestSaveFacts DEF Requested
  <2>3. Known(w.boards[i].hist)
    BY <2>2, KnownFacts DEF Keeps, GoodServer
  <2> QED
    BY <2>2, <2>3, KnownFacts, ChangedGood
<1> QED
  BY <1>2, <1>3, KnownFacts, ServerFacts, Uncounted, Quietly

LEMMA StaleSaveStep ==
    ASSUME IInv, NEW i \in Instances, StaleSave(i)
    PROVE  IInv'
<1>1. PICK v : v = Drop(Server, i)
  OBVIOUS
<1>2. /\ Install(EndSave(v, i, "stale")) /\ boards[i].save # Idle
      /\ socks' = [s \in Sockets |-> IF s \in Dropped(Server, i) THEN Away ELSE socks[s]]
      /\ UNCHANGED <<disk, stopping, bounds>>
  BY <1>1 DEF StaleSave, Stale, Checking
<1>3. GoodServer(v) /\ v.boards[i].save # Idle
  <2>1. /\ Sound(v) /\ v.boards[i].hist = boards[i].hist
        /\ v.boards[i].save = boards[i].save
        /\ \A j \in Instances : j # i => v.boards[j] = Server.boards[j]
    BY <1>1, ServerFacts, DropFacts
  <2>2. Known(v.boards[i].hist)
    BY <2>1, KnownFacts, ServerFacts DEF GoodServer
  <2> QED
    BY <1>2, <2>1, <2>2, KnownFacts, ChangedGood
<1>4. GoodServer(EndSave(v, i, "stale"))
  BY <1>3, ServerFacts, EndSaveGood
<1>5. GoodPages(socks')
  BY <1>2, Closing
<1> QED
  BY <1>2, <1>4, <1>5, KnownFacts, ServerFacts, Uncounted, Quietly

\* What a save records when it has succeeded.
Recording(v, i, floor) ==
    [v EXCEPT !.boards[i] = Recorded(v.boards[i], floor)]

LEMMA RecordedFacts ==
    ASSUME NEW v, Sound(v), NEW i \in Instances, NEW floor \in Nat,
           v.boards[i].save # Idle
    PROVE  LET w == Recording(v, i, floor)
               b == v.boards[i]
               c == w.boards[i]
           IN  /\ Sound(w) /\ w.registry = v.registry /\ w.pins = v.pins
               /\ \A j \in Instances : j # i => w.boards[j] = v.boards[j]
               /\ c.persisted = b.save.target /\ c.floor = floor
               /\ c.phase = b.phase /\ c.hist = b.hist /\ c.users = b.users
               /\ c.disposed = b.disposed /\ c.save = b.save
               /\ c.queued = b.queued /\ c.unload = b.unload /\ c.late = b.late
<1>1. PICK b : b = v.boards[i]
  OBVIOUS
<1>2. b \in BoardStates /\ BoardInv(b) /\ v \in Servers /\ b.save \in Saves
  BY <1>1, BoardFacts, IdleFacts DEF BoardStates
<1>3. PICK n : n = b.save.target
  OBVIOUS
<1>4. n \in Nat
  BY <1>2, <1>3, IdleFacts
<1>5. PICK c : c = Recorded(b, floor)
  OBVIOUS
<1>6. /\ c \in BoardStates /\ c.persisted = n /\ c.floor = floor
      /\ c.phase = b.phase /\ c.hist = b.hist /\ c.users = b.users
      /\ c.disposed = b.disposed /\ c.save = b.save
      /\ c.queued = b.queued /\ c.unload = b.unload /\ c.late = b.late
  BY <1>2, <1>3, <1>4, <1>5 DEF BoardStates, Recorded, LeavesDirty, HasItems
<1>7. BoardInv(c)
  BY <1>1, <1>2, <1>6 DEF BoardInv
<1>8. PICK w : w = SetBoard(v, i, c)
  OBVIOUS
<1>9. Recording(v, i, floor) = w
  <2>1. PICK f : f = [v.boards EXCEPT ![i] = c]
    OBVIOUS
  <2>2. [v EXCEPT !.boards[i] = c] = [v EXCEPT !.boards = f]
    BY <1>2, <2>1 DEF Servers
  <2> QED
    BY <1>1, <1>5, <1>8, <2>1, <2>2 DEF SetBoard, Recording
<1>10. /\ Sound(w) /\ w.registry = v.registry /\ w.pins = v.pins /\ w.boards[i] = c
       /\ \A j \in Instances : j # i => w.boards[j] = v.boards[j]
  BY <1>1, <1>6, <1>7, <1>8, Changed
<1> QED
  BY <1>1, <1>3, <1>6, <1>9, <1>10

LEMMA FinishSaveStep ==
    ASSUME IInv, NEW i \in Instances, NEW floor \in Nat, FinishSave(i, floor)
    PROVE  IInv'
<1>1. PICK v : v = Recording(Server, i, floor)
  OBVIOUS
<1>2. /\ Install(EndSave(v, i, "saved")) /\ Server.boards[i].save # Idle
      /\ UNCHANGED <<disk, socks, stopping, bounds>>
  <2>1. Server.boards = boards
    BY ServerFacts
  <2>2. v = [Server EXCEPT !.boards[i] = Recorded(boards[i], floor)]
    BY <1>1, <2>1, Zenon DEF Recording
  <2> QED
    BY <2>1, <2>2 DEF FinishSave
<1>3. GoodServer(v) /\ v.boards[i].save # Idle
  <2>1. /\ Sound(v) /\ v.boards[i].hist = Server.boards[i].hist
        /\ v.boards[i].save = Server.boards[i].save
        /\ \A j \in Instances : j # i => v.boards[j] = Server.boards[j]
    <3>1. Sound(Server)
      BY ServerFacts
    <3>2. /\ Sound(Recording(Server, i, floor))
          /\ Recording(Server, i, floor).boards[i].hist = Server.boards[i].hist
          /\ Recording(Server, i, floor).boards[i].save = Server.boards[i].save
          /\ \A j \in Instances : j # i =>
                Recording(Server, i, floor).boards[j] = Server.boards[j]
      BY <1>2, <3>1, RecordedFacts
    <3> QED
      BY <1>1, <3>2
  <2>2. Known(v.boards[i].hist)
    BY <2>1, KnownFacts DEF GoodServer
  <2> QED
    BY <1>2, <2>1, <2>2, KnownFacts, ChangedGood
<1>4. GoodServer(EndSave(v, i, "saved"))
  BY <1>3, ServerFacts, EndSaveGood
<1> QED
  BY <1>2, <1>4, KnownFacts, ServerFacts, Uncounted, Quietly

LEMMA FailSaveStep ==
    ASSUME IInv, NEW i \in Instances, FailSave(i)
    PROVE  IInv'
<1>1. /\ Install(EndSave(Server, i, "failed")) /\ Server.boards[i].save # Idle
      /\ failures' = failures + 1 /\ UNCHANGED <<disk, socks, stopping>>
      /\ UNCHANGED <<sent, foreign, scenario>>
  <2>1. Server.boards = boards
    BY ServerFacts
  <2> QED
    BY <2>1 DEF FailSave
<1>2. GoodServer(EndSave(Server, i, "failed"))
  BY <1>1, ServerFacts, KnownFacts, EndSaveGood
<1>3. CountInv' /\ scenario' = scenario /\ Bound' = Bound
  BY <1>1, ServerFacts DEF CountInv, Bound
<1> QED
  BY <1>1, <1>2, <1>3, KnownFacts, ServerFacts, Quietly

LEMMA FailLoadStep ==
    ASSUME IInv, NEW i \in Instances, FailLoad(i)
    PROVE  IInv'
<1>1. PICK c : c = [FreeBoard EXCEPT !.phase = "loaded", !.disposed = TRUE]
  OBVIOUS
<1>2. /\ c \in BoardStates /\ c.phase = "loaded" /\ c.hist = << >>
      /\ c.save = Idle /\ c.queued = 0 /\ c.disposed
  BY <1>1, FreeFacts DEF BoardStates, BoardPhases
<1>3. BoardInv(c)
  BY <1>2, Numbers, ServerFacts DEF BoardInv
<1>4. PICK r : r = IF registry = i THEN None ELSE registry
  OBVIOUS
<1>5. PICK u : u = [registry |-> r, boards |-> boards, pins |-> pins, retry |-> retry]
  OBVIOUS
<1>6. /\ u \in Servers /\ u.registry = r /\ u.boards = boards
      /\ u.pins = pins /\ u.retry = retry
  BY <1>4, <1>5, ServerFacts DEF Servers
<1>7. Sound(u)
  BY <1>4, <1>6, ServerFacts DEF Sound
<1>8. PICK w : w = SetBoard(u, i, c)
  OBVIOUS
<1>9. Sound(w)
  <2>1. u.registry # i
    BY <1>4, <1>6 DEF None, Instances
  <2> QED
    BY <1>2, <1>3, <1>7, <1>8, <2>1, SetBoardSound
<1>10. GoodServer(w)
  <2>1. /\ w.boards[i] = c
        /\ \A j \in Instances : j # i => w.boards[j] = Server.boards[j]
    <3>1. /\ w.boards[i] = c
          /\ \A j \in Instances : j # i => w.boards[j] = u.boards[j]
      BY <1>2, <1>6, <1>8, SetBoardFacts
    <3> QED
      BY <1>6, <3>1, ServerFacts
  <2>2. Known(w.boards[i].hist) /\ GoodServer(Server)
    BY <1>2, <2>1, KnownFacts
  <2> QED
    BY <1>9, <2>1, <2>2, ChangedGood
<1>11. Install(w)
  <2>1. w.registry = r /\ w.pins = pins /\ w.retry = retry
    BY <1>2, <1>6, <1>8, SetBoardFacts
  <2>2. w.boards = [boards EXCEPT ![i] = c]
    BY <1>6, <1>8 DEF SetBoard, Servers
  <2>3. /\ boards' = [boards EXCEPT ![i] = c] /\ registry' = r
        /\ UNCHANGED <<pins, retry>>
    BY <1>1, <1>4 DEF FailLoad
  <2> QED
    BY <2>1, <2>2, <2>3 DEF Install
<1>12. GoodPages(socks')
  <2>1. PICK S : S = {s \in Sockets : socks[s].at = "loading" /\ socks[s].inst = i}
    OBVIOUS
  <2>2. socks' = [s \in Sockets |-> IF s \in S THEN Away ELSE socks[s]]
    BY <2>1 DEF FailLoad
  <2> QED
    BY <2>2, Closing
<1>13. /\ CountInv' /\ scenario' = scenario /\ Bound' = Bound
       /\ UNCHANGED <<disk, stopping>>
  BY ServerFacts DEF CountInv, Bound, FailLoad
<1> QED
  BY <1>10, <1>11, <1>12, <1>13, KnownFacts, ServerFacts, Quietly

LEMMA ExpirePinStep ==
    ASSUME IInv, NEW p \in pins, ExpirePin(p)
    PROVE  IInv'
<1>1. UNCHANGED <<disk, registry, boards, socks, stopping, bounds>>
      /\ pins' \in SUBSET Nat
  BY ServerFacts DEF ExpirePin
<1>2. retry' \in Timers
  <2>1. PICK a \in Nat : a = retry.armed
    BY ServerFacts, Numbers DEF Timers
  <2>2. PICK d \in Nat : d = retry.due
    BY ServerFacts, Numbers DEF Timers
  <2>3. PICK r \in Nat : r = scenario.retries
    BY ServerFacts, Numbers
  <2>4. PICK n : n = IF a + d < r THEN a + d ELSE r
    OBVIOUS
  <2>5. n \in 0 .. r /\ 0 \in 0 .. r
    BY <2>4
  <2>6. retry' = [armed |-> 0, due |-> n]
    BY <2>1, <2>2, <2>3, <2>4 DEF ExpirePin
  <2> QED
    BY <2>3, <2>5, <2>6 DEF Timers
<1>3. PICK w : w = [registry |-> registry, boards |-> boards, pins |-> pins',
                    retry |-> retry']
  OBVIOUS
<1>4. w \in Servers /\ w.boards = boards /\ w.registry = registry
  BY <1>1, <1>2, <1>3, ServerFacts DEF Servers
<1>5. GoodServer(w)
  BY <1>4, ServerFacts, KnownFacts, SameBoards
<1>6. Install(w)
  BY <1>1, <1>3 DEF Install
<1> QED
  BY <1>1, <1>5, <1>6, KnownFacts, ServerFacts, Uncounted, Quietly

LEMMA RetryUnloadStep ==
    ASSUME IInv, RetryUnload
    PROVE  IInv'
<1>1. PICK d \in Nat : d = retry.due - 1 /\ d \in 0 .. scenario.retries
  <2>1. PICK e \in Nat : e = retry.due /\ e \in 0 .. scenario.retries
    BY ServerFacts, Numbers DEF Timers
  <2>2. e > 0 /\ scenario.retries \in Nat
    BY <2>1, ServerFacts, Numbers DEF RetryUnload
  <2> QED
    BY <2>1, <2>2
<1>2. PICK r : r = [retry EXCEPT !.due = d]
  OBVIOUS
<1>3. r \in Timers
  BY <1>1, <1>2, ServerFacts DEF Timers
<1>4. PICK v : v = [Server EXCEPT !.retry.due = @ - 1]
  OBVIOUS
<1>5. v = [Server EXCEPT !.retry = r]
  BY <1>1, <1>2, <1>4, ServerFacts
<1>6. v \in Servers /\ v.boards = Server.boards /\ v.registry = Server.registry
  BY <1>3, <1>5, ServerFacts DEF Servers
<1>7. GoodServer(v)
  BY <1>6, KnownFacts, SameBoards
<1>8. /\ registry # None => CanRequestSave(Server, registry)
      /\ Install(IF registry = None THEN v ELSE Unload(v, registry))
      /\ UNCHANGED <<disk, socks, stopping, bounds>>
  BY <1>4 DEF RetryUnload
<1>9. \E w : GoodServer(w) /\ Install(w)
  <2>1. CASE registry = None
    BY <1>7, <1>8, <2>1
  <2>2. CASE registry # None
    <3>1. registry \in Instances /\ Server.boards[registry].phase # "free"
      BY <2>2, ServerFacts DEF Sound
    <3>2. CanRequestSave(v, registry) /\ v.boards[registry].phase # "free"
      BY <1>6, <1>8, <2>2, <3>1 DEF CanRequestSave
    <3> QED
      BY <1>7, <1>8, <2>2, <3>1, <3>2, ServerFacts, UnloadFacts
  <2> QED
    BY <2>1, <2>2
<1> QED
  BY <1>8, <1>9, KnownFacts, ServerFacts, Uncounted, Quietly

LEMMA CountGrows ==
    ASSUME IInv, UNCHANGED <<failures, scenario>>,
           \/ sent < scenario.writes /\ sent' = sent + 1 /\ foreign' = foreign
           \/ foreign < scenario.foreign /\ foreign' = foreign + 1 /\ sent' = sent
    PROVE  CountInv' /\ Bound' = Bound + 1
<1>1. /\ sent \in Nat /\ foreign \in Nat /\ failures \in Nat
      /\ scenario \in Scenarios /\ sent <= scenario.writes
      /\ foreign <= scenario.foreign
  BY DEF IInv, CountInv
<1>2. PICK w \in Nat, f \in Nat : w = scenario.writes /\ f = scenario.foreign
  BY Numbers DEF IInv
<1>3. /\ sent' \in Nat /\ foreign' \in Nat /\ sent' <= w /\ foreign' <= f
      /\ sent' + foreign' = sent + foreign + 1
  BY <1>1, <1>2
<1> QED
  BY <1>1, <1>2, <1>3 DEF CountInv, Bound

LEMMA ForeignWriteStep ==
    ASSUME IInv, ForeignWrite
    PROVE  IInv'
<1>1. /\ foreign < scenario.foreign /\ foreign' = foreign + 1
      /\ disk' = Append(disk, NextWrite)
      /\ UNCHANGED <<registry, boards, pins, retry, socks, stopping, sent, failures,
                     scenario>>
  BY DEF ForeignWrite
<1>2. PICK n \in Nat : n = Len(disk) + 1
  BY ServerFacts
<1>3. Grown(disk', n)
  BY <1>1, <1>2, KnownFacts DEF Grown
<1>4. CountInv' /\ Bound' = Bound + 1
  BY <1>1, CountGrows
<1>5. Install(Server) /\ Sound(Server)
      /\ \A i \in Instances : Known(Server.boards[i].hist)
  BY <1>1, Same, KnownFacts DEF GoodServer
<1>6. /\ socks' \in [Sockets -> PageStates]
      /\ \A s \in Sockets : PageInv(socks'[s]) /\ Known(socks'[s].view)
  BY <1>1, KnownFacts DEF GoodPages, GoodPage
<1> QED
  BY <1>1, <1>3, <1>4, <1>5, <1>6, ServerFacts, Growing

LEMMA ShutdownStep ==
    ASSUME IInv, Shutdown
    PROVE  IInv'
<1>1. GoodPages(socks')
  <2>1. socks' = [s \in Sockets |-> IF s \in Sockets THEN Away ELSE socks[s]]
    BY DEF Shutdown
  <2> QED
    BY <2>1, Closing
<1>2. PICK left : left = WithUsers(Server, registry, {})
  OBVIOUS
<1>3. \/ registry = None /\ Install(Server)
      \/ registry # None /\ CanRequestSave(left, registry)
         /\ Install(Unload(left, registry))
  <2>1. left = [Server EXCEPT !.boards[registry].users = {}]
    BY <1>2, Zenon DEF WithUsers
  <2> QED
    BY <2>1, Zenon DEF Shutdown
<1>4. registry # None => GoodServer(left) /\ registry \in Instances
                         /\ left.boards[registry].phase # "free"
  BY <1>2, RegisteredUsers
<1>5. \E w : GoodServer(w) /\ Install(w)
  <2>1. CountInv /\ GoodServer(Server)
    BY ServerFacts, KnownFacts
  <2> QED
    BY <1>3, <1>4, <2>1, UnloadFacts
<1>6. UNCHANGED <<disk, bounds>> /\ stopping' \in BOOLEAN
  BY DEF Shutdown
<1> QED
  BY <1>1, <1>5, <1>6, KnownFacts, Uncounted, Quietly

\* The process has just started.
Fresh == [registry |-> None, boards |-> [i \in Instances |-> FreeBoard],
          pins |-> {}, retry |-> NoTimers]

LEMMA FreshFacts ==
    ASSUME CountInv
    PROVE  Sound(Fresh)
<1>1. NoTimers \in Timers
  <2>1. 0 \in 0 .. scenario.retries
    BY Numbers
  <2> QED
    BY <2>1 DEF NoTimers, Timers
<1>2. BoardInv(FreeBoard)
  BY FreeFacts, Numbers DEF BoardInv
<1>3. Fresh \in Servers
  BY <1>1, FreeFacts DEF Fresh, Servers
<1> QED
  BY <1>2, <1>3 DEF Fresh, Sound

LEMMA RestartStep ==
    ASSUME IInv, Restart
    PROVE  IInv'
<1>1. Install(Fresh)
  BY DEF Fresh, Install, Restart
<1>2. GoodServer(Fresh)
  BY ServerFacts, KnownFacts, FreshFacts, FreeFacts DEF GoodServer, Fresh
<1>3. GoodPages(socks')
  <2>1. socks' = [s \in Sockets |-> IF s \in Sockets THEN Away ELSE socks[s]]
    BY DEF Restart
  <2> QED
    BY <2>1, Closing
<1>4. UNCHANGED <<disk, bounds>> /\ stopping' \in BOOLEAN
  BY DEF Restart
<1> QED
  BY <1>1, <1>2, <1>3, <1>4, KnownFacts, Uncounted, Quietly

\* Instance i accepts the next write.
LEMMA Accepted ==
    ASSUME IInv, NEW v, GoodServer(v), NEW i \in Instances, v.boards[i].phase # "free"
    PROVE  LET w == Accept(v, i, NextWrite)
               n == Len(v.boards[i].hist) + 1
           IN  /\ n \in Nat /\ Sound(w) /\ Grown(w.boards[i].hist, n)
               /\ \A j \in Instances : j # i => w.boards[j] = v.boards[j]
<1>1. PICK w : w = Accept(v, i, NextWrite)
  OBVIOUS
<1>2. /\ Sound(w) /\ w.boards[i].hist = Append(v.boards[i].hist, NextWrite)
      /\ \A j \in Instances : j # i => w.boards[j] = v.boards[j]
  BY <1>1, ServerFacts, AcceptFacts DEF GoodServer
<1>3. Known(v.boards[i].hist)
  BY DEF GoodServer
<1>4. Grown(w.boards[i].hist, Len(v.boards[i].hist) + 1)
  BY <1>2, <1>3 DEF Grown
<1>5. Len(v.boards[i].hist) \in Nat
  BY <1>3, LenProperties DEF Known
<1> QED
  BY <1>1, <1>2, <1>4, <1>5

LEMMA WriteStep ==
    ASSUME IInv, NEW s \in Sockets, Write(s)
    PROVE  IInv'
<1>1. PICK w : w = Accept(Server, registry, NextWrite)
  OBVIOUS
<1>2. /\ registry # None /\ sent < scenario.writes /\ sent' = sent + 1
      /\ Install(w) /\ socks' = Broadcast(Server, socks, registry, s, NextWrite)
      /\ UNCHANGED <<disk, stopping, foreign, failures, scenario>>
  BY <1>1 DEF Write
<1>3. registry \in Instances /\ Server.boards[registry].phase # "free"
  BY <1>2, ServerFacts DEF Sound
<1>4. PICK n : n = Len(Server.boards[registry].hist) + 1
  OBVIOUS
<1>5. /\ n \in Nat /\ Sound(w) /\ Grown(w.boards[registry].hist, n)
      /\ \A j \in Instances : j # registry => w.boards[j] = Server.boards[j]
  BY <1>1, <1>3, <1>4, KnownFacts, Accepted
<1>6. \A i \in Instances : Known(w.boards[i].hist) \/ Grown(w.boards[i].hist, n)
  BY <1>5, KnownFacts DEF GoodServer
<1>7. /\ socks' \in [Sockets -> PageStates]
      /\ \A r \in Sockets : PageInv(socks'[r])
                            /\ (Known(socks'[r].view) \/ Grown(socks'[r].view, n))
  BY <1>2, <1>3, <1>4, KnownFacts, ServerFacts, BroadcastFacts
<1>8. CountInv' /\ Bound' = Bound + 1
  BY <1>2, CountGrows
<1> QED
  BY <1>2, <1>5, <1>6, <1>7, <1>8, KnownFacts, ServerFacts, Growing

\* FinishLoad, continuation by continuation.
Loaded(v, i) == [v EXCEPT !.boards[i].phase = "loaded", !.boards[i].late = {},
                          !.boards[i].unload = FALSE]
LoadedNow(i) == Loaded(Server, i)
Wrote(i) == IF boards[i].late = {} THEN LoadedNow(i)
            ELSE Accept(LoadedNow(i), i, NextWrite)
Heard(i) == IF boards[i].late = {} THEN socks
            ELSE Broadcast(LoadedNow(i), socks, i,
                           CHOOSE s \in boards[i].late : TRUE, NextWrite)
Settled(i) == IF boards[i].unload THEN RequestSave(Wrote(i), i, TRUE) ELSE Wrote(i)
Waiting(i) == {s \in Sockets : socks[s].at = "loading" /\ socks[s].inst = i}
Joining(i) == {s \in Waiting(i) : Joins(LoadedNow(i), socks[s], i)}

LEMMA FinishLoadIs ==
    ASSUME NEW i \in Instances, FinishLoad(i)
    PROVE  /\ boards[i].phase = "read"
           /\ boards[i].late # {} => sent < scenario.writes
           /\ Install(WithUsers(Settled(i), i, Settled(i).boards[i].users \cup Joining(i)))
           /\ socks' = [s \in Sockets |-> IF s \in Waiting(i)
                                          THEN Handshake(LoadedNow(i), socks[s], i)
                                          ELSE Heard(i)[s]]
           /\ sent' = IF boards[i].late = {} THEN sent ELSE sent + 1
           /\ UNCHANGED <<disk, stopping, foreign, failures, scenario>>
BY Zenon DEF FinishLoad, WithUsers, Settled, Joining, Waiting, Wrote, Heard, LoadedNow,
             Loaded

\* What the end of the load of i does to a server.
LoadedFrom(v, w, i) ==
    LET b == v.boards[i]
        c == w.boards[i]
    IN  /\ Sound(w) /\ w.registry = v.registry /\ w.pins = v.pins
        /\ \A j \in Instances : j # i => w.boards[j] = v.boards[j]
        /\ c.phase = "loaded" /\ c.late = {} /\ c.unload = FALSE
        /\ c.hist = b.hist /\ c.persisted = b.persisted /\ c.floor = b.floor
        /\ c.users = b.users /\ c.disposed = b.disposed
        /\ c.save = Idle /\ c.queued = 0

LEMMA LoadedFacts ==
    ASSUME NEW v, Sound(v), NEW i \in Instances, v.boards[i].phase = "read"
    PROVE  LoadedFrom(v, Loaded(v, i), i)
<1>1. PICK b : b = v.boards[i]
  OBVIOUS
<1>2. b \in BoardStates /\ BoardInv(b) /\ v \in Servers
  BY <1>1, BoardFacts
<1>3. PICK c : c = [b EXCEPT !.phase = "loaded", !.late = {}, !.unload = FALSE]
  OBVIOUS
<1>4. /\ c \in BoardStates /\ c.phase = "loaded" /\ c.late = {} /\ c.unload = FALSE
      /\ c.hist = b.hist /\ c.persisted = b.persisted /\ c.floor = b.floor
      /\ c.users = b.users /\ c.disposed = b.disposed
      /\ c.save = b.save /\ c.queued = b.queued
  BY <1>2, <1>3 DEF BoardStates, BoardPhases
<1>5. c.save = Idle /\ c.queued = 0
  BY <1>1, <1>2, <1>4 DEF BoardInv
<1>6. BoardInv(c)
  BY <1>1, <1>2, <1>4, <1>5 DEF BoardInv
<1>7. PICK w : w = SetBoard(v, i, c)
  OBVIOUS
<1>8. Loaded(v, i) = w
  <2>1. PICK f : f = [v.boards EXCEPT ![i] = c]
    OBVIOUS
  <2>2. Loaded(v, i) = [v EXCEPT !.boards = f]
    BY <1>1, <1>2, <1>3, <2>1 DEF Loaded, Servers, BoardStates
  <2> QED
    BY <1>7, <2>1, <2>2 DEF SetBoard
<1>9. /\ Sound(w) /\ w.registry = v.registry /\ w.pins = v.pins /\ w.boards[i] = c
      /\ \A j \in Instances : j # i => w.boards[j] = v.boards[j]
  BY <1>1, <1>4, <1>6, <1>7, Changed
<1> QED
  BY <1>1, <1>4, <1>5, <1>8, <1>9 DEF LoadedFrom

LEMMA SettledFacts ==
    ASSUME CountInv, NEW i \in Instances, NEW v, v = Wrote(i), Sound(v),
           v.boards[i].phase = "loaded", v.boards[i].save = Idle
    PROVE  LET w == Settled(i)
           IN  /\ Sound(w) /\ Keeps(v.boards[i], w.boards[i])
               /\ \A j \in Instances : j # i => w.boards[j] = v.boards[j]
               /\ boards[i].unload => Requested(v, w, i, TRUE)
               /\ ~boards[i].unload => w = v
<1>1. PICK w : w = Settled(i)
  OBVIOUS
<1>2. CASE boards[i].unload
  <2>1. w = RequestSave(v, i, TRUE)
    BY <1>1, <1>2 DEF Settled
  <2>2. CanRequestSave(v, i)
    BY DEF CanRequestSave
  <2>3. Requested(v, w, i, TRUE)
    BY <2>1, <2>2, RequestSaveFacts
  <2> QED
    BY <1>1, <1>2, <2>3 DEF Requested
<1>3. CASE ~boards[i].unload
  BY <1>1, <1>3 DEF Settled, Keeps
<1> QED
  BY <1>2, <1>3

LEMMA FinishLoadStep ==
    ASSUME IInv, NEW i \in Instances, FinishLoad(i)
    PROVE  IInv'
<1>1. /\ boards[i].phase = "read"
      /\ boards[i].late # {} => sent < scenario.writes
      /\ UNCHANGED <<disk, stopping, foreign, failures, scenario>>
  BY FinishLoadIs
<1>2. PICK v : v = LoadedNow(i)
  OBVIOUS
<1>3. /\ Sound(v) /\ v.boards[i].phase = "loaded" /\ v.boards[i].save = Idle
      /\ v.boards[i].hist = Server.boards[i].hist
      /\ \A j \in Instances : j # i => v.boards[j] = Server.boards[j]
  <2>1. Sound(Server) /\ Server.boards[i].phase = "read"
    BY <1>1, ServerFacts
  <2>2. v = Loaded(Server, i)
    BY <1>2 DEF LoadedNow
  <2>3. LoadedFrom(Server, v, i)
    BY <2>1, <2>2, LoadedFacts
  <2> QED
    BY <2>3 DEF LoadedFrom
<1>4. GoodServer(v)
  BY <1>3, KnownFacts, ChangedGood DEF GoodServer
<1>5. PICK n : n = Len(v.boards[i].hist) + 1
  OBVIOUS
<1>6. n \in Nat
  <2>1. Known(v.boards[i].hist)
    BY <1>4 DEF GoodServer
  <2> QED
    BY <1>5, <2>1, LenProperties DEF Known
<1>7. PICK w : w = Wrote(i)
  OBVIOUS
<1>8. PICK late : late = boards[i].late
  OBVIOUS
<1>9. /\ Sound(w) /\ w.boards[i].phase = "loaded" /\ w.boards[i].save = Idle
      /\ IF late = {} THEN Known(w.boards[i].hist) ELSE Grown(w.boards[i].hist, n)
      /\ \A j \in Instances : j # i => w.boards[j] = v.boards[j]
  <2>1. CASE late = {}
    <3>1. w = v
      BY <1>2, <1>7, <1>8, <2>1 DEF Wrote
    <3> QED
      BY <1>3, <1>4, <2>1, <3>1 DEF GoodServer
  <2>2. CASE late # {}
    <3>1. w = Accept(v, i, NextWrite)
      BY <1>2, <1>7, <1>8, <2>2 DEF Wrote
    <3>2. /\ Sound(w) /\ Grown(w.boards[i].hist, n)
          /\ \A j \in Instances : j # i => w.boards[j] = v.boards[j]
      BY <1>3, <1>4, <1>5, <3>1, Accepted
    <3>3. w.boards[i].phase = v.boards[i].phase /\ w.boards[i].save = v.boards[i].save
      BY <1>3, <3>1, ServerFacts, AcceptFacts
    <3> QED
      BY <1>3, <2>2, <3>2, <3>3
  <2> QED
    BY <2>1, <2>2
<1>10. PICK u : u = Settled(i)
  OBVIOUS
<1>11. /\ Sound(u) /\ Keeps(w.boards[i], u.boards[i])
       /\ \A j \in Instances : j # i => u.boards[j] = w.boards[j]
  BY <1>7, <1>9, <1>10, ServerFacts, SettledFacts
<1>12. PICK x : x = WithUsers(u, i, u.boards[i].users \cup Joining(i))
  OBVIOUS
<1>13. /\ Sound(x) /\ x.boards[i].hist = w.boards[i].hist
       /\ \A j \in Instances : j # i => x.boards[j] = Server.boards[j]
  <2>1. u.boards[i].users \cup Joining(i) \in SUBSET Sockets
    BY <1>11, BoardFacts DEF BoardStates, Joining, Waiting
  <2>2. u.boards[i].phase # "free" /\ u.boards[i].hist = w.boards[i].hist
    BY <1>9, <1>11 DEF Keeps
  <2>3. /\ Sound(x) /\ x.boards[i].hist = u.boards[i].hist
        /\ \A j \in Instances : j # i => x.boards[j] = u.boards[j]
    BY <1>11, <1>12, <2>1, <2>2, UsersFacts
  <2> QED
    BY <1>3, <1>9, <1>11, <2>2, <2>3
<1>14. Install(x)
  BY <1>10, <1>12, FinishLoadIs
<1>15. \A j \in Instances : /\ Known(x.boards[j].hist) \/ Grown(x.boards[j].hist, n)
                            /\ late = {} => Known(x.boards[j].hist)
  BY <1>9, <1>13, KnownFacts DEF GoodServer
<1>16. PICK heard : heard = Heard(i)
  OBVIOUS
<1>17. \A r \in Sockets :
          /\ heard[r] \in PageStates /\ PageInv(heard[r])
          /\ Known(heard[r].view) \/ Grown(heard[r].view, n)
          /\ late = {} => Known(heard[r].view)
  <2>1. CASE late = {}
    BY <1>8, <1>16, <2>1, KnownFacts DEF Heard, GoodPages, GoodPage
  <2>2. CASE late # {}
    <3>1. PICK s : s = CHOOSE r \in late : TRUE
      OBVIOUS
    <3>2. s \in Sockets
      <4>1. s \in late
        BY <2>2, <3>1
      <4>2. late \subseteq Sockets
        BY <1>8, ServerFacts DEF BoardStates
      <4> QED
        BY <4>1, <4>2
    <3>3. heard = Broadcast(v, socks, i, s, NextWrite)
      BY <1>2, <1>8, <1>16, <2>2, <3>1 DEF Heard
    <3>4. /\ heard \in [Sockets -> PageStates]
          /\ \A r \in Sockets : /\ PageInv(heard[r])
                                /\ Known(heard[r].view) \/ Grown(heard[r].view, n)
      BY <1>4, <1>5, <3>2, <3>3, KnownFacts, ServerFacts, BroadcastFacts
    <3> QED
      BY <2>2, <3>4
  <2> QED
    BY <2>1, <2>2
<1>18. \A r \in Sockets : GoodPage(Handshake(v, socks[r], i))
  BY <1>4, KnownFacts, HandshakeFacts DEF GoodPages
<1>19. /\ socks' \in [Sockets -> PageStates]
       /\ \A r \in Sockets : /\ PageInv(socks'[r])
                             /\ Known(socks'[r].view) \/ Grown(socks'[r].view, n)
                             /\ late = {} => Known(socks'[r].view)
  <2>1. socks' = [r \in Sockets |-> IF r \in Waiting(i) THEN Handshake(v, socks[r], i)
                                    ELSE heard[r]]
    BY <1>2, <1>16, FinishLoadIs
  <2> QED
    BY <1>17, <1>18, <2>1 DEF GoodPage
<1>20. CASE late = {}
  <2>1. sent' = sent
    BY <1>8, <1>20, FinishLoadIs
  <2>2. CountInv' /\ Bound' = Bound
    BY <1>1, <2>1, ServerFacts DEF CountInv, Bound
  <2>3. GoodServer(x) /\ GoodPages(socks')
    BY <1>13, <1>15, <1>19, <1>20 DEF GoodServer, GoodPages, GoodPage
  <2> QED
    BY <1>1, <1>14, <2>2, <2>3, KnownFacts, ServerFacts, Quietly
<1>21. CASE late # {}
  <2>1. sent' = sent + 1 /\ sent < scenario.writes
    BY <1>1, <1>8, <1>21, FinishLoadIs
  <2>2. CountInv' /\ Bound' = Bound + 1
    BY <1>1, <2>1, CountGrows
  <2> QED
    BY <1>1, <1>6, <1>13, <1>14, <1>15, <1>19, <2>2, KnownFacts, ServerFacts, Growing
<1> QED
  BY <1>20, <1>21

LEMMA InitIInv ==
    ASSUME Init
    PROVE  IInv
<1>1. CountInv
  <2>1. scenario \in [writes : Nat, queued : Nat, foreign : Nat,
                      failures : Nat, retries : Nat, overlap : BOOLEAN,
                      blank : SUBSET Nat, empty : SUBSET Nat]
    BY BoardLifecycleAssumption DEF Init
  <2> QED
    BY <2>1 DEF Init, CountInv
<1>2. Sound(Server)
  <2>1. Server = Fresh
    BY DEF Init, Server, Fresh
  <2> QED
    BY <1>1, <2>1, FreshFacts
<1>3. PagesInv
  BY AwayFacts, EmptySeq DEF Init, PagesInv
<1>4. PlacesInv
  <2>1. PICK f : f = [n \in Nat |-> n]
    OBVIOUS
  <2>2. f \in [Nat -> Nat]
    BY <2>1
  <2>3. Placed(<< >>, f, Bound)
    BY EmptySeq, Numbers, <1>1 DEF Placed
  <2>4. disk = << >> /\ (\A i \in Instances : boards[i].hist = << >>)
        /\ (\A s \in Sockets : socks[s].view = << >>)
    BY AwayFacts, FreeFacts DEF Init
  <2>5. Shown(f)
    BY <2>3, <2>4 DEF Shown
  <2> QED
    BY <2>2, <2>5 DEF PlacesInv
<1> QED
  BY <1>1, <1>2, <1>3, <1>4 DEF IInv

LEMMA NextIInv ==
    ASSUME IInv, [Next]_vars
    PROVE  IInv'
<1>1. ASSUME NEW s \in Sockets, OpenPage(s) \/ Write(s) \/ Leave(s) \/ Abandon(s)
      PROVE  IInv'
  BY <1>1, OpenPageStep, WriteStep, LeaveStep, AbandonStep
<1>2. ASSUME NEW s \in Sockets, NEW i \in Instances,
             Connect(s, i) \/ ProbeDisk(s, i) \/ WriteUnloaded(s, i)
      PROVE  IInv'
  BY <1>2, ConnectStep, ProbeDiskStep, WriteUnloadedStep
<1>3. ASSUME NEW i \in Instances,
             \/ ReadBoard(i) \/ FinishLoad(i) \/ FailLoad(i)
             \/ TimerSave(i) \/ CheckStored(i) \/ StaleSave(i) \/ RenameStored(i)
             \/ FailSave(i)
      PROVE  IInv'
  BY <1>3, ReadBoardStep, FinishLoadStep, FailLoadStep, TimerSaveStep,
     CheckStoredStep, StaleSaveStep, RenameStoredStep, FailSaveStep
<1>4. ASSUME NEW i \in Instances,
             NEW floor \in 0 .. scenario.writes + scenario.foreign, FinishSave(i, floor)
      PROVE  IInv'
  <2>1. floor \in Nat
    BY ServerFacts, Numbers
  <2> QED
    BY <1>4, <2>1, FinishSaveStep
<1>5. ASSUME NEW p \in pins, ExpirePin(p)
      PROVE  IInv'
  BY <1>5, ExpirePinStep
<1>6. ASSUME RetryUnload \/ ForeignWrite \/ Shutdown \/ Exit \/ Crash
      PROVE  IInv'
  BY <1>6, RetryUnloadStep, ForeignWriteStep, ShutdownStep, RestartStep DEF Exit, Crash
<1>7. ASSUME UNCHANGED vars
      PROVE  IInv'
  <2>1. UNCHANGED <<disk, stopping, bounds, socks>> /\ Install(Server)
    BY <1>7, Same DEF vars, bounds
  <2> QED
    BY <2>1, KnownFacts, ServerFacts, Uncounted, Quietly
<1> QED
  BY <1>1, <1>2, <1>3, <1>4, <1>5, <1>6, <1>7 DEF Next

-----------------------------------------------------------------------------

\* The strengthening holds in every reachable state.
THEOREM Invariance == Spec => []IInv
BY InitIInv, NextIInv, PTL DEF Spec

LEMMA ContentsFacts ==
    ASSUME CountInv, NEW u \in Seq(Nat), NEW f \in [Nat -> Nat], Placed(u, f, Bound)
    PROVE  u \in Contents /\ \A m, n \in 1 .. Len(u) : u[m] = u[n] => m = n
<1>1. PICK w \in Nat : w = scenario.writes + scenario.foreign
  <2>1. \A x, y \in Nat : x + y \in Nat
    OBVIOUS
  <2>2. scenario.writes + scenario.foreign \in Nat
    BY <2>1, Numbers
  <2> QED
    BY <2>2
<1>2. PICK k \in Nat : k = Bound /\ k <= w
  BY <1>1, Numbers
<1>3. PICK l \in Nat : l = Len(u)
  BY LenProperties
<1>4. l <= k /\ \A m \in 1 .. l : u[m] \in 1 .. k /\ f[u[m]] = m
  BY <1>2, <1>3 DEF Placed
<1>5. \A x, y \in Nat : x <= y => \A m \in 1 .. x : m \in 1 .. y
  OBVIOUS
<1>6. u \in [1 .. l -> 1 .. w]
  <2>1. u = [m \in 1 .. l |-> u[m]]
    BY <1>3, LenProperties
  <2>2. \A m \in 1 .. l : u[m] \in 1 .. w
    BY <1>2, <1>4, <1>5
  <2> QED
    BY <2>1, <2>2
<1>7. l \in 0 .. w
  BY <1>2, <1>4
<1>8. u \in Contents
  BY <1>1, <1>6, <1>7 DEF Contents, Writes
<1> QED
  BY <1>3, <1>4, <1>8

LEMMA IInvTypeOK ==
    ASSUME IInv
    PROVE  TypeOK
<1>1. PICK f \in [Nat -> Nat] : Shown(f)
  BY DEF IInv, PlacesInv
<1>2. disk \in Contents
  BY <1>1, ServerFacts, ContentsFacts DEF Shown
<1>3. \A i \in Instances : boards[i] \in Boards
  <2> SUFFICES ASSUME NEW i \in Instances
               PROVE  boards[i] \in Boards
    OBVIOUS
  <2>1. PICK b : b = boards[i]
    OBVIOUS
  <2>2. b \in BoardStates /\ BoardInv(b)
    BY <2>1, ServerFacts, BoardFacts
  <2>3. b.hist \in Contents
    BY <1>1, <2>1, <2>2, ServerFacts, ContentsFacts DEF Shown, BoardStates
  <2>4. b.queued \in 0 .. scenario.queued
    BY <2>2, ServerFacts, Numbers DEF BoardStates, BoardInv
  <2>5. b \in Boards
    BY <2>2, <2>3, <2>4 DEF BoardStates, BoardPhases, Boards, SaveStates
  <2> QED
    BY <2>1, <2>5
<1>4. \A s \in Sockets : socks[s] \in Pages
  <2> SUFFICES ASSUME NEW s \in Sockets
               PROVE  socks[s] \in Pages
    OBVIOUS
  <2>1. PICK q : q = socks[s]
    OBVIOUS
  <2>2. q \in PageStates /\ q.view \in Seq(Nat)
    BY <2>1, ServerFacts DEF PageStates
  <2>3. q.view \in Contents
    BY <1>1, <2>1, <2>2, ServerFacts, ContentsFacts DEF Shown
  <2>4. q \in Pages
    BY <2>2, <2>3 DEF PageStates, Pages, Places
  <2> QED
    BY <2>1, <2>4
<1>5. boards \in [Instances -> Boards]
  BY <1>3, ServerFacts
<1>6. socks \in [Sockets -> Pages]
  BY <1>4, ServerFacts
<1>7. {sent, foreign, failures} \subseteq Nat
  BY ServerFacts DEF CountInv
<1> QED
  BY <1>2, <1>5, <1>6, <1>7, ServerFacts DEF TypeOK, Timers

\* However connections, unloads, failures, restarts and other writers of the
\* file overlap: requests never find an instance that has stopped saving, and no
\* page shows a write twice, or two writes in one place.
THEOREM NeverUnsound == Spec => []SoundWhenOverlapping
<1>1. ASSUME IInv
      PROVE  SoundWhenOverlapping
  <2>1. TypeOK
    BY <1>1, IInvTypeOK
  <2>2. RegisteredIsAlive
    BY <1>1, ServerFacts DEF RegisteredIsAlive, Sound
  <2>3. NoWriteTwice
    <3>1. PICK f \in [Nat -> Nat] : Shown(f)
      BY <1>1 DEF IInv, PlacesInv
    <3>2. ASSUME NEW s \in Sockets
          PROVE  \A m, n \in 1 .. Len(socks[s].view) :
                    socks[s].view[m] = socks[s].view[n] => m = n
      <4>1. socks[s].view \in Seq(Nat)
        BY <1>1, ServerFacts DEF PageStates
      <4> QED
        BY <1>1, <3>1, <4>1, ServerFacts, ContentsFacts DEF Shown
    <3> QED
      BY <3>2 DEF NoWriteTwice
  <2> QED
    BY <2>1, <2>2, <2>3 DEF SoundWhenOverlapping
<1> QED
  BY <1>1, Invariance, PTL

(***************************************************************************)
(* Proofs about BoardLifecycle when nobody connects while an unload is     *)
(* under way and nobody else writes the file (Calm).                       *)
(*                                                                         *)
(* The inductive invariant is IInv /\ CalmInv.  At most one instance may    *)
(* still write the file, and it is the registered one until its unload has *)
(* removed it (Alone); its file is a beginning of its content and as long  *)
(* as it knows, except between the rename and the record of a save         *)
(* (Backed); who is unloaded without a failure has stored everything       *)
(* (Saving); and pages are beginnings of the file before they join, and    *)
(* the whole content of the registered instance from then on (CalmPage).   *)
(***************************************************************************)

\* The file or the page u shows the beginning of t.
Begins(u, t) == Stores(t, u)

\* An instance that may still write the file.
Active(b) == b.phase # "free" /\ (~b.disposed \/ b.save # Idle)

\* There is one at a time, and it is registered until it is unloaded.
Alone(v) ==
    /\ \A i, j \in Instances : Active(v.boards[i]) /\ Active(v.boards[j]) => i = j
    /\ \A i \in Instances : Active(v.boards[i]) /\ v.registry # i =>
          v.registry = None /\ v.boards[i].disposed

StoredLength(b) ==
    IF b.save # Idle /\ b.save.phase = "renamed" THEN b.save.target ELSE b.persisted

\* What instance b knows of the stored file d.
Backed(b, d) ==
    /\ Active(b) /\ b.phase \in {"read", "loaded"} =>
          /\ Begins(d, b.hist) /\ Len(d) = StoredLength(b)
          /\ b.save # Idle => b.persisted <= b.save.target
          /\ b.phase = "read" => b.persisted = Len(b.hist)
    /\ b.disposed /\ b.save # Idle => b.save.unload /\ b.save.target = Len(b.hist)
    /\ b.phase \in {"opening", "read"} => ~b.disposed
    /\ b.late = {}

\* An unload waits for a load only when the process stops, and then nobody is left.
Staying(b, stop) ==
    /\ b.unload => stop
    /\ stop /\ ~b.disposed => b.users = {}

\* Every write is recorded; an item may have stayed dirty all the same.
AllRecorded(b) == Len(b.hist) = b.persisted

\* What the saves that are running or waiting will store; clean says that no
\* load and no save has failed.
Saving(b, d, stop, clean) ==
    /\ b.users = {} /\ ~b.disposed /\ b.save # Idle /\ b.save.unload /\ b.queued = 0
          => b.save.target = Len(b.hist)
    /\ clean /\ b.disposed /\ b.save = Idle => Begins(b.hist, d)
    /\ clean /\ stop /\ b.phase = "loaded" /\ ~b.disposed =>
          b.queued > 0 \/ (b.save # Idle /\ b.save.unload) \/ AllRecorded(b)

CalmBoard(b, d, stop, clean) ==
    Backed(b, d) /\ Staying(b, stop) /\ Saving(b, d, stop, clean)

CalmServer(v, d, stop, clean) ==
    Alone(v) /\ \A i \in Instances : CalmBoard(v.boards[i], d, stop, clean)

\* A page is the beginning of the file, or all of the registered instance.
CalmPage(p, s, v, d, stop) ==
    /\ stop => p.at = "away"
    /\ p.at # "probing"
    /\ p.at \in {"page", "loading"} => Begins(p.view, d)
    /\ p.at \in {"loading", "joined"} => p.inst \in Instances /\ v.registry = p.inst
    /\ p.at = "loading" => v.boards[p.inst].phase # "loaded"
    /\ p.at = "joined" => /\ v.boards[p.inst].phase = "loaded"
                          /\ p.view = v.boards[p.inst].hist
                          /\ s \in v.boards[p.inst].users

CalmPages(pages, v, d, stop) == \A s \in Sockets : CalmPage(pages[s], s, v, d, stop)

CalmInv ==
    Calm => /\ CalmServer(Server, disk, stopping, failures = 0)
            /\ CalmPages(socks, Server, disk, stopping)

-----------------------------------------------------------------------------
(* Beginnings *)

\* What it means, write by write.
LEMMA BeginsIs ==
    ASSUME NEW u \in Seq(Nat), NEW t \in Seq(Nat)
    PROVE  Begins(u, t) <=> /\ Len(u) <= Len(t)
                            /\ \A m \in 1 .. Len(u) : t[m] = u[m]
<1>1. Len(u) \in Nat /\ Len(t) \in Nat
  BY LenProperties
<1>2. ASSUME Len(u) <= Len(t)
      PROVE  Prefix(t, Len(u)) = u <=> \A m \in 1 .. Len(u) : t[m] = u[m]
  <2>1. PICK p : p = Prefix(t, Len(u))
    OBVIOUS
  <2>2. p \in Seq(Nat) /\ Len(p) = Len(u) /\ \A m \in 1 .. Len(u) : p[m] = t[m]
    BY <1>1, <1>2, <2>1, PrefixFacts
  <2>3. (\A m \in 1 .. Len(u) : t[m] = u[m]) => p = u
    <3>1. ASSUME \A m \in 1 .. Len(u) : t[m] = u[m]
          PROVE  p = u
      <4>1. \A m \in 1 .. Len(p) : p[m] = u[m]
        BY <2>2, <3>1
      <4> QED
        BY <2>2, <4>1, SeqEqual
    <3> QED
      BY <3>1
  <2> QED
    BY <2>1, <2>2, <2>3
<1> QED
  BY <1>2 DEF Begins, Stores

LEMMA BeginsFacts ==
    ASSUME NEW u \in Seq(Nat), NEW t \in Seq(Nat), Begins(u, t)
    PROVE  /\ Len(u) <= Len(t)
           /\ Len(u) = Len(t) => u = t
           /\ u \o SubSeq(t, Len(u) + 1, Len(t)) = t
<1>1. Len(u) <= Len(t) /\ \A m \in 1 .. Len(u) : t[m] = u[m]
  BY BeginsIs
<1>2. Len(u) = Len(t) => u = t
  BY <1>1, SeqEqual
<1>3. PICK c : c = u \o SubSeq(t, Len(u) + 1, Len(t))
  OBVIOUS
<1>4. /\ c \in Seq(Nat) /\ Len(c) = Len(t)
      /\ \A m \in 1 .. Len(u) : c[m] = u[m]
      /\ \A m \in 1 .. Len(t) : m > Len(u) => c[m] = t[m]
  BY <1>1, <1>3, Replayed
<1>5. \A m \in 1 .. Len(t) : m \in 1 .. Len(u) \/ m > Len(u)
  BY LenProperties
<1>6. c = t
  <2>1. \A m \in 1 .. Len(c) : c[m] = t[m]
    BY <1>1, <1>4, <1>5
  <2> QED
    BY <1>4, <2>1, SeqEqual
<1> QED
  BY <1>1, <1>2, <1>3, <1>6

LEMMA BeginsSame ==
    ASSUME NEW u \in Seq(Nat)
    PROVE  Begins(u, u)
<1>1. Len(u) <= Len(u)
  BY LenProperties
<1> QED
  BY <1>1, BeginsIs

\* A beginning of a content is one of whatever continues it.
LEMMA BeginsLonger ==
    ASSUME NEW u \in Seq(Nat), NEW t \in Seq(Nat), NEW x \in Seq(Nat),
           Begins(u, t), Begins(t, x)
    PROVE  Begins(u, x)
<1>1. /\ Len(u) <= Len(t) /\ \A m \in 1 .. Len(u) : t[m] = u[m]
      /\ Len(t) <= Len(x) /\ \A m \in 1 .. Len(t) : x[m] = t[m]
  BY BeginsIs
<1>2. PICK a, b, c \in Nat : a = Len(u) /\ b = Len(t) /\ c = Len(x)
  BY LenProperties
<1>3. a <= c /\ \A m \in 1 .. a : m \in 1 .. b
  BY <1>1, <1>2
<1>4. \A m \in 1 .. Len(u) : x[m] = u[m]
  BY <1>1, <1>2, <1>3
<1> QED
  BY <1>2, <1>3, <1>4, BeginsIs

\* Of two beginnings of the same content the shorter one begins the other.
LEMMA BeginsBoth ==
    ASSUME NEW u \in Seq(Nat), NEW t \in Seq(Nat), NEW x \in Seq(Nat),
           Begins(u, x), Begins(t, x), Len(u) <= Len(t)
    PROVE  Begins(u, t)
<1>1. /\ \A m \in 1 .. Len(u) : x[m] = u[m]
      /\ \A m \in 1 .. Len(t) : x[m] = t[m]
  BY BeginsIs
<1>2. PICK a, b \in Nat : a = Len(u) /\ b = Len(t)
  BY LenProperties
<1>3. \A m \in 1 .. a : m \in 1 .. b
  BY <1>2
<1>4. \A m \in 1 .. Len(u) : t[m] = u[m]
  BY <1>1, <1>2, <1>3
<1> QED
  BY <1>4, BeginsIs

\* Prefixes are beginnings.
LEMMA BeginsPrefix ==
    ASSUME NEW t \in Seq(Nat), NEW n \in Nat, n <= Len(t)
    PROVE  Prefix(t, n) \in Seq(Nat) /\ Len(Prefix(t, n)) = n /\ Begins(Prefix(t, n), t)
<1>1. PICK p : p = Prefix(t, n)
  OBVIOUS
<1>2. p \in Seq(Nat) /\ Len(p) = n /\ \A m \in 1 .. n : p[m] = t[m]
  BY <1>1, PrefixFacts
<1>3. Begins(p, t)
  BY <1>2, BeginsIs
<1> QED
  BY <1>1, <1>2, <1>3

\* Accepting a write keeps beginnings.
LEMMA BeginsAppend ==
    ASSUME NEW u \in Seq(Nat), NEW t \in Seq(Nat), NEW w \in Nat, Begins(u, t)
    PROVE  Begins(u, Append(t, w))
<1>1. PICK a : a = Append(t, w)
  OBVIOUS
<1>2. a \in Seq(Nat) /\ Len(a) = Len(t) + 1 /\ \A m \in 1 .. Len(t) : a[m] = t[m]
  BY <1>1, AppendProperties
<1>3. PICK k, l \in Nat : k = Len(t) /\ l = Len(a)
  BY <1>2, LenProperties
<1>4. l = k + 1 /\ k <= l
  BY <1>2, <1>3
<1>5. Begins(t, a)
  BY <1>2, <1>3, <1>4, BeginsIs
<1> QED
  BY <1>1, <1>2, <1>5, BeginsLonger

-----------------------------------------------------------------------------
(* Saves and unloads *)

\* What one turn leaves of a calm server in which only instance i changes.
LEMMA AloneKept ==
    ASSUME NEW v, NEW w, Alone(v), NEW i \in Instances,
           \A j \in Instances : j # i => w.boards[j] = v.boards[j],
           Active(w.boards[i]) => Active(v.boards[i]),
           \/ w.registry = v.registry /\ (v.boards[i].disposed => w.boards[i].disposed)
           \/ w.registry = None /\ w.boards[i].disposed /\ Active(v.boards[i])
    PROVE  Alone(w)
<1>1. \A j \in Instances : Active(w.boards[j]) => Active(v.boards[j])
  OBVIOUS
<1>2. \A j, k \in Instances : Active(w.boards[j]) /\ Active(w.boards[k]) => j = k
  BY <1>1 DEF Alone
<1>3. ASSUME NEW j \in Instances, Active(w.boards[j]), w.registry # j
      PROVE  w.registry = None /\ w.boards[j].disposed
  <2>1. Active(v.boards[j])
    BY <1>1, <1>3
  <2>2. CASE w.registry = v.registry /\ (v.boards[i].disposed => w.boards[i].disposed)
    BY <1>3, <2>1, <2>2 DEF Alone
  <2>3. CASE w.registry = None /\ w.boards[i].disposed /\ Active(v.boards[i])
    BY <2>1, <2>3 DEF Alone
  <2> QED
    BY <2>2, <2>3
<1> QED
  BY <1>2, <1>3 DEF Alone

\* Pages that do not move stay right when only instance i changes.
LEMMA PagesKept ==
    ASSUME NEW v, NEW w, Alone(v), NEW i \in Instances, NEW pages, NEW d, NEW stop,
           \A j \in Instances : j # i => w.boards[j] = v.boards[j],
           w.boards[i].phase = v.boards[i].phase, w.boards[i].hist = v.boards[i].hist,
           w.boards[i].users = v.boards[i].users,
           \/ w.registry = v.registry
           \/ /\ v.boards[i].users = {} /\ Active(v.boards[i])
              /\ v.boards[i].phase = "loaded",
           CalmPages(pages, v, d, stop)
    PROVE  CalmPages(pages, w, d, stop)
<1> SUFFICES ASSUME NEW s \in Sockets
             PROVE  CalmPage(pages[s], s, w, d, stop)
  BY DEF CalmPages
<1>1. PICK p : p = pages[s]
  OBVIOUS
<1>2. CalmPage(p, s, v, d, stop)
  BY <1>1 DEF CalmPages
<1>3. CASE w.registry = v.registry
  <2>1. \A j \in Instances : /\ w.boards[j].phase = v.boards[j].phase
                             /\ w.boards[j].hist = v.boards[j].hist
                             /\ w.boards[j].users = v.boards[j].users
    OBVIOUS
  <2> QED
    BY <1>1, <1>2, <1>3, <2>1 DEF CalmPage
<1>4. CASE /\ v.boards[i].users = {} /\ Active(v.boards[i])
           /\ v.boards[i].phase = "loaded"
  <2>1. v.registry \in Instances => v.registry = i
    BY <1>4 DEF Alone, None, Instances
  <2>2. p.at # "loading" /\ p.at # "joined"
    BY <1>2, <1>4, <2>1 DEF CalmPage
  <2> QED
    BY <1>1, <1>2, <2>2 DEF CalmPage
<1> QED
  BY <1>3, <1>4

\* Instances that may not start a save hold what is on disk.
LEMMA LoadedBacked ==
    ASSUME NEW v, Sound(v), NEW i \in Instances, NEW d \in Seq(Nat),
           Backed(v.boards[i], d), Active(v.boards[i]), v.boards[i].phase = "loaded"
    PROVE  LET b == v.boards[i]
           IN  /\ b \in BoardStates /\ b.hist \in Seq(Nat) /\ Begins(d, b.hist)
               /\ Len(b.hist) \in Nat /\ Len(d) \in Nat /\ Len(d) <= Len(b.hist)
               /\ Len(d) = Len(b.hist) => d = b.hist /\ Begins(b.hist, d)
               /\ Len(d) = StoredLength(b)
<1>1. PICK b : b = v.boards[i]
  OBVIOUS
<1>2. b \in BoardStates /\ b.hist \in Seq(Nat)
  BY <1>1, BoardFacts DEF BoardStates
<1>3. Begins(d, b.hist) /\ Len(d) = StoredLength(b)
  BY <1>1 DEF Backed
<1>4. /\ Len(d) <= Len(b.hist)
      /\ Len(d) = Len(b.hist) => d = b.hist
  BY <1>2, <1>3, BeginsFacts
<1>5. Begins(b.hist, b.hist)
  BY <1>2, BeginsSame
<1>6. Len(b.hist) \in Nat /\ Len(d) \in Nat
  BY <1>2, LenProperties
<1>7. Len(d) = Len(b.hist) => d = b.hist /\ Begins(b.hist, d)
  BY <1>4, <1>5
<1> QED
  BY <1>1, <1>2, <1>3, <1>4, <1>6, <1>7

\* Asking for a save keeps a calm server calm.
LEMMA RequestCalm ==
    ASSUME NEW v, Sound(v), NEW i \in Instances, NEW w, Requested(v, w, i, TRUE),
           NEW d \in Seq(Nat), NEW stop, NEW clean, Alone(v),
           \A j \in Instances : Backed(v.boards[j], d) /\ Staying(v.boards[j], stop),
           \A j \in Instances : j # i => Saving(v.boards[j], d, stop, clean),
           v.boards[i].phase = "loaded", ~v.boards[i].disposed
    PROVE  /\ CalmServer(w, d, stop, clean)
           /\ w.registry = v.registry \/ v.boards[i].users = {}
           /\ w.boards[i].disposed => v.boards[i].hist = d
<1>1. PICK b : b = v.boards[i]
  OBVIOUS
<1>2. PICK c : c = w.boards[i]
  OBVIOUS
<1>3. /\ Sound(w) /\ \A j \in Instances : j # i => w.boards[j] = v.boards[j]
      /\ c.phase = b.phase /\ c.hist = b.hist /\ c.persisted = b.persisted
      /\ c.users = b.users /\ c.unload = b.unload /\ c.late = b.late
  BY <1>1, <1>2 DEF Requested, Keeps
<1>4. Active(b) /\ b.phase = "loaded" /\ ~b.disposed
  BY <1>1 DEF Active
<1>5. /\ b \in BoardStates /\ b.hist \in Seq(Nat) /\ Begins(d, b.hist)
      /\ Len(b.hist) \in Nat /\ Len(d) \in Nat /\ Len(d) <= Len(b.hist)
      /\ Len(d) = Len(b.hist) => d = b.hist /\ Begins(b.hist, d)
      /\ Len(d) = StoredLength(b)
  BY <1>1, <1>4, LoadedBacked
<1>6. Backed(b, d) /\ Staying(b, stop) /\ BoardInv(b)
  BY <1>1, BoardFacts
<1>7. \/ /\ w.registry = v.registry /\ c = b /\ b.save = Idle /\ ~Dirty(b)
      \/ /\ w.registry = None /\ c.disposed /\ b.users = {}
         /\ c.save = Idle /\ b.save = Idle /\ ~Dirty(b)
      \/ /\ w.registry = v.registry /\ c.disposed = b.disposed
         /\ c.save = b.save /\ b.save # Idle /\ c.queued = b.queued + 1
      \/ /\ w.registry = v.registry /\ c.disposed = b.disposed
         /\ b.save = Idle /\ Starts(b, c, TRUE)
  BY <1>1, <1>2, <1>4 DEF Requested
<1>8. b.save = Idle /\ ~Dirty(b) => d = b.hist /\ Begins(b.hist, d)
  BY <1>5 DEF Dirty, StoredLength
<1>9. /\ Backed(c, d) /\ Saving(c, d, stop, clean)
      /\ \/ w.registry = v.registry /\ c.disposed = b.disposed
         \/ w.registry = None /\ c.disposed /\ b.users = {} /\ b.hist = d
  <2>1. CASE w.registry = v.registry /\ c = b /\ b.save = Idle /\ ~Dirty(b)
    <3>1. Backed(c, d) /\ Saving(c, d, stop, clean)
      BY <1>4, <1>6, <2>1 DEF Saving, Dirty, AllRecorded
    <3> QED
      BY <2>1, <3>1
  <2>2. CASE /\ w.registry = None /\ c.disposed /\ b.users = {}
              /\ c.save = Idle /\ b.save = Idle /\ ~Dirty(b)
    <3>1. ~Active(c)
      BY <2>2 DEF Active
    <3>2. Backed(c, d)
      BY <1>3, <1>4, <1>6, <2>2, <3>1 DEF Backed
    <3>3. Saving(c, d, stop, clean)
      BY <1>3, <1>8, <2>2 DEF Saving
    <3> QED
      BY <1>1, <1>2, <1>8, <2>2, <3>1, <3>2, <3>3
  <2>3. CASE /\ w.registry = v.registry /\ c.disposed = b.disposed
              /\ c.save = b.save /\ b.save # Idle /\ c.queued = b.queued + 1
    <3>1. Backed(c, d)
      BY <1>3, <1>4, <1>6, <2>3 DEF Backed, Active, StoredLength
    <3>2. c.queued > 0
      BY <1>5, <2>3 DEF BoardStates
    <3>3. Saving(c, d, stop, clean)
      BY <1>4, <2>3, <3>2 DEF Saving
    <3> QED
      BY <1>1, <1>2, <1>4, <2>3, <3>1, <3>3
  <2>4. CASE /\ w.registry = v.registry /\ c.disposed = b.disposed
              /\ b.save = Idle /\ Starts(b, c, TRUE)
    <3>1. /\ c.save \in Saves /\ c.save.phase = "checking"
          /\ c.save.target = Len(b.hist) /\ c.save.unload = TRUE /\ c.save # Idle
      BY <2>4, IdleFacts DEF Starts
    <3>2. Len(d) = c.persisted /\ StoredLength(c) = c.persisted
      BY <1>3, <1>5, <2>4, <3>1 DEF StoredLength
    <3>3. Backed(c, d)
      BY <1>3, <1>4, <1>5, <1>6, <2>4, <3>1, <3>2 DEF Backed
    <3>4. Saving(c, d, stop, clean)
      BY <1>3, <1>4, <2>4, <3>1 DEF Saving
    <3> QED
      BY <1>1, <1>2, <1>4, <2>4, <3>3, <3>4
  <2> QED
    BY <1>7, <2>1, <2>2, <2>3, <2>4
<1>10. Staying(c, stop)
  BY <1>3, <1>6, <1>9 DEF Staying
<1>11. Alone(w)
  BY <1>1, <1>2, <1>3, <1>4, <1>9, AloneKept
<1>12. \A j \in Instances : CalmBoard(w.boards[j], d, stop, clean)
  BY <1>2, <1>3, <1>9, <1>10 DEF CalmBoard
<1> QED
  BY <1>1, <1>2, <1>4, <1>9, <1>11, <1>12 DEF CalmServer

\* A save ends: it has recorded what it has stored, or it has failed.
LEMMA EndCalm ==
    ASSUME NEW v, Sound(v), NEW i \in Instances, NEW status \in {"saved", "failed"},
           NEW w, Ended(v, w, i, status), v.boards[i].save # Idle,
           NEW d \in Seq(Nat), NEW clean, CalmServer(v, d, stopping, clean),
           Len(d) = v.boards[i].persisted,
           status = "saved" => v.boards[i].persisted = v.boards[i].save.target,
           clean => status = "saved"
    PROVE  /\ CalmServer(w, d, stopping, clean)
           /\ w.registry = v.registry \/ v.boards[i].users = {}
           /\ Active(v.boards[i]) /\ Keeps(v.boards[i], w.boards[i])
           /\ ~stopping /\ ~v.boards[i].disposed /\ w.boards[i].disposed
                 => \/ v.boards[i].hist = d
                    \/ /\ w.boards[i].save # Idle
                       /\ w.boards[i].save.target = Len(v.boards[i].hist)
<1>1. PICK b : b = v.boards[i]
  OBVIOUS
<1>2. PICK c : c = w.boards[i]
  OBVIOUS
<1>3. /\ Sound(w) /\ \A j \in Instances : j # i => w.boards[j] = v.boards[j]
      /\ c.phase = b.phase /\ c.hist = b.hist /\ c.persisted = b.persisted
      /\ c.users = b.users /\ c.unload = b.unload /\ c.late = b.late
      /\ b.phase = "loaded"
  BY <1>1, <1>2 DEF Ended, Keeps
<1>4. Active(b) /\ b.save # Idle
  BY <1>1, <1>3 DEF Active
<1>5. /\ Alone(v) /\ Backed(b, d) /\ Staying(b, stopping)
      /\ Saving(b, d, stopping, clean) /\ BoardInv(b)
  BY <1>1, BoardFacts DEF CalmServer, CalmBoard
<1>6. /\ b \in BoardStates /\ b.hist \in Seq(Nat) /\ Begins(d, b.hist)
      /\ Len(b.hist) \in Nat /\ Len(d) \in Nat /\ Len(d) <= Len(b.hist)
      /\ Len(d) = Len(b.hist) => d = b.hist /\ Begins(b.hist, d)
      /\ Len(d) = StoredLength(b)
  BY <1>1, <1>3, <1>4, <1>5, LoadedBacked
<1>7. /\ b.queued = 0 \/ Skips(b) => c.save = Idle /\ c.queued = 0
      /\ b.queued # 0 /\ ~Skips(b) => Starts(b, c, TRUE)
      /\ \/ w.registry = v.registry /\ c.disposed = b.disposed
         \/ /\ w.registry = None /\ c.disposed /\ b.users = {}
            /\ \/ Skips(b)
               \/ /\ b.save.unload /\ status # "stale"
                  /\ status # "failed" \/ stopping
  BY <1>1, <1>2 DEF Ended
<1>8. AllRecorded(b) => d = b.hist /\ Begins(b.hist, d)
  BY <1>1, <1>6 DEF AllRecorded
<1>9. status = "saved" /\ b.save.target = Len(b.hist)
         => d = b.hist /\ Begins(b.hist, d) /\ AllRecorded(b)
  BY <1>1, <1>6 DEF AllRecorded
<1>10. Skips(b) => b.disposed \/ AllRecorded(b)
  BY DEF Skips, NothingToSave, Dirty, AllRecorded
<1>11. CASE b.queued # 0 /\ ~Skips(b)
  <2>1. /\ c.save \in Saves /\ c.save.phase = "checking" /\ ~b.disposed
        /\ c.save.target = Len(b.hist) /\ c.save.unload = TRUE /\ c.save # Idle
    BY <1>7, <1>11, IdleFacts DEF Starts
  <2>2. Len(d) = c.persisted /\ StoredLength(c) = c.persisted
    BY <1>1, <1>3, <2>1 DEF StoredLength
  <2>3. Backed(c, d)
    BY <1>3, <1>4, <1>5, <1>6, <2>1, <2>2 DEF Backed
  <2>4. Saving(c, d, stopping, clean)
    BY <1>3, <2>1 DEF Saving
  <2>5. /\ Backed(c, d) /\ Saving(c, d, stopping, clean)
        /\ c.save # Idle /\ c.save.target = Len(b.hist)
    BY <2>1, <2>3, <2>4
  <2> QED
    <3>1. Staying(c, stopping)
      BY <1>3, <1>5, <2>1 DEF Staying
    <3>2. Alone(w)
      BY <1>1, <1>2, <1>3, <1>4, <1>5, <1>7, AloneKept
    <3>3. \A j \in Instances : CalmBoard(w.boards[j], d, stopping, clean)
      BY <1>2, <1>3, <2>5, <3>1 DEF CalmServer, CalmBoard
    <3>4. Keeps(b, c)
      BY <1>1, <1>2 DEF Ended
    <3> QED
      BY <1>1, <1>2, <1>4, <1>7, <2>5, <3>2, <3>3, <3>4 DEF CalmServer
<1>12. CASE b.queued = 0 \/ Skips(b)
  <2>1. c.save = Idle /\ c.queued = 0
    BY <1>7, <1>12
  <2>2. Len(d) = c.persisted /\ StoredLength(c) = c.persisted
    BY <1>1, <1>3, <2>1 DEF StoredLength
  <2>3. Backed(c, d)
    BY <1>3, <1>4, <1>5, <2>1, <2>2 DEF Backed
  <2>4. status = "saved" /\ b.disposed => d = b.hist /\ Begins(b.hist, d)
    BY <1>4, <1>5, <1>9 DEF Backed
  <2>5. status = "saved" /\ b.save.unload /\ b.users = {} /\ ~b.disposed /\ ~Skips(b)
           => d = b.hist /\ Begins(b.hist, d) /\ AllRecorded(b)
    BY <1>4, <1>5, <1>9, <1>12 DEF Saving
  <2>6. clean /\ c.disposed => Begins(b.hist, d)
    BY <1>7, <1>8, <1>10, <2>4, <2>5
  <2>7. clean /\ stopping /\ ~c.disposed => AllRecorded(c)
    <3>1. SUFFICES ASSUME clean, stopping, ~c.disposed
                   PROVE  AllRecorded(b)
      BY <1>3 DEF AllRecorded
    <3>2. ~b.disposed /\ b.users = {}
      BY <1>5, <1>7, <3>1 DEF Staying
    <3>3. CASE Skips(b)
      BY <1>10, <3>2, <3>3
    <3>4. CASE ~Skips(b)
      <4>1. b.save.unload \/ AllRecorded(b)
        BY <1>3, <1>5, <1>12, <3>1, <3>2, <3>4 DEF Saving
      <4> QED
        BY <2>5, <3>1, <3>2, <3>4, <4>1
    <3> QED
      BY <3>3, <3>4
  <2>8. Saving(c, d, stopping, clean)
    BY <1>3, <2>1, <2>6, <2>7 DEF Saving
  <2>9. ~stopping /\ ~b.disposed /\ c.disposed => b.hist = d
    BY <1>7, <1>8, <1>10, <2>5
  <2>10. Staying(c, stopping)
    BY <1>3, <1>5, <1>7 DEF Staying
  <2>11. Alone(w)
    BY <1>1, <1>2, <1>3, <1>4, <1>5, <1>7, AloneKept
  <2>12. \A j \in Instances : CalmBoard(w.boards[j], d, stopping, clean)
    BY <1>2, <1>3, <2>3, <2>8, <2>10 DEF CalmServer, CalmBoard
  <2>13. Keeps(b, c)
    BY <1>1, <1>2 DEF Ended
  <2> QED
    BY <1>1, <1>2, <1>4, <1>7, <2>9, <2>11, <2>12, <2>13 DEF CalmServer
<1> QED
  BY <1>11, <1>12

\* A save that succeeds is recorded before it ends.
LEMMA RecordCalm ==
    ASSUME NEW v, Sound(v), NEW i \in Instances, NEW floor \in Nat,
           v.boards[i].save # Idle, v.boards[i].save.phase = "renamed",
           NEW d \in Seq(Nat), NEW stop, NEW clean, CalmServer(v, d, stop, clean)
    PROVE  LET w == Recording(v, i, floor)
           IN  /\ CalmServer(w, d, stop, clean) /\ Len(d) = w.boards[i].persisted
<1>1. PICK b : b = v.boards[i]
  OBVIOUS
<1>2. PICK w : w = Recording(v, i, floor)
  OBVIOUS
<1>3. PICK c : c = w.boards[i]
  OBVIOUS
<1>4. /\ Sound(w) /\ w.registry = v.registry
      /\ \A j \in Instances : j # i => w.boards[j] = v.boards[j]
      /\ c.persisted = b.save.target
      /\ c.phase = b.phase /\ c.hist = b.hist /\ c.users = b.users
      /\ c.disposed = b.disposed /\ c.save = b.save
      /\ c.queued = b.queued /\ c.unload = b.unload /\ c.late = b.late
  BY <1>1, <1>2, <1>3, RecordedFacts
<1>5. /\ b \in BoardStates /\ BoardInv(b) /\ b.save \in Saves
      /\ Alone(v) /\ Backed(b, d) /\ Staying(b, stop) /\ Saving(b, d, stop, clean)
  BY <1>1, BoardFacts, IdleFacts DEF CalmServer, CalmBoard, BoardStates
<1>6. Active(b) /\ b.phase = "loaded"
  BY <1>1, <1>5 DEF Active, BoardInv
<1>7. Len(d) = b.save.target /\ StoredLength(c) = b.save.target
      /\ b.save.target \in Nat
  BY <1>1, <1>4, <1>5, <1>6, IdleFacts DEF Backed, StoredLength
<1>8. Backed(c, d)
  BY <1>1, <1>4, <1>5, <1>6, <1>7 DEF Backed
<1>9. Saving(c, d, stop, clean)
  <2>1. AllRecorded(b) => AllRecorded(c)
    <3>1. Len(d) <= Len(b.hist) /\ Len(d) \in Nat /\ Len(b.hist) \in Nat
      BY <1>1, <1>5, <1>6, LoadedBacked
    <3>2. b.persisted \in Nat /\ b.persisted <= b.save.target
      BY <1>1, <1>5, <1>6 DEF Backed, BoardStates
    <3>3. \A x, y, z \in Nat : x <= y /\ y <= z /\ z = x => z = y
      OBVIOUS
    <3> QED
      BY <1>4, <1>7, <3>1, <3>2, <3>3 DEF AllRecorded
  <2> QED
    BY <1>4, <1>5, <2>1 DEF Saving
<1>10. Staying(c, stop) /\ Alone(w)
  <2>1. Staying(c, stop)
    BY <1>4, <1>5 DEF Staying
  <2> QED
    BY <1>1, <1>3, <1>4, <1>5, <1>6, <2>1, AloneKept
<1>11. \A j \in Instances : CalmBoard(w.boards[j], d, stop, clean)
  BY <1>3, <1>4, <1>8, <1>9, <1>10 DEF CalmServer, CalmBoard
<1> QED
  BY <1>2, <1>3, <1>4, <1>7, <1>10, <1>11 DEF CalmServer

-----------------------------------------------------------------------------
(* The end of a turn *)

\* A turn that ends in a calm server and calm pages keeps the invariant.
LEMMA CalmNext ==
    ASSUME NEW v, v \in Servers, Install(v), scenario' = scenario,
           Calm => /\ CalmServer(v, disk', stopping', failures' = 0)
                   /\ CalmPages(socks', v, disk', stopping')
    PROVE  CalmInv'
<1>1. v = [registry |-> v.registry, boards |-> v.boards, pins |-> v.pins,
           retry |-> v.retry]
  BY DEF Servers
<1>2. v = Server'
  BY <1>1 DEF Install, Server
<1>3. Calm' <=> Calm
  BY DEF Calm
<1> QED
  BY <1>2, <1>3 DEF CalmInv

\* What a calm state satisfies.
LEMMA CalmFacts ==
    ASSUME IInv, CalmInv, Calm
    PROVE  /\ CalmServer(Server, disk, stopping, failures = 0)
           /\ CalmPages(socks, Server, disk, stopping)
           /\ Alone(Server) /\ Server \in Servers /\ Sound(Server)
           /\ Server.boards = boards /\ Server.registry = registry
           /\ \A i \in Instances : /\ Backed(boards[i], disk)
                                   /\ Staying(boards[i], stopping)
                                   /\ Saving(boards[i], disk, stopping, failures = 0)
                                   /\ boards[i] \in BoardStates /\ BoardInv(boards[i])
           /\ \A s \in Sockets : CalmPage(socks[s], s, Server, disk, stopping)
           /\ disk \in Seq(Nat) /\ ~scenario.overlap
<1>1. /\ CalmServer(Server, disk, stopping, failures = 0)
      /\ CalmPages(socks, Server, disk, stopping) /\ ~scenario.overlap
  BY DEF CalmInv, Calm
<1>2. Server.boards = boards /\ Server \in Servers /\ Sound(Server)
      /\ Server.registry = registry /\ disk \in Seq(Nat)
  BY ServerFacts
<1>3. \A i \in Instances : boards[i] \in BoardStates /\ BoardInv(boards[i])
  BY <1>2, BoardFacts
<1> QED
  BY <1>1, <1>2, <1>3 DEF CalmServer, CalmBoard, CalmPages

-----------------------------------------------------------------------------
(* The steps *)

\* A page that is away is right whatever the server does.
LEMMA CalmAway ==
    \A s, v, d, stop : CalmPage(Away, s, v, d, stop)
BY AwayFacts DEF CalmPage

\* Only the pages change, and what a calm server does not look at.
LEMMA PagesMove ==
    ASSUME IInv, CalmInv, scenario' = scenario,
           UNCHANGED <<registry, boards, disk, stopping, failures>>,
           Calm => CalmPages(socks', Server, disk, stopping)
    PROVE  CalmInv'
<1> SUFFICES ASSUME Calm
             PROVE  CalmInv'
  BY DEF CalmInv, Calm
<1>1. PICK v : v = Server
  OBVIOUS
<1>2. PICK w : w = Server'
  OBVIOUS
<1>3. /\ CalmServer(v, disk, stopping, failures = 0)
      /\ CalmPages(socks', v, disk, stopping)
  BY <1>1 DEF CalmInv
<1>4. w.boards = v.boards /\ w.registry = v.registry
  BY <1>1, <1>2 DEF Server
<1>5. CalmServer(w, disk', stopping', failures' = 0)
  BY <1>3, <1>4 DEF CalmServer, Alone
<1>6. CalmPages(socks', w, disk', stopping')
  BY <1>3, <1>4 DEF CalmPages, CalmPage
<1> QED
  BY <1>2, <1>5, <1>6 DEF CalmInv

LEMMA OneCalmPage ==
    ASSUME NEW pages \in [Sockets -> PageStates], NEW v, NEW d, NEW stop,
           CalmPages(pages, v, d, stop), NEW s \in Sockets, NEW p,
           CalmPage(p, s, v, d, stop)
    PROVE  CalmPages([pages EXCEPT ![s] = p], v, d, stop)
<1>1. PICK q : q = [pages EXCEPT ![s] = p]
  OBVIOUS
<1>2. \A r \in Sockets : q[r] = IF r = s THEN p ELSE pages[r]
  BY <1>1
<1> QED
  BY <1>1, <1>2 DEF CalmPages

LEMMA OpenPageCalm ==
    ASSUME IInv, CalmInv, NEW s \in Sockets, OpenPage(s)
    PROVE  CalmInv'
<1>1. PICK p : p = [Away EXCEPT !.at = "page", !.view = disk]
  OBVIOUS
<1>2. p.at = "page" /\ p.view = disk
  BY <1>1, AwayFacts DEF PageStates
<1>3. Begins(disk, disk)
  BY ServerFacts, BeginsSame
<1>4. CalmPage(p, s, Server, disk, stopping)
  BY <1>2, <1>3 DEF CalmPage, OpenPage
<1>5. socks' = [socks EXCEPT ![s] = p]
      /\ UNCHANGED <<registry, boards, disk, stopping, bounds>>
  BY <1>1 DEF OpenPage
<1>6. Calm => CalmPages(socks', Server, disk, stopping)
  BY <1>4, <1>5, CalmFacts, ServerFacts, OneCalmPage
<1> QED
  BY <1>5, <1>6, PagesMove DEF bounds

LEMMA AbandonCalm ==
    ASSUME IInv, CalmInv, NEW s \in Sockets, Abandon(s)
    PROVE  CalmInv'
<1>1. socks' = [socks EXCEPT ![s] = Away]
      /\ UNCHANGED <<registry, boards, disk, stopping, bounds>>
  BY DEF Abandon
<1>2. Calm => CalmPages(socks', Server, disk, stopping)
  BY <1>1, CalmAway, CalmFacts, ServerFacts, OneCalmPage
<1> QED
  BY <1>1, <1>2, PagesMove DEF bounds

LEMMA ExpirePinCalm ==
    ASSUME IInv, CalmInv, NEW p \in pins, ExpirePin(p)
    PROVE  CalmInv'
<1>1. UNCHANGED <<registry, boards, disk, socks, stopping, bounds>>
  BY DEF ExpirePin
<1>2. Calm => CalmPages(socks', Server, disk, stopping)
  BY <1>1, CalmFacts
<1> QED
  BY <1>1, <1>2, PagesMove DEF bounds

\* Nobody else writes the file.
LEMMA ForeignWriteCalm ==
    ASSUME IInv, CalmInv, ForeignWrite
    PROVE  CalmInv' /\ ~Calm
<1>1. Calm' <=> Calm
  BY DEF Calm, ForeignWrite
<1>2. ~Calm
  BY Numbers DEF Calm, ForeignWrite, IInv, CountInv
<1> QED
  BY <1>1, <1>2 DEF CalmInv

\* No page is ahead of the board it connects to.
LEMMA ProbeDiskCalm ==
    ASSUME IInv, CalmInv, NEW s \in Sockets, NEW i \in Instances, ProbeDisk(s, i)
    PROVE  CalmInv' /\ ~Calm
<1>1. Calm' <=> Calm
  BY DEF Calm, ProbeDisk, bounds
<1>2. ~Calm
  BY CalmFacts DEF ProbeDisk, CalmPage
<1> QED
  BY <1>1, <1>2 DEF CalmInv

\* A joined page finds its instance.
LEMMA WriteUnloadedCalm ==
    ASSUME IInv, CalmInv, NEW s \in Sockets, NEW i \in Instances, WriteUnloaded(s, i)
    PROVE  CalmInv' /\ ~Calm
<1>1. Calm' <=> Calm
  BY DEF Calm, WriteUnloaded, bounds
<1>2. ~Calm
  <2>1. GetBoard(Server, i) /\ socks[s].at = "joined" /\ boards[i].phase # "loaded"
    BY DEF WriteUnloaded
  <2>2. Calm => /\ registry \in Instances /\ boards[registry].phase = "loaded"
                /\ Server.registry = registry
    BY <2>1, CalmFacts DEF CalmPage
  <2>3. None \notin Instances
    BY DEF None, Instances
  <2> QED
    BY <2>1, <2>2, <2>3 DEF GetBoard
<1> QED
  BY <1>1, <1>2 DEF CalmInv

\* Nobody finds a file newer than what it has stored itself.
LEMMA NeverStale ==
    ASSUME IInv, CalmInv, Calm, NEW i \in Instances
    PROVE  ~Stale(i)
<1> SUFFICES ASSUME Stale(i)
             PROVE  FALSE
  OBVIOUS
<1>1. boards[i].save # Idle /\ boards[i].save.phase = "checking"
      /\ Len(disk) # boards[i].persisted
  BY DEF Stale, Checking
<1>2. Active(boards[i]) /\ boards[i].phase = "loaded" /\ Backed(boards[i], disk)
  BY <1>1, CalmFacts DEF Active, BoardInv
<1> QED
  BY <1>1, <1>2 DEF Backed, StoredLength

LEMMA StaleSaveCalm ==
    ASSUME IInv, CalmInv, NEW i \in Instances, StaleSave(i)
    PROVE  CalmInv' /\ ~Calm
<1>1. Calm' <=> Calm
  BY DEF Calm, StaleSave, bounds
<1>2. ~Calm
  BY NeverStale DEF StaleSave
<1> QED
  BY <1>1, <1>2 DEF CalmInv

\* One instance changes, and the file stays what it was.
LEMMA OneCalmBoard ==
    ASSUME IInv, CalmInv, Calm, NEW i \in Instances, NEW w, NEW d, NEW clean,
           Alone(w), clean => failures = 0, d = disk,
           \A j \in Instances : j # i => w.boards[j] = boards[j],
           CalmBoard(w.boards[i], d, stopping, clean)
    PROVE  CalmServer(w, d, stopping, clean)
<1> SUFFICES ASSUME NEW j \in Instances, j # i
             PROVE  CalmBoard(boards[j], disk, stopping, clean)
  BY DEF CalmServer
<1>1. /\ Backed(boards[j], disk) /\ Staying(boards[j], stopping)
      /\ Saving(boards[j], disk, stopping, failures = 0)
  BY CalmFacts
<1>2. Saving(boards[j], disk, stopping, clean)
  BY <1>1 DEF Saving
<1> QED
  BY <1>1, <1>2 DEF CalmBoard

\* What leaves memory in this step is stored, or the save that runs stores it.
UnloadedIsStored ==
    \A i \in Instances :
       /\ Calm /\ ~stopping /\ boards[i].phase = "loaded"
       /\ ~boards[i].disposed /\ boards'[i].disposed
       => \/ boards[i].hist = disk'
          \/ /\ boards'[i].save # Idle
             /\ boards'[i].save.target = Len(boards[i].hist)

LEMMA NothingUnloaded ==
    ASSUME \A i \in Instances : boards[i].phase = "loaded" /\ ~boards[i].disposed
                                   => ~boards'[i].disposed
    PROVE  UnloadedIsStored
BY DEF UnloadedIsStored

LEMMA OneServerBoard ==
    ASSUME IInv, NEW i \in Instances, NEW c \in BoardStates
    PROVE  LET w == SetBoard(Server, i, c)
           IN  /\ w \in Servers /\ w.registry = registry /\ w.boards[i] = c
               /\ \A j \in Instances : j # i => w.boards[j] = boards[j]
<1>1. PICK w : w = SetBoard(Server, i, c)
  OBVIOUS
<1>2. Server \in Servers /\ Server.boards = boards /\ Server.registry = registry
  BY ServerFacts
<1>3. /\ w \in Servers /\ w.registry = Server.registry /\ w.boards[i] = c
      /\ \A j \in Instances : j # i => w.boards[j] = Server.boards[j]
  BY <1>1, <1>2, SetBoardFacts
<1> QED
  BY <1>1, <1>2, <1>3

LEMMA CheckStoredCalm ==
    ASSUME IInv, CalmInv, NEW i \in Instances, CheckStored(i)
    PROVE  CalmInv' /\ UnloadedIsStored
<1>1. PICK b : b = boards[i]
  OBVIOUS
<1>2. b \in BoardStates /\ BoardInv(b) /\ b.save # Idle /\ b.save.phase = "checking"
  BY <1>1, ServerFacts, BoardFacts DEF CheckStored, Checking
<1>3. PICK t : t = [b.save EXCEPT !.phase = "renaming"]
  OBVIOUS
<1>4. t \in Saves /\ t.target = b.save.target /\ t.unload = b.save.unload
      /\ t.phase = "renaming" /\ t # Idle
  BY <1>2, <1>3, IdleFacts DEF BoardStates, Saves
<1>5. PICK c : c = [b EXCEPT !.save = t]
  OBVIOUS
<1>6. /\ c \in BoardStates /\ c.save = t /\ c.phase = b.phase /\ c.hist = b.hist
      /\ c.queued = b.queued /\ c.disposed = b.disposed /\ c.users = b.users
      /\ c.persisted = b.persisted /\ c.unload = b.unload /\ c.late = b.late
  BY <1>2, <1>4, <1>5 DEF BoardStates, SaveStates
<1>7. PICK w : w = SetBoard(Server, i, c)
  OBVIOUS
<1>8. /\ w \in Servers /\ w.registry = registry /\ w.boards[i] = c
      /\ \A j \in Instances : j # i => w.boards[j] = boards[j]
  BY <1>6, <1>7, OneServerBoard
<1>9. UNCHANGED <<disk, registry, pins, retry, socks, stopping, bounds>>
      /\ boards' = [boards EXCEPT ![i] = c]
  BY <1>1, <1>3, <1>5 DEF CheckStored
<1>10. Install(w)
  BY <1>7, <1>9, OneBoard
<1>11. ASSUME Calm
       PROVE  /\ CalmServer(w, disk', stopping', failures' = 0)
              /\ CalmPages(socks', w, disk', stopping')
  <2>1. Backed(b, disk) /\ Staying(b, stopping) /\ Saving(b, disk, stopping, failures = 0)
    BY <1>1, <1>11, CalmFacts
  <2>2. Active(b) <=> Active(c)
    BY <1>2, <1>4, <1>6 DEF Active
  <2>3. StoredLength(c) = StoredLength(b)
    BY <1>2, <1>4, <1>6 DEF StoredLength
  <2>4. Backed(c, disk)
    BY <1>2, <1>4, <1>6, <2>1, <2>2, <2>3 DEF Backed
  <2>5. Staying(c, stopping) /\ Saving(c, disk, stopping, failures = 0)
    BY <1>2, <1>4, <1>6, <2>1 DEF Staying, Saving, AllRecorded
  <2>6. Alone(w)
    BY <1>1, <1>6, <1>8, <1>11, <2>2, CalmFacts, AloneKept
  <2>7. CalmServer(w, disk, stopping, failures = 0)
    BY <1>8, <1>11, <2>4, <2>5, <2>6, OneCalmBoard DEF CalmBoard
  <2>8. CalmPages(socks, w, disk, stopping)
    BY <1>1, <1>6, <1>8, <1>11, CalmFacts, PagesKept
  <2>9. failures' = failures
    BY <1>9 DEF bounds
  <2> QED
    BY <1>9, <2>7, <2>8, <2>9
<1>12. CalmInv'
  BY <1>8, <1>9, <1>10, <1>11, CalmNext DEF bounds
<1>13. UnloadedIsStored
  <2>1. \A j \in Instances : w.boards[j].disposed = boards[j].disposed
    BY <1>1, <1>6, <1>8
  <2> QED
    BY <1>10, <2>1, NothingUnloaded DEF Install
<1> QED
  BY <1>12, <1>13

LEMMA TimerSaveCalm ==
    ASSUME IInv, CalmInv, NEW i \in Instances, TimerSave(i)
    PROVE  CalmInv' /\ UnloadedIsStored
<1>1. PICK w : w = RequestSave(Server, i, FALSE)
  OBVIOUS
<1>2. PICK b : b = boards[i]
  OBVIOUS
<1>3. b.phase = "loaded" /\ b.save = Idle /\ ~b.disposed /\ Dirty(b) /\ Install(w)
      /\ ~AllRecorded(b) /\ UNCHANGED <<disk, socks, stopping, bounds>>
  BY <1>1, <1>2 DEF TimerSave, NothingToSave, AllRecorded
<1>4. Requested(Server, w, i, FALSE)
  <2>1. CanRequestSave(Server, i) /\ Server.boards[i].phase = "loaded"
    BY <1>2, <1>3, ServerFacts DEF CanRequestSave
  <2>2. Sound(Server) /\ CountInv /\ FALSE \in BOOLEAN
    BY ServerFacts
  <2> QED
    BY <1>1, <2>1, <2>2, RequestSaveFacts
<1>5. PICK c : c = w.boards[i]
  OBVIOUS
<1>6. /\ w \in Servers /\ w.registry = registry
      /\ \A j \in Instances : j # i => w.boards[j] = boards[j]
      /\ Keeps(b, c) /\ c.disposed = b.disposed /\ c.queued = b.queued
      /\ Starts(b, c, FALSE)
  <2>1. Server.boards = boards /\ Server.registry = registry
    BY ServerFacts
  <2> QED
    BY <1>2, <1>3, <1>4, <1>5, <2>1 DEF Requested, Sound
<1>7. /\ c.save \in Saves /\ c.save.phase = "checking" /\ ~c.disposed
      /\ c.save.target = Len(b.hist) /\ c.save.unload = FALSE /\ c.save # Idle
      /\ c.phase = "loaded" /\ c.hist = b.hist /\ c.persisted = b.persisted
      /\ c.users = b.users /\ c.unload = b.unload /\ c.late = b.late
  BY <1>3, <1>6, IdleFacts DEF Starts, Keeps
<1>8. ASSUME Calm
      PROVE  /\ CalmServer(w, disk', stopping', failures' = 0)
             /\ CalmPages(socks', w, disk', stopping')
  <2>1. Backed(b, disk) /\ Staying(b, stopping) /\ BoardInv(b)
        /\ Saving(b, disk, stopping, failures = 0) /\ b \in BoardStates
    BY <1>2, <1>8, CalmFacts
  <2>2. Active(b) /\ Active(c)
    BY <1>3, <1>7 DEF Active
  <2>3. /\ Begins(disk, b.hist) /\ Len(b.hist) \in Nat /\ Len(disk) \in Nat
        /\ Len(disk) <= Len(b.hist) /\ Len(disk) = StoredLength(b)
    BY <1>2, <1>3, <1>8, <2>1, <2>2, CalmFacts, LoadedBacked
  <2>4. StoredLength(b) = b.persisted /\ StoredLength(c) = b.persisted
    BY <1>3, <1>7 DEF StoredLength
  <2>5. Backed(c, disk)
    BY <1>7, <2>1, <2>3, <2>4 DEF Backed
  <2>6. ~(failures = 0 /\ stopping)
    <3>1. ~(b.queued > 0)
      BY <1>3, <2>1 DEF BoardInv
    <3> QED
      BY <1>3, <2>1, <3>1 DEF Saving
  <2>7. Saving(c, disk, stopping, failures = 0)
    BY <1>7, <2>6 DEF Saving
  <2>8. Staying(c, stopping)
    BY <1>3, <1>7, <2>1 DEF Staying
  <2>9. Alone(w)
    BY <1>2, <1>3, <1>5, <1>6, <1>8, <2>2, CalmFacts, AloneKept
  <2>10. CalmServer(w, disk, stopping, failures = 0)
    BY <1>5, <1>6, <1>8, <2>5, <2>7, <2>8, <2>9, OneCalmBoard DEF CalmBoard
  <2>11. CalmPages(socks, w, disk, stopping)
    BY <1>2, <1>3, <1>5, <1>6, <1>7, <1>8, CalmFacts, PagesKept
  <2>12. failures' = failures
    BY <1>3 DEF bounds
  <2> QED
    BY <1>3, <2>10, <2>11, <2>12
<1>9. CalmInv'
  BY <1>3, <1>6, <1>8, CalmNext DEF bounds
<1>10. UnloadedIsStored
  <2>1. \A j \in Instances : w.boards[j].disposed = boards[j].disposed
    BY <1>2, <1>5, <1>6
  <2> QED
    BY <1>3, <2>1, NothingUnloaded DEF Install
<1> QED
  BY <1>9, <1>10

LEMMA ReadBoardCalm ==
    ASSUME IInv, CalmInv, NEW i \in Instances, ReadBoard(i)
    PROVE  CalmInv' /\ UnloadedIsStored
<1>1. PICK b : b = boards[i]
  OBVIOUS
<1>2. b \in BoardStates /\ BoardInv(b) /\ b.phase = "opening" /\ b.save = Idle
  BY <1>1, ServerFacts, BoardFacts DEF ReadBoard, BoardInv
<1>3. PICK c : c = [b EXCEPT !.phase = "read", !.hist = disk,
                             !.persisted = Len(disk), !.floor = Len(disk),
                             !.stored = HasItems(disk)]
  OBVIOUS
<1>4. /\ c \in BoardStates /\ c.phase = "read" /\ c.hist = disk
      /\ c.save = Idle /\ c.queued = b.queued /\ c.disposed = b.disposed
      /\ c.persisted = Len(disk) /\ c.unload = b.unload /\ c.late = b.late
      /\ c.users = b.users
  BY <1>2, <1>3, ServerFacts DEF BoardStates, BoardPhases, HasItems
<1>5. PICK w : w = SetBoard(Server, i, c)
  OBVIOUS
<1>6. /\ w \in Servers /\ w.registry = registry /\ w.boards[i] = c
      /\ \A j \in Instances : j # i => w.boards[j] = boards[j]
  BY <1>4, <1>5, OneServerBoard
<1>7. UNCHANGED <<disk, registry, pins, retry, socks, stopping, bounds>>
      /\ boards' = [boards EXCEPT ![i] = c]
  BY <1>1, <1>3 DEF ReadBoard
<1>8. Install(w)
  BY <1>5, <1>7, OneBoard
<1>9. ASSUME Calm
      PROVE  /\ CalmServer(w, disk', stopping', failures' = 0)
             /\ CalmPages(socks', w, disk', stopping')
  <2>1. Backed(b, disk) /\ Staying(b, stopping)
    BY <1>1, <1>9, CalmFacts
  <2>2. ~b.disposed /\ Active(b)
    BY <1>2, <2>1 DEF Backed, Active
  <2>3. Begins(disk, disk)
    BY ServerFacts, BeginsSame
  <2>4. Backed(c, disk)
    BY <1>4, <2>1, <2>2, <2>3 DEF Backed, StoredLength
  <2>5. Staying(c, stopping) /\ Saving(c, disk, stopping, failures = 0)
    BY <1>4, <2>1, <2>2 DEF Staying, Saving
  <2>6. Alone(w)
    BY <1>1, <1>4, <1>6, <1>9, <2>2, CalmFacts, AloneKept
  <2>7. CalmServer(w, disk, stopping, failures = 0)
    BY <1>6, <1>9, <2>4, <2>5, <2>6, OneCalmBoard DEF CalmBoard
  <2>8. CalmPages(socks, w, disk, stopping)
    <3> SUFFICES ASSUME NEW s \in Sockets
                 PROVE  CalmPage(socks[s], s, w, disk, stopping)
      BY DEF CalmPages
    <3>1. PICK p : p = socks[s]
      OBVIOUS
    <3>2. CalmPage(p, s, Server, disk, stopping) /\ Server.boards = boards
          /\ Server.registry = registry
      BY <1>9, <3>1, CalmFacts
    <3>3. p.at = "joined" => p.inst # i
      BY <1>1, <1>2, <3>2 DEF CalmPage
    <3> QED
      BY <1>4, <1>6, <3>1, <3>2, <3>3 DEF CalmPage
  <2>9. failures' = failures
    BY <1>7 DEF bounds
  <2> QED
    BY <1>7, <2>7, <2>8, <2>9
<1>10. CalmInv'
  BY <1>6, <1>7, <1>8, <1>9, CalmNext DEF bounds
<1>11. UnloadedIsStored
  <2>1. \A j \in Instances : w.boards[j].disposed = boards[j].disposed
    BY <1>1, <1>4, <1>6
  <2> QED
    BY <1>8, <2>1, NothingUnloaded DEF Install
<1> QED
  BY <1>10, <1>11

LEMMA RestartCalm ==
    ASSUME IInv, CalmInv, Restart
    PROVE  CalmInv'
<1>1. Install(Fresh)
  BY DEF Fresh, Install, Restart
<1>2. Fresh \in Servers
  BY ServerFacts, FreshFacts DEF Sound
<1>3. \A i \in Instances : Fresh.boards[i] = FreeBoard
  BY DEF Fresh
<1>4. ~Active(FreeBoard)
  BY FreeFacts DEF Active
<1>5. \A d, stop, clean : CalmBoard(FreeBoard, d, stop, clean)
  BY FreeFacts, <1>4 DEF CalmBoard, Backed, Staying, Saving
<1>6. \A d, stop, clean : CalmServer(Fresh, d, stop, clean)
  BY <1>3, <1>4, <1>5 DEF CalmServer, Alone
<1>7. CalmPages(socks', Fresh, disk', stopping')
  BY CalmAway DEF CalmPages, Restart
<1>8. scenario' = scenario
  BY DEF Restart, bounds
<1> QED
  BY <1>1, <1>2, <1>6, <1>7, <1>8, CalmNext

\* An unreadable file: the instance that was loading it is given up.
LEMMA FailLoadCalm ==
    ASSUME IInv, CalmInv, NEW i \in Instances, FailLoad(i)
    PROVE  CalmInv'
<1> SUFFICES ASSUME Calm
             PROVE  CalmInv'
  BY DEF CalmInv, Calm, FailLoad
<1>1. PICK c : c = [FreeBoard EXCEPT !.phase = "loaded", !.disposed = TRUE]
  OBVIOUS
<1>2. /\ c \in BoardStates /\ c.phase = "loaded" /\ c.save = Idle /\ c.disposed
      /\ c.unload = FALSE /\ c.late = {} /\ c.queued = 0
  BY <1>1, FreeFacts DEF BoardStates, BoardPhases
<1>3. PICK b : b = boards[i]
  OBVIOUS
<1>4. b.phase = "opening" /\ Backed(b, disk) /\ ~b.disposed /\ Active(b)
  BY <1>3, CalmFacts DEF FailLoad, Backed, Active
<1>5. registry = i
  BY <1>3, <1>4, CalmFacts DEF Alone
<1>6. PICK u : u = [registry |-> None, boards |-> boards, pins |-> pins, retry |-> retry]
  OBVIOUS
<1>7. /\ u \in Servers /\ u.registry = None /\ u.boards = boards
      /\ u.pins = pins /\ u.retry = retry
  BY <1>6, ServerFacts DEF Servers
<1>8. PICK w : w = SetBoard(u, i, c)
  OBVIOUS
<1>9. /\ w \in Servers /\ w.registry = None /\ w.boards[i] = c
      /\ w.pins = pins /\ w.retry = retry
      /\ \A j \in Instances : j # i => w.boards[j] = boards[j]
  BY <1>2, <1>7, <1>8, SetBoardFacts
<1>10. Install(w)
  <2>1. w.boards = [boards EXCEPT ![i] = c]
    BY <1>7, <1>8 DEF SetBoard, Servers
  <2>2. /\ boards' = [boards EXCEPT ![i] = c] /\ registry' = None
        /\ UNCHANGED <<pins, retry>>
    BY <1>1, <1>5 DEF FailLoad
  <2> QED
    BY <1>9, <2>1, <2>2 DEF Install
<1>11. ~Active(c)
  BY <1>2 DEF Active
<1>12. CalmServer(w, disk, stopping, FALSE)
  <2>1. Backed(c, disk) /\ Staying(c, stopping) /\ Saving(c, disk, stopping, FALSE)
    BY <1>2, <1>11 DEF Backed, Staying, Saving
  <2>2. Alone(w)
    BY <1>2, <1>3, <1>4, <1>9, <1>11, CalmFacts, AloneKept
  <2> QED
    BY <1>9, <2>1, <2>2, OneCalmBoard DEF CalmBoard
<1>13. CalmPages(socks', w, disk, stopping)
  <2> SUFFICES ASSUME NEW s \in Sockets
               PROVE  CalmPage(socks'[s], s, w, disk, stopping)
    BY DEF CalmPages
  <2>1. PICK p : p = socks[s]
    OBVIOUS
  <2>2. CalmPage(p, s, Server, disk, stopping) /\ Server.boards = boards
        /\ Server.registry = registry
    BY <2>1, CalmFacts
  <2>3. p.at # "joined" /\ (p.at = "loading" => p.inst = i)
    BY <1>3, <1>4, <1>5, <2>2 DEF CalmPage
  <2>4. socks'[s] = IF p.at = "loading" /\ p.inst = i THEN Away ELSE p
    BY <2>1 DEF FailLoad
  <2>5. p.at # "loading" => CalmPage(p, s, w, disk, stopping)
    BY <2>2, <2>3 DEF CalmPage
  <2> QED
    BY <2>3, <2>4, <2>5, CalmAway
<1>14. /\ UNCHANGED <<disk, stopping>> /\ scenario' = scenario
       /\ ~(failures' = 0)
  BY ServerFacts DEF FailLoad, CountInv
<1>15. (failures' = 0) = FALSE
  BY <1>14
<1>16. CalmServer(w, disk', stopping', failures' = 0)
  BY <1>12, <1>14, <1>15
<1> QED
  BY <1>9, <1>10, <1>13, <1>14, <1>16, CalmNext

\* The save of i ends.
LEMMA EndingCalm ==
    ASSUME IInv, CalmInv, Calm, NEW i \in Instances, NEW v, Sound(v),
           NEW status \in {"saved", "failed"}, NEW clean, v.boards[i].save # Idle,
           v.registry = registry,
           \A j \in Instances : j # i => v.boards[j] = boards[j],
           v.boards[i].phase = boards[i].phase, v.boards[i].hist = boards[i].hist,
           v.boards[i].users = boards[i].users,
           v.boards[i].disposed = boards[i].disposed,
           CalmServer(v, disk, stopping, clean),
           Len(disk) = v.boards[i].persisted,
           status = "saved" => v.boards[i].persisted = v.boards[i].save.target,
           clean => status = "saved",
           Install(EndSave(v, i, status)), UNCHANGED <<disk, socks>>
    PROVE  LET w == EndSave(v, i, status)
           IN  /\ w \in Servers /\ CalmServer(w, disk, stopping, clean)
               /\ CalmPages(socks, w, disk, stopping)
               /\ UnloadedIsStored
<1>1. PICK w : w = EndSave(v, i, status)
  OBVIOUS
<1>2. Ended(v, w, i, status)
  BY <1>1, ServerFacts, EndSaveFacts
<1>3. disk \in Seq(Nat)
  BY ServerFacts
<1>4. /\ CalmServer(w, disk, stopping, clean)
      /\ w.registry = v.registry \/ v.boards[i].users = {}
      /\ Active(v.boards[i]) /\ Keeps(v.boards[i], w.boards[i])
      /\ ~stopping /\ ~v.boards[i].disposed /\ w.boards[i].disposed
            => \/ v.boards[i].hist = disk
               \/ /\ w.boards[i].save # Idle
                  /\ w.boards[i].save.target = Len(v.boards[i].hist)
  BY <1>2, <1>3, EndCalm
<1>5. /\ w \in Servers /\ v.boards[i].phase = "loaded"
      /\ \A j \in Instances : j # i => w.boards[j] = v.boards[j]
  BY <1>2 DEF Ended, Sound
<1>6. /\ w.boards[i].phase = v.boards[i].phase /\ w.boards[i].hist = v.boards[i].hist
      /\ w.boards[i].users = v.boards[i].users
  BY <1>4 DEF Keeps
<1>7. CalmPages(socks, v, disk, stopping)
  <2>1. CalmPages(socks, Server, disk, stopping) /\ Alone(Server)
        /\ Server.boards = boards /\ Server.registry = registry
    BY CalmFacts
  <2>2. v.boards[i].phase = Server.boards[i].phase
        /\ v.boards[i].hist = Server.boards[i].hist
        /\ v.boards[i].users = Server.boards[i].users
        /\ v.registry = Server.registry
        /\ \A j \in Instances : j # i => v.boards[j] = Server.boards[j]
    BY <2>1
  <2> QED
    BY <2>1, <2>2, PagesKept
<1>8. CalmPages(socks, w, disk, stopping)
  BY <1>4, <1>5, <1>6, <1>7, PagesKept DEF CalmServer
<1>9. UnloadedIsStored
  <2>1. boards' = w.boards /\ disk' = disk
    BY <1>1 DEF Install
  <2>2. \A j \in Instances : j # i => w.boards[j] = boards[j]
    BY <1>5
  <2> QED
    BY <1>4, <2>1, <2>2 DEF UnloadedIsStored
<1> QED
  BY <1>1, <1>4, <1>5, <1>8, <1>9

LEMMA FinishSaveCalm ==
    ASSUME IInv, CalmInv, NEW i \in Instances, NEW floor \in Nat, FinishSave(i, floor)
    PROVE  CalmInv' /\ UnloadedIsStored
<1>1. PICK v : v = Recording(Server, i, floor)
  OBVIOUS
<1>2. /\ Install(EndSave(v, i, "saved")) /\ Server.boards[i].save # Idle
      /\ Server.boards[i].save.phase = "renamed"
      /\ UNCHANGED <<disk, socks, stopping, bounds>>
  <2>1. Server.boards = boards
    BY ServerFacts
  <2>2. v = [Server EXCEPT !.boards[i] = Recorded(boards[i], floor)]
    BY <1>1, <2>1, Zenon DEF Recording
  <2> QED
    BY <2>1, <2>2 DEF FinishSave
<1>3. /\ Sound(v) /\ v.registry = registry
      /\ \A j \in Instances : j # i => v.boards[j] = boards[j]
      /\ v.boards[i].persisted = boards[i].save.target
      /\ v.boards[i].phase = boards[i].phase /\ v.boards[i].hist = boards[i].hist
      /\ v.boards[i].users = boards[i].users
      /\ v.boards[i].disposed = boards[i].disposed
      /\ v.boards[i].save = boards[i].save
  <2>1. Sound(Server) /\ Server.boards = boards /\ Server.registry = registry
    BY ServerFacts
  <2>2. /\ Sound(v) /\ v.registry = Server.registry
        /\ \A j \in Instances : j # i => v.boards[j] = Server.boards[j]
        /\ v.boards[i].persisted = Server.boards[i].save.target
        /\ v.boards[i].phase = Server.boards[i].phase
        /\ v.boards[i].hist = Server.boards[i].hist
        /\ v.boards[i].users = Server.boards[i].users
        /\ v.boards[i].disposed = Server.boards[i].disposed
        /\ v.boards[i].save = Server.boards[i].save
    BY <1>1, <1>2, <2>1, RecordedFacts
  <2> QED
    BY <2>1, <2>2
<1>4. PICK w : w = EndSave(v, i, "saved")
  OBVIOUS
<1>5. failures' = failures
  BY <1>2 DEF bounds
<1>6. ASSUME Calm
      PROVE  /\ CalmServer(w, disk, stopping, failures = 0)
             /\ CalmPages(socks, w, disk, stopping) /\ w \in Servers
             /\ UnloadedIsStored
  <2>1. CalmServer(v, disk, stopping, failures = 0) /\ Len(disk) = v.boards[i].persisted
    <3>1. Sound(Server) /\ disk \in Seq(Nat)
          /\ CalmServer(Server, disk, stopping, failures = 0)
      BY <1>6, CalmFacts
    <3> QED
      BY <1>1, <1>2, <3>1, RecordCalm
  <2>2. v.boards[i].persisted = v.boards[i].save.target /\ v.boards[i].save # Idle
    BY <1>2, <1>3, ServerFacts
  <2> QED
    BY <1>2, <1>3, <1>4, <1>6, <2>1, <2>2, EndingCalm
<1>7. UnloadedIsStored
  BY <1>6 DEF UnloadedIsStored
<1>8. w \in Servers
  <2>1. v.boards[i].save # Idle
    BY <1>2, <1>3, ServerFacts
  <2> QED
    BY <1>3, <1>4, <2>1, ServerFacts, EndSaveFacts DEF Ended, Sound
<1>9. CalmInv'
  BY <1>2, <1>4, <1>5, <1>6, <1>8, CalmNext DEF bounds
<1> QED
  BY <1>7, <1>9

LEMMA FailSaveCalm ==
    ASSUME IInv, CalmInv, NEW i \in Instances, FailSave(i)
    PROVE  CalmInv' /\ UnloadedIsStored
<1>1. /\ Install(EndSave(Server, i, "failed")) /\ Server.boards[i].save # Idle
      /\ Server.boards[i].save.phase # "renamed"
      /\ failures' = failures + 1 /\ UNCHANGED <<disk, socks, stopping>>
      /\ UNCHANGED <<sent, foreign, scenario>>
  <2>1. Server.boards = boards
    BY ServerFacts
  <2> QED
    BY <2>1 DEF FailSave
<1>2. (failures' = 0) = FALSE
  <2>1. failures \in Nat
    BY ServerFacts DEF CountInv
  <2> QED
    BY <1>1, <2>1
<1>3. PICK w : w = EndSave(Server, i, "failed")
  OBVIOUS
<1>4. w \in Servers
  BY <1>1, <1>3, ServerFacts, EndSaveFacts DEF Ended, Sound
<1>5. ASSUME Calm
      PROVE  /\ CalmServer(w, disk, stopping, FALSE)
             /\ CalmPages(socks, w, disk, stopping)
             /\ UnloadedIsStored
  <2>1. /\ Sound(Server) /\ Server.boards = boards /\ Server.registry = registry
        /\ CalmServer(Server, disk, stopping, failures = 0)
    BY <1>5, CalmFacts
  <2>2. CalmServer(Server, disk, stopping, FALSE)
    BY <2>1 DEF CalmServer, CalmBoard, Saving
  <2>3. Len(disk) = Server.boards[i].persisted
    <3>1. PICK b : b = boards[i]
      OBVIOUS
    <3>2. b.save # Idle /\ b.save.phase # "renamed" /\ Backed(b, disk) /\ BoardInv(b)
      BY <1>1, <1>5, <2>1, <3>1, CalmFacts
    <3>3. Active(b) /\ b.phase = "loaded"
      BY <3>2 DEF Active, BoardInv
    <3>4. Len(disk) = b.persisted
      BY <3>2, <3>3 DEF Backed, StoredLength
    <3> QED
      BY <2>1, <3>1, <3>4
  <2> QED
    BY <1>1, <1>3, <1>5, <2>1, <2>2, <2>3, EndingCalm
<1>6. UnloadedIsStored
  BY <1>5 DEF UnloadedIsStored
<1>7. Calm => /\ CalmServer(w, disk', stopping', failures' = 0)
              /\ CalmPages(socks', w, disk', stopping')
  BY <1>1, <1>2, <1>5
<1>8. CalmInv'
  BY <1>1, <1>3, <1>4, <1>7, CalmNext
<1> QED
  BY <1>6, <1>8

\* The file only grows.
LEMMA RenameStoredCalm ==
    ASSUME IInv, CalmInv, NEW i \in Instances, RenameStored(i)
    PROVE  CalmInv' /\ UnloadedIsStored /\ (Calm => Begins(disk, disk'))
<1>1. PICK b : b = boards[i]
  OBVIOUS
<1>2. b \in BoardStates /\ BoardInv(b) /\ b.save # Idle /\ b.save.phase = "renaming"
      /\ b.save \in Saves /\ b.hist \in Seq(Nat) /\ b.phase = "loaded"
  BY <1>1, ServerFacts, BoardFacts, IdleFacts DEF RenameStored, BoardInv, BoardStates
<1>3. PICK t : t = [b.save EXCEPT !.phase = "renamed"]
  OBVIOUS
<1>4. t \in Saves /\ t.target = b.save.target /\ t.unload = b.save.unload
      /\ t.phase = "renamed" /\ t # Idle /\ b.save.target \in Nat
  BY <1>2, <1>3, IdleFacts DEF Saves
<1>5. PICK c : c = [b EXCEPT !.save = t]
  OBVIOUS
<1>6. /\ c \in BoardStates /\ c.save = t /\ c.phase = b.phase /\ c.hist = b.hist
      /\ c.queued = b.queued /\ c.disposed = b.disposed /\ c.users = b.users
      /\ c.persisted = b.persisted /\ c.unload = b.unload /\ c.late = b.late
  BY <1>2, <1>4, <1>5 DEF BoardStates, SaveStates
<1>7. PICK w : w = SetBoard(Server, i, c)
  OBVIOUS
<1>8. /\ w \in Servers /\ w.registry = registry /\ w.boards[i] = c
      /\ \A j \in Instances : j # i => w.boards[j] = boards[j]
  BY <1>6, <1>7, OneServerBoard
<1>9. UNCHANGED <<registry, pins, retry, socks, stopping, bounds>>
      /\ boards' = [boards EXCEPT ![i] = c] /\ disk' = Prefix(b.hist, b.save.target)
  BY <1>1, <1>3, <1>5 DEF RenameStored
<1>10. Install(w)
  BY <1>7, <1>9, OneBoard
<1>11. PICK d : d = disk'
  OBVIOUS
<1>12. d \in Seq(Nat) /\ Len(d) = b.save.target /\ Begins(d, b.hist)
  BY <1>2, <1>4, <1>9, <1>11, BeginsPrefix DEF BoardInv
<1>13. ASSUME Calm
       PROVE  /\ CalmServer(w, d, stopping, failures = 0)
              /\ CalmPages(socks, w, d, stopping)
              /\ Begins(disk, d)
  <2>1. Backed(b, disk) /\ Staying(b, stopping) /\ Saving(b, disk, stopping, failures = 0)
        /\ disk \in Seq(Nat) /\ Server.boards = boards /\ Server.registry = registry
        /\ Alone(Server)
    BY <1>1, <1>13, CalmFacts
  <2>2. Active(b) /\ Active(c)
    BY <1>2, <1>4, <1>6 DEF Active
  <2>3. Begins(disk, b.hist) /\ Len(disk) = b.persisted /\ b.persisted <= b.save.target
    BY <1>2, <2>1, <2>2 DEF Backed, StoredLength
  <2>4. Begins(disk, d)
    <3>1. Len(disk) <= Len(d)
      BY <1>12, <2>3
    <3> QED
      BY <1>2, <1>12, <2>1, <2>3, <3>1, BeginsBoth
  <2>5. Backed(c, d)
    <3>1. StoredLength(c) = b.save.target
      BY <1>4, <1>6 DEF StoredLength
    <3> QED
      BY <1>2, <1>4, <1>6, <1>12, <2>1, <2>2, <2>3, <3>1 DEF Backed
  <2>6. Staying(c, stopping) /\ Saving(c, d, stopping, failures = 0)
    BY <1>2, <1>4, <1>6, <2>1 DEF Staying, Saving, AllRecorded
  <2>7. Alone(w)
    BY <1>1, <1>6, <1>8, <2>1, <2>2, AloneKept
  <2>8. ASSUME NEW j \in Instances, j # i
        PROVE  CalmBoard(boards[j], d, stopping, failures = 0)
    <3>1. ~Active(boards[j])
      BY <1>1, <2>1, <2>2, <2>8 DEF Alone
    <3>2. /\ Backed(boards[j], disk) /\ Staying(boards[j], stopping)
          /\ Saving(boards[j], disk, stopping, failures = 0)
          /\ boards[j].hist \in Seq(Nat)
      BY <1>13, CalmFacts DEF BoardStates
    <3>3. Backed(boards[j], d)
      BY <3>1, <3>2 DEF Backed
    <3>4. Begins(boards[j].hist, disk) => Begins(boards[j].hist, d)
      BY <1>12, <2>1, <2>4, <3>2, BeginsLonger
    <3>5. Saving(boards[j], d, stopping, failures = 0)
      BY <3>2, <3>4 DEF Saving
    <3> QED
      BY <3>2, <3>3, <3>5 DEF CalmBoard
  <2>9. CalmServer(w, d, stopping, failures = 0)
    BY <1>8, <2>5, <2>6, <2>7, <2>8 DEF CalmServer, CalmBoard
  <2>10. CalmPages(socks, w, disk, stopping)
    <3>1. CalmPages(socks, Server, disk, stopping)
      BY <1>13, CalmFacts
    <3>2. w.boards[i].phase = Server.boards[i].phase
          /\ w.boards[i].hist = Server.boards[i].hist
          /\ w.boards[i].users = Server.boards[i].users
          /\ w.registry = Server.registry
          /\ \A j \in Instances : j # i => w.boards[j] = Server.boards[j]
      BY <1>1, <1>6, <1>8, <2>1
    <3> QED
      BY <2>1, <3>1, <3>2, PagesKept
  <2>11. CalmPages(socks, w, d, stopping)
    <3> SUFFICES ASSUME NEW s \in Sockets
                 PROVE  CalmPage(socks[s], s, w, d, stopping)
      BY DEF CalmPages
    <3>1. PICK p : p = socks[s]
      OBVIOUS
    <3>2. p.view \in Seq(Nat)
      BY <3>1, ServerFacts DEF PageStates
    <3>3. CalmPage(p, s, w, disk, stopping)
      BY <2>10, <3>1 DEF CalmPages
    <3>4. Begins(p.view, disk) => Begins(p.view, d)
      BY <1>12, <2>1, <2>4, <3>2, BeginsLonger
    <3> QED
      BY <3>1, <3>3, <3>4 DEF CalmPage
  <2> QED
    BY <2>4, <2>9, <2>11
<1>14. failures' = failures /\ scenario' = scenario
  BY <1>9 DEF bounds
<1>15. Calm => /\ CalmServer(w, disk', stopping', failures' = 0)
               /\ CalmPages(socks', w, disk', stopping')
  BY <1>9, <1>11, <1>13, <1>14
<1>16. CalmInv'
  BY <1>8, <1>10, <1>14, <1>15, CalmNext
<1>17. UnloadedIsStored
  <2>1. \A j \in Instances : w.boards[j].disposed = boards[j].disposed
    BY <1>1, <1>6, <1>8
  <2> QED
    BY <1>10, <2>1, NothingUnloaded DEF Install
<1> QED
  BY <1>11, <1>13, <1>16, <1>17

\* The registered instance accepts a write, and every joined page shows it.
LEMMA WriteCalm ==
    ASSUME IInv, CalmInv, NEW s \in Sockets, Write(s)
    PROVE  /\ CalmInv' /\ UnloadedIsStored
           /\ Calm => \A r \in Sockets : socks[r].at = "joined" =>
                         socks'[r].view = Append(socks[r].view, NextWrite)
<1>1. PICK i : i = registry
  OBVIOUS
<1>2. PICK w : w = Accept(Server, i, NextWrite)
  OBVIOUS
<1>3. /\ i # None /\ Install(w) /\ socks[s].at = "joined"
      /\ socks' = Broadcast(Server, socks, i, s, NextWrite)
      /\ UNCHANGED <<disk, stopping, foreign, failures, scenario>>
  BY <1>1, <1>2 DEF Write
<1>4. PICK b : b = boards[i]
  OBVIOUS
<1>5. /\ i \in Instances /\ b.phase # "free" /\ ~b.disposed
      /\ Server.boards = boards /\ Server.registry = i /\ Sound(Server)
      /\ NextWrite \in Nat /\ b \in BoardStates /\ b.hist \in Seq(Nat)
  <2>1. /\ i \in Instances /\ Server.boards = boards /\ Server.registry = i
        /\ Sound(Server) /\ NextWrite \in Nat /\ b \in BoardStates
    BY <1>1, <1>3, <1>4, ServerFacts
  <2> QED
    BY <1>3, <1>4, <2>1 DEF Sound, BoardStates
<1>6. PICK c : c = w.boards[i]
  OBVIOUS
<1>7. /\ Sound(w) /\ w.registry = i
      /\ \A j \in Instances : j # i => w.boards[j] = boards[j]
      /\ c.hist = Append(b.hist, NextWrite) /\ c.phase = b.phase
      /\ c.persisted = b.persisted /\ c.users = b.users /\ c.disposed = b.disposed
      /\ c.save = b.save /\ c.queued = b.queued /\ c.unload = b.unload
      /\ c.late = b.late
  <2>1. /\ Sound(w) /\ w.registry = Server.registry
        /\ \A j \in Instances : j # i => w.boards[j] = Server.boards[j]
        /\ c.hist = Append(Server.boards[i].hist, NextWrite)
        /\ c.phase = Server.boards[i].phase
        /\ c.persisted = Server.boards[i].persisted
        /\ c.users = Server.boards[i].users
        /\ c.disposed = Server.boards[i].disposed
        /\ c.save = Server.boards[i].save /\ c.queued = Server.boards[i].queued
        /\ c.unload = Server.boards[i].unload /\ c.late = Server.boards[i].late
    <3>1. Sound(Server) /\ i \in Instances /\ NextWrite \in Nat
          /\ Server.boards[i].phase # "free"
      BY <1>4, <1>5
    <3> QED
      BY <1>2, <1>6, <3>1, AcceptFacts
  <2> QED
    BY <1>4, <1>5, <2>1
<1>8. \A r \in Sockets :
         /\ socks'[r].at = socks[r].at /\ socks'[r].inst = socks[r].inst
         /\ IF /\ r = s \/ r \in b.users
               /\ socks[r].at = "joined" /\ Len(b.hist) + 1 = Len(socks[r].view) + 1
            THEN socks'[r].view = Append(socks[r].view, NextWrite)
            ELSE socks'[r] = socks[r]
  BY <1>3, <1>4, <1>5, KnownFacts, BroadcastFacts
<1>9. ASSUME Calm
      PROVE  /\ CalmServer(w, disk, stopping, failures = 0)
             /\ CalmPages(socks', w, disk, stopping)
             /\ \A r \in Sockets : socks[r].at = "joined" =>
                   socks'[r].view = Append(socks[r].view, NextWrite)
  <2>1. /\ Backed(b, disk) /\ Staying(b, stopping) /\ disk \in Seq(Nat)
        /\ Alone(Server)
        /\ \A r \in Sockets : CalmPage(socks[r], r, Server, disk, stopping)
    BY <1>4, <1>5, <1>9, CalmFacts
  <2>2. ~stopping /\ s \in b.users /\ b.phase = "loaded"
    BY <1>3, <1>4, <1>5, <2>1 DEF CalmPage
  <2>3. Active(b) /\ Active(c)
    BY <1>5, <1>7, <2>2 DEF Active
  <2>4. Begins(disk, c.hist)
    BY <1>5, <1>7, <2>1, <2>2, <2>3, BeginsAppend DEF Backed
  <2>5. Backed(c, disk)
    BY <1>5, <1>7, <2>1, <2>2, <2>3, <2>4 DEF Backed, StoredLength
  <2>6. Staying(c, stopping) /\ Saving(c, disk, stopping, failures = 0)
    BY <1>5, <1>7, <2>1, <2>2 DEF Staying, Saving
  <2>7. Alone(w)
    BY <1>4, <1>5, <1>6, <1>7, <2>1, <2>3, AloneKept
  <2>8. CalmServer(w, disk, stopping, failures = 0)
    BY <1>5, <1>6, <1>7, <1>9, <2>5, <2>6, <2>7, OneCalmBoard DEF CalmBoard
  <2>9. ASSUME NEW r \in Sockets, socks[r].at = "joined"
        PROVE  /\ socks'[r].view = Append(socks[r].view, NextWrite)
               /\ CalmPage(socks'[r], r, w, disk, stopping)
    <3>1. socks[r].inst = i /\ socks[r].view = b.hist /\ r \in b.users
      BY <1>4, <1>5, <2>1, <2>9 DEF CalmPage
    <3>2. socks'[r].view = Append(socks[r].view, NextWrite)
      BY <1>8, <2>9, <3>1
    <3>3. socks'[r].at = "joined" /\ socks'[r].inst = i
      BY <1>8, <2>9, <3>1
    <3>4. CalmPage(socks'[r], r, w, disk, stopping)
      BY <1>5, <1>6, <1>7, <2>2, <3>1, <3>2, <3>3 DEF CalmPage
    <3> QED
      BY <3>2, <3>4
  <2>10. ASSUME NEW r \in Sockets, socks[r].at # "joined"
         PROVE  CalmPage(socks'[r], r, w, disk, stopping)
    <3>1. socks'[r] = socks[r] /\ CalmPage(socks[r], r, Server, disk, stopping)
      BY <1>8, <2>1, <2>10
    <3>2. \A j \in Instances : w.boards[j].phase = boards[j].phase
      BY <1>4, <1>6, <1>7
    <3> QED
      BY <1>5, <1>7, <2>10, <3>1, <3>2 DEF CalmPage
  <2>11. CalmPages(socks', w, disk, stopping)
    BY <2>9, <2>10 DEF CalmPages
  <2> QED
    BY <2>8, <2>9, <2>11
<1>10. CalmInv'
  <2>1. w \in Servers
    BY <1>7 DEF Sound
  <2>2. Calm => /\ CalmServer(w, disk', stopping', failures' = 0)
                /\ CalmPages(socks', w, disk', stopping')
    BY <1>3, <1>9
  <2> QED
    BY <1>3, <2>1, <2>2, CalmNext
<1>11. UnloadedIsStored
  <2>1. \A j \in Instances : w.boards[j].disposed = boards[j].disposed
    BY <1>4, <1>6, <1>7
  <2> QED
    BY <1>3, <2>1, NothingUnloaded DEF Install
<1> QED
  BY <1>9, <1>10, <1>11

\* A loaded instance is unloaded.
LEMMA UnloadCalm ==
    ASSUME IInv, NEW v, Sound(v), NEW i \in Instances, NEW d \in Seq(Nat), NEW stop,
           NEW clean, NEW pages, v.boards[i].phase = "loaded", ~v.boards[i].disposed,
           CanRequestSave(v, i), Alone(v),
           \A j \in Instances : Backed(v.boards[j], d) /\ Staying(v.boards[j], stop),
           \A j \in Instances : j # i => Saving(v.boards[j], d, stop, clean),
           CalmPages(pages, v, d, stop)
    PROVE  LET w == Unload(v, i)
           IN  /\ CalmServer(w, d, stop, clean) /\ CalmPages(pages, w, d, stop)
               /\ \A j \in Instances : j # i => w.boards[j] = v.boards[j]
               /\ w.boards[i].disposed => v.boards[i].hist = d
<1>1. PICK w : w = RequestSave(v, i, TRUE)
  OBVIOUS
<1>2. w = Unload(v, i)
  BY <1>1 DEF Unload
<1>3. Requested(v, w, i, TRUE)
  BY <1>1, ServerFacts, RequestSaveFacts
<1>4. /\ CalmServer(w, d, stop, clean)
      /\ w.registry = v.registry \/ v.boards[i].users = {}
      /\ w.boards[i].disposed => v.boards[i].hist = d
  BY <1>3, RequestCalm
<1>5. /\ \A j \in Instances : j # i => w.boards[j] = v.boards[j]
      /\ w.boards[i].phase = v.boards[i].phase /\ w.boards[i].hist = v.boards[i].hist
      /\ w.boards[i].users = v.boards[i].users
  BY <1>3 DEF Requested, Keeps
<1>6. Active(v.boards[i])
  BY DEF Active
<1>7. CalmPages(pages, w, d, stop)
  BY <1>4, <1>5, <1>6, PagesKept
<1> QED
  BY <1>2, <1>4, <1>5, <1>7

LEMMA RetryUnloadCalm ==
    ASSUME IInv, CalmInv, RetryUnload
    PROVE  CalmInv' /\ UnloadedIsStored
<1>1. PICK r : r = [retry EXCEPT !.due = @ - 1]
  OBVIOUS
<1>2. PICK v : v = [registry |-> registry, boards |-> boards, pins |-> pins, retry |-> r]
  OBVIOUS
<1>3. v = [Server EXCEPT !.retry.due = @ - 1]
  BY <1>1, <1>2 DEF Server
<1>4. v.boards = boards /\ v.registry = registry
  BY <1>2
<1>5. /\ registry # None => CanRequestSave(Server, registry)
      /\ Install(IF registry = None THEN v ELSE Unload(v, registry))
      /\ UNCHANGED <<disk, socks, stopping, bounds>>
  BY <1>3 DEF RetryUnload
<1>6. CASE registry = None
  <2>1. UNCHANGED <<registry, boards>>
    BY <1>4, <1>5, <1>6 DEF Install
  <2>2. Calm => CalmPages(socks', Server, disk, stopping)
    BY <1>5, CalmFacts
  <2>3. CalmInv'
    BY <1>5, <2>1, <2>2, PagesMove DEF bounds
  <2> QED
    BY <2>1, <2>3 DEF UnloadedIsStored
<1>7. CASE registry # None
  <2>1. PICK i : i = registry
    OBVIOUS
  <2>2. /\ i \in Instances /\ ~boards[i].disposed /\ Server.boards = boards
        /\ Server.registry = registry /\ Sound(Server) /\ boards[i].phase # "free"
    BY <1>7, <2>1, ServerFacts DEF Sound
  <2>3. v \in Servers /\ Sound(v)
    <3>1. r \in Timers
      <4>1. PICK e \in Nat : e = retry.due /\ e \in 0 .. scenario.retries
        BY ServerFacts, Numbers DEF Timers
      <4>2. e > 0 /\ scenario.retries \in Nat
        BY <4>1, ServerFacts, Numbers DEF RetryUnload
      <4>3. e - 1 \in 0 .. scenario.retries
        BY <4>1, <4>2
      <4>4. r = [retry EXCEPT !.due = e - 1]
        BY <1>1, <4>1
      <4> QED
        BY <4>3, <4>4, ServerFacts DEF Timers
    <3>2. v \in Servers
      BY <1>2, <3>1, ServerFacts DEF Servers
    <3> QED
      BY <1>4, <2>2, <3>2 DEF Sound
  <2>4. PICK w : w = Unload(v, i)
    OBVIOUS
  <2>5. Install(w) /\ CanRequestSave(v, i)
    BY <1>4, <1>5, <1>7, <2>1, <2>2, <2>4 DEF CanRequestSave
  <2>6. ASSUME Calm
        PROVE  /\ CalmServer(w, disk, stopping, failures = 0)
               /\ CalmPages(socks, w, disk, stopping)
               /\ \A j \in Instances : j # i => w.boards[j] = boards[j]
               /\ w.boards[i].disposed => boards[i].hist = disk
    <3>1. boards[i].phase = "loaded"
      BY <1>7, <2>1, <2>6 DEF Calm, RetryUnload
    <3>2. /\ Alone(Server) /\ CalmPages(socks, Server, disk, stopping)
          /\ disk \in Seq(Nat)
          /\ \A j \in Instances : /\ Backed(boards[j], disk)
                                  /\ Staying(boards[j], stopping)
                                  /\ Saving(boards[j], disk, stopping, failures = 0)
      BY <2>6, CalmFacts
    <3>3. Alone(v) /\ CalmPages(socks, v, disk, stopping)
      BY <1>4, <2>2, <3>2 DEF Alone, CalmPages, CalmPage
    <3> QED
      <4>1. /\ v.boards[i].phase = "loaded" /\ ~v.boards[i].disposed
            /\ \A j \in Instances : /\ Backed(v.boards[j], disk)
                                    /\ Staying(v.boards[j], stopping)
                                    /\ Saving(v.boards[j], disk, stopping, failures = 0)
        BY <1>4, <2>2, <3>1, <3>2
      <4>2. /\ CalmServer(w, disk, stopping, failures = 0)
            /\ CalmPages(socks, w, disk, stopping)
            /\ \A j \in Instances : j # i => w.boards[j] = v.boards[j]
            /\ w.boards[i].disposed => v.boards[i].hist = disk
        BY <2>2, <2>3, <2>4, <2>5, <3>2, <3>3, <4>1, UnloadCalm
      <4> QED
        BY <1>4, <4>2
  <2>7. CalmInv'
    <3>1. w \in Servers
      <4>1. GoodServer(v)
        BY <1>4, <2>2, <2>3, KnownFacts DEF GoodServer
      <4>2. v.boards[i].phase # "free"
        BY <1>4, <2>2
      <4>3. CountInv
        BY ServerFacts
      <4> QED
        BY <2>2, <2>4, <2>5, <4>1, <4>2, <4>3, UnloadFacts DEF GoodServer, Sound
    <3>2. failures' = failures /\ scenario' = scenario
      BY <1>5 DEF bounds
    <3>3. Calm => /\ CalmServer(w, disk', stopping', failures' = 0)
                  /\ CalmPages(socks', w, disk', stopping')
      BY <1>5, <2>6, <3>2
    <3> QED
      BY <2>5, <3>1, <3>2, <3>3, CalmNext
  <2>8. UnloadedIsStored
    BY <1>5, <2>5, <2>6 DEF UnloadedIsStored, Install
  <2> QED
    BY <2>7, <2>8
<1> QED
  BY <1>6, <1>7

\* The users of the registered instance change, seen from the variables.
LEMMA CalmUsers ==
    ASSUME IInv, NEW i \in Instances, boards[i].phase # "free", NEW U \in SUBSET Sockets
    PROVE  LET w == WithUsers(Server, i, U)
               b == boards[i]
               c == w.boards[i]
           IN  /\ Sound(w) /\ w.registry = registry /\ c.users = U
               /\ \A j \in Instances : j # i => w.boards[j] = boards[j]
               /\ c.phase = b.phase /\ c.hist = b.hist /\ c.persisted = b.persisted
               /\ c.disposed = b.disposed /\ c.save = b.save
               /\ c.queued = b.queued /\ c.unload = b.unload /\ c.late = b.late
               /\ \A d : Backed(b, d) => Backed(c, d)
               /\ Active(b) <=> Active(c)
               /\ Alone(Server) => Alone(w)
<1>1. PICK w : w = WithUsers(Server, i, U)
  OBVIOUS
<1>2. Sound(Server) /\ Server.boards = boards /\ Server.registry = registry
  BY ServerFacts
<1>3. PICK b : b = boards[i]
  OBVIOUS
<1>4. PICK c : c = w.boards[i]
  OBVIOUS
<1>5. /\ Sound(w) /\ w.registry = registry /\ c.users = U
      /\ \A j \in Instances : j # i => w.boards[j] = boards[j]
      /\ c.phase = b.phase /\ c.hist = b.hist /\ c.persisted = b.persisted
      /\ c.disposed = b.disposed /\ c.save = b.save
      /\ c.queued = b.queued /\ c.unload = b.unload /\ c.late = b.late
  <2>1. /\ Sound(w) /\ w.registry = Server.registry /\ c.users = U
        /\ \A j \in Instances : j # i => w.boards[j] = Server.boards[j]
        /\ c.phase = Server.boards[i].phase /\ c.hist = Server.boards[i].hist
        /\ c.persisted = Server.boards[i].persisted
        /\ c.disposed = Server.boards[i].disposed /\ c.save = Server.boards[i].save
        /\ c.queued = Server.boards[i].queued /\ c.unload = Server.boards[i].unload
        /\ c.late = Server.boards[i].late
    <3>1. Sound(Server) /\ Server.boards[i].phase # "free"
      BY <1>2
    <3> QED
      BY <1>1, <1>4, <3>1, UsersFacts
  <2> QED
    BY <1>2, <1>3, <2>1
<1>6. Active(b) <=> Active(c)
  BY <1>5 DEF Active
<1>7. \A d : Backed(b, d) => Backed(c, d)
  <2>1. StoredLength(b) = StoredLength(c)
    BY <1>5 DEF StoredLength
  <2> QED
    BY <1>5, <1>6, <2>1 DEF Backed
<1>8. ASSUME Alone(Server)
      PROVE  Alone(w)
  <2>1. /\ \A j \in Instances : j # i => w.boards[j] = Server.boards[j]
        /\ Active(w.boards[i]) => Active(Server.boards[i])
        /\ w.registry = Server.registry
        /\ Server.boards[i].disposed => w.boards[i].disposed
    BY <1>2, <1>3, <1>4, <1>5, <1>6
  <2> QED
    BY <1>8, <2>1, AloneKept
<1> QED
  BY <1>1, <1>3, <1>4, <1>5, <1>6, <1>7, <1>8

LEMMA LeaveCalm ==
    ASSUME IInv, CalmInv, NEW s \in Sockets, Leave(s)
    PROVE  CalmInv' /\ UnloadedIsStored
<1> SUFFICES ASSUME Calm
             PROVE  CalmInv' /\ UnloadedIsStored
  BY DEF CalmInv, Calm, UnloadedIsStored, Leave, bounds
<1>1. PICK i : i = registry
  OBVIOUS
<1>2. PICK b : b = boards[i]
  OBVIOUS
<1>3. /\ socks[s].at = "joined" /\ ~stopping
      /\ socks' = [socks EXCEPT ![s] = Away]
      /\ UNCHANGED <<disk, stopping, bounds>>
  BY DEF Leave
<1>4. /\ i \in Instances /\ b.phase = "loaded" /\ s \in b.users /\ ~b.disposed
      /\ Server.boards = boards /\ Server.registry = i /\ Sound(Server)
      /\ Alone(Server) /\ disk \in Seq(Nat) /\ b \in BoardStates
      /\ \A j \in Instances : /\ Backed(boards[j], disk)
                              /\ Staying(boards[j], stopping)
                              /\ Saving(boards[j], disk, stopping, failures = 0)
  <2>1. /\ CalmPage(socks[s], s, Server, disk, stopping)
        /\ Server.boards = boards /\ Server.registry = i /\ Sound(Server)
        /\ Alone(Server) /\ disk \in Seq(Nat)
        /\ \A j \in Instances : /\ Backed(boards[j], disk)
                                /\ Staying(boards[j], stopping)
                                /\ Saving(boards[j], disk, stopping, failures = 0)
                                /\ boards[j] \in BoardStates
    BY <1>1, CalmFacts
  <2>2. i \in Instances /\ b.phase = "loaded" /\ s \in b.users
    BY <1>2, <1>3, <2>1 DEF CalmPage
  <2>3. ~b.disposed
    BY <1>2, <2>1, <2>2 DEF Sound, None, Instances
  <2> QED
    BY <1>2, <2>1, <2>2, <2>3
<1>5. PICK U : U = b.users \ {s}
  OBVIOUS
<1>6. PICK v : v = WithUsers(Server, i, U)
  OBVIOUS
<1>7. PICK c : c = v.boards[i]
  OBVIOUS
<1>8. /\ Sound(v) /\ v.registry = i /\ c.users = U
      /\ \A j \in Instances : j # i => v.boards[j] = boards[j]
      /\ c.phase = b.phase /\ c.hist = b.hist /\ c.disposed = b.disposed
      /\ c.unload = b.unload /\ Backed(c, disk) /\ Alone(v)
  <2>1. U \in SUBSET Sockets /\ boards[i].phase # "free"
    BY <1>2, <1>4, <1>5 DEF BoardStates
  <2> QED
    BY <1>1, <1>2, <1>4, <1>6, <1>7, <2>1, CalmUsers
<1>9. /\ \A j \in Instances : Backed(v.boards[j], disk) /\ Staying(v.boards[j], stopping)
      /\ \A j \in Instances : j # i => Saving(v.boards[j], disk, stopping, failures = 0)
  <2>1. Staying(c, stopping)
    BY <1>2, <1>3, <1>4, <1>8 DEF Staying
  <2> QED
    BY <1>4, <1>7, <1>8, <2>1
<1>10. CalmPages(socks', v, disk, stopping)
  <2> SUFFICES ASSUME NEW r \in Sockets
               PROVE  CalmPage(socks'[r], r, v, disk, stopping)
    BY DEF CalmPages
  <2>1. CASE r = s
    BY <1>3, <2>1, CalmAway, ServerFacts
  <2>2. CASE r # s
    <3>1. socks'[r] = socks[r] /\ CalmPage(socks[r], r, Server, disk, stopping)
      BY <1>3, <2>2, CalmFacts, ServerFacts
    <3>2. r \in b.users => r \in U
      BY <1>5, <2>2
    <3>3. \A j \in Instances : v.boards[j].phase = boards[j].phase
                               /\ v.boards[j].hist = boards[j].hist
      BY <1>2, <1>7, <1>8
    <3> QED
      BY <1>2, <1>4, <1>7, <1>8, <3>1, <3>2, <3>3 DEF CalmPage
  <2> QED
    BY <2>1, <2>2
<1>11. IF U # {} THEN Install(v) ELSE CanRequestSave(v, i) /\ Install(Unload(v, i))
  <2>1. v = [Server EXCEPT !.boards[registry].users = @ \ {s}]
    BY <1>1, <1>2, <1>4, <1>5, <1>6, Zenon DEF WithUsers
  <2>2. i # None
    BY <1>4 DEF None, Instances
  <2>3. IF v.boards[i].users # {} THEN Install(v)
        ELSE CanRequestSave(v, i) /\ Install(Unload(v, i))
    BY <1>1, <2>1, <2>2, Zenon DEF Leave
  <2> QED
    BY <1>7, <1>8, <2>3
<1>12. failures' = failures /\ scenario' = scenario
  BY <1>3 DEF bounds
<1>13. CASE U # {}
  <2>1. Saving(c, disk, stopping, failures = 0)
    BY <1>3, <1>4, <1>8, <1>13 DEF Saving
  <2>2. CalmServer(v, disk, stopping, failures = 0)
    BY <1>7, <1>8, <1>9, <2>1 DEF CalmServer, CalmBoard
  <2>3. v \in Servers /\ Install(v)
    BY <1>8, <1>11, <1>13 DEF Sound
  <2>4. Calm => /\ CalmServer(v, disk', stopping', failures' = 0)
                /\ CalmPages(socks', v, disk', stopping')
    BY <1>3, <1>10, <1>12, <2>2
  <2>5. CalmInv'
    BY <1>12, <2>3, <2>4, CalmNext
  <2>6. \A j \in Instances : boards'[j].disposed = boards[j].disposed
    BY <1>2, <1>7, <1>8, <2>3 DEF Install
  <2> QED
    BY <2>5, <2>6 DEF UnloadedIsStored
<1>14. CASE U = {}
  <2>1. PICK w : w = Unload(v, i)
    OBVIOUS
  <2>2. v.boards[i].phase = "loaded" /\ ~v.boards[i].disposed /\ CanRequestSave(v, i)
        /\ Install(w)
    BY <1>4, <1>7, <1>8, <1>11, <1>14, <2>1
  <2>3. /\ CalmServer(w, disk, stopping, failures = 0)
        /\ CalmPages(socks', w, disk, stopping)
        /\ \A j \in Instances : j # i => w.boards[j] = v.boards[j]
        /\ w.boards[i].disposed => v.boards[i].hist = disk
    BY <1>4, <1>8, <1>9, <1>10, <2>1, <2>2, UnloadCalm
  <2>4. w \in Servers
    <3>1. GoodServer(v)
      <4>1. Known(v.boards[i].hist) /\ GoodServer(Server)
        BY <1>2, <1>4, <1>7, <1>8, KnownFacts DEF GoodServer
      <4>2. \A j \in Instances : j # i => v.boards[j] = Server.boards[j]
        BY <1>4, <1>8
      <4> QED
        BY <1>4, <1>8, <4>1, <4>2, ChangedGood
    <3>2. CountInv /\ v.boards[i].phase # "free"
      BY <2>2, ServerFacts
    <3> QED
      BY <1>4, <2>1, <2>2, <3>1, <3>2, UnloadFacts DEF GoodServer, Sound
  <2>5. Calm => /\ CalmServer(w, disk', stopping', failures' = 0)
                /\ CalmPages(socks', w, disk', stopping')
    BY <1>3, <1>12, <2>3
  <2>6. CalmInv'
    BY <1>12, <2>2, <2>4, <2>5, CalmNext
  <2>7. UnloadedIsStored
    BY <1>2, <1>3, <1>7, <1>8, <2>2, <2>3 DEF UnloadedIsStored, Install
  <2> QED
    BY <2>6, <2>7
<1> QED
  BY <1>13, <1>14

\* Stopping asks nothing of an instance that is not registered.
LEMMA StoppingOthers ==
    ASSUME IInv, CalmInv, Calm, NEW j \in Instances, j # registry
    PROVE  CalmBoard(boards[j], disk, TRUE, failures = 0)
<1>1. PICK b : b = boards[j]
  OBVIOUS
<1>2. /\ Backed(b, disk) /\ Staying(b, stopping) /\ BoardInv(b)
      /\ Saving(b, disk, stopping, failures = 0) /\ Alone(Server)
      /\ Server.boards = boards /\ Server.registry = registry
  BY <1>1, CalmFacts
<1>3. b.phase = "free" \/ b.disposed
  BY <1>1, <1>2 DEF Alone, Active
<1>4. b.phase = "free" => b = FreeBoard
  BY <1>2 DEF BoardInv
<1>5. Staying(b, TRUE) /\ Saving(b, disk, TRUE, failures = 0)
  BY <1>2, <1>3, <1>4, FreeFacts DEF Staying, Saving
<1> QED
  BY <1>1, <1>2, <1>5 DEF CalmBoard

LEMMA ShutdownCalm ==
    ASSUME IInv, CalmInv, Shutdown
    PROVE  CalmInv' /\ UnloadedIsStored
<1> SUFFICES ASSUME Calm
             PROVE  CalmInv' /\ UnloadedIsStored
  BY DEF CalmInv, Calm, UnloadedIsStored, Shutdown, bounds
<1>1. PICK i : i = registry
  OBVIOUS
<1>2. /\ ~stopping /\ stopping' = TRUE /\ UNCHANGED <<disk, bounds>>
      /\ socks' = [s \in Sockets |-> Away]
  BY DEF Shutdown
<1>3. \A v : CalmPages(socks', v, disk, TRUE)
  BY <1>2, CalmAway DEF CalmPages
<1>4. failures' = failures /\ scenario' = scenario
  BY <1>2 DEF bounds
<1>5. CASE i = None
  <2>1. Install(Server) /\ Server \in Servers /\ Alone(Server)
        /\ Server.boards = boards
    BY <1>1, <1>5, CalmFacts DEF Shutdown
  <2>2. CalmServer(Server, disk, TRUE, failures = 0)
    <3>1. None \notin Instances
      BY DEF None, Instances
    <3> QED
      BY <1>1, <1>5, <2>1, <3>1, StoppingOthers DEF CalmServer
  <2>3. Calm => /\ CalmServer(Server, disk', stopping', failures' = 0)
                /\ CalmPages(socks', Server, disk', stopping')
    BY <1>2, <1>3, <1>4, <2>2
  <2>4. CalmInv'
    BY <1>4, <2>1, <2>3, CalmNext
  <2>5. boards' = boards
    BY <2>1 DEF Install
  <2> QED
    BY <2>4, <2>5 DEF UnloadedIsStored
<1>6. CASE i # None
  <2>1. PICK b : b = boards[i]
    OBVIOUS
  <2>2. /\ i \in Instances /\ b.phase # "free" /\ ~b.disposed
        /\ Server.boards = boards /\ Server.registry = i /\ Sound(Server)
        /\ Alone(Server) /\ disk \in Seq(Nat) /\ b \in BoardStates /\ BoardInv(b)
        /\ Backed(b, disk) /\ Staying(b, stopping)
        /\ \A j \in Instances : Backed(boards[j], disk)
    <3>1. /\ i \in Instances /\ Server.boards = boards /\ Server.registry = i
          /\ Sound(Server) /\ Alone(Server) /\ disk \in Seq(Nat)
      BY <1>1, <1>6, CalmFacts, ServerFacts
    <3>2. b.phase # "free" /\ ~b.disposed
      BY <1>6, <2>1, <3>1 DEF Sound
    <3> QED
      BY <2>1, <3>1, <3>2, CalmFacts
  <2>3. PICK v : v = WithUsers(Server, i, {})
    OBVIOUS
  <2>4. PICK c : c = v.boards[i]
    OBVIOUS
  <2>5. /\ Sound(v) /\ v.registry = i /\ c.users = {}
        /\ \A j \in Instances : j # i => v.boards[j] = boards[j]
        /\ c.phase = b.phase /\ c.hist = b.hist /\ c.disposed = b.disposed
        /\ c.save = b.save /\ c.queued = b.queued /\ c.late = b.late
        /\ c.persisted = b.persisted
        /\ Backed(c, disk) /\ Alone(v) /\ (Active(b) <=> Active(c))
    <3>1. {} \in SUBSET Sockets /\ boards[i].phase # "free"
      BY <2>1, <2>2
    <3> QED
      BY <1>1, <2>1, <2>2, <2>3, <2>4, <3>1, CalmUsers
  <2>6. PICK w : w = Unload(v, i)
    OBVIOUS
  <2>7. CanRequestSave(v, i) /\ Install(w)
    <3>1. v = [Server EXCEPT !.boards[registry].users = {}]
      BY <1>1, <2>3, Zenon DEF WithUsers
    <3> QED
      BY <1>1, <1>6, <2>6, <3>1, Zenon DEF Shutdown
  <2>8. w \in Servers
    <3>1. GoodServer(v)
      <4>1. Known(v.boards[i].hist) /\ GoodServer(Server)
        BY <2>1, <2>2, <2>4, <2>5, KnownFacts DEF GoodServer
      <4>2. \A j \in Instances : j # i => v.boards[j] = Server.boards[j]
        BY <2>2, <2>5
      <4> QED
        BY <2>2, <2>5, <4>1, <4>2, ChangedGood
    <3>2. CountInv /\ v.boards[i].phase # "free"
      BY <2>2, <2>4, <2>5, ServerFacts
    <3> QED
      BY <2>2, <2>6, <2>7, <3>1, <3>2, UnloadFacts DEF GoodServer, Sound
  <2>9. \A j \in Instances : j # i => CalmBoard(v.boards[j], disk, TRUE, failures = 0)
    BY <1>1, <2>5, StoppingOthers
  <2>10. /\ CalmServer(w, disk, TRUE, failures = 0)
         /\ \A j \in Instances : j # i => w.boards[j] = v.boards[j]
         /\ b.phase = "loaded" /\ w.boards[i].disposed => b.hist = disk
    <3>1. CASE b.phase = "loaded"
      <4>1. PICK stop : stop = TRUE
        OBVIOUS
      <4>2. Staying(c, TRUE)
        BY <2>5 DEF Staying
      <4>3. /\ \A j \in Instances : Backed(v.boards[j], disk) /\ Staying(v.boards[j], stop)
            /\ \A j \in Instances : j # i => Saving(v.boards[j], disk, stop, failures = 0)
        BY <2>4, <2>5, <2>9, <4>1, <4>2 DEF CalmBoard
      <4>4. v.boards[i].phase = "loaded" /\ ~v.boards[i].disposed
        BY <2>2, <2>4, <2>5, <3>1
      <4>5. CalmPages(socks', v, disk, stop)
        BY <1>3, <4>1
      <4>6. Sound(v) /\ Alone(v) /\ i \in Instances /\ disk \in Seq(Nat)
        BY <2>2, <2>5
      <4>7. /\ CalmServer(w, disk, stop, failures = 0)
            /\ \A j \in Instances : j # i => w.boards[j] = v.boards[j]
            /\ w.boards[i].disposed => v.boards[i].hist = disk
        BY <2>6, <2>7, <4>3, <4>4, <4>5, <4>6, UnloadCalm
      <4> QED
        BY <2>4, <2>5, <4>1, <4>7
    <3>2. CASE b.phase # "loaded"
      <4>1. PICK e : e = w.boards[i]
        OBVIOUS
      <4>2. /\ w.registry = v.registry
            /\ \A j \in Instances : j # i => w.boards[j] = v.boards[j]
            /\ e.disposed = c.disposed /\ e.phase = c.phase /\ e.hist = c.hist
            /\ e.persisted = c.persisted /\ e.save = c.save
            /\ e.queued = c.queued /\ e.users = c.users /\ e.late = c.late
        <5>1. v.boards[i].phase \notin {"free", "loaded"}
          BY <2>2, <2>4, <2>5, <3>2
        <5> QED
          BY <2>2, <2>4, <2>5, <2>6, <4>1, <5>1, UnloadWaits
      <4>3. Active(c) <=> Active(e)
        BY <4>2 DEF Active
      <4>4. StoredLength(c) = StoredLength(e)
        BY <4>2 DEF StoredLength
      <4>5. Backed(e, disk)
        BY <2>5, <4>2, <4>3, <4>4 DEF Backed
      <4>6. Staying(e, TRUE)
        BY <2>5, <4>2 DEF Staying
      <4>7. e.save = Idle
        BY <2>2, <2>5, <3>2, <4>2 DEF BoardInv
      <4>8. Saving(e, disk, TRUE, failures = 0)
        BY <2>2, <2>5, <3>2, <4>2, <4>7 DEF Saving
      <4>9. Alone(w)
        BY <2>2, <2>4, <2>5, <4>1, <4>2, <4>3, AloneKept
      <4>10. CalmServer(w, disk, TRUE, failures = 0)
        BY <2>9, <4>1, <4>2, <4>5, <4>6, <4>8, <4>9 DEF CalmServer, CalmBoard
      <4> QED
        BY <3>2, <4>2, <4>10
    <3> QED
      BY <3>1, <3>2
  <2>11. Calm => /\ CalmServer(w, disk', stopping', failures' = 0)
                 /\ CalmPages(socks', w, disk', stopping')
    BY <1>2, <1>3, <1>4, <2>10
  <2>12. CalmInv'
    BY <1>4, <2>7, <2>8, <2>11, CalmNext
  <2>13. UnloadedIsStored
    <3>1. boards' = w.boards /\ disk' = disk
      BY <1>2, <2>7 DEF Install
    <3> QED
      BY <2>1, <2>5, <2>10, <3>1 DEF UnloadedIsStored
  <2> QED
    BY <2>12, <2>13
<1> QED
  BY <1>5, <1>6

\* The registered instance, or a new one when nothing else is alive.
LEMMA LoadingCalm ==
    ASSUME IInv, CalmInv, Calm, Quiet, ~stopping, NEW i \in Instances,
           GetBoard(Server, i)
    PROVE  LET v == Loading(Server, i)
           IN  /\ CalmServer(v, disk, stopping, failures = 0)
               /\ CalmPages(socks, v, disk, stopping)
               /\ v.registry = i /\ Sound(v)
<1>1. PICK v : v = Loading(Server, i)
  OBVIOUS
<1>2. /\ CalmServer(Server, disk, stopping, failures = 0)
      /\ CalmPages(socks, Server, disk, stopping)
      /\ Alone(Server) /\ Sound(Server)
      /\ Server.boards = boards /\ Server.registry = registry
  BY CalmFacts
<1>3. /\ Sound(v) /\ v.registry = i
      /\ \A j \in Instances : j # i => v.boards[j] = Server.boards[j]
      /\ Server.registry # None => v = Server
      /\ Server.registry = None => Server.boards[i] = FreeBoard
                                   /\ v.boards[i] = Opening(FreeBoard)
  BY <1>1, <1>2, LoadingFacts
<1>4. CASE Server.registry # None
  BY <1>1, <1>2, <1>3, <1>4
<1>5. CASE Server.registry = None
  <2>1. PICK c : c = v.boards[i]
    OBVIOUS
  <2>2. c = Opening(FreeBoard)
    BY <1>3, <1>5, <2>1
  <2>3. /\ c.phase = "opening" /\ c.save = Idle /\ ~c.disposed /\ c.queued = 0
        /\ c.users = {} /\ c.unload = FALSE /\ c.late = {}
    BY <2>2, FreeFacts DEF Opening, BoardStates
  <2>4. \A j \in Instances : ~Active(boards[j])
    <3> SUFFICES ASSUME NEW j \in Instances, Active(boards[j])
                 PROVE  FALSE
      OBVIOUS
    <3>1. boards[j].disposed
      BY <1>2, <1>5 DEF Alone, None, Instances
    <3>2. boards[j].save # Idle
      BY <3>1 DEF Active
    <3>3. boards[j].save.unload
      BY <3>1, <3>2, CalmFacts DEF Backed
    <3> QED
      BY <3>2, <3>3 DEF Quiet
  <2>5. \A j \in Instances : j # i => ~Active(v.boards[j])
    BY <1>2, <1>3, <2>4
  <2>6. Alone(v)
    BY <1>3, <2>5 DEF Alone
  <2>7. CalmBoard(c, disk, stopping, failures = 0)
    BY <2>3 DEF CalmBoard, Backed, Staying, Saving
  <2>8. CalmServer(v, disk, stopping, failures = 0)
    BY <1>2, <1>3, <2>1, <2>6, <2>7 DEF CalmServer
  <2>9. CalmPages(socks, v, disk, stopping)
    <3> SUFFICES ASSUME NEW s \in Sockets
                 PROVE  CalmPage(socks[s], s, v, disk, stopping)
      BY DEF CalmPages
    <3>1. PICK p : p = socks[s]
      OBVIOUS
    <3>2. CalmPage(p, s, Server, disk, stopping)
      BY <1>2, <3>1 DEF CalmPages
    <3>3. p.at # "loading" /\ p.at # "joined"
      BY <1>5, <3>2 DEF CalmPage, None, Instances
    <3> QED
      BY <3>1, <3>2, <3>3 DEF CalmPage
  <2> QED
    BY <1>1, <1>3, <2>8, <2>9
<1> QED
  BY <1>4, <1>5

\* Users are added to the registered instance while the process is not stopping.
LEMMA JoiningCalm ==
    ASSUME IInv, CalmInv, Calm, ~stopping, NEW i \in Instances, registry = i,
           boards[i].phase = "loaded", NEW U \in SUBSET Sockets,
           boards[i].users \subseteq U, NEW pages,
           \A s \in Sockets :
              \/ pages[s] = socks[s]
              \/ pages[s] = Away
              \/ /\ pages[s].at = "joined" /\ pages[s].inst = i /\ s \in U
                 /\ pages[s].view = boards[i].hist
    PROVE  LET w == WithUsers(Server, i, U)
           IN  /\ CalmPages(pages, w, disk, stopping) /\ Sound(w)
               /\ U # {} => CalmServer(w, disk, stopping, failures = 0)
<1>1. PICK w : w = WithUsers(Server, i, U)
  OBVIOUS
<1>2. PICK b : b = boards[i]
  OBVIOUS
<1>3. PICK c : c = w.boards[i]
  OBVIOUS
<1>4. /\ Alone(Server) /\ Backed(b, disk) /\ Staying(b, stopping)
      /\ Saving(b, disk, stopping, failures = 0)
      /\ Server.boards = boards /\ Server.registry = registry /\ Sound(Server)
  BY <1>2, CalmFacts
<1>5. /\ Sound(w) /\ w.registry = i /\ c.users = U
      /\ \A j \in Instances : j # i => w.boards[j] = boards[j]
      /\ c.phase = b.phase /\ c.hist = b.hist /\ c.disposed = b.disposed
      /\ c.unload = b.unload /\ Backed(c, disk) /\ Alone(w)
  BY <1>1, <1>2, <1>3, <1>4, CalmUsers
<1>6. ~b.disposed
  BY <1>2, <1>4 DEF Sound, None, Instances
<1>7. CalmPages(pages, w, disk, stopping)
  <2> SUFFICES ASSUME NEW s \in Sockets
               PROVE  CalmPage(pages[s], s, w, disk, stopping)
    BY DEF CalmPages
  <2>1. CASE pages[s] = socks[s]
    <3>1. CalmPage(pages[s], s, Server, disk, stopping)
      BY <2>1, CalmFacts
    <3>2. \A j \in Instances : w.boards[j].phase = boards[j].phase
                               /\ w.boards[j].hist = boards[j].hist
                               /\ boards[j].users \subseteq w.boards[j].users
      BY <1>2, <1>3, <1>5
    <3> QED
      BY <1>4, <1>5, <3>1, <3>2 DEF CalmPage
  <2>2. CASE pages[s] = Away
    BY <2>2, CalmAway
  <2>3. CASE /\ pages[s].at = "joined" /\ pages[s].inst = i /\ s \in U
             /\ pages[s].view = boards[i].hist
    BY <1>2, <1>3, <1>5, <2>3 DEF CalmPage
  <2> QED
    BY <2>1, <2>2, <2>3
<1>8. ASSUME U # {}
      PROVE  CalmServer(w, disk, stopping, failures = 0)
  <2>1. Saving(c, disk, stopping, failures = 0) /\ Staying(c, stopping)
    BY <1>4, <1>5, <1>6, <1>8 DEF Saving, Staying
  <2> QED
    BY <1>3, <1>5, <2>1, OneCalmBoard DEF CalmBoard
<1> QED
  BY <1>1, <1>5, <1>7, <1>8

\* The handshake of a page that shows the beginning of the instance.
LEMMA HandshakeCalm ==
    ASSUME IInv, NEW v, GoodServer(v), NEW i \in Instances, NEW s \in Sockets,
           NEW p, GoodPage(p), NEW d \in Seq(Nat),
           Begins(p.view, d), Begins(d, v.boards[i].hist)
    PROVE  LET q == Handshake(v, p, i)
           IN  IF Joins(v, p, i)
               THEN q.at = "joined" /\ q.inst = i /\ q.view = v.boards[i].hist
               ELSE q = Away
<1>1. PICK h : h = v.boards[i].hist
  OBVIOUS
<1>2. h \in Seq(Nat) /\ p.view \in Seq(Nat)
  BY <1>1 DEF GoodServer, GoodPage, Known
<1>3. Begins(p.view, h)
  BY <1>1, <1>2, BeginsLonger
<1>4. /\ Len(p.view) <= Len(h)
      /\ p.view \o SubSeq(h, Len(p.view) + 1, Len(h)) = h
  BY <1>2, <1>3, BeginsFacts
<1>5. ReplayBatch(v.boards[i], Len(p.view)) = SubSeq(h, Len(p.view) + 1, Len(h))
  BY <1>1 DEF ReplayBatch
<1>6. PICK q : q = Handshake(v, p, i)
  OBVIOUS
<1>7. /\ Joins(v, p, i) => /\ q.at = "joined" /\ q.inst = i
                           /\ q.view = p.view \o ReplayBatch(v.boards[i], Len(p.view))
      /\ ~Joins(v, p, i) /\ Len(p.view) <= Len(v.boards[i].hist) => q = Away
  BY <1>6, KnownFacts, HandshakeFacts
<1> QED
  BY <1>1, <1>4, <1>5, <1>6, <1>7

LEMMA ConnectCalm ==
    ASSUME IInv, CalmInv, NEW s \in Sockets, NEW i \in Instances, Connect(s, i)
    PROVE  CalmInv'
<1> SUFFICES ASSUME Calm
             PROVE  CalmInv'
  BY DEF CalmInv, Calm, Connect, bounds
<1>1. PICK v : v = Loading(Server, i)
  OBVIOUS
<1>2. PICK p : p = socks[s]
  OBVIOUS
<1>3. /\ ~stopping /\ Quiet /\ p.at = "page" /\ GetBoard(Server, i)
      /\ Enter(v, socks, s, i) /\ UNCHANGED <<disk, stopping, bounds>>
  BY <1>1, <1>2 DEF Connect, Calm
<1>4. /\ CalmServer(v, disk, stopping, failures = 0)
      /\ CalmPages(socks, v, disk, stopping)
      /\ v.registry = i /\ Sound(v)
  BY <1>1, <1>3, LoadingCalm
<1>5. /\ CalmPage(p, s, v, disk, stopping) /\ GoodPage(p) /\ disk \in Seq(Nat)
      /\ socks \in [Sockets -> PageStates] /\ p \in PageStates
      /\ Begins(p.view, disk)
  <2>1. CalmPage(p, s, v, disk, stopping) /\ GoodPage(p)
        /\ socks \in [Sockets -> PageStates]
    BY <1>2, <1>4, KnownFacts, ServerFacts DEF CalmPages, GoodPages
  <2> QED
    BY <1>2, <1>3, <2>1, ServerFacts DEF CalmPage
<1>6. failures' = failures /\ scenario' = scenario
  BY <1>3 DEF bounds
<1>7. CASE v.boards[i].phase # "loaded"
  <2>1. PICK q : q = [p EXCEPT !.at = "loading", !.inst = i]
    OBVIOUS
  <2>2. q.at = "loading" /\ q.inst = i /\ q.view = p.view
    BY <1>5, <2>1 DEF PageStates
  <2>3. CalmPage(q, s, v, disk, stopping)
    BY <1>3, <1>4, <1>5, <1>7, <2>2 DEF CalmPage
  <2>4. Install(v) /\ socks' = [socks EXCEPT ![s] = q]
    BY <1>2, <1>3, <1>7, <2>1 DEF Enter
  <2>5. CalmPages(socks', v, disk, stopping)
    BY <1>4, <1>5, <2>3, <2>4, OneCalmPage
  <2>6. v \in Servers
    BY <1>4 DEF Sound
  <2>7. Calm => /\ CalmServer(v, disk', stopping', failures' = 0)
                /\ CalmPages(socks', v, disk', stopping')
    BY <1>3, <1>4, <1>6, <2>5
  <2> QED
    BY <1>6, <2>4, <2>6, <2>7, CalmNext
<1>8. CASE v.boards[i].phase = "loaded"
  <2>1. v = Server /\ registry = i /\ Server.boards = boards
        /\ Server.registry = registry
    <3>1. Server.boards = boards /\ Server.registry = registry /\ Sound(Server)
      BY ServerFacts
    <3>2. /\ Server.registry # None => Server.registry = i /\ v = Server
          /\ Server.registry = None => v.boards[i] = Opening(FreeBoard)
      BY <1>1, <1>3, <3>1, LoadingFacts
    <3>3. Opening(FreeBoard).phase # "loaded"
      BY FreeFacts DEF Opening, BoardStates
    <3> QED
      BY <1>8, <3>1, <3>2, <3>3
  <2>2. PICK b : b = boards[i]
    OBVIOUS
  <2>3. b.phase = "loaded" /\ Begins(disk, b.hist) /\ b.users \subseteq Sockets
    <3>1. b.phase = "loaded" /\ ~b.disposed /\ Backed(b, disk) /\ b \in BoardStates
      BY <1>4, <1>8, <2>1, <2>2, CalmFacts DEF Sound, None, Instances
    <3> QED
      BY <3>1 DEF Backed, Active, BoardStates
  <2>4. PICK q : q = Handshake(Server, p, i)
    OBVIOUS
  <2>5. IF Joins(Server, p, i)
        THEN q.at = "joined" /\ q.inst = i /\ q.view = b.hist
        ELSE q = Away
    <3>1. GoodServer(Server) /\ Begins(disk, Server.boards[i].hist)
      BY <2>1, <2>2, <2>3, KnownFacts
    <3> QED
      BY <1>5, <2>1, <2>2, <2>4, <3>1, HandshakeCalm
  <2>6. socks' = [socks EXCEPT ![s] = q]
    BY <1>2, <1>3, <1>8, <2>1, <2>4 DEF Enter
  <2>7. \A r \in Sockets : r # s => socks'[r] = socks[r]
    BY <1>5, <2>6
  <2>8. socks'[s] = q
    BY <1>5, <2>6
  <2>9. CASE Joins(Server, p, i)
    <3>1. PICK U : U = b.users \cup {s}
      OBVIOUS
    <3>2. PICK w : w = WithUsers(Server, i, U)
      OBVIOUS
    <3>3. Install(w)
      <4>1. w = [Server EXCEPT !.boards[i].users = @ \cup {s}]
        BY <2>1, <2>2, <3>1, <3>2, Zenon DEF WithUsers
      <4> QED
        BY <1>2, <1>3, <1>8, <2>1, <2>9, <4>1, Zenon DEF Enter
    <3>4. \A r \in Sockets :
             \/ socks'[r] = socks[r]
             \/ socks'[r] = Away
             \/ /\ socks'[r].at = "joined" /\ socks'[r].inst = i /\ r \in U
                /\ socks'[r].view = boards[i].hist
      BY <2>2, <2>5, <2>7, <2>8, <2>9, <3>1
    <3>5. CalmPages(socks', w, disk, stopping) /\ Sound(w)
          /\ CalmServer(w, disk, stopping, failures = 0)
      <4>1. U \in SUBSET Sockets /\ boards[i].users \subseteq U /\ U # {}
            /\ boards[i].phase = "loaded"
        BY <2>2, <2>3, <3>1
      <4> QED
        BY <1>3, <2>1, <3>2, <3>4, <4>1, JoiningCalm
    <3>6. w \in Servers
      BY <3>5 DEF Sound
    <3>7. Calm => /\ CalmServer(w, disk', stopping', failures' = 0)
                  /\ CalmPages(socks', w, disk', stopping')
      BY <1>3, <1>6, <3>5
    <3> QED
      BY <1>6, <3>3, <3>6, <3>7, CalmNext
  <2>10. CASE ~Joins(Server, p, i)
    <3>1. Install(Server)
      BY <1>2, <1>3, <2>1, <2>10 DEF Enter
    <3>2. UNCHANGED <<registry, boards, disk, stopping, failures>>
      BY <1>3, <1>6, <2>1, <3>1 DEF Install
    <3>3. CalmPages(socks', Server, disk, stopping)
      BY <1>4, <1>5, <2>1, <2>5, <2>6, <2>10, CalmAway, OneCalmPage
    <3> QED
      BY <1>6, <3>2, <3>3, PagesMove
  <2> QED
    BY <2>9, <2>10
<1> QED
  BY <1>7, <1>8

\* The users of an instance change while it is not being saved.
LEMMA UsersCalm ==
    ASSUME NEW v, Sound(v), NEW i \in Instances, v.boards[i].phase # "free",
           NEW U \in SUBSET Sockets, NEW d, NEW stop, NEW clean,
           CalmServer(v, d, stop, clean),
           stop /\ ~v.boards[i].disposed => U = {},
           v.boards[i].save = Idle \/ U = v.boards[i].users
    PROVE  LET w == WithUsers(v, i, U)
           IN  /\ CalmServer(w, d, stop, clean)
               /\ w \in Servers /\ w.registry = v.registry /\ w.boards[i].users = U
               /\ w.boards[i].phase = v.boards[i].phase
               /\ w.boards[i].hist = v.boards[i].hist
               /\ \A j \in Instances : j # i => w.boards[j] = v.boards[j]
<1>1. PICK w : w = WithUsers(v, i, U)
  OBVIOUS
<1>2. PICK b : b = v.boards[i]
  OBVIOUS
<1>3. PICK c : c = w.boards[i]
  OBVIOUS
<1>4. /\ Sound(w) /\ w.registry = v.registry /\ c.users = U
      /\ \A j \in Instances : j # i => w.boards[j] = v.boards[j]
      /\ c.phase = b.phase /\ c.hist = b.hist /\ c.persisted = b.persisted
      /\ c.disposed = b.disposed /\ c.save = b.save
      /\ c.queued = b.queued /\ c.unload = b.unload /\ c.late = b.late
  BY <1>1, <1>2, <1>3, UsersFacts
<1>5. Backed(b, d) /\ Staying(b, stop) /\ Saving(b, d, stop, clean) /\ Alone(v)
  BY <1>2 DEF CalmServer, CalmBoard
<1>6. (Active(b) <=> Active(c)) /\ StoredLength(b) = StoredLength(c)
  BY <1>4 DEF Active, StoredLength
<1>7. Backed(c, d)
  BY <1>4, <1>5, <1>6 DEF Backed
<1>8. Staying(c, stop)
  BY <1>2, <1>4, <1>5 DEF Staying
<1>9. Saving(c, d, stop, clean)
  BY <1>2, <1>4, <1>5 DEF Saving, AllRecorded
<1>10. Alone(w)
  BY <1>2, <1>3, <1>4, <1>5, <1>6, AloneKept
<1>11. CalmServer(w, d, stop, clean)
  BY <1>3, <1>4, <1>7, <1>8, <1>9, <1>10 DEF CalmServer, CalmBoard
<1> QED
  BY <1>1, <1>2, <1>3, <1>4, <1>11 DEF Sound

LEMMA FinishLoadCalm ==
    ASSUME IInv, CalmInv, NEW i \in Instances, FinishLoad(i)
    PROVE  /\ CalmInv' /\ UnloadedIsStored
           /\ Calm => sent' = sent
<1> SUFFICES ASSUME Calm
             PROVE  CalmInv' /\ UnloadedIsStored /\ sent' = sent
  <2>1. UNCHANGED <<foreign, scenario>>
    BY FinishLoadIs
  <2> QED
    BY <2>1 DEF CalmInv, Calm, UnloadedIsStored
<1>1. PICK b : b = boards[i]
  OBVIOUS
<1>2. /\ b.phase = "read" /\ UNCHANGED <<disk, stopping, foreign, failures, scenario>>
      /\ Install(WithUsers(Settled(i), i, Settled(i).boards[i].users \cup Joining(i)))
      /\ socks' = [s \in Sockets |-> IF s \in Waiting(i)
                                     THEN Handshake(LoadedNow(i), socks[s], i)
                                     ELSE Heard(i)[s]]
      /\ sent' = IF b.late = {} THEN sent ELSE sent + 1
  BY <1>1, FinishLoadIs
<1>3. /\ Backed(b, disk) /\ Staying(b, stopping) /\ Alone(Server) /\ disk \in Seq(Nat)
      /\ Sound(Server) /\ Server.boards = boards /\ Server.registry = registry
      /\ b \in BoardStates
      /\ \A s \in Sockets : CalmPage(socks[s], s, Server, disk, stopping)
      /\ b.late = {}
  BY <1>1, CalmFacts DEF Backed
<1>4. ~b.disposed /\ Active(b)
  BY <1>2, <1>3 DEF Backed, Active
<1>5. registry = i
  BY <1>1, <1>3, <1>4 DEF Alone
<1>6. /\ Begins(disk, b.hist) /\ Len(disk) = StoredLength(b)
      /\ b.persisted = Len(b.hist)
  BY <1>2, <1>3, <1>4 DEF Backed
<1>7. PICK v : v = LoadedNow(i)
  OBVIOUS
<1>8. PICK e : e = v.boards[i]
  OBVIOUS
<1>9. /\ Sound(v) /\ v.registry = i
      /\ \A j \in Instances : j # i => v.boards[j] = boards[j]
      /\ e.phase = "loaded" /\ e.late = {} /\ e.unload = FALSE
      /\ e.hist = b.hist /\ e.persisted = b.persisted
      /\ e.users = b.users /\ ~e.disposed /\ e.save = Idle /\ e.queued = 0
  <2>1. Server.boards[i].phase = "read" /\ v = Loaded(Server, i)
    BY <1>1, <1>2, <1>3, <1>7 DEF LoadedNow
  <2>2. LoadedFrom(Server, v, i)
    BY <1>3, <2>1, LoadedFacts
  <2> QED
    BY <1>1, <1>3, <1>4, <1>5, <1>8, <2>2 DEF LoadedFrom
<1>10. Active(e) /\ StoredLength(e) = StoredLength(b)
  <2>1. b.save = Idle
    BY <1>1, <1>2, CalmFacts DEF BoardInv
  <2> QED
    BY <1>9, <2>1 DEF Active, StoredLength
<1>11. CalmServer(v, disk, stopping, failures = 0)
  <2>1. Backed(e, disk) /\ Staying(e, stopping)
    BY <1>3, <1>4, <1>6, <1>9, <1>10 DEF Backed, Staying
  <2>2. Saving(e, disk, stopping, failures = 0)
    BY <1>6, <1>9 DEF Saving, AllRecorded
  <2>3. Alone(v)
    BY <1>1, <1>3, <1>4, <1>5, <1>8, <1>9, AloneKept
  <2> QED
    BY <1>8, <1>9, <2>1, <2>2, <2>3, OneCalmBoard DEF CalmBoard
<1>12. Wrote(i) = v /\ Heard(i) = socks
  BY <1>1, <1>3, <1>7 DEF Wrote, Heard
<1>13. PICK u : u = Settled(i)
  OBVIOUS
<1>14. /\ Sound(u) /\ CalmServer(u, disk, stopping, failures = 0)
       /\ \A j \in Instances : j # i => u.boards[j] = boards[j]
       /\ u.boards[i].phase = "loaded" /\ u.boards[i].hist = b.hist
       /\ u.boards[i].users = b.users
       /\ b.unload \/ u = v
  <2>1. /\ Sound(u) /\ Keeps(v.boards[i], u.boards[i])
        /\ \A j \in Instances : j # i => u.boards[j] = v.boards[j]
        /\ boards[i].unload => Requested(v, u, i, TRUE)
        /\ ~boards[i].unload => u = v
    BY <1>8, <1>9, <1>12, <1>13, ServerFacts, SettledFacts
  <2>2. ASSUME b.unload
        PROVE  CalmServer(u, disk, stopping, failures = 0)
    <3>1. Requested(v, u, i, TRUE)
      BY <1>1, <2>1, <2>2
    <3>2. /\ Alone(v)
          /\ \A j \in Instances : Backed(v.boards[j], disk)
                                  /\ Staying(v.boards[j], stopping)
          /\ \A j \in Instances : j # i => Saving(v.boards[j], disk, stopping, failures = 0)
      BY <1>11 DEF CalmServer, CalmBoard
    <3>3. v.boards[i].phase = "loaded" /\ ~v.boards[i].disposed
      BY <1>8, <1>9
    <3> QED
      BY <1>3, <1>9, <3>1, <3>2, <3>3, RequestCalm
  <2> QED
    BY <1>1, <1>8, <1>9, <1>11, <2>1, <2>2 DEF Keeps
<1>15. stopping => \A s \in Sockets : socks[s].at = "away"
  BY <1>3 DEF CalmPage
<1>16. PICK U : U = u.boards[i].users \cup Joining(i)
  OBVIOUS
<1>17. /\ U \in SUBSET Sockets /\ b.users \subseteq U
       /\ stopping => U = {}
       /\ b.unload => U = b.users
  <2>1. stopping => Joining(i) = {}
    BY <1>15 DEF Joining, Waiting
  <2>2. stopping => b.users = {}
    BY <1>3, <1>4 DEF Staying
  <2>3. b.unload => stopping
    BY <1>3 DEF Staying
  <2>4. Joining(i) \subseteq Sockets /\ b.users \subseteq Sockets
    BY <1>3 DEF Joining, Waiting, BoardStates
  <2> QED
    BY <1>14, <1>16, <2>1, <2>2, <2>3, <2>4
<1>18. PICK x : x = WithUsers(u, i, U)
  OBVIOUS
<1>19. Install(x)
  BY <1>2, <1>13, <1>16, <1>18
<1>20. /\ CalmServer(x, disk, stopping, failures = 0)
       /\ x \in Servers /\ x.registry = u.registry /\ x.boards[i].users = U
       /\ x.boards[i].phase = "loaded" /\ x.boards[i].hist = b.hist
       /\ \A j \in Instances : j # i => x.boards[j] = boards[j]
  <2>1. u.boards[i].save = Idle \/ U = u.boards[i].users
    BY <1>8, <1>9, <1>14, <1>17
  <2>2. stopping /\ ~u.boards[i].disposed => U = {}
    BY <1>17
  <2>3. u.boards[i].phase # "free"
    BY <1>14
  <2>4. /\ CalmServer(x, disk, stopping, failures = 0)
        /\ x \in Servers /\ x.registry = u.registry /\ x.boards[i].users = U
        /\ x.boards[i].phase = u.boards[i].phase
        /\ x.boards[i].hist = u.boards[i].hist
        /\ \A j \in Instances : j # i => x.boards[j] = u.boards[j]
    BY <1>14, <1>17, <1>18, <2>1, <2>2, <2>3, UsersCalm
  <2> QED
    BY <1>14, <2>4
<1>21. CalmPages(socks', x, disk, stopping)
  <2> SUFFICES ASSUME NEW s \in Sockets
               PROVE  CalmPage(socks'[s], s, x, disk, stopping)
    BY DEF CalmPages
  <2>1. PICK p : p = socks[s]
    OBVIOUS
  <2>2. CalmPage(p, s, Server, disk, stopping) /\ GoodPage(p)
    BY <1>3, <2>1, KnownFacts DEF GoodPages
  <2>3. socks'[s] = IF s \in Waiting(i) THEN Handshake(v, p, i) ELSE p
    BY <1>2, <1>7, <1>12, <2>1
  <2>4. CASE s \in Waiting(i)
    <3>1. p.at = "loading" /\ ~stopping
      BY <1>15, <2>1, <2>4 DEF Waiting
    <3>2. u = v /\ x.registry = i
      BY <1>3, <1>9, <1>14, <1>20, <3>1 DEF Staying
    <3>3. Begins(p.view, disk) /\ Begins(disk, v.boards[i].hist)
      BY <1>6, <1>8, <1>9, <2>2, <3>1 DEF CalmPage
    <3>4. GoodServer(v)
      <4>1. Known(v.boards[i].hist) /\ GoodServer(Server)
        BY <1>1, <1>3, <1>8, <1>9, KnownFacts DEF GoodServer
      <4>2. \A j \in Instances : j # i => v.boards[j] = Server.boards[j]
        BY <1>3, <1>9
      <4> QED
        BY <1>9, <4>1, <4>2, ChangedGood
    <3>5. PICK q : q = Handshake(v, p, i)
      OBVIOUS
    <3>6. IF Joins(v, p, i)
          THEN q.at = "joined" /\ q.inst = i /\ q.view = b.hist
          ELSE q = Away
      BY <1>3, <1>8, <1>9, <2>2, <3>3, <3>4, <3>5, HandshakeCalm
    <3>7. socks'[s] = q
      BY <2>3, <2>4, <3>5
    <3>8. CASE Joins(v, p, i)
      <4>1. s \in U
        BY <1>7, <1>16, <2>1, <2>4, <3>8 DEF Joining
      <4> QED
        BY <1>20, <3>1, <3>2, <3>6, <3>7, <3>8, <4>1 DEF CalmPage
    <3>9. CASE ~Joins(v, p, i)
      BY <3>6, <3>7, <3>9, CalmAway
    <3> QED
      BY <3>8, <3>9
  <2>5. CASE s \notin Waiting(i)
    <3>1. p.at # "loading"
      BY <1>3, <1>5, <2>1, <2>2, <2>5 DEF CalmPage, Waiting
    <3>2. p.at # "joined"
      BY <1>1, <1>2, <1>3, <1>5, <2>2 DEF CalmPage
    <3> QED
      BY <2>2, <2>3, <2>5, <3>1, <3>2 DEF CalmPage
  <2> QED
    BY <2>4, <2>5
<1>22. Calm => /\ CalmServer(x, disk', stopping', failures' = 0)
               /\ CalmPages(socks', x, disk', stopping')
  BY <1>2, <1>20, <1>21
<1>23. CalmInv'
  BY <1>2, <1>19, <1>20, <1>22, CalmNext
<1>24. UnloadedIsStored
  <2>1. \A j \in Instances : j # i => boards'[j] = boards[j]
    BY <1>19, <1>20 DEF Install
  <2> QED
    BY <1>1, <1>2, <2>1 DEF UnloadedIsStored
<1> QED
  BY <1>2, <1>3, <1>23, <1>24

-----------------------------------------------------------------------------
(* Properties *)

LEMMA ConnectUnloads ==
    ASSUME IInv, NEW s \in Sockets, NEW i \in Instances, Connect(s, i)
    PROVE  UnloadedIsStored
<1>1. PICK v : v = Loading(Server, i)
  OBVIOUS
<1>2. Server.boards = boards /\ Sound(Server) /\ GetBoard(Server, i)
  BY ServerFacts DEF Connect
<1>3. /\ Sound(v) /\ v.boards[i].phase # "free"
      /\ \A j \in Instances : j # i => v.boards[j] = boards[j]
      /\ v.boards[i] = boards[i] \/ boards[i] = FreeBoard
  BY <1>1, <1>2, LoadingFacts
<1>4. PICK U : U = v.boards[i].users \cup {s}
  OBVIOUS
<1>5. U \in SUBSET Sockets
  BY <1>3, <1>4, BoardFacts DEF BoardStates
<1>6. PICK w : w = WithUsers(v, i, U)
  OBVIOUS
<1>7. /\ w.boards[i].disposed = v.boards[i].disposed
      /\ \A j \in Instances : j # i => w.boards[j] = v.boards[j]
  BY <1>3, <1>5, <1>6, UsersFacts
<1>8. Install(v) \/ Install(w)
  <2>1. w = [v EXCEPT !.boards[i].users = @ \cup {s}]
    BY <1>4, <1>6, Zenon DEF WithUsers
  <2> QED
    BY <1>1, <2>1, Zenon DEF Connect, Enter
<1>9. boards' = v.boards \/ boards' = w.boards
  BY <1>8 DEF Install
<1>10. \A j \in Instances : boards[j].phase = "loaded" /\ ~boards[j].disposed
                               => ~boards'[j].disposed
  BY <1>3, <1>7, <1>9, FreeFacts
<1> QED
  BY <1>10, NothingUnloaded

\* Stopping with nothing left to wait for, the process has stored everything.
LEMMA EverythingStored ==
    ASSUME IInv, CalmInv, Calm, stopping, Quiet, failures = 0,
           NEW i \in Instances, boards[i].phase = "loaded"
    PROVE  Stores(disk, boards[i].hist)
<1>1. PICK b : b = boards[i]
  OBVIOUS
<1>2. /\ Backed(b, disk) /\ Saving(b, disk, stopping, failures = 0) /\ BoardInv(b)
      /\ b \in BoardStates /\ Sound(Server) /\ Server.boards = boards
      /\ disk \in Seq(Nat)
  BY <1>1, CalmFacts
<1>3. ~(b.queued > 0) /\ (b.save # Idle => ~b.save.unload)
  BY <1>1, <1>2 DEF Quiet, BoardStates
<1>4. CASE b.disposed
  <2>1. b.save = Idle
    BY <1>2, <1>3, <1>4 DEF Backed
  <2> QED
    BY <1>1, <1>2, <1>4, <2>1 DEF Saving, Begins
<1>5. CASE ~b.disposed
  <2>1. Active(b) /\ AllRecorded(b)
    BY <1>1, <1>2, <1>3, <1>5 DEF Active, Saving
  <2>2. /\ Len(b.hist) \in Nat /\ Len(disk) \in Nat /\ Len(disk) <= Len(b.hist)
        /\ Len(disk) = Len(b.hist) => Begins(b.hist, disk)
        /\ Len(disk) = StoredLength(b)
    BY <1>1, <1>2, <2>1, LoadedBacked
  <2>3. CASE b.save # Idle /\ b.save.phase = "renamed"
    <3>1. Len(disk) = b.save.target /\ b.persisted <= b.save.target
          /\ b.persisted = Len(b.hist)
      BY <1>1, <1>2, <2>1, <2>2, <2>3 DEF Backed, StoredLength, AllRecorded
    <3> QED
      BY <1>1, <2>2, <3>1 DEF Begins
  <2>4. CASE ~(b.save # Idle /\ b.save.phase = "renamed")
    <3>1. Len(disk) = b.persisted /\ b.persisted = Len(b.hist)
      BY <2>1, <2>2, <2>4 DEF StoredLength, AllRecorded
    <3> QED
      BY <1>1, <2>2, <3>1 DEF Begins
  <2> QED
    BY <2>3, <2>4
<1> QED
  BY <1>4, <1>5

LEMMA InitCalm ==
    ASSUME Init
    PROVE  CalmInv
<1>1. \A i \in Instances : boards[i] = FreeBoard
  BY DEF Init
<1>2. Server.boards = boards /\ Server.registry = registry
  BY DEF Server
<1>3. ~Active(FreeBoard)
  BY FreeFacts DEF Active
<1>4. \A d, stop, clean : CalmBoard(FreeBoard, d, stop, clean)
  BY FreeFacts, <1>3 DEF CalmBoard, Backed, Staying, Saving
<1>5. CalmServer(Server, disk, stopping, failures = 0)
  BY <1>1, <1>2, <1>3, <1>4 DEF CalmServer, Alone
<1>6. CalmPages(socks, Server, disk, stopping)
  BY CalmAway DEF CalmPages, Init
<1> QED
  BY <1>5, <1>6 DEF CalmInv

\* What one step of a calm process does to the stored file, to the joined pages
\* and to the instances that it unloads.
CalmStep ==
    /\ Calm => Begins(disk, disk')
    /\ Calm /\ sent' # sent => \A s \in Sockets : socks[s].at = "joined" =>
          socks'[s].view = Append(socks[s].view, sent' + foreign)
    /\ UnloadedIsStored

LEMMA StepUnchanged ==
    ASSUME IInv, UnloadedIsStored, UNCHANGED <<disk, sent>>
    PROVE  CalmStep
BY ServerFacts, BeginsSame DEF CalmStep

LEMMA NextCalm ==
    ASSUME IInv, CalmInv, [Next]_vars
    PROVE  CalmInv' /\ CalmStep
<1>1. ASSUME NEW s \in Sockets, OpenPage(s)
      PROVE  CalmInv' /\ CalmStep
  BY <1>1, OpenPageCalm, NothingUnloaded, StepUnchanged DEF OpenPage, bounds
<1>2. ASSUME NEW s \in Sockets, Write(s)
      PROVE  CalmInv' /\ CalmStep
  <2>1. sent' + foreign = NextWrite
    BY <1>2, ServerFacts DEF Write, NextWrite, CountInv
  <2>2. Begins(disk, disk')
    BY <1>2, ServerFacts, BeginsSame DEF Write
  <2> QED
    BY <1>2, <2>1, <2>2, WriteCalm DEF CalmStep
<1>3. ASSUME NEW s \in Sockets, Leave(s)
      PROVE  CalmInv' /\ CalmStep
  BY <1>3, LeaveCalm, StepUnchanged DEF Leave, bounds
<1>4. ASSUME NEW s \in Sockets, Abandon(s)
      PROVE  CalmInv' /\ CalmStep
  BY <1>4, AbandonCalm, NothingUnloaded, StepUnchanged DEF Abandon, bounds
<1>5. ASSUME NEW s \in Sockets, NEW i \in Instances, Connect(s, i)
      PROVE  CalmInv' /\ CalmStep
  BY <1>5, ConnectCalm, ConnectUnloads, StepUnchanged DEF Connect, bounds
<1>6. ASSUME CalmInv', ~Calm
      PROVE  CalmInv' /\ CalmStep
  BY <1>6 DEF CalmStep, UnloadedIsStored
<1>7. ASSUME NEW s \in Sockets, NEW i \in Instances,
             ProbeDisk(s, i) \/ WriteUnloaded(s, i)
      PROVE  CalmInv' /\ CalmStep
  BY <1>6, <1>7, ProbeDiskCalm, WriteUnloadedCalm
<1>8. ASSUME NEW i \in Instances, ReadBoard(i)
      PROVE  CalmInv' /\ CalmStep
  BY <1>8, ReadBoardCalm, StepUnchanged DEF ReadBoard, bounds
<1>9. ASSUME NEW i \in Instances, FinishLoad(i)
      PROVE  CalmInv' /\ CalmStep
  <2>1. CASE Calm
    BY <1>9, <2>1, FinishLoadCalm, FinishLoadIs, StepUnchanged
  <2>2. CASE ~Calm
    BY <1>6, <1>9, <2>2, FinishLoadCalm
  <2> QED
    BY <2>1, <2>2
<1>10. ASSUME NEW i \in Instances, FailLoad(i)
       PROVE  CalmInv' /\ CalmStep
  <2>1. UnloadedIsStored
    BY <1>10, ServerFacts, NothingUnloaded DEF FailLoad
  <2> QED
    BY <1>10, <2>1, FailLoadCalm, StepUnchanged DEF FailLoad
<1>11. ASSUME NEW i \in Instances, TimerSave(i)
       PROVE  CalmInv' /\ CalmStep
  BY <1>11, TimerSaveCalm, StepUnchanged DEF TimerSave, bounds
<1>12. ASSUME NEW i \in Instances, CheckStored(i)
       PROVE  CalmInv' /\ CalmStep
  BY <1>12, CheckStoredCalm, StepUnchanged DEF CheckStored, bounds
<1>13. ASSUME NEW i \in Instances, StaleSave(i)
       PROVE  CalmInv' /\ CalmStep
  BY <1>6, <1>13, StaleSaveCalm
<1>14. ASSUME NEW i \in Instances, RenameStored(i)
       PROVE  CalmInv' /\ CalmStep
  <2>1. sent' = sent
    BY <1>14 DEF RenameStored, bounds
  <2> QED
    BY <1>14, <2>1, RenameStoredCalm DEF CalmStep
<1>15. ASSUME NEW i \in Instances, FailSave(i)
       PROVE  CalmInv' /\ CalmStep
  BY <1>15, FailSaveCalm, StepUnchanged DEF FailSave
<1>16. ASSUME NEW i \in Instances,
              NEW floor \in 0 .. scenario.writes + scenario.foreign,
              FinishSave(i, floor)
       PROVE  CalmInv' /\ CalmStep
  <2>1. floor \in Nat
    BY Numbers DEF IInv
  <2> QED
    BY <1>16, <2>1, FinishSaveCalm, StepUnchanged DEF FinishSave, bounds
<1>17. ASSUME NEW p \in pins, ExpirePin(p)
       PROVE  CalmInv' /\ CalmStep
  BY <1>17, ExpirePinCalm, NothingUnloaded, StepUnchanged DEF ExpirePin, bounds
<1>18. CASE RetryUnload
  BY <1>18, RetryUnloadCalm, StepUnchanged DEF RetryUnload, bounds
<1>19. CASE ForeignWrite
  BY <1>6, <1>19, ForeignWriteCalm
<1>20. CASE Shutdown
  BY <1>20, ShutdownCalm, StepUnchanged DEF Shutdown, bounds
<1>21. CASE Restart
  <2>1. UnloadedIsStored
    BY <1>21, FreeFacts, NothingUnloaded DEF Restart
  <2> QED
    BY <1>21, <2>1, RestartCalm, StepUnchanged DEF Restart, bounds
<1>22. CASE UNCHANGED vars
  <2>1. Calm => CalmPages(socks', Server, disk, stopping)
    BY <1>22, CalmFacts DEF vars
  <2>2. CalmInv'
    BY <1>22, <2>1, PagesMove DEF vars
  <2> QED
    BY <1>22, <2>2, NothingUnloaded, StepUnchanged DEF vars
<1> QED
  BY <1>1, <1>2, <1>3, <1>4, <1>5, <1>7, <1>8, <1>9, <1>10, <1>11, <1>12, <1>13,
     <1>14, <1>15, <1>16, <1>17, <1>18, <1>19, <1>20, <1>21, <1>22
     DEF Next, Exit, Crash

\* The strengthening holds in every reachable state, calm or not.
THEOREM CalmInvariance == Spec => [](IInv /\ CalmInv)
<1>1. Init => IInv /\ CalmInv
  BY InitIInv, InitCalm
<1>2. IInv /\ CalmInv /\ [Next]_vars => (IInv /\ CalmInv)'
  BY NextIInv, NextCalm
<1> QED
  BY <1>1, <1>2, PTL DEF Spec

\* A page that the handshake has synchronized stays a user of the instance that
\* accepts writes, and shows exactly what that instance has accepted, through
\* loads that fail, postponed unloads, shutdowns and crashes; and a save never
\* finds a newer file than the one the instance knows of.
THEOREM CalmPagesAreExact == Spec => []CalmIsExact
<1>1. IInv /\ CalmInv => CalmIsExact
  <2> SUFFICES ASSUME IInv, CalmInv, Calm
               PROVE  CalmIsExact
    BY DEF CalmIsExact, JoinedShowsHistory, SoleWriterNeverStale
  <2>1. \A i \in Instances : ~Stale(i)
    BY NeverStale
  <2>2. Server.boards = boards /\ Server.registry = registry
        /\ \A s \in Sockets : CalmPage(socks[s], s, Server, disk, stopping)
    BY CalmFacts
  <2> QED
    BY <2>1, <2>2
    DEF CalmIsExact, JoinedShowsHistory, JoinedAgree, SoleWriterNeverStale, CalmPage
<1> QED
  BY <1>1, CalmInvariance, PTL

\* Each save that replaces the file keeps what was stored, in its order: no load,
\* unload, crash or failed save in between takes a stored write back.
THEOREM SavesOnlyExtend == Spec => StoredNeverUndone
<1>1. IInv /\ CalmInv /\ [Next]_vars => (Calm => Stores(disk', disk))
  BY NextCalm DEF CalmStep, Begins
<1> QED
  BY <1>1, CalmInvariance, PTL DEF Spec, StoredNeverUndone

\* A write that is accepted is emitted in the same turn to every page that is
\* joined before and after it, the sender included, behind all it has heard.
THEOREM EveryoneHears == Spec => AcceptedReachesJoined
<1>1. IInv /\ CalmInv /\ [Next]_vars => (Calm => HeardByJoined)
  BY NextCalm DEF CalmStep, HeardByJoined
<1> QED
  BY <1>1, CalmInvariance, PTL DEF Spec, AcceptedReachesJoined

\* Unloading an instance, at the last disconnect or by the timer of a pin, loses
\* no accepted write: they are in the file, or in the save that is running.
THEOREM NothingIsForgotten == Spec => UnloadStores
<1>1. IInv /\ CalmInv /\ [Next]_vars => UnloadedIsStored
  BY NextCalm DEF CalmStep
<1> QED
  BY <1>1, CalmInvariance, PTL DEF Spec, UnloadStores, UnloadedIsStored

\* If no load and no save has failed, the process exits after shutdownBoards with
\* every accepted write in the file.
THEOREM ExitLosesNothing == Spec => ExitSaves
<1>1. IInv /\ CalmInv =>
         (Calm /\ Exit /\ failures = 0 =>
             \A i \in Instances :
                boards[i].phase = "loaded" => Stores(disk, boards[i].hist))
  BY EverythingStored DEF Exit
<1> QED
  BY <1>1, CalmInvariance, PTL DEF ExitSaves

=============================================================================
