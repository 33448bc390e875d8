---------------------------- MODULE PencilStrokes ----------------------------
(***************************************************************************)
(* The pencil.  An open stroke is drawn on an overlay only; the points the *)
(* pen passes are sent one by one, not faster than the rate limits allow,  *)
(* and the stroke is put on the board when it ends.  Lines of others are   *)
(* drawn beside it at once but put on the board later, many together.      *)
(* Strokes end by a release, at the limit of points, with the tool, or     *)
(* early: cancelled, rejected, erased, cleared or cut off.                 *)
(*                                                                         *)
(* How writes are buffered and resent is in OptimisticWrites: here `up' is *)
(* what the server has yet to handle, and a reconnection loses answers but *)
(* no buffered write.  Colours, sizes, the smoothing of points and the     *)
(* transform of the overlay are left out.                                  *)
(***************************************************************************)
EXTENDS Naturals, Sequences, FiniteSets

CONSTANTS
    Own,        \* the lines this page draws, in their order
    Others,     \* the lines others draw
    Points,     \* positions of the pen
    MaxPoints,  \* MAX_PENCIL_CHILDREN, the same on both sides
    Budgets     \* bounds: [strokes, others, refusals, cuts, pauses,
                \*          changes : Nat], strokes at most Len(Own)

VARIABLES
    page,       \* the pencil's state, the board and the journal of the page
    selected,   \* is the pencil the current tool
    writable,   \* can the page send writes
    up, down,   \* writes under way to the server; answers and casts to the page
    server,     \* the lines of the board
    pressed,    \* how many strokes were begun
    left,       \* what remains of the bounds
    exempt      \* lines about which page and server may disagree

vars == <<page, selected, writable, up, down, server, pressed, left, exempt>>

NoLine == "no line"
NoPoint == 0
PencilAssumption ==
    /\ NoLine \notin {Own[k] : k \in DOMAIN Own} \cup Others
    /\ Points \subseteq Nat \ {NoPoint} /\ MaxPoints \in Nat \ {0}

Mine == {Own[k] : k \in DOMAIN Own}
Lines == Mine \cup Others

-----------------------------------------------------------------------------
(* Lines: the elements of the page, the cached paths, the server's items *)

Line(in, points) == [in |-> in, points |-> points]
Absent == Line("no", << >>)
Known(line) == line.in # "no"

\* getPathData: the cached points of a line, or those of its element.
Path(p, l) == IF Known(p.cache[l]) THEN p.cache[l].points ELSE p.dom[l].points

\* flushPendingDraws
Flushed(p) ==
    [p EXCEPT !.ink = {},
              !.dom = [l \in Lines |-> IF l \in p.ink THEN Line("board", Path(p, l))
                                       ELSE p.dom[l]]]

\* createLine: the element is emptied or made, and put on the board unless its
\* line is to be drawn beside the stroke first.
Emptied(p, l, deferred) ==
    [p EXCEPT !.cache[l] = Absent,
              !.dom[l] = Line(IF deferred /\ @.in # "board" THEN "detached"
                              ELSE "board", << >>)]

\* draw, of the open stroke or of another line.
Drawn(p, m, local) ==
    LET l == m.on
        live == local /\ l = p.stroke
        withInk(q) == [q EXCEPT !.ink = IF selected THEN @ \cup {l} ELSE @]
        found == IF Known(p.dom[l]) THEN p ELSE Emptied(p, l, FALSE)
        path == Append(Path(found, l), m.at)
    IN  CASE m.op = "create" /\ live ->
               [p EXCEPT !.active = TRUE, !.cache[l] = Line("cache", << >>)]
          [] m.op = "create" /\ ~live ->
               withInk(Emptied(IF l \in p.ink THEN Flushed(p) ELSE p, l, selected))
          [] m.op = "append" /\ live /\ p.active ->
               [p EXCEPT !.cache[l] = Line("cache", Append(Path(p, l), m.at))]
          [] m.op = "append" /\ ~(live /\ p.active) ->
               withInk([found EXCEPT !.cache[l] = Line("cache", path),
                                     !.dom[l].points = IF selected THEN @ ELSE path])

-----------------------------------------------------------------------------
(* The journal: what the page drew before the server answered *)

Create(l) == [op |-> "create", on |-> l, at |-> NoPoint]
AppendAt(l, x) == [op |-> "append", on |-> l, at |-> x]
Delete(l) == [op |-> "delete", on |-> l, at |-> NoPoint]
Clear == [op |-> "clear", on |-> NoLine, at |-> NoPoint]

\* trackMutation, with what captureRollback found on the board before the line
\* was drawn.
DrawnAndTracked(p, m) ==
    [Drawn(p, m, TRUE) EXCEPT !.journal = Append(@,
        [m |-> m, snap |-> IF p.dom[m.on].in = "board" THEN p.dom[m.on] ELSE Absent])]

\* applyRejectedEntries of the entries from the k-th on that are about these
\* lines, the last one first: a line ends as it was before the first of them.
Undone(p, lines, k) ==
    LET hit(l) == {j \in DOMAIN p.journal : j >= k /\ p.journal[j].m.on = l}
        first(l) == CHOOSE j \in hit(l) : \A i \in hit(l) : j <= i
        q == Flushed(p)
        undone == {l \in lines : hit(l) # {}}
    IN  IF undone = {} THEN p
        ELSE [q EXCEPT
                !.dom = [l \in Lines |-> IF l \in undone THEN p.journal[first(l)].snap
                                         ELSE @[l]],
                !.journal = SubSeq(@, 1, k - 1) \o
                    SelectSeq(SubSeq(@, k, Len(@)), LAMBDA e : e.m.on \notin undone)]

\* The journal entry that an answer is about, 0 when it was undone.
EntryOf(p, m) ==
    LET same == {k \in DOMAIN p.journal : p.journal[k].m = m}
    IN  IF same = {} THEN 0 ELSE CHOOSE k \in same : \A j \in same : k <= j

-----------------------------------------------------------------------------
(* The stroke.  Operators take and give [p |-> the page, up |-> its writes]. *)

\* drawAndSend, when the page can write.
DrawAndSend(w, m, can) ==
    IF can THEN [p |-> DrawnAndTracked(w.p, m), up |-> Append(w.up, m)] ELSE w

\* clearActiveStrokeState
Cleared(p, keepPath) ==
    Flushed([p EXCEPT !.stroke = NoLine, !.active = FALSE, !.count = 0,
                      !.last = NoPoint, !.pending = NoPoint,
                      !.cache = [l \in Lines |-> IF l = p.stroke /\ ~keepPath
                                                 THEN Absent ELSE @[l]]])

\* commitActiveStroke
Committed(p) ==
    IF p.stroke = NoLine \/ ~p.active \/ Path(p, p.stroke) = << >> THEN p
    ELSE [Emptied(p, p.stroke, FALSE) EXCEPT
            !.dom[p.stroke].points = Path(p, p.stroke),
            !.cache[p.stroke] = Line("cache", Path(p, p.stroke))]

\* finishActiveStroke
Finished(p) == Cleared(Committed(Flushed(p)), TRUE)

\* move, with createPencilMoveEffect: a point is sent at once when it is forced,
\* the first one, or due; another one waits for the timer.  The pencil counts a
\* point as sent also when the page could not write.
MovedTo(w, x, force, due, can) ==
    LET p == w.p
        sent == DrawAndSend([w EXCEPT !.p.pending = NoPoint],
                            AppendAt(p.stroke, x), can)
        next == [sent EXCEPT !.p.count = @ + 1, !.p.last = x]
    IN  CASE p.stroke = NoLine -> w
          [] p.stroke # NoLine /\ p.count >= MaxPoints -> [w EXCEPT !.p = Finished(@)]
          [] p.stroke # NoLine /\ p.count < MaxPoints ->
               IF p.last # NoPoint /\ x = p.last THEN [w EXCEPT !.p.pending = NoPoint]
               ELSE IF p.last # NoPoint /\ ~force /\ ~due
                    THEN [w EXCEPT !.p.pending = x]
               ELSE IF next.p.count >= MaxPoints
                    THEN [next EXCEPT !.p = Finished(@)]
               ELSE next

\* finishActiveStroke at a change of the tool, or of its secondary mode.
FinishedByChange(w) ==
    LET moved == IF w.p.pending = NoPoint THEN w
                 ELSE MovedTo(w, w.p.pending, TRUE, TRUE, writable)
    IN  [moved EXCEPT !.p = Finished(@)]

\* createDeleteLineMessage and send: refused when the page cannot write.
SentDelete(w, l) == IF writable THEN [w EXCEPT !.up = Append(@, Delete(l))] ELSE w

Takes(w) == page' = w.p /\ up' = w.up
World == [p |-> page, up |-> up]

\* press.  A stroke that is still open is left where it is.
Press(x, can) ==
    /\ selected /\ pressed < left.strokes
    /\ can => writable
    /\ LET l == Own[pressed + 1]
           begun == [World EXCEPT !.p.stroke = l, !.p.active = FALSE, !.p.count = 0,
                                  !.p.last = NoPoint, !.p.pending = NoPoint,
                                  !.p.deletes = @ \ {l}]
       IN  Takes(MovedTo(DrawAndSend(begun, Create(l), writable), x, FALSE, TRUE, can))
    /\ pressed' = pressed + 1
    /\ writable' = can
    /\ exempt' = IF page.stroke = NoLine THEN exempt ELSE exempt \cup {page.stroke}
    /\ UNCHANGED <<selected, down, server, left>>

Move(x, due) ==
    /\ selected /\ page.stroke # NoLine
    /\ Takes(MovedTo(World, x, FALSE, due, writable))
    /\ UNCHANGED <<selected, writable, down, server, pressed, left, exempt>>

\* flushPendingPoint
PointTimer ==
    /\ page.pending # NoPoint
    /\ Takes(MovedTo(World, page.pending, FALSE, TRUE, writable))
    /\ UNCHANGED <<selected, writable, down, server, pressed, left, exempt>>

Release(x) ==
    /\ selected /\ page.stroke # NoLine
    /\ LET moved == MovedTo(World, x, TRUE, TRUE, writable)
       IN  Takes([moved EXCEPT !.p = Finished(@)])
    /\ UNCHANGED <<selected, writable, down, server, pressed, left, exempt>>

CancelTouchGesture ==
    /\ selected /\ page.stroke # NoLine
    /\ Takes(SentDelete([World EXCEPT !.p = Cleared(@, FALSE)], page.stroke))
    /\ exempt' = IF writable THEN exempt ELSE exempt \cup {page.stroke}
    /\ UNCHANGED <<selected, writable, down, server, pressed, left>>

\* secondary.switch: the white-out has begun or ended.
SwitchSecondary ==
    /\ selected /\ page.stroke # NoLine
    /\ Takes(FinishedByChange(World))
    /\ UNCHANGED <<selected, writable, down, server, pressed, left, exempt>>

\* onquit and onstart
ChangeTool ==
    /\ left.changes > 0
    /\ left' = [left EXCEPT !.changes = @ - 1]
    /\ selected' = ~selected
    /\ Takes(IF selected THEN FinishedByChange(World) ELSE World)
    /\ UNCHANGED <<writable, down, server, pressed, exempt>>

\* scheduleRemoteInkCommit: lines of others go to the board when they rest, and
\* with the open stroke when it ends.
CommitRemoteInk ==
    /\ page.ink # {} /\ ~page.active
    /\ page' = Flushed(page)
    /\ UNCHANGED <<selected, writable, up, down, server, pressed, left, exempt>>

\* The page may write again, or may not: too fast, or not validated.
Pause ==
    /\ writable \/ left.pauses > 0
    /\ left' = IF writable THEN left ELSE [left EXCEPT !.pauses = @ - 1]
    /\ writable' = ~writable
    /\ UNCHANGED <<page, selected, up, down, server, pressed, exempt>>

-----------------------------------------------------------------------------
(* The server, and what it tells the page *)

Applied(m) ==
    [l \in Lines |->
        CASE m.op = "clear" \/ (m.op = "delete" /\ m.on = l) -> Absent
          [] m.op = "create" /\ m.on = l -> Line("board", << >>)
          [] m.op = "append" /\ m.on = l ->
               [server[l] EXCEPT !.points = Append(@, m.at)]
          [] m.op # "clear" /\ m.on # l -> server[l]]

Applies(m) ==
    m.op = "append" => Known(server[m.on]) /\ Len(server[m.on].points) < MaxPoints

\* The server handles the page's next write: it accepts it or, for the page's
\* rate or because it does not apply, rejects it.  The page has not journalled a
\* deletion, and does not take it back.
Handle ==
    /\ up # << >>
    /\ up' = Tail(up)
    /\ LET m == Head(up)
       IN  \/ /\ Applies(m)
              /\ server' = Applied(m)
              /\ down' = Append(down, [kind |-> IF m.op = "delete" THEN "cast"
                                                ELSE "ack", m |-> m])
              /\ UNCHANGED <<left, exempt>>
           \/ /\ left' = IF Applies(m) THEN [left EXCEPT !.refusals = @ - 1] ELSE left
              /\ left'.refusals >= 0
              /\ down' = IF m.op = "delete" THEN down
                         ELSE Append(down, [kind |-> "reject", m |-> m])
              /\ exempt' = IF m.op = "delete" THEN exempt \cup {m.on} ELSE exempt
              /\ UNCHANGED server
    /\ UNCHANGED <<page, selected, writable, pressed>>

\* Others draw, erase, or clear the board.
Other(m) ==
    /\ left.others > 0 /\ Applies(m)
    /\ m.op = "create" => ~Known(server[m.on])
    /\ m.op = "delete" => Known(server[m.on])
    /\ left' = [left EXCEPT !.others = @ - 1]
    /\ server' = Applied(m)
    /\ down' = Append(down, [kind |-> "cast", m |-> m])
    /\ UNCHANGED <<page, selected, writable, up, pressed, exempt>>

\* removeLocalLine
Removed(p, l) ==
    [p EXCEPT !.dom[l] = IF @.in = "board" THEN Absent ELSE @, !.cache[l] = Absent]

\* Mutant of Rejected: an append that is rejected only takes back its own line.
RejectedKeepsPrefix(w, m) ==
    LET k == EntryOf(w.p, m)
        q == Undone(w.p, {m.on}, k)
    IN  IF k = 0 THEN w
        ELSE [w EXCEPT !.p = IF m.on = q.stroke THEN Cleared(q, FALSE)
                             ELSE Removed(q, m.on)]

\* rejectMutation, then onMutationRejected for each of the rejected writes: the
\* line is given up, and erased once if a point of it was rejected.
Rejected(w, m) ==
    LET k == EntryOf(w.p, m)
        all == {w.p.journal[j].m : j \in {i \in DOMAIN w.p.journal :
                                            i >= k /\ w.p.journal[i].m.on = m.on}}
        q == Undone(w.p, {m.on}, k)
        given == IF m.on = q.stroke THEN Cleared(q, FALSE) ELSE Removed(q, m.on)
        last == IF Cardinality(all) > 1 THEN Removed(given, m.on) ELSE given
        erase == /\ m.on \notin last.deletes
                 /\ \E n \in all : n.op = "append"
    IN  IF k = 0 THEN w
        ELSE IF erase THEN SentDelete([w EXCEPT !.p = [last EXCEPT !.deletes = @ \cup {m.on}]],
                                      m.on)
        ELSE [w EXCEPT !.p = last]

\* onMessage and draw: what others erase is taken out of the journal, off the
\* overlay and off the board.
Erased(p, lines) ==
    LET undone == Undone(p, lines, 1)
        q == IF lines \cap undone.ink # {} THEN Flushed(undone) ELSE undone
        r == IF q.stroke \in lines THEN Cleared(q, FALSE) ELSE q
    IN  [r EXCEPT !.dom = [l \in Lines |-> IF l \in lines THEN Absent ELSE @[l]]]

\* The own lines that the server accepts after the clear that is received now:
\* the page gives them up (OptimisticWrites).
Crossing ==
    {up[k].on : k \in {j \in DOMAIN up : up[j].op = "create"}} \cup
    {down[k].m.on : k \in {j \in DOMAIN down : down[j].m.op = "create"}}

Receive ==
    /\ down # << >>
    /\ down' = Tail(down)
    /\ LET d == Head(down)
           m == d.m
           k == EntryOf(page, m)
       IN  /\ Takes(CASE d.kind = "reject" -> Rejected(World, m)
                      [] d.kind = "ack" ->
                           IF k = 0 THEN World
                           ELSE [World EXCEPT !.p.journal = SubSeq(@, 1, k - 1)
                                                     \o SubSeq(@, k + 1, Len(@))]
                      [] d.kind = "cast" ->
                           [World EXCEPT !.p =
                              CASE m.op = "clear" -> Erased(Cleared(@, FALSE), Lines)
                                [] m.op = "delete" -> Erased(@, {m.on})
                                [] m.op \in {"create", "append"} -> Drawn(@, m, FALSE)])
           /\ exempt' = exempt \cup
                (IF m.op = "clear" THEN Crossing
                 ELSE IF d.kind = "reject" /\ ~writable THEN {m.on} ELSE {})
    /\ UNCHANGED <<selected, writable, server, pressed, left>>

\* onSocketDisconnect, and a new baseline: answers are lost, and the writes that
\* the server has not handled are drawn again and sent.
Resync ==
    /\ left.cuts > 0
    /\ left' = [left EXCEPT !.cuts = @ - 1]
    /\ down' = << >>
    /\ LET kept == SelectSeq(up, LAMBDA m : m.op = "delete" \/ EntryOf(page, m) # 0)
           fresh == [Cleared([page EXCEPT !.ink = {}], FALSE) EXCEPT
                        !.journal = << >>, !.dom = server,
                        !.cache = [l \in Lines |-> IF Known(server[l]) THEN Absent
                                                   ELSE @[l]]]
           redrawn[n \in 0 .. Len(kept)] ==
               IF n = 0 THEN fresh
               ELSE IF kept[n].op = "delete" THEN Erased(redrawn[n - 1], {kept[n].on})
               ELSE DrawnAndTracked(redrawn[n - 1], kept[n])
       IN  Takes([p |-> redrawn[Len(kept)], up |-> kept])
    /\ UNCHANGED <<selected, writable, server, pressed, exempt>>

Init ==
    /\ page = [stroke |-> NoLine, active |-> FALSE, count |-> 0, last |-> NoPoint,
               pending |-> NoPoint, cache |-> [l \in Lines |-> Absent],
               dom |-> [l \in Lines |-> Absent], ink |-> {}, deletes |-> {},
               journal |-> << >>]
    /\ selected = TRUE /\ writable = TRUE
    /\ up = << >> /\ down = << >>
    /\ server = [l \in Lines |-> Absent]
    /\ pressed = 0 /\ left \in Budgets /\ exempt = {}

OthersWrite ==
    \/ \E l \in Others : Other(Create(l))
    \/ \E l \in Others, x \in Points : Other(AppendAt(l, x))
    \/ \E l \in Lines : Other(Delete(l))
    \/ Other(Clear)

Next ==
    \/ \E x \in Points, can \in BOOLEAN : Press(x, can)
    \/ \E x \in Points, due \in BOOLEAN : Move(x, due)
    \/ PointTimer
    \/ \E x \in Points : Release(x)
    \/ CancelTouchGesture
    \/ SwitchSecondary
    \/ ChangeTool
    \/ CommitRemoteInk
    \/ Pause
    \/ Handle
    \/ OthersWrite
    \/ Receive
    \/ Resync

Spec == Init /\ [][Next]_vars

-----------------------------------------------------------------------------
(* Properties *)

\* What the user sees of a line: the overlay's or the board's.
Shown(p, l) ==
    IF (l = p.stroke /\ p.active) \/ l \in p.ink THEN Path(p, l)
    ELSE IF p.dom[l].in = "board" THEN p.dom[l].points ELSE << >>

\* Once the server has answered everything and the page has heard it, the page
\* shows exactly the points of every line that the server has: strokes end on
\* the board with all they sent, rejected, cancelled and erased ones are gone on
\* both sides, and no point of another's line is lost while it is drawn beside
\* the board.  Exempt are lines whose stroke was open when the next one was
\* pressed, whose erasing could not be sent or was refused, or which crossed a
\* clear.
SettledAgrees ==
    up = << >> /\ down = << >> =>
        \A l \in Lines \ exempt : Shown(page, l) = server[l].points
=============================================================================
