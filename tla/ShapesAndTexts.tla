---------------------------- MODULE ShapesAndTexts ----------------------------
(***************************************************************************)
(* The tools that draw one item at a time: rectangle, ellipse and straight *)
(* line, the text editor, and the eraser.  A shape follows the pointer: it *)
(* is drawn at once and sent at most every 70 ms, and once more when it    *)
(* ends.  A text follows the keys: it is drawn at once and sent when the   *)
(* last sending is 100 ms old, else by a timer.                            *)
(*                                                                         *)
(* As in PencilStrokes, `up' is what the server has yet to handle, and a   *)
(* reconnection loses answers but no buffered write.  An item is only what *)
(* changes in it: a shape's far corner, a text's characters.  Where a text *)
(* is written, the layout of its input, the privacy warning, colours and   *)
(* the measurement of drawing times are left out, and so are items that    *)
(* others create or move.                                                  *)
(***************************************************************************)
EXTENDS Naturals, Sequences, FiniteSets

CONSTANTS
    Own,        \* the items this page draws
    Texts,      \* which of the items are texts
    Standing,   \* items that are on the board from the start
    Values,     \* corners of a shape, characters of a text; 0 is the empty text
    Budgets     \* bounds: [items, moves, tools, others, refusals, cuts,
                \*          pauses : Nat]

VARIABLES
    page,       \* the items of the page, its journal, its tools' state
    selected,   \* the current tool
    writable,   \* can the page send writes
    up, down,   \* writes under way to the server; answers and casts to the page
    server,     \* the items of the board
    pressed,    \* the items that were begun
    left,       \* what remains of the bounds
    exempt      \* items about which page and server may disagree

vars == <<page, selected, writable, up, down, server, pressed, left, exempt>>

NoItem == "no item"
ShapesAndTextsAssumption ==
    NoItem \notin Own \cup Standing /\ Values \subseteq Nat \ {0}

Items == Own \cup Standing
CanvasTools == {"shape", "text", "eraser"}

\* An item is absent, or its value alone.
Absent == {}
On(items, i) == items[i] # Absent

Message(op, i, v) == [op |-> op, on |-> i, at |-> v]
Clear == Message("clear", NoItem, 0)
Deletes(m, i) == m.op = "clear" \/ (m.op \in {"delete", "cancel"} /\ m.on = i)

-----------------------------------------------------------------------------
(* Drawing, sending and the journal *)

\* drawShapeTool, the draw of the text tool, deleteBoardElementById: a shape
\* that is missing is made again, a text is not.
Drawn(items, m) ==
    [i \in Items |->
        IF Deletes(m, i) THEN Absent
        ELSE IF i = m.on /\ (m.op = "create" \/ i \notin Texts \/ On(items, i)) THEN {m.at}
        ELSE items[i]]

\* generateUID: items not begun yet, of a kind, as the bounds allow.
Fresh(kind) == IF Cardinality(pressed) < left.items THEN (Own \cap kind) \ pressed ELSE {}

\* trackMutation, with what captureRollback finds before the write is drawn;
\* `shown' (history) says that this is what was drawn without being sent.
DrawnAndTracked(p, m, shown) ==
    [p EXCEPT !.dom = Drawn(@, m),
              !.journal = IF m.op = "cancel" THEN @
                          ELSE Append(@, [m |-> m, snap |-> p.dom[m.on], shown |-> shown])]

\* A text shows what was typed before it is sent, a shape what came between two
\* sendings.
Shown(p, m) == m.op = "update" /\ (m.on \in Texts \/ p.shape.unsent)

\* drawAndSend
DrawAndSend(w, m) ==
    IF writable THEN [w EXCEPT !.p = DrawnAndTracked(@, m, Shown(@, m)), !.up = Append(@, m)]
    ELSE w

\* The journal entry that an answer is about, 0 when it was undone.
EntryOf(p, m) ==
    LET same == {k \in DOMAIN p.journal : p.journal[k].m = m}
    IN  IF same = {} THEN 0 ELSE CHOOSE k \in same : \A j \in same : k <= j

\* applyRejectedEntries, of the k-th entry and the later ones about its item.
Undone(p, k) ==
    LET i == p.journal[k].m.on
    IN  [p EXCEPT !.dom[i] = p.journal[k].snap,
                  !.journal = SubSeq(@, 1, k - 1) \o
                      SelectSeq(SubSeq(@, k, Len(@)), LAMBDA e : e.m.on # i)]

World == [p |-> page, up |-> up, left |-> exempt]
Takes(w) == page' = w.p /\ up' = w.up /\ exempt' = w.left

\* The page and the server go apart on an item.
Apart(w, i) == [w EXCEPT !.left = @ \cup {i}]

-----------------------------------------------------------------------------
(* Shapes.  page.shape is [on |-> currentShape, unsent |-> was it last drawn *)
(* without being sent].                                                      *)

NoShape == [on |-> NoItem, unsent |-> FALSE]

\* pressShapeTool.  A shape that is still open is left as it was drawn.
PressShape(v) ==
    /\ selected = "shape" /\ Fresh(Items \ Texts) # {}
    /\ LET i == CHOOSE j \in Fresh(Items \ Texts) : TRUE
           begun == [World EXCEPT !.p.shape = [on |-> i, unsent |-> FALSE]]
           sent == DrawAndSend(begun, Message("create", i, v))
       IN  /\ Takes(IF page.shape.unsent THEN Apart(sent, page.shape.on) ELSE sent)
           /\ pressed' = pressed \cup {i}
    /\ UNCHANGED <<selected, writable, down, server, left>>

\* moveShapeTool.  Drawn without being sent, a shape that is gone comes back.
MovedShape(w, v, due) ==
    LET i == w.p.shape.on
        m == Message("update", i, v)
        drawn == [w EXCEPT !.p.dom = Drawn(@, m), !.p.shape.unsent = TRUE]
    IN  CASE due /\ writable -> [DrawAndSend(w, m) EXCEPT !.p.shape.unsent = FALSE]
          [] due /\ ~writable -> w
          [] ~due -> IF On(w.p.dom, i) THEN drawn ELSE Apart(drawn, i)

MoveShape(v, due) ==
    /\ selected = "shape" /\ page.shape # NoShape /\ left.moves > 0
    /\ Takes(MovedShape(World, v, due))
    /\ left' = [left EXCEPT !.moves = @ - 1]
    /\ UNCHANGED <<selected, writable, down, server, pressed>>

\* Mutant of ReleaseShape: the last position is not forced out.
ReleaseShapeAsMove(v) ==
    /\ selected = "shape" /\ page.shape # NoShape
    /\ \E due \in BOOLEAN :
          Takes([MovedShape(World, v, due) EXCEPT !.p.shape = NoShape])
    /\ UNCHANGED <<selected, writable, down, server, pressed, left>>

\* releaseShapeTool
ReleaseShape(v) ==
    /\ selected = "shape" /\ page.shape # NoShape
    /\ LET moved == [MovedShape(World, v, TRUE) EXCEPT !.p.shape = NoShape]
       IN  Takes(IF ~writable /\ page.shape.unsent THEN Apart(moved, page.shape.on)
                 ELSE moved)
    /\ UNCHANGED <<selected, writable, down, server, pressed, left>>

\* cancelShapeToolTouchGesture: the deletion is sent, not journalled.
CancelShape ==
    /\ selected = "shape" /\ page.shape # NoShape
    /\ LET i == page.shape.on
           gone == [World EXCEPT !.p.shape = NoShape, !.p.dom[i] = Absent]
       IN  Takes(IF writable THEN [gone EXCEPT !.up = Append(@, Message("cancel", i, 0))]
                 ELSE Apart(gone, i))
    /\ UNCHANGED <<selected, writable, down, server, pressed, left>>

-----------------------------------------------------------------------------
(* The text editor: page.text is curText, with the value of the input *)

NoText == [active |-> FALSE, on |-> NoItem, value |-> 0, sent |-> 0, timer |-> FALSE]

\* What was typed into the open text and not sent is drawn here only.
Abandoned(w) ==
    IF w.p.text.on # NoItem /\ w.p.text.value # w.p.text.sent THEN Apart(w, w.p.text.on)
    ELSE w

\* stopEdit
Stopped(w) == [Abandoned(w) EXCEPT !.p.text = NoText]

\* startEdit of a new text
Started(w) == [w EXCEPT !.p.text.active = TRUE]

\* textChangeHandler.  `rested' says that the last sending is 100 ms old.
Changed(w, v, rested) ==
    LET new == w.p.text.on = NoItem /\ v # 0
        i == IF new THEN CHOOSE j \in Fresh(Texts) : TRUE ELSE w.p.text.on
        named == [w EXCEPT !.p.text.value = v, !.p.text.on = i]
        made == IF new THEN DrawAndSend(named, Message("create", i, 0)) ELSE named
        shown == IF i # NoItem /\ On(made.p.dom, i) THEN [made EXCEPT !.p.dom[i] = {v}]
                 ELSE made
        sent == [DrawAndSend(shown, Message("update", i, v)) EXCEPT !.p.text.sent = v]
    IN  CASE ~rested -> [shown EXCEPT !.p.text.timer = TRUE]
          [] rested /\ (i = NoItem \/ shown.p.text.sent = v) -> shown
          [] rested /\ i # NoItem /\ shown.p.text.sent # v ->
               IF ~writable /\ On(shown.p.dom, i) THEN Apart(sent, i) ELSE sent

\* press: the open text is left as it is for one that is on the board, and
\* closed for a new one.
PressText(i) ==
    /\ selected = "text" /\ left.moves > 0
    /\ Takes(IF i = NoItem THEN Started(Stopped(World))
             ELSE [Abandoned(World) EXCEPT
                     !.p.text = [@ EXCEPT !.active = TRUE, !.on = i,
                                          !.value = CHOOSE v \in page.dom[i] : TRUE,
                                          !.sent = CHOOSE v \in page.dom[i] : TRUE]])
    /\ left' = [left EXCEPT !.moves = @ - 1]
    /\ UNCHANGED <<selected, writable, down, server, pressed>>

\* A key, and the blur of the input.
Type(v, rested) ==
    /\ page.text.active /\ left.moves > 0
    /\ LET new == page.text.on = NoItem /\ v # 0
       IN  /\ new => Fresh(Texts) # {}
           /\ pressed' = IF new THEN pressed \cup {CHOOSE j \in Fresh(Texts) : TRUE}
                         ELSE pressed
    /\ Takes(Changed(World, v, rested))
    /\ left' = [left EXCEPT !.moves = @ - 1]
    /\ UNCHANGED <<selected, writable, down, server>>

\* The timer of textChangeHandler; it may run soon after a sending.
TextTimer(rested) ==
    /\ page.text.timer
    /\ Takes(Changed([World EXCEPT !.p.text.timer = FALSE], page.text.value, rested))
    /\ UNCHANGED <<selected, writable, down, server, pressed, left>>

\* Enter goes on in a new text on the next line, Escape does not.
EndText(enter) ==
    /\ page.text.active /\ left.moves > 0
    /\ Takes(IF enter THEN Started(Stopped(World)) ELSE Stopped(World))
    /\ left' = [left EXCEPT !.moves = @ - 1]
    /\ UNCHANGED <<selected, writable, down, server, pressed>>

-----------------------------------------------------------------------------
(* The eraser, the choice of a tool, and pauses *)

\* press and move of the eraser: one item at a time.
Erase(i) ==
    /\ selected = "eraser" /\ On(page.dom, i) /\ writable
    /\ Takes(DrawAndSend(World, Message("delete", i, 0)))
    /\ UNCHANGED <<selected, writable, down, server, pressed, left>>

\* onquit: a text is closed; an open shape stays and goes on when the tool is
\* chosen again.
ChangeTool(t) ==
    /\ t # selected /\ left.tools > 0
    /\ left' = [left EXCEPT !.tools = @ - 1]
    /\ selected' = t
    /\ Takes(IF selected = "text" THEN Stopped(World) ELSE World)
    /\ UNCHANGED <<writable, down, server, pressed>>

Pause ==
    /\ writable \/ left.pauses > 0
    /\ left' = IF writable THEN left ELSE [left EXCEPT !.pauses = @ - 1]
    /\ writable' = ~writable
    /\ UNCHANGED <<page, selected, up, down, server, pressed, exempt>>

-----------------------------------------------------------------------------
(* The server, and what it tells the page *)

\* prepareMutation: what is gone may be deleted again.
Applies(m) == m.op = "update" => On(server, m.on)

\* The server accepts the page's next write, or rejects it: because its item is
\* gone, or for the page's rate.  A deletion that only cleans up is not taken
\* back by the page when it is rejected.
Handle ==
    /\ up # << >>
    /\ up' = Tail(up)
    /\ LET m == Head(up)
       IN  \/ /\ Applies(m)
              /\ server' = Drawn(server, m)
              /\ down' = Append(down, [kind |-> IF m.op = "cancel" THEN "cast" ELSE "ack",
                                       m |-> m])
              /\ UNCHANGED <<left, exempt>>
           \/ /\ ~Applies(m) \/ left.refusals > 0
              /\ left' = IF Applies(m) THEN [left EXCEPT !.refusals = @ - 1] ELSE left
              /\ down' = IF m.op = "cancel" THEN down
                         ELSE Append(down, [kind |-> "reject", m |-> m])
              /\ exempt' = IF m.op = "cancel" THEN exempt \cup {m.on} ELSE exempt
              /\ UNCHANGED server
    /\ UNCHANGED <<page, selected, writable, pressed>>

\* Others write in a text, erase, or clear the board.
Other(m) ==
    /\ left.others > 0 /\ (m.op # "clear" => On(server, m.on))
    /\ left' = [left EXCEPT !.others = @ - 1]
    /\ server' = Drawn(server, m)
    /\ down' = Append(down, [kind |-> "cast", m |-> m])
    /\ UNCHANGED <<page, selected, writable, up, pressed, exempt>>

\* What undoing the k-th entry does not set right: it restores what was drawn
\* without being sent, or takes back later writes about the item as well, which
\* the server may accept.
Mistaken(p, k) ==
    \/ p.journal[k].shown
    \/ p.journal[k].m.op = "update"
         /\ \E j \in DOMAIN p.journal : j > k /\ p.journal[j].m.on = p.journal[k].m.on

\* rejectMutation and onMutationRejected: a text that is open is closed.
Rejected(w, m) ==
    LET k == EntryOf(w.p, m)
        undone == [w EXCEPT !.p = Undone(@, k)]
        apart == IF Mistaken(w.p, k) THEN Apart(undone, m.on) ELSE undone
    IN  IF k = 0 THEN w
        ELSE IF m.on = w.p.text.on THEN [apart EXCEPT !.p.text = NoText]
        ELSE apart

\* Mutant of Cast: what others erase stays in the journal.
CastKeepsJournal(w, m) ==
    LET drawn == [w EXCEPT !.p.dom = Drawn(@, m)]
        open == w.p.text.active /\ (m.op = "clear" \/ m.on = w.p.text.on)
    IN  CASE open /\ m.op = "update" -> [drawn EXCEPT !.p.text.value = m.at, !.p.text.sent = m.at]
          [] open /\ m.op # "update" -> [drawn EXCEPT !.p.text = NoText]
          [] ~open -> drawn

\* draw and onMessage: what others erase is taken out of the journal, the open
\* text follows what others write in it and is closed when they erase it.
Cast(w, m) ==
    LET drawn == [w EXCEPT !.p.dom = Drawn(@, m),
                           !.p.journal = SelectSeq(@, LAMBDA e : ~Deletes(m, e.m.on))]
        open == w.p.text.active /\ (m.op = "clear" \/ m.on = w.p.text.on)
    IN  CASE open /\ m.op = "update" -> [drawn EXCEPT !.p.text.value = m.at, !.p.text.sent = m.at]
          [] open /\ m.op # "update" -> [drawn EXCEPT !.p.text = NoText]
          [] ~open -> drawn

\* The items with own writes that the server handles after what is received now:
\* the page shows the cast, the board has the write (OptimisticWrites).
Crossed(m) ==
    {i \in Items :
        /\ m.op = "clear" \/ (m.op = "update" /\ m.on = i)
        /\ \/ \E k \in DOMAIN up : up[k].on = i
           \/ \E k \in DOMAIN down : down[k].kind # "cast" /\ down[k].m.on = i}

Receive ==
    /\ down # << >>
    /\ down' = Tail(down)
    /\ LET d == Head(down)
           k == EntryOf(page, d.m)
           heard == CASE d.kind = "reject" -> Rejected(World, d.m)
                      [] d.kind = "cast" -> Cast(World, d.m)
                      [] d.kind = "ack" ->
                           IF k = 0 THEN World
                           ELSE [World EXCEPT !.p.journal = SubSeq(@, 1, k - 1)
                                                     \o SubSeq(@, k + 1, Len(@))]
       IN  Takes(IF d.kind = "cast" THEN [heard EXCEPT !.left = @ \cup Crossed(d.m)]
                 ELSE heard)
    /\ UNCHANGED <<selected, writable, server, pressed, left>>

\* A new baseline: answers are lost, the writes that the server has not handled
\* are drawn again and sent.  The tools go on: the editor does not learn what
\* others have written in its text meanwhile.
Resync ==
    /\ left.cuts > 0
    /\ left' = [left EXCEPT !.cuts = @ - 1]
    /\ down' = << >>
    /\ LET kept == SelectSeq(up, LAMBDA m : m.op = "cancel" \/ EntryOf(page, m) # 0)
           redrawn[n \in 0 .. Len(kept)] ==
               IF n = 0 THEN [page EXCEPT !.dom = server, !.journal = << >>]
               ELSE DrawnAndTracked(redrawn[n - 1], kept[n], FALSE)
           open == page.text.on
       IN  Takes([p |-> redrawn[Len(kept)], up |-> kept,
                  left |-> {i \in {open} \ {NoItem} :
                              redrawn[Len(kept)].dom[i] # {page.text.sent}}])
    /\ UNCHANGED <<selected, writable, server, pressed>>

Init ==
    /\ server = [i \in Items |-> IF i \in Standing THEN {CHOOSE v \in Values : TRUE}
                                 ELSE Absent]
    /\ page = [dom |-> server, journal |-> << >>, shape |-> NoShape, text |-> NoText]
    /\ selected \in CanvasTools /\ writable = TRUE
    /\ up = << >> /\ down = << >>
    /\ pressed = {} /\ left \in Budgets /\ exempt = {}

OthersWrite ==
    \/ \E i \in Items \cap Texts, v \in Values : Other(Message("update", i, v))
    \/ \E i \in Items : Other(Message("delete", i, 0))
    \/ Other(Clear)

Next ==
    \/ \E v \in Values : PressShape(v)
    \/ \E v \in Values, due \in BOOLEAN : MoveShape(v, due)
    \/ \E v \in Values : ReleaseShape(v)
    \/ CancelShape
    \/ \E i \in {j \in Texts : On(page.dom, j)} \cup {NoItem} : PressText(i)
    \/ \E v \in Values \cup {0}, rested \in BOOLEAN : Type(v, rested)
    \/ \E rested \in BOOLEAN : TextTimer(rested)
    \/ \E enter \in BOOLEAN : EndText(enter)
    \/ \E i \in Items : Erase(i)
    \/ \E t \in CanvasTools : ChangeTool(t)
    \/ Pause
    \/ Handle
    \/ OthersWrite
    \/ Receive
    \/ Resync

Spec == Init /\ [][Next]_vars

-----------------------------------------------------------------------------
(* Properties *)

\* Once the server has answered everything, the page has heard it, no shape is
\* open and the editor's timer has run, the page shows every item as the server
\* has it: the last corner of a shape and the last character of a text were
\* sent, and what was cancelled, erased or refused is gone on both sides or on
\* neither.  Exempt are items left, closed or moved on while their last drawing
\* could not be or was not sent, drawn again after they had gone, refused after
\* they had been drawn without being sent or before later writes about them,
\* cancelled by a deletion that was refused, crossed by another's writing, or
\* edited over a reconnection that another's writing came with.
SettledAgrees ==
    up = << >> /\ down = << >> /\ page.shape = NoShape /\ ~page.text.timer =>
        \A i \in Items \ exempt : page.dom[i] = server[i]
=============================================================================
