--------------------------- MODULE ItemGeometry ---------------------------
(***************************************************************************)
(* Where items are: what the tools make of a pointer, what the server      *)
(* accepts of it, and what is left of it in the stored file.               *)
(*                                                                         *)
(* The server keeps for every item the bounds of its points before its     *)
(* transform, and for the board an extent that the stored SVG declares.    *)
(* It computes neither anew when it needs them: each write replaces the    *)
(* bounds by what it makes of the earlier ones (message_processing.mjs),   *)
(* and extends the extent (svg_extent.mjs).  A restart reads them from the *)
(* attributes of the file, in which an item is written another way.        *)
(*                                                                         *)
(* Numbers are half units, so that a centre between two whole coordinates  *)
(* has one: a whole coordinate is even.  A point is <<x, y>>.  An optional *)
(* value is a sequence of none or one.  The limit on items, strokes saved  *)
(* in parts and copies of stored content are in CanonicalItems.            *)
(***************************************************************************)
EXTENDS Integers, Sequences, FiniteSets, SequencesExt, FiniteSetsExt

CONSTANTS
    Ids,
    Board,       \* MAX_BOARD_SIZE
    MaxSpan,     \* getMaxShapeSpan()
    Size,        \* the size of texts
    MaxText,     \* MAX_TEXT_LENGTH
    MaxChildren, \* MAX_CHILDREN
    Margin,      \* SVG_MARGIN
    DefaultSize, \* DEFAULT_SVG_SIZE
    Pointers,    \* the points under the pointer, before they are rounded
    Typed,       \* the lengths of what is typed
    Transforms,  \* [s, t : <<x, y>>]: scale and shift, as the hand makes them
    Courses      \* [tools, clears, writes, saves, restarts]: what is
                 \* drawn with, whether the page may clear, and bounds

ItemGeometryAssumption ==
    /\ \A n \in {Board, MaxSpan, Size, Margin, DefaultSize} : n \in Nat /\ n % 2 = 0
    /\ {MaxText, MaxChildren} \subseteq Nat /\ Typed \subseteq Nat

VARIABLES
    items,      \* per id, no item or one: itemsById
    extent,     \* svgExtent
    file,       \* the stored items and extent
    begun,      \* per id, where the pointer of its page went down
    malformed,  \* whether a write was ever refused for its form
    course      \* what remains of the bounds

vars == <<items, extent, file, begun, malformed, course>>

Boxes == {"rectangle", "ellipse"}
Shapes == Boxes \cup {"straight-line"}
Axes == {1, 2}

-----------------------------------------------------------------------------
(* Bounds (message_common.js) *)

\* getPencilBounds, getStraightShapeBounds, extendBoundsWithPoint
Hull(points) ==
    IF points = << >> THEN << >>
    ELSE LET along(a) == {points[k][a] : k \in DOMAIN points}
         IN  <<[lo |-> [a \in Axes |-> Min(along(a))],
                hi |-> [a \in Axes |-> Max(along(a))]]>>

\* getTextBounds
TextBounds(p, len) ==
    LET width == Min({Size * Min({len, MaxText}), MaxSpan})
    IN  <<[lo |-> <<p[1], p[2] - Size>>, hi |-> <<p[1] + width, p[2]>>]>>

\* getLocalGeometryBounds
LocalBounds(i) ==
    IF i.tool = "text" THEN TextBounds(i.points[1], i.len) ELSE Hull(i.points)

\* applyTransformToBounds: the corners are moved, a negative scale turns them.
Transformed(bounds, tr) ==
    IF bounds = << >> \/ tr = << >> THEN bounds
    ELSE LET moved(p) == [a \in Axes |-> tr[1].s[a] * p[a] + tr[1].t[a]]
         IN  Hull(<<moved(bounds[1].lo), moved(bounds[1].hi)>>)

\* isBoundsTooLarge, isBoundsOutsideBoard, isBoundsInvalid
TooLarge(bounds) ==
    bounds # << >> /\ \E a \in Axes : bounds[1].hi[a] - bounds[1].lo[a] > MaxSpan
Outside(bounds) ==
    bounds # << >> /\ \E a \in Axes : bounds[1].lo[a] < 0 \/ bounds[1].hi[a] > Board
Invalid(bounds) == TooLarge(bounds) \/ Outside(bounds)

-----------------------------------------------------------------------------
(* What a page sends *)

\* clampCoord: Math.round takes a half up.
Clamped(v) == 2 * ((Min({Max({v, 0}), Board}) + 1) \div 2)
toBoardCoordinate(p) == [a \in Axes |-> Clamped(p[a])]

Abs(n) == IF n < 0 THEN -n ELSE n

\* constrainEqualSpanToBoard: the end of a square or a circle
EqualSpanEnd(start, p) ==
    LET up(a) == p[a] > start[a]
        room(a) == IF up(a) THEN Board - start[a] ELSE start[a]
        wanted == Max({Abs(p[a] - start[a]) : a \in Axes})
        span == Min({wanted} \cup {room(a) : a \in Axes})
    IN  [a \in Axes |-> IF up(a) THEN start[a] + span ELSE start[a] - span]

\* normalizeCurrentTextPosition: a text has room above its line.
TextPosition(p) ==
    LET c == toBoardCoordinate(p) IN <<c[1], Min({Max({c[2], Size}), Board})>>

\* makeSeedShapeCreateMessage and the creations of strokes and texts
CreateMessage(tool, id, p) ==
    CASE tool \in Shapes -> [tool |-> tool, type |-> "create", id |-> id, p |-> p, q |-> p]
      [] tool = "text" -> [tool |-> tool, type |-> "create", id |-> id, p |-> p]
      [] tool = "pencil" -> [tool |-> tool, type |-> "create", id |-> id]

\* makeBoxShapeUpdateMessage, makeLineShapeUpdateMessage
ShapeUpdate(tool, id, start, q) ==
    IF tool \in Boxes THEN [tool |-> tool, type |-> "update", id |-> id, p |-> start, q |-> q]
    ELSE [tool |-> tool, type |-> "update", id |-> id, q |-> q]

-----------------------------------------------------------------------------
(* What the server accepts (message_validation.mjs) *)

\* The fields of liveMessageFields, batchMessageFields and the shape contracts
Schema(tool, type) ==
    CASE type = "clear" -> {}
      [] type = "delete" -> {"id"}
      [] type = "append" -> {"id", "p"}
      [] type = "copy" -> {"id", "newid"}
      [] type = "create" -> IF tool \in Shapes THEN {"id", "p", "q"}
                            ELSE IF tool = "text" THEN {"id", "p"} ELSE {"id"}
      [] type = "update" -> CASE tool \in Boxes -> {"id", "p", "q"}
                              [] tool = "straight-line" -> {"id", "q"}
                              [] tool = "text" -> {"id", "len"}
                              [] tool = "hand" -> {"id", "tr"}

\* normalizeBoardCoord
BoardCoord(v) == v % 2 = 0 /\ v \in 0 .. Board

\* buildSchemaField
FieldIsValid(field, v) ==
    CASE field \in {"id", "newid"} -> v \in Ids
      [] field \in {"p", "q"} -> \A a \in Axes : BoardCoord(v[a])
      [] field = "len" -> v <= MaxText
      [] field = "tr" -> DOMAIN v = {"s", "t"}

\* normalizeObject
IsWellFormed(m) ==
    \A field \in Schema(m.tool, m.type) :
        field \in DOMAIN m /\ FieldIsValid(field, m[field])

\* The bounds a message has by itself, as isGeometryInvalid reads its fields
MessageBounds(m) ==
    CASE m.type = "create" /\ m.tool \in Shapes -> Hull(<<m.p, m.q>>)
      [] m.type = "create" /\ m.tool = "text" -> TextBounds(m.p, 0)
      [] OTHER -> << >>

\* normalizeIncomingMessage
Normalizes(m) == IsWellFormed(m) /\ (m.type # "update" => ~Invalid(MessageBounds(m)))

\* normalizeIncomingBatch; a page does not limit what is selected.
BatchNormalizes(ms) ==
    (course.clears \/ Len(ms) <= MaxChildren) /\ \A k \in DOMAIN ms : IsWellFormed(ms[k])

-----------------------------------------------------------------------------
(* What the server makes of it (message_processing.mjs) *)

\* canonicalItemFromItem
NewItem(m) ==
    LET points == CASE m.tool \in Shapes -> <<m.p, m.q>>
                    [] m.tool = "text" -> <<m.p>>
                    [] m.tool = "pencil" -> << >>
        new == [tool |-> m.tool, points |-> points, len |-> 0, tr |-> << >>]
    IN  [tool |-> m.tool, points |-> points, len |-> 0, tr |-> << >>,
         bounds |-> LocalBounds(new)]

WithBounds(i) == [i EXCEPT !.bounds = LocalBounds(i)]

\* Mutant of Updated: a text that grows keeps the bounds it had.
UpdatedKeepingTextBounds(i, m) ==
    CASE m.tool = "hand" -> [i EXCEPT !.tr = <<m.tr>>]
      [] m.tool = "text" -> [i EXCEPT !.len = m.len]
      [] m.tool \in Boxes -> WithBounds([i EXCEPT !.points = <<m.p, m.q>>])
      [] m.tool = "straight-line" -> WithBounds([i EXCEPT !.points[2] = m.q])

\* prepareUpdate: a transform leaves the bounds as they were.
Updated(i, m) ==
    CASE m.tool = "hand" -> [i EXCEPT !.tr = <<m.tr>>]
      [] m.tool = "text" -> WithBounds([i EXCEPT !.len = m.len])
      [] m.tool \in Boxes -> WithBounds([i EXCEPT !.points = <<m.p, m.q>>])
      [] m.tool = "straight-line" -> WithBounds([i EXCEPT !.points[2] = m.q])

\* prepareAppend: the bounds are extended with the point.
Appended(i, p) ==
    [i EXCEPT !.points = Append(@, p),
              !.bounds = Hull((IF @ = << >> THEN << >> ELSE <<@[1].lo, @[1].hi>>) \o <<p>>)]

\* prepareMutation: the items after one message, or none when it is refused.
\* What is typed into a text may pass the edge of the board; a copy is not
\* checked.
Effective(i) == Transformed(i.bounds, i.tr)
Prepared(its, m) ==
    LET current == IF m.type = "clear" THEN << >> ELSE its[m.id]
        put(id, i) == <<[its EXCEPT ![id] = <<i>>]>>
        checked(i) == IF Invalid(Effective(i)) THEN << >> ELSE put(m.id, i)
    IN  CASE m.type = "clear" -> <<[id \in Ids |-> << >>]>>
          [] m.type = "delete" -> <<[its EXCEPT ![m.id] = << >>]>>
          [] m.type = "create" -> checked(NewItem(m))
          [] current = << >> /\ m.type \notin {"clear", "delete", "create"} -> << >>
          [] current # << >> /\ m.type = "copy" -> put(m.newid, current[1])
          [] current # << >> /\ m.type = "append" ->
               IF Len(current[1].points) >= MaxChildren THEN << >>
               ELSE checked(Appended(current[1], m.p))
          [] current # << >> /\ m.type = "update" ->
               LET i == Updated(current[1], m)
               IN  IF m.tool # "text" THEN checked(i)
                   ELSE IF TooLarge(Effective(i)) THEN << >> ELSE put(m.id, i)

\* Mutant of Extended: the extent counts an item before its transform.
ExtendedLocally(ext, its, ids) ==
    LET reach(id, a) == its[id][1].bounds[1].hi[a] + Margin
    IN  [a \in Axes |-> Max({ext[a]} \cup {2 * ((reach(id, a) + 1) \div 2) :
            id \in {j \in ids : its[j] # << >> /\ its[j][1].bounds # << >>}})]

\* extendSvgExtentForItem, of the items that a write or a load puts there
Extended(ext, its, ids) ==
    LET reach(id, a) == Effective(its[id][1])[1].hi[a] + Margin
    IN  [a \in Axes |-> Max({ext[a]} \cup {2 * ((reach(id, a) + 1) \div 2) :
            id \in {j \in ids : its[j] # << >> /\ its[j][1].bounds # << >>}})]
Put(its) == {id \in Ids : its[id] # items[id]}
DefaultExtent == [a \in Axes |-> DefaultSize]

\* A refused expansion removes the seed of a shape.
DropsSeed(m) ==
    /\ m.type = "update" /\ m.tool \in Shapes /\ items[m.id] # << >>
    /\ LET i == items[m.id][1]
       IN  i.tool = m.tool /\ i.tr = << >> /\ i.bounds[1].lo = i.bounds[1].hi

Spend(what) == course[what] > 0 /\ course' = [course EXCEPT ![what] = @ - 1]

\* processMessage of one that is accepted, or refused as too large
Process(m) ==
    LET after == Prepared(items, m)
    IN  IF after # << >>
        THEN /\ items' = after[1]
             /\ extent' = IF m.type = "clear" THEN DefaultExtent
                          ELSE Extended(extent, after[1], Put(after[1]))
        ELSE /\ items' = IF DropsSeed(m) THEN [items EXCEPT ![m.id] = << >>] ELSE items
             /\ UNCHANGED extent

Send(m) ==
    /\ Spend("writes")
    /\ malformed' = (malformed \/ ~Normalizes(m))
    /\ IF Normalizes(m) THEN Process(m) ELSE UNCHANGED <<items, extent>>
    /\ UNCHANGED file

\* processMessageBatch: every child or none
SendBatch(ms) ==
    LET step(its, m) == IF its = << >> THEN << >> ELSE Prepared(its[1], m)
        after == FoldLeft(step, <<items>>, ms)
    IN  /\ Spend("writes")
        /\ malformed' = (malformed \/ \E k \in DOMAIN ms : ~IsWellFormed(ms[k]))
        /\ IF BatchNormalizes(ms) /\ after # << >>
           THEN items' = after[1] /\ extent' = Extended(extent, after[1], Put(after[1]))
           ELSE UNCHANGED <<items, extent>>
        /\ UNCHANGED <<file, begun>>

-----------------------------------------------------------------------------
(* The tools *)

Live == {id \in Ids : items[id] # << >>}
Unused == {id \in Ids : begun[id] = << >> /\ items[id] = << >>}
FirstUnused == CHOOSE id \in Unused : TRUE

\* The pointer goes down, and an item is created there.
Begin(tool, raw) ==
    /\ tool \in course.tools /\ Unused # {}
    /\ LET p == IF tool = "text" THEN TextPosition(raw) ELSE toBoardCoordinate(raw)
       IN  /\ Send(CreateMessage(tool, FirstUnused, p))
           /\ begun' = [begun EXCEPT ![FirstUnused] = <<[tool |-> tool, p |-> p]>>]

\* moveShapeTool and releaseShapeTool, of a shape whose page goes on with it
DragShape(id, raw, equal) ==
    /\ begun[id] # << >> /\ begun[id][1].tool \in Shapes
    /\ equal => begun[id][1].tool \in Boxes
    /\ LET start == begun[id][1].p
           p == toBoardCoordinate(raw)
       IN  Send(ShapeUpdate(begun[id][1].tool, id, start,
                            IF equal THEN EqualSpanEnd(start, p) ELSE p))
    /\ UNCHANGED begun

\* continueLine
Draw(id, raw) ==
    /\ begun[id] # << >> /\ begun[id][1].tool = "pencil"
    /\ Send([tool |-> "pencil", type |-> "append", id |-> id, p |-> toBoardCoordinate(raw)])
    /\ UNCHANGED begun

\* updateTextMessage, of a text that is edited; truncateText
Type(id, len) ==
    /\ id \in Live /\ items[id][1].tool = "text"
    /\ Send([tool |-> "text", type |-> "update", id |-> id, len |-> Min({len, MaxText})])
    /\ UNCHANGED begun

\* The eraser, and clear
Erase(id) ==
    /\ id \in Live
    /\ Send([tool |-> "eraser", type |-> "delete", id |-> id])
    /\ UNCHANGED begun
ClearBoard ==
    /\ Live # {} /\ course.clears
    /\ Send([tool |-> "clear", type |-> "clear"])
    /\ UNCHANGED begun

\* The hand moves or scales what is selected, duplicates it, or deletes it.
\* What the page itself refuses to send measures the glyphs of a text, so that
\* any transform may come.
Batch(selection, children) ==
    LET order == SetToSeq(selection) IN SendBatch([k \in DOMAIN order |-> children[order[k]]])
UpdateChild(id, tr) == [tool |-> "hand", type |-> "update", id |-> id, tr |-> tr]
MoveSelection(selection, tr) ==
    Batch(selection, [id \in selection |-> UpdateChild(id, tr)])
DuplicateSelection(selection) ==
    LET fresh == SetToSeq(Unused)
        order == SetToSeq(selection)
    IN  /\ Len(order) <= Len(fresh)
        /\ SendBatch([k \in DOMAIN order |->
               [tool |-> "hand", type |-> "copy", id |-> order[k], newid |-> fresh[k]]])
DeleteSelection(selection) ==
    Batch(selection, [id \in selection |-> [tool |-> "hand", type |-> "delete", id |-> id]])

-----------------------------------------------------------------------------
(* The stored file (contracts.js, stored_svg_item_codec.mjs) *)

\* normalizeRectBounds: how a rectangle was drawn is left out.
RectangleAt(i) ==
    LET b == Hull(i.points)[1]
    IN  [corner |-> b.lo, span |-> [a \in Axes |-> b.hi[a] - b.lo[a]]]
RectanglePoints(at) == <<at.corner, [a \in Axes |-> at.corner[a] + at.span[a]]>>

\* The centre of an ellipse is rounded up, its radius is exact.
EllipseAt(i) ==
    LET middle(a) == (i.points[1][a] + i.points[2][a]) \div 2
    IN  [centre |-> [a \in Axes |-> 2 * ((middle(a) + 1) \div 2)],
         radius |-> [a \in Axes |-> Abs(i.points[2][a] - i.points[1][a]) \div 2]]
EllipsePoints(at) ==
    <<[a \in Axes |-> at.centre[a] - at.radius[a]],
      [a \in Axes |-> at.centre[a] + at.radius[a]]>>

\* The ends of a line and the line of a text are written as they are, and the
\* points of a stroke by their differences, which add up again.
PlainAt(i) == [points |-> i.points]
PlainPoints(at) == at.points

\* serializeStoredSvgItem
Serialized(i) ==
    [tag |-> i.tool, len |-> i.len, tr |-> i.tr,
     at |-> CASE i.tool = "rectangle" -> RectangleAt(i)
              [] i.tool = "ellipse" -> EllipseAt(i)
              [] OTHER -> PlainAt(i)]

\* summarizeStoredSvgItem
Parsed(e) ==
    WithBounds([tool |-> e.tag, len |-> e.len, tr |-> e.tr, bounds |-> << >>,
                points |-> CASE e.tag = "rectangle" -> RectanglePoints(e.at)
                             [] e.tag = "ellipse" -> EllipsePoints(e.at)
                             [] OTHER -> PlainPoints(e.at)])

\* A stroke without points is not written.
IsStorable(id) == items[id] # << >> /\ items[id][1].points # << >>

\* A save, with the extent in the root's attributes (updateRootMetadata)
Save ==
    /\ Spend("saves")
    /\ file' = [items |-> [id \in Ids |-> IF IsStorable(id)
                                          THEN <<Serialized(items[id][1])>> ELSE << >>],
                extent |-> extent]
    /\ UNCHANGED <<items, extent, begun, malformed>>

\* The server stops and loads the board again; what was not saved is lost.
Restart ==
    /\ Spend("restarts")
    /\ items' = [id \in Ids |-> IF file.items[id] = << >> THEN << >>
                                ELSE <<Parsed(file.items[id][1])>>]
    /\ extent' = Extended(file.extent, items', Ids)
    /\ UNCHANGED <<file, begun, malformed>>

-----------------------------------------------------------------------------
Init ==
    /\ items = [id \in Ids |-> << >>]
    /\ extent = DefaultExtent
    /\ file = [items |-> items, extent |-> extent]
    /\ begun = [id \in Ids |-> << >>]
    /\ malformed = FALSE /\ course \in Courses

Next ==
    \/ \E raw \in Pointers :
          \/ \E tool \in Shapes \cup {"pencil", "text"} : Begin(tool, raw)
          \/ \E id \in Ids : \/ \E equal \in BOOLEAN : DragShape(id, raw, equal)
                             \/ Draw(id, raw)
    \/ \E id \in Ids : Erase(id) \/ \E len \in Typed : Type(id, len)
    \/ ClearBoard
    \/ \E selection \in (SUBSET Live) \ {{}} :
          \/ \E tr \in Transforms : MoveSelection(selection, tr)
          \/ DuplicateSelection(selection) \/ DeleteSelection(selection)
    \/ Save \/ Restart

Spec == Init /\ [][Next]_vars

-----------------------------------------------------------------------------
(* Properties *)

\* However an item came to be what it is, by points, corners, letters, copies
\* or a restart, the bounds kept with it are those of its content.
BoundsAreExact == \A id \in Live : items[id][1].bounds = LocalBounds(items[id][1])

\* What is drawn lies on the board and is not too large, whatever writes led to
\* it; except that a text may be typed past the edge it is written towards, and
\* that an ellipse that was stored lies up to half a unit (scaled) aside.
AcceptedFits ==
    \A id \in Live :
        LET i == items[id][1]
            b == Effective(i)
            slack(a) == IF i.tool # "ellipse" THEN 0
                        ELSE IF i.tr = << >> THEN 1 ELSE Abs(i.tr[1].s[a])
            turned == i.tr # << >> /\ i.tr[1].s[1] < 0
        IN  b # << >> =>
              /\ ~TooLarge(b)
              /\ \A a \in Axes :
                   /\ b[1].lo[a] >= -slack(a) \/ (i.tool = "text" /\ a = 1 /\ turned)
                   /\ b[1].hi[a] <= Board + slack(a) \/ (i.tool = "text" /\ a = 1 /\ ~turned)

\* The extent that the stored SVG declares reaches past every item by the
\* margin, also after a clear and a restart.
ExtentCovers ==
    \A id \in Live : items[id][1].bounds # << >> =>
        \A a \in Axes : extent[a] >= Effective(items[id][1])[1].hi[a] + Margin

\* An item that is stored and loaded is the same to half a unit, and storing
\* it again changes nothing more: items do not wander from save to save.
StoredIsStable ==
    \A id \in Ids : IsStorable(id) =>
        LET once == Parsed(Serialized(items[id][1]))
            b == items[id][1].bounds[1]
        IN  /\ Parsed(Serialized(once)) = once
            /\ \A a \in Axes :
                 /\ Abs(once.bounds[1].lo[a] - b.lo[a]) <= 1
                 /\ once.bounds[1].hi[a] - once.bounds[1].lo[a] = b.hi[a] - b.lo[a]

\* The bounds, the limits and the extent that the server keeps incrementally
\* agree with the content over writes, saves and restarts, and what the tools
\* send is never refused for its form or for where it begins.
GeometryHolds ==
    BoundsAreExact /\ AcceptedFits /\ ExtentCovers /\ StoredIsStable /\ ~malformed
=============================================================================
