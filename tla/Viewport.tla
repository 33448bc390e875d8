------------------------------- MODULE Viewport -------------------------------
(***************************************************************************)
(* The part of the board that a page shows: the scroll position, the       *)
(* scale, the extent of the page, and the hash of the URL that names them. *)
(* Wheel, two fingers, panning, the zoom tool, the browser's own scrolling *)
(* and the hash move the view; the hash follows it by a timer.             *)
(*                                                                         *)
(* One axis of the two is kept.  Scales and positions are whole numbers,   *)
(* rounded where the code divides.  Left out are the colours and sizes set *)
(* by the wheel, which history entry the hash goes to, the touch policy,   *)
(* the scaling class, and windows that change their size.                  *)
(***************************************************************************)
EXTENDS Integers, Sequences, FiniteSets

CONSTANTS
    Window,     \* the size of the window, in pixels
    MaxBoard,   \* MAX_BOARD_SIZE
    Margin,     \* BOARD_EXTENT_MARGIN
    MaxScale,   \* the largest scale; the smallest is 1
    MinPinch,   \* PINCH_MIN_DISTANCE
    Places,     \* where fingers and mouse may be in the window
    Budgets     \* bounds: [moves, touches, pans, draws, links, zooms : Nat]

VARIABLES
    page,       \* [at, scale, extent: the view; hash: location.hash; timer: is
                \*  its update due; scrolled: is a scroll event due; pan:
                \*  activePan; pinch: activePinchPan; wheel: the frame's zoom;
                \*  owner: of the touches; lost: (history) was a pinch cancelled
                \*  after which nothing updates the hash]
    selected,   \* who pans: "temporary" while the page boots, "hand", "zoom"
    pressed,    \* [fingers, zoom: the zoom tool's press and frame]
    drawn,      \* the end of what is drawn
    left        \* what remains of the bounds

vars == <<page, selected, pressed, drawn, left>>

\* Nothing, or a sequence of one.
None == << >>
NoOwner == "none"
ViewportAssumption ==
    /\ {Window, MaxBoard, Margin, MaxScale, MinPinch} \subseteq Nat \ {0}
    /\ Window <= MaxBoard /\ Places \subseteq 0 .. Window

Clamped(n, low, high) == IF n < low THEN low ELSE IF n > high THEN high ELSE n
Distance(a, b) == IF a < b THEN b - a ELSE a - b
Spend(what) == left[what] > 0 /\ left' = [left EXCEPT ![what] = @ - 1]

-----------------------------------------------------------------------------
(* The view *)

\* getScaledBoardLayoutSize, less the window: as far as one can scroll.
Furthest(p) == Clamped(p.extent * p.scale, Window, MaxBoard * MaxScale) - Window

\* What the browser makes of a scroll position; it tells the page later.
Scrolled(p, at) ==
    LET to == Clamped(at, 0, Furthest(p))
    IN  IF to = p.at THEN p ELSE [p EXCEPT !.at = to, !.scrolled = TRUE]

\* scheduleViewportHashSync
Scheduled(p) ==
    IF p.pan # None \/ p.pinch # None THEN p ELSE [p EXCEPT !.timer = TRUE, !.lost = FALSE]

PannedTo(p, at) == Scheduled(Scrolled(p, at))

\* ensureBoardExtentAtLeast
Extended(p, size) ==
    LET target == Clamped(size, 0, MaxBoard)
    IN  IF target > p.extent THEN [p EXCEPT !.extent = target] ELSE p

\* Mutant of ExtendedFor: half the margin is never consumed, nor granted.
ExtendedToEnd(p, end) == IF end <= p.extent THEN p ELSE Extended(p, end)

\* ensureBoardExtentForBounds: half the margin may be consumed.
ExtendedFor(p, end) ==
    IF 2 * end <= 2 * p.extent - Margin THEN p ELSE Extended(p, end + Margin)

\* setScale; at the smallest scale the whole board is laid out.
WithScale(p, scale) ==
    LET applied == Clamped(scale, 1, MaxScale)
        scaled == [p EXCEPT !.scale = applied]
        whole == IF applied = 1 THEN Extended(scaled, MaxBoard) ELSE scaled
    IN  Scrolled(whole, whole.at)

\* zoomAtBoardPoint: the scroll position is read before the scale is set.
ZoomedAt(p, scale, x) ==
    LET point == Clamped(x, 0, MaxBoard)
        scaled == WithScale(p, scale)
    IN  PannedTo(scaled, p.at + point * (scaled.scale - p.scale))

HashOf(p) == [x |-> p.at \div p.scale, scale |-> p.scale]

\* applyFromHash
FromHash(p, hash) ==
    LET x == Clamped(hash.x, 0, MaxBoard)
        scaled == WithScale(Extended([p EXCEPT !.hash = hash], x + Margin), hash.scale)
    IN  PannedTo(scaled, x * scaled.scale)

-----------------------------------------------------------------------------
(* The hash, the browser's scrolling, and what is drawn *)

\* updateViewportHistory
HashTimer ==
    /\ page.timer
    /\ page' = [page EXCEPT !.timer = FALSE, !.hash = HashOf(page)]
    /\ UNCHANGED <<selected, pressed, drawn, left>>

\* hashchange and popstate: a link, an edited URL, back and forward.
FollowHash(hash) ==
    /\ Spend("links")
    /\ page' = FromHash(page, hash)
    /\ UNCHANGED <<selected, pressed, drawn>>

\* Scroll bars, keys, one finger in the hand tool.
Scroll(at) ==
    /\ Spend("moves")
    /\ page' = Scrolled(page, at)
    /\ UNCHANGED <<selected, pressed, drawn>>

\* syncViewportHashFromScroll
ScrollEvent ==
    /\ page.scrolled
    /\ page' = Scheduled([page EXCEPT !.scrolled = FALSE])
    /\ UNCHANGED <<selected, pressed, drawn, left>>

\* resizeCanvas, for own drawings and others'.
Draw(end) ==
    /\ Spend("draws")
    /\ drawn' = IF end > drawn THEN end ELSE drawn
    /\ page' = ExtendedFor(page, end)
    /\ UNCHANGED <<selected, pressed>>

\* handleWheel: turns of one frame are one zoom, capped, at the last place.
Wheel(turn, place) ==
    /\ Spend("moves")
    /\ page' = [page EXCEPT !.wheel =
                   <<[turn |-> Clamped(turn + IF page.wheel = None THEN 0 ELSE page.wheel[1].turn, -1, 1),
                      at |-> page.at + place]>>]
    /\ UNCHANGED <<selected, pressed, drawn>>

Factored(scale, turn) ==
    CASE turn = 1 -> 2 * scale [] turn = 0 -> scale [] turn = -1 -> scale \div 2

\* flushWheelZoom
WheelFrame ==
    /\ page.wheel # None
    /\ page' = ZoomedAt([page EXCEPT !.wheel = None], Factored(page.scale, page.wheel[1].turn),
                        page.wheel[1].at \div page.scale)
    /\ UNCHANGED <<selected, pressed, drawn, left>>

-----------------------------------------------------------------------------
(* Panning with the mouse *)

\* beginPan
BeginPan(place) ==
    /\ selected \in {"temporary", "hand"} /\ Spend("pans")
    /\ page' = [page EXCEPT !.timer = FALSE, !.pan = <<[x |-> place, at |-> page.at]>>]
    /\ UNCHANGED <<selected, pressed, drawn>>

\* movePan
MovePan(place) ==
    /\ selected \in {"temporary", "hand"} /\ page.pan # None /\ Spend("moves")
    /\ page' = PannedTo(page, page.pan[1].at + page.pan[1].x - place)
    /\ UNCHANGED <<selected, pressed, drawn>>

\* Mutant of PanEnded: the update is asked for while the pan is still on.
PanEndedLate(p) ==
    IF p.pan = None THEN p ELSE [Scheduled(p) EXCEPT !.pan = None]

\* endPan
PanEnded(p) ==
    IF p.pan = None THEN p ELSE Scheduled([p EXCEPT !.pan = None])

EndPan ==
    /\ selected \in {"temporary", "hand"} /\ page.pan # None
    /\ page' = PanEnded(page)
    /\ UNCHANGED <<selected, pressed, drawn, left>>

\* The temporary pan ends with the boot.  The hand, when another tool is chosen
\* by a key while it pans, does not end its pan, nor the zoom tool its press.
ChangeTool(tool) ==
    /\ tool # selected /\ tool # "temporary"
    /\ selected' = tool
    /\ IF selected = "temporary"
       THEN page' = PanEnded(page) /\ UNCHANGED left
       ELSE Spend("zooms") /\ UNCHANGED page
    /\ UNCHANGED <<pressed, drawn>>

-----------------------------------------------------------------------------
(* Two fingers: GestureCoordinator *)

Fingers == pressed.fingers
Middle(f) == (f[1] + f[2]) \div 2

\* startPinchPan; fingers that are too near each other change nothing.
PinchStarted(p, f) ==
    IF Distance(f[1], f[2]) < MinPinch THEN p
    ELSE [p EXCEPT !.timer = FALSE,
                   !.pinch = <<[distance |-> Distance(f[1], f[2]), scale |-> p.scale,
                                at |-> p.at + Middle(f)]>>]

\* updatePinchPan
PinchMoved(p, f) ==
    LET q == IF p.pinch = None THEN PinchStarted(p, f) ELSE p
        anchor == q.pinch[1]
        scaled == WithScale(q, (anchor.scale * Distance(f[1], f[2])) \div anchor.distance)
    IN  CASE Len(f) # 2 -> p
          [] Len(f) = 2 /\ q.pinch = None -> q
          [] Len(f) = 2 /\ q.pinch # None ->
               PannedTo(scaled, (anchor.at * scaled.scale) \div anchor.scale - Middle(f))

\* endPinchPan
PinchEnded(p) == IF p.pinch = None THEN p ELSE Scheduled([p EXCEPT !.pinch = None])

\* cancelPinchPan
PinchCancelled(p) ==
    IF p.pinch = None THEN p ELSE [p EXCEPT !.pinch = None, !.lost = TRUE]

\* acceptCancelableTouchEvent of an event that the browser keeps.
Kept(p, f) ==
    LET q == IF p.owner = "viewport" THEN PinchCancelled(p) ELSE p
    IN  [q EXCEPT !.owner = IF f = << >> THEN NoOwner ELSE "browser"]

Claimed(p) == [p EXCEPT !.owner = "viewport"]

TouchStarted(p, f) == IF Len(f) >= 2 THEN PinchStarted(Claimed(p), f) ELSE p
TouchMoved(p, f) ==
    IF p.owner = "browser" \/ Len(f) < 2 THEN p ELSE PinchMoved(Claimed(p), f)

\* Mutant of TouchEnded: the first finger that is lifted frees the others.
TouchEndedAtFirst(p, f) ==
    IF Len(f) < 2 THEN [p EXCEPT !.owner = NoOwner] ELSE p

\* touchend
TouchEnded(p, f) ==
    IF f # << >> THEN p
    ELSE [(IF p.owner = "viewport" THEN PinchEnded(p) ELSE p) EXCEPT !.owner = NoOwner]

TouchCancelled(p) ==
    [(IF p.owner = "viewport" THEN PinchCancelled(p) ELSE p) EXCEPT !.owner = NoOwner]

Touch(f, next, cancelable) ==
    /\ pressed' = [pressed EXCEPT !.fingers = f]
    /\ page' = IF cancelable THEN next ELSE Kept(page, f)
    /\ UNCHANGED <<selected, drawn>>

Without(f, k) == SubSeq(f, 1, k - 1) \o SubSeq(f, k + 1, Len(f))

TouchStart(place, cancelable) ==
    LET f == Append(Fingers, place)
    IN  Spend("touches") /\ Touch(f, TouchStarted(page, f), cancelable)

TouchMove(k, place, cancelable) ==
    LET f == [Fingers EXCEPT ![k] = place]
    IN  Spend("moves") /\ Touch(f, TouchMoved(page, f), cancelable)

TouchEnd(k, cancelable) ==
    LET f == Without(Fingers, k)
    IN  Touch(f, TouchEnded(page, f), cancelable) /\ UNCHANGED left

TouchCancel(k, cancelable) ==
    Touch(Without(Fingers, k), TouchCancelled(page), cancelable) /\ UNCHANGED left

-----------------------------------------------------------------------------
(* The zoom tool: pressed.zoom is [on: pressed, moved, at, scale: its origin, *)
(* frame: the scale that the next frame sets]                                 *)

NoZoom == [on |-> FALSE, moved |-> FALSE, at |-> 0, scale |-> 1, frame |-> None]

PressZoom(place) ==
    /\ selected = "zoom" /\ Spend("zooms")
    /\ pressed' = [pressed EXCEPT !.zoom = [@ EXCEPT !.on = TRUE, !.moved = FALSE,
                       !.at = page.at + place, !.scale = page.scale]]
    /\ UNCHANGED <<page, selected, drawn>>

\* move: a pixel is no movement, but is animated.
MoveZoom(scale, moved) ==
    /\ selected = "zoom" /\ pressed.zoom.on /\ Spend("moves")
    /\ pressed' = [pressed EXCEPT !.zoom = [@ EXCEPT !.frame = <<scale>>,
                       !.moved = @ \/ moved]]
    /\ UNCHANGED <<page, selected, drawn>>

\* animate; the frame comes even if the tool has been left.
ZoomFrame ==
    LET z == pressed.zoom
    IN  /\ z.frame # None
        /\ page' = ZoomedAt(page, z.frame[1], z.at \div z.scale)
        /\ pressed' = [pressed EXCEPT !.zoom.frame = None]
        /\ UNCHANGED <<selected, drawn, left>>

\* release: a click zooms in, with Shift out.
ReleaseZoom(turn) ==
    LET z == pressed.zoom
    IN  /\ selected = "zoom" /\ z.on
        /\ page' = IF z.moved THEN page
                   ELSE ZoomedAt(page, Factored(page.scale, turn), z.at \div page.scale)
        /\ pressed' = [pressed EXCEPT !.zoom.on = FALSE]
        /\ UNCHANGED <<selected, drawn, left>>

\* cancelTouchGesture
CancelZoom ==
    /\ selected = "zoom" /\ pressed.zoom.on
    /\ pressed' = [pressed EXCEPT !.zoom = [@ EXCEPT !.on = FALSE, !.frame = None]]
    /\ UNCHANGED <<page, selected, drawn, left>>

-----------------------------------------------------------------------------
Hashes == {[x |-> 0, scale |-> 2], [x |-> MaxBoard \div 2, scale |-> MaxScale],
           [x |-> MaxBoard + 1, scale |-> 0]}

\* attachPanReadyRuntime
Init ==
    /\ \E hash \in Hashes, extent \in {Margin, MaxBoard} :
         page = FromHash([at |-> 0, scale |-> 1, extent |-> extent, hash |-> hash,
                          timer |-> FALSE, scrolled |-> FALSE, pan |-> None, pinch |-> None,
                          wheel |-> None, owner |-> NoOwner, lost |-> FALSE], hash)
    /\ selected = "temporary"
    /\ pressed = [fingers |-> << >>, zoom |-> NoZoom]
    /\ drawn = 0 /\ left \in Budgets

Next ==
    \/ HashTimer
    \/ \E hash \in Hashes : FollowHash(hash)
    \/ \E at \in {0, Window} : Scroll(at)
    \/ ScrollEvent
    \/ \E end \in {Margin, MaxBoard - Margin, MaxBoard} : Draw(end)
    \/ \E turn \in {-1, 1}, place \in Places : Wheel(turn, place)
    \/ WheelFrame
    \/ \E place \in Places : BeginPan(place) \/ MovePan(place)
    \/ EndPan
    \/ \E tool \in {"hand", "zoom"} : ChangeTool(tool)
    \/ \E place \in Places, cancelable \in BOOLEAN : TouchStart(place, cancelable)
    \/ \E k \in DOMAIN Fingers, place \in Places, cancelable \in BOOLEAN :
          TouchMove(k, place, cancelable)
    \/ \E k \in DOMAIN Fingers, cancelable \in BOOLEAN :
          TouchEnd(k, cancelable) \/ TouchCancel(k, cancelable)
    \/ \E place \in Places : PressZoom(place)
    \/ \E scale \in {1, MaxScale}, moved \in BOOLEAN : MoveZoom(scale, moved)
    \/ ZoomFrame
    \/ \E turn \in {-1, 1} : ReleaseZoom(turn)
    \/ CancelZoom

Spec == Init /\ [][Next]_vars

-----------------------------------------------------------------------------
(* Properties *)

\* When no timer, frame or event is due and nobody pans or pinches, the hash
\* names the view that is shown, however the movements followed one another;
\* but after a pinch was cancelled.
HashNamesView ==
    /\ ~page.timer /\ ~page.scrolled /\ ~page.lost
    /\ page.pan = None /\ page.pinch = None
    => page.hash = HashOf(page)

\* Nothing drawn comes nearer to the end of the page than half the margin, save
\* at the end of the board.
ExtentCovers == 2 * drawn <= 2 * page.extent - Margin \/ page.extent = MaxBoard

\* A pinch belongs to the viewport, and ends with its fingers.
PinchHasFingers ==
    /\ page.pinch # None => page.owner = "viewport"
    /\ Fingers = << >> => page.owner = NoOwner

ViewAgrees == HashNamesView /\ ExtentCovers /\ PinchHasFingers
=============================================================================
