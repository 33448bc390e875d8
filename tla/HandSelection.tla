---------------------------- MODULE HandSelection ----------------------------
(***************************************************************************)
(* The hand in its selecting mode.  The user marks items, one by pressing  *)
(* on it or many by a rectangle, whose content the browser computes later, *)
(* and moves, copies or erases them while others move and erase the same   *)
(* items.  A dragged item is drawn at every step of the pointer but sent   *)
(* only now and then, and once more at the release.                        *)
(*                                                                         *)
(* `ui' is what the page shows of the selection: the frame around it and   *)
(* its buttons, one of them the scale handle.                              *)
(*                                                                         *)
(* A selection holds elements, not items: `stale' are the selected ones    *)
(* that are not on the board any more, erased or replaced by a rollback or *)
(* a new baseline.  A place stands for any transform, the scale handle's   *)
(* too; panning and the download are left out, and the buffer of writes is *)
(* as in PencilStrokes.                                                    *)
(*                                                                         *)
(* What a drag draws without sending is `unsent' while the gesture goes    *)
(* on, and `loose' when the gesture ends without a way to send it.         *)
(***************************************************************************)
EXTENDS Naturals, Integers, Sequences, FiniteSets

CONSTANTS
    Items,      \* items, stored and to be copied
    Spare,      \* those a copy may create
    MaxPlace,   \* places 1 .. MaxPlace are on the board
    Limits      \* bounds: [presses, drags, keys, others, refusals, cuts, pauses : Nat]

Gone == 0
Places == 1 .. MaxPlace
HandAssumption == Spare \subseteq Items /\ MaxPlace \in Nat \ {0}

VARIABLES
    hand,       \* the hand's state and what the page shows
    active,     \* is the hand the current tool, and selecting
    writes,     \* [able |-> can the page send, up |-> what it sent]
    told,       \* answers and casts on their way to the page
    places,     \* where the server has the items
    remaining   \* what remains of the bounds

vars == <<hand, active, writes, told, places, remaining>>

\* Others, and `remaining', aside: a step of the user on this page.
Local == UNCHANGED <<told, places>>
Costs(what) ==
    /\ remaining[what] > 0
    /\ remaining' = [remaining EXCEPT ![what] = @ - 1]

-----------------------------------------------------------------------------
(* Messages: a batch moves, erases or copies *)

NoItem == [i \in {} |-> Gone]
Moves(to) == [op |-> "move", to |-> to, new |-> NoItem]
Erases(ids) == [op |-> "delete", to |-> [i \in ids |-> Gone], new |-> NoItem]
Copies(new) == [op |-> "copy", to |-> [i \in DOMAIN new |-> Gone], new |-> new]

Changed(m) == IF m.op = "copy" THEN {m.new[i] : i \in DOMAIN m.new} ELSE DOMAIN m.to

\* What a message makes of a board.
After(board, m) ==
    [i \in Items |->
        IF i \notin Changed(m) THEN board[i]
        ELSE IF m.op = "copy"
        THEN board[CHOOSE s \in DOMAIN m.new : m.new[s] = i]
        ELSE m.to[i]]

\* prepareMutation: erasing what is gone is no error.
Applies(board, m) == m.op # "delete" => \A i \in DOMAIN m.to : board[i] # Gone

\* draw: an erased element makes a selection of it stale.
Drawn(h, m) ==
    [h EXCEPT !.shown = After(@, m),
              !.stale = IF m.op = "delete" THEN @ \cup (h.sel \cap DOMAIN m.to) ELSE @]

\* What others know of: the place of these items is no longer the drag's alone.
Settled(h, ids) == [h EXCEPT !.loose = @ \ ids, !.unsent = @ \ ids]

\* The gesture is over before its last place was sent.
Abandoned(h) == [h EXCEPT !.loose = @ \cup h.unsent, !.unsent = {}]

\* trackMutation with the elements as they were.
Tracked(h, m) ==
    [h EXCEPT !.journal = Append(@, [m |-> m,
                                     snap |-> [i \in Changed(m) |-> h.shown[i]],
                                     loose |-> (h.loose \cup h.unsent) \cap Changed(m)])]

\* drawAndSend, when the page can write.  A message about an element that is not
\* there fails while it is drawn and is not sent.
DrawAndSend(w, m) ==
    IF ~writes.able THEN w
    ELSE [h |-> Settled(Drawn(Tracked(w.h, m), m), Changed(m)),
          up |-> Append(w.up, m)]

-----------------------------------------------------------------------------
(* The gesture.  Operators take and give [h |-> the hand, up |-> its writes]. *)

\* beginSelectionRun, clearSelectionRun: what was asked before is answered late.
Late(found) == {[r EXCEPT !.late = TRUE] : r \in found}

\* ensureCurrentSelection: a stale element ends the whole gesture.
Current(h) ==
    IF h.sel # {} /\ h.stale = {} THEN h
    ELSE [Abandoned(h) EXCEPT !.found = Late(@), !.grabbed = FALSE, !.sel = {},
                              !.stale = {}, !.base = NoItem, !.state = "pointing",
                              !.ui = {}]

\* startMovingElements, startScalingTransform
StartedMoving(h) ==
    LET c == Current(h)
    IN  IF c.sel = {} THEN c
        ELSE [Abandoned(c) EXCEPT !.found = Late(@), !.state = "transform",
                                  !.grabbed = TRUE, !.ui = @ \ {"buttons"},
                                  !.base = [i \in c.sel |-> c.shown[i]]]

Moved(h, by) == [i \in DOMAIN h.base |-> h.base[i] + by]

\* validateTransformBatch
OnTheBoard(h, by) ==
    /\ h.sel # {} /\ h.sel = DOMAIN h.base
    /\ \A i \in h.sel : Moved(h, by)[i] \in Places

\* moveSelection, dispatchTransform: nothing happens off the board; between two
\* messages the move is only drawn.
Dragged(w, by, due) ==
    LET h == Current(w.h)
        to == Moved(h, by)
    IN  IF ~w.h.grabbed THEN w
        ELSE IF ~OnTheBoard(h, by) THEN [w EXCEPT !.h = h]
        ELSE IF due THEN DrawAndSend([w EXCEPT !.h = h], Moves(to))
        ELSE [w EXCEPT !.h = [Drawn(h, Moves(to)) EXCEPT !.unsent = @ \cup h.sel]]

\* resetHandUiState
Reset(h) ==
    [Abandoned(h) EXCEPT !.found = Late(@), !.grabbed = FALSE, !.ui = {}, !.keys = FALSE]

World == [h |-> hand, up |-> writes.up]
Takes(w) == hand' = w.h /\ writes' = [writes EXCEPT !.up = w.up]

\* clickSelector inside the frame of the selection, or its scale handle.
PressInside ==
    /\ active /\ hand.ui # {} /\ Costs("presses")
    /\ hand' = StartedMoving(hand)
    /\ Local /\ UNCHANGED <<active, writes>>

\* clickSelector, on an item.
PressOn(i) ==
    /\ active /\ hand.shown[i] # Gone /\ Costs("presses")
    /\ hand' = StartedMoving([hand EXCEPT !.sel = {i}, !.stale = {}, !.ui = {}])
    /\ Local /\ UNCHANGED <<active, writes>>

\* clickSelector, startSelector: a new frame.
PressBeside ==
    /\ active /\ Costs("presses")
    /\ hand' = [Abandoned(hand) EXCEPT !.found = Late(@), !.grabbed = TRUE, !.sel = {},
                                       !.stale = {}, !.state = "selecting",
                                       !.ui = {"frame"}]
    /\ Local /\ UNCHANGED <<active, writes>>

\* moveSelector
Drag(by, due) ==
    /\ active /\ hand.state = "transform" /\ Costs("drags")
    /\ Takes(Dragged(World, by, due))
    /\ Local /\ UNCHANGED active

\* release, releaseSelector.  Only a page that could not have sent the last place
\* leaves it unsent: it cannot write, the release is off the board or not the
\* drag's, or an element is gone.
ReleaseWith(force, by, found) ==
    /\ active /\ hand.state # "pointing"
    /\ found \subseteq {i \in Items : hand.shown[i] # Gone}
    /\ LET sends == /\ hand.state = "transform" /\ hand.grabbed /\ writes.able
                    /\ hand.stale = {} /\ OnTheBoard(hand, by)
           w == IF hand.state = "transform" THEN Dragged(World, by, force) ELSE World
           h == [(IF sends THEN w.h ELSE Abandoned(w.h)) EXCEPT
                    !.state = "pointing", !.grabbed = FALSE, !.base = NoItem]
       IN  Takes([w EXCEPT !.h = IF hand.state = "selecting"
                                 THEN [h EXCEPT !.found = @ \cup {[late |-> FALSE,
                                                                  ids |-> found]}]
                                 ELSE [h EXCEPT !.ui = IF h.sel # {} THEN @ \cup {"buttons"}
                                                       ELSE @]])
    /\ Local /\ UNCHANGED <<active, remaining>>

\* Mutant of Release: the last place is sent only when it is time again.
ReleaseUnsent(by, found) == ReleaseWith(FALSE, by, found)

\* The last place of a drag is always sent; the elements in a frame are those that
\* are there now, but they are known later.
Release(by, found) == ReleaseWith(TRUE, by, found)

\* showSelectionButtons or hideSelectionUI: a frame that is not shown stays hidden.
ShowsButtons(ui, sel) == IF sel = {} THEN {} ELSE ui \cup {"buttons"}

\* Mutant of SelectionFound: the last frame asked is the one that is answered.
SelectionFoundLate(r) ==
    /\ r \in hand.found
    /\ LET h == [hand EXCEPT !.found = @ \ {r}]
       IN  hand' = [h EXCEPT !.sel = r.ids, !.ui = ShowsButtons(@, r.ids),
                             !.stale = {i \in r.ids : h.shown[i] = Gone}]
    /\ Local /\ UNCHANGED <<active, writes, remaining>>

\* finishSelection: the result of another frame is of no interest.  Elements that
\* were erased meanwhile are selected all the same.
SelectionFound(r) ==
    /\ r \in hand.found
    /\ LET h == [hand EXCEPT !.found = @ \ {r}]
       IN  hand' = IF r.late THEN h
                   ELSE [h EXCEPT !.sel = r.ids, !.ui = ShowsButtons(@, r.ids),
                                  !.stale = {i \in r.ids : h.shown[i] = Gone}]
    /\ Local /\ UNCHANGED <<active, writes, remaining>>

\* deleteSelection, by its button or its key.  It does not look whether the
\* elements are still there, nor whether the page can write.
DeleteSelection ==
    /\ active /\ ("buttons" \in hand.ui \/ hand.keys)
    /\ hand.sel # {} /\ Costs("keys")
    /\ LET w == DrawAndSend(World, Erases(hand.sel))
       IN  Takes([w EXCEPT !.h.sel = {}, !.h.stale = {}, !.h.ui = {}])
    /\ Local /\ UNCHANGED active

\* A copy is where the page, or the server, has its source.
LikeTheirSources(w, to) ==
    LET copiesOf(S) == {to[i] : i \in DOMAIN to \cap S}
    IN  IF ~writes.able THEN w
        ELSE [w EXCEPT !.h.loose = @ \cup copiesOf(@), !.h.crossed = @ \cup copiesOf(@)]

\* duplicateSelection.  If an element is gone, the copies before it stay on the
\* page although nothing is sent.
DuplicateSelection(to, drawn) ==
    /\ active /\ ("buttons" \in hand.ui \/ hand.keys)
    /\ hand.state = "pointing" /\ hand.sel # {} /\ Costs("keys")
    /\ \A i, j \in hand.sel : to[i] = to[j] => i = j
    /\ \A i \in hand.sel : hand.shown[to[i]] = Gone /\ places[to[i]] = Gone
    /\ LET there == {i \in hand.sel : hand.shown[i] # Gone}
           some == [i \in drawn |-> to[i]]
       IN  IF there = hand.sel
           THEN drawn = {} /\ Takes(LikeTheirSources(DrawAndSend(World, Copies(to)), to))
           ELSE /\ drawn \subseteq IF writes.able THEN there ELSE {}
                /\ Takes([World EXCEPT !.h = [Drawn(@, Copies(some))
                                                EXCEPT !.loose = @ \cup Changed(Copies(some))]])
    /\ Local /\ UNCHANGED active

\* The user takes another tool, or the hand stops selecting; and comes back.
\* The keys listen after a switch of the mode, not after a change of the tool.
Quit ==
    /\ active /\ active' = FALSE
    /\ hand' = Reset(hand)
    /\ Local /\ UNCHANGED <<writes, remaining>>

Resume(switched) ==
    /\ ~active /\ active' = TRUE /\ Costs("presses")
    /\ hand' = IF switched THEN [Reset(hand) EXCEPT !.keys = TRUE] ELSE hand
    /\ Local /\ UNCHANGED writes

Pause ==
    /\ IF writes.able THEN Costs("pauses") ELSE UNCHANGED remaining
    /\ writes' = [writes EXCEPT !.able = ~@]
    /\ Local /\ UNCHANGED <<hand, active>>

-----------------------------------------------------------------------------
(* The server, and what it tells the page *)

Handle ==
    /\ writes.up # << >>
    /\ writes' = [writes EXCEPT !.up = Tail(@)]
    /\ LET m == Head(writes.up)
       IN  \/ /\ Applies(places, m)
              /\ places' = After(places, m)
              /\ told' = Append(told, [kind |-> "ack", m |-> m])
              /\ UNCHANGED remaining
           \/ /\ IF Applies(places, m) THEN Costs("refusals") ELSE UNCHANGED remaining
              /\ told' = Append(told, [kind |-> "reject", m |-> m])
              /\ UNCHANGED places
    /\ UNCHANGED <<hand, active>>

Other(m) ==
    /\ \A i \in DOMAIN m.to : places[i] # Gone
    /\ Costs("others")
    /\ places' = After(places, m)
    /\ told' = Append(told, [kind |-> "cast", m |-> m])
    /\ UNCHANGED <<hand, active, writes>>

\* Journal entries that cannot stay when the k-th goes: those about what it made,
\* and what depends on them.
Goes(journal, first) ==
    LET to[n \in 0 .. Len(journal)] ==
            IF n = 0 THEN {}
            ELSE IF \/ n \in first
                    \/ \E k \in to[n - 1] :
                          Changed(journal[k].m)
                            \cap (Changed(journal[n].m) \cup DOMAIN journal[n].m.to) # {}
                 THEN to[n - 1] \cup {n} ELSE to[n - 1]
    IN  to[Len(journal)]

Without(journal, out) ==
    LET kept == SelectSeq([k \in DOMAIN journal |-> <<k, journal[k]>>],
                          LAMBDA e : e[1] \notin out)
    IN  [k \in DOMAIN kept |-> kept[k][2]]

\* applyRejectedEntries: elements are put back, new ones that look like the old.
Undone(h, first) ==
    LET out == Goes(h.journal, first)
        oldest(i) == CHOOSE k \in out : /\ i \in Changed(h.journal[k].m)
                                        /\ \A j \in out : i \in Changed(h.journal[j].m)
                                                            => k <= j
        hit == UNION {Changed(h.journal[k].m) : k \in out}
    IN  [h EXCEPT !.journal = Without(@, out),
                  !.shown = [i \in Items |-> IF i \in hit
                                             THEN h.journal[oldest(i)].snap[i] ELSE @[i]],
                  !.stale = @ \cup (h.sel \cap hit),
                  !.unsent = @ \ hit,
                  !.loose = (@ \ hit) \cup
                               {i \in hit : i \in h.journal[oldest(i)].loose},
                  !.crossed = @ \cup UNION {Changed(h.journal[k].m) : k \in out \ first}]

EntriesOf(h, m) == {k \in DOMAIN h.journal : h.journal[k].m = m}
FirstOf(S) == {k \in S : \A j \in S : k <= j}

\* An item that others change while an own write about it is under way: the page
\* draws the two in another order than the server (OptimisticWrites).
Receive ==
    /\ told # << >> /\ told' = Tail(told)
    /\ LET m == Head(told).m
           kind == Head(told).kind
           mine == FirstOf(EntriesOf(hand, m))
           about == {k \in DOMAIN hand.journal :
                       (Changed(hand.journal[k].m) \cup DOMAIN hand.journal[k].m.to)
                         \cap Changed(m) # {}}
           pruned == IF m.op = "delete" THEN Undone(hand, about) ELSE hand
       IN  hand' = CASE kind = "ack" ->
                          [hand EXCEPT !.journal = Without(@, mine)]
                     [] kind = "reject" ->
                          IF mine = {} THEN hand ELSE Undone(hand, mine)
                     [] kind = "cast" ->
                          [Settled(Drawn(pruned, m), Changed(m)) EXCEPT
                             !.crossed = IF about = {} THEN @
                                         ELSE @ \cup Changed(m) \cup
                                           UNION {Changed(hand.journal[k].m) : k \in about}]
    /\ UNCHANGED <<active, writes, places, remaining>>

\* onSocketDisconnect and a new baseline.
Resync ==
    /\ Costs("cuts") /\ told' = << >>
    /\ LET base == [Reset(hand) EXCEPT !.shown = places, !.stale = hand.sel,
                                       !.journal = << >>, !.loose = {}, !.crossed = {}]
           up == SelectSeq(writes.up, LAMBDA m : EntriesOf(hand, m) # {})
           again[n \in 0 .. Len(up)] ==
               IF n = 0 THEN base
               ELSE IF Applies(again[n - 1].shown, up[n])
               THEN Drawn(Tracked(again[n - 1], up[n]), up[n])
               ELSE again[n - 1]
       IN  Takes([h |-> again[Len(up)], up |-> up])
    /\ UNCHANGED <<active, places>>

Init ==
    /\ hand = [state |-> "pointing", grabbed |-> FALSE, sel |-> {},
               stale |-> {}, base |-> NoItem, ui |-> {}, keys |-> TRUE,
               found |-> {}, journal |-> << >>, unsent |-> {}, loose |-> {}, crossed |-> {},
               shown |-> [i \in Items |-> IF i \in Spare THEN Gone ELSE 1]]
    /\ active = TRUE
    /\ writes = [able |-> TRUE, up |-> << >>]
    /\ told = << >> /\ remaining \in Limits
    /\ places = hand.shown

OthersWrite ==
    \/ \E i \in Items, x \in Places : Other(Moves([j \in {i} |-> x]))
    \/ \E i \in Items : Other(Erases({i}))

Next ==
    \/ PressInside
    \/ \E i \in Items : PressOn(i)
    \/ PressBeside
    \/ \E by \in (1 - MaxPlace) .. (MaxPlace - 1) :
          \/ \E due \in BOOLEAN : Drag(by, due)
          \/ \E found \in SUBSET Items : Release(by, found)
    \/ \E r \in hand.found : SelectionFound(r)
    \/ DeleteSelection
    \/ \E drawn \in SUBSET Items, to \in [hand.sel -> Spare] : DuplicateSelection(to, drawn)
    \/ Quit
    \/ \E switched \in BOOLEAN : Resume(switched)
    \/ Pause
    \/ Handle
    \/ OthersWrite
    \/ Receive
    \/ Resync

Spec == Init /\ [][Next]_vars

-----------------------------------------------------------------------------
(* Properties *)

\* Once everything is answered and heard, the page shows the items where the
\* server has them: what was drawn between two messages is caught up with at the
\* release, and nothing stale is moved, copied or brought back.  Excepted are what
\* the drag that goes on has drawn since its last message, places the page had no
\* way to send (the release was off the board, not seen, or came when the page
\* could not write or an element was gone), or to which a refusal went back, and
\* items that others changed while an own write was under way.
PlacesAgree ==
    writes.up = << >> /\ told = << >> =>
        LET drawn == IF active /\ hand.state = "transform" THEN hand.unsent ELSE {}
        IN  \A i \in Items \ (hand.loose \cup hand.crossed \cup drawn) :
                hand.shown[i] = places[i]

\* A drag moves the elements it was begun with: no late result of a frame, no
\* erasing or replacing of an element changes what is dragged, or the drag ends.
DragKeepsItsItems ==
    hand.state = "transform" /\ hand.grabbed /\ hand.sel # {} => DOMAIN hand.base = hand.sel
=============================================================================
