----------------------------- MODULE MCPageTools -----------------------------
(***************************************************************************)
(* Model checking instance of what a page does with its tools: the part is *)
(* chosen at the start and is one of PencilStrokes, ShapesAndTexts,        *)
(* Presence, Viewport, ToolRegistry and HandSelection.  The first four     *)
(* share variables; a variable a part has not is "-".  The registry, which  *)
(* is not an instance, stays as it begins while another part runs.         *)
(***************************************************************************)
EXTENDS ToolRegistry, Sequences

VARIABLES part,
    page, selected, writable, up, down, server, pressed, left, exempt, storage,
    hand, active, writes, told, places, remaining

Budget(strokes, others, refusals, cuts, pauses, changes) ==
    [strokes |-> strokes, others |-> others, refusals |-> refusals, cuts |-> cuts,
     pauses |-> pauses, changes |-> changes]
MCBudgets == {Budget(2, 0, 1, 0, 1, 0), Budget(1, 3, 0, 0, 0, 1), Budget(1, 1, 1, 1, 1, 0),
              Budget(1, 1, 0, 1, 0, 0), Budget(1, 0, 1, 1, 0, 1)}
Pencil == INSTANCE PencilStrokes
            WITH Own <- <<"a", "b">>, Others <- {"r"}, Points <- {1, 2}, MaxPoints <- 2,
                 Budgets <- MCBudgets

Quota(items, moves, tools, others, refusals, cuts, pauses) ==
    [items |-> items, moves |-> moves, tools |-> tools, others |-> others,
     refusals |-> refusals, cuts |-> cuts, pauses |-> pauses]
MCQuotas == {Quota(1, 2, 1, 0, 1, 0, 1), Quota(1, 2, 0, 1, 0, 1, 0), Quota(1, 1, 1, 1, 1, 0, 0),
             Quota(2, 3, 0, 0, 0, 0, 0), Quota(1, 3, 0, 1, 0, 0, 0)}
Canvas == INSTANCE ShapesAndTexts
             WITH Own <- {"a", "d", "b"}, Texts <- {"b", "c"}, Standing <- {"c"},
                  Values <- {1, 2}, Budgets <- MCQuotas

Tabs == {"m1", "m2", "a1", "b1"}
MCPerson == [s \in Tabs |-> CASE s \in {"m1", "m2"} -> "me" [] s = "a1" -> "ann" [] s = "b1" -> "bob"]
Visits(joins, acts, refreshes, cuts, toggles) ==
    [joins |-> joins, acts |-> acts, refreshes |-> refreshes, cuts |-> cuts, toggles |-> toggles]
MCVisits == {Visits({"m1", "m2", "a1"}, 1, 1, 1, 0), Visits({"m1", "a1"}, 3, 2, 0, 0),
             Visits({"m1", "m2", "b1"}, 0, 0, 1, 2), Visits({"m1", "a1", "b1"}, 1, 0, 0, 1)}
People == INSTANCE Presence
            WITH Sockets <- Tabs, Person <- MCPerson, Me <- "me",
                 Tools <- {"hand", "pencil"}, Budgets <- MCVisits

Moves(moves, touches, pans, draws, links, zooms) ==
    [moves |-> moves, touches |-> touches, pans |-> pans, draws |-> draws,
     links |-> links, zooms |-> zooms]
MCMoves == {Moves(1, 3, 0, 0, 0, 0), Moves(2, 2, 0, 0, 0, 0), Moves(1, 2, 1, 0, 0, 0),
            Moves(2, 0, 1, 0, 0, 1), Moves(1, 0, 0, 1, 1, 2), Moves(0, 0, 0, 3, 1, 0)}
View == INSTANCE Viewport
          WITH Window <- 4, MaxBoard <- 8, Margin <- 2, MaxScale <- 4, MinPinch <- 2,
               Places <- {0, 2, 4}, Budgets <- MCMoves, drawn <- server

Bound(n, g, z, p, f) ==
    [clicks |-> n, grants |-> g, zooms |-> z, pauses |-> p, fingers |-> f]
MCBounds == {Bound(3, 2, 0, 1, 0), Bound(2, 0, 2, 0, 3), Bound(2, 1, 0, 0, 3)}

Limit(presses, drags, keys, others, refusals, cuts, pauses) ==
    [presses |-> presses, drags |-> drags, keys |-> keys, others |-> others,
     refusals |-> refusals, cuts |-> cuts, pauses |-> pauses]
MCLimits == {Limit(2, 1, 0, 1, 0, 0, 0), Limit(1, 1, 1, 1, 0, 0, 0), Limit(2, 1, 1, 0, 1, 0, 0),
             Limit(2, 1, 0, 0, 0, 1, 0), Limit(1, 1, 1, 0, 0, 0, 1)}
Hand == INSTANCE HandSelection
          WITH Items <- {"a", "b", "c"}, Spare <- {"c"}, MaxPlace <- 2, Limits <- MCLimits

ASSUME /\ Pencil!PencilAssumption /\ Canvas!ShapesAndTextsAssumption
       /\ People!PresenceAssumption /\ View!ViewportAssumption
       /\ ToolRegistryAssumption /\ Hand!HandAssumption

vars == <<part, page, selected, writable, up, down, server, pressed, left, exempt, storage,
          toolVars, hand, active, writes, told, places, remaining>>
drawVars == <<page, selected, writable, up, down, server, pressed, left, exempt>>
notViewVars == <<writable, up, down, exempt, storage>>
notPeopleVars == <<selected, writable, up, pressed, exempt>>
handVars == <<hand, active, writes, told, places, remaining>>

NotView == writable = "-" /\ up = "-" /\ down = "-" /\ exempt = "-" /\ storage = "-"
NotPeople == selected = "-" /\ writable = "-" /\ up = "-" /\ pressed = "-" /\ exempt = "-"
NoDrawing == page = "-" /\ down = "-" /\ server = "-" /\ left = "-" /\ NotPeople
NoPeople == storage = "-"
NoRegistry == ToolInit /\ bounds = Bound(2, 1, 0, 0, 3)
NoHand == hand = "-" /\ active = "-" /\ writes = "-" /\ told = "-" /\ places = "-"
          /\ remaining = "-"

Init ==
    \/ /\ part = "pencil" /\ Pencil!Init
       /\ NoPeople /\ NoRegistry /\ NoHand
    \/ /\ part = "canvas" /\ Canvas!Init
       /\ NoPeople /\ NoRegistry /\ NoHand
    \/ /\ part = "people" /\ People!Init
       /\ NotPeople /\ NoRegistry /\ NoHand
    \/ /\ part = "view" /\ View!Init
       /\ NotView /\ NoRegistry /\ NoHand
    \/ /\ part = "registry" /\ ToolInit
       /\ NoDrawing /\ NoPeople /\ NoHand
    \/ /\ part = "hand" /\ Hand!Init
       /\ NoDrawing /\ NoPeople /\ NoRegistry

Next ==
    /\ UNCHANGED part
    /\ \/ part = "pencil" /\ Pencil!Next /\ UNCHANGED <<storage, toolVars, handVars>>
       \/ part = "canvas" /\ Canvas!Next /\ UNCHANGED <<storage, toolVars, handVars>>
       \/ part = "people" /\ People!Next /\ UNCHANGED <<notPeopleVars, toolVars, handVars>>
       \/ part = "view" /\ View!Next /\ UNCHANGED <<notViewVars, toolVars, handVars>>
       \/ part = "registry" /\ ToolNext /\ UNCHANGED <<drawVars, storage, handVars>>
       \/ part = "hand" /\ Hand!Next /\ UNCHANGED <<drawVars, storage, toolVars>>

Spec == Init /\ [][Next]_vars

\* What was drawn, written and erased is what the board has, once everything is
\* answered.
SettledAgrees ==
    /\ part = "pencil" => Pencil!SettledAgrees
    /\ part = "canvas" => Canvas!SettledAgrees

\* The list of people, the friends and the cursors are those of the server.
PeopleAgree == part = "people" => People!PeopleAgree

\* The hash names the view, the page is large enough, and pinches end.
ViewAgrees == part = "view" => View!ViewAgrees

\* Items are where the server has them once everything is settled, and a drag
\* moves the elements it was begun with.
PlacesAgree == part = "hand" => Hand!PlacesAgree /\ Hand!DragKeepsItsItems
=============================================================================
