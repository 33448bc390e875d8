------------------------- MODULE MCWriteAdmission -------------------------
(***************************************************************************)
(* Model checking instance of what the server lets through: the part is    *)
(* "pace", the limits in time of WriteAdmission, or "geometry", the form   *)
(* and the place of what is written.  The other part stands still.         *)
(***************************************************************************)
EXTENDS WriteAdmission, Integers
VARIABLES part, items, extent, file, begun, malformed, course

MCKinds == <<"general", "constructive">>
MCLimit == [kind \in Kinds |-> IF kind = "general" THEN 3 ELSE 2]
MCPeriod == [kind \in Kinds |-> IF kind = "general" THEN 3 ELSE 2]
MCCosts == {[general |-> 1, constructive |-> 0], [general |-> 1, constructive |-> 2]}
S(protected, alone, jitter, own, others, cuts, fails) ==
    [protected |-> protected, alone |-> alone, jitter |-> jitter, own |-> own,
     others |-> others, cuts |-> cuts, fails |-> fails]
\* A page alone on its address, without others or with others who drive its entry
\* out; one that shares its address; others alone; one on the anonymous board.
MCScenarios == {S(FALSE, TRUE, 1, 5, 0, 0, 0), S(FALSE, TRUE, 1, 3, 1, 0, 0),
                S(FALSE, FALSE, 1, 1, 4, 0, 0), S(FALSE, FALSE, 0, 0, 5, 0, 0),
                S(TRUE, TRUE, 1, 2, 0, 1, 0), S(TRUE, TRUE, 1, 2, 0, 0, 1)}

\* A board of four units, items of at most three.  Pointers are above a text's
\* line, between two coordinates, and past the edge; a transform shifts, scales
\* or turns.
MCPointers == {<<1, -1>>, <<2, 2>>, <<7, 3>>, <<9, 8>>}
MCTransforms == {[s |-> <<1, 1>>, t |-> <<2, 0>>], [s |-> <<2, 1>>, t |-> <<0, 0>>],
                 [s |-> <<-1, 1>>, t |-> <<8, 1>>]}
Course(tools, clears, writes) ==
    [tools |-> tools, clears |-> clears, writes |-> writes, saves |-> 1, restarts |-> 1]
MCCourses == {Course({"pencil"}, FALSE, 4), Course({"rectangle", "straight-line"}, TRUE, 3),
              Course({"ellipse"}, FALSE, 4), Course({"text"}, FALSE, 4)}
Geometry == INSTANCE ItemGeometry
              WITH Ids <- {"a", "b"}, Board <- 8, MaxSpan <- 6, Size <- 2, MaxText <- 4,
                   MaxChildren <- 3, DefaultSize <- 6, Margin <- 2, Typed <- {0, 1, 5},
                   Pointers <- MCPointers, Transforms <- MCTransforms, Courses <- MCCourses

ASSUME Geometry!ItemGeometryAssumption

geometryVars == <<items, extent, file, begun, malformed, course>>

MCInit ==
    /\ Init /\ Geometry!Init
    /\ \/ part = "pace" /\ course = CHOOSE c \in MCCourses : TRUE
       \/ part = "geometry" /\ left = CHOOSE s \in MCScenarios : TRUE

MCNext ==
    /\ UNCHANGED part
    /\ \/ part = "pace" /\ Next /\ UNCHANGED geometryVars
       \/ part = "geometry" /\ Geometry!Next /\ UNCHANGED vars

MCSpec == MCInit /\ [][MCNext]_<<part, vars, geometryVars>>

\* What the server keeps of items incrementally is what is drawn, on the board,
\* and the same after it was stored.
GeometryHolds == Geometry!GeometryHolds
=============================================================================
