------------------------------ MODULE MCReplay ------------------------------
(***************************************************************************)
(* Model checking instance of both ends of a replay: the part is "log",    *)
(* what the server keeps and hands out (ReplayLog), or "page", what a page *)
(* makes of it (BoardSync).  The other part stands still, as it begins.    *)
(***************************************************************************)
EXTENDS ReplayLog, BoardSync

VARIABLE part

MCInit == LogInit /\ Init /\ part \in {"log", "page"}

MCNext ==
    /\ UNCHANGED part
    /\ \/ part = "log" /\ LogNext /\ UNCHANGED vars
       \/ part = "page" /\ Next /\ UNCHANGED logVars

MCSpec ==
    /\ MCInit /\ [][MCNext]_<<part, vars, logVars>>
    /\ part = "page" => Fairness

\* Whatever happens, in the end a page shows all that was accepted.
PageSynchronizes == part = "page" => EventuallySynchronized
=============================================================================
