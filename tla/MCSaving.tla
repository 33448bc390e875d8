------------------------------ MODULE MCSaving ------------------------------
(***************************************************************************)
(* Model checking instance of what is saved, when, and to which files: the *)
(* part is "items", the index of CanonicalItems and the file it becomes,   *)
(* "schedule", the timers and the queue of SaveScheduler, or "files", the  *)
(* files of SvgFiles, their repairs and migrations.  The other parts stand *)
(* still, as they begin.                                                   *)
(***************************************************************************)
EXTENDS MCCanonicalItems, SaveScheduler, SvgFiles

CONSTANTS r1, r2

VARIABLE part

MCInit ==
    /\ Init /\ SchedulerInit /\ FilesInit
    /\ part \in {"items", "schedule", "files"}
    /\ part # "files" => json = NoFile

MCNext ==
    /\ UNCHANGED part
    /\ \/ part = "items" /\ Next /\ UNCHANGED <<schedulerVars, filesVars>>
       \/ part = "schedule" /\ SchedulerNext /\ UNCHANGED <<vars, filesVars>>
       \/ part = "files" /\ FilesNext /\ UNCHANGED <<vars, schedulerVars>>

MCSpec ==
    /\ MCInit /\ [][MCNext]_<<part, vars, schedulerVars, filesVars>>
    /\ part = "schedule" => Fairness

\* The properties of the files say nothing more once `collided` is set, and it
\* stays set; the other parts never set it.  Bound: crashes and damages together.
FewMishaps == ~collided /\ crashes + spoilings < 3
=============================================================================
