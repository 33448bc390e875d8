----------------------------- MODULE WriteBehind -----------------------------
(***************************************************************************)
(* What saving promises: accepted writes are counted in memory, a prefix   *)
(* of them is on disk, the prefix only grows, and while the board stays    *)
(* open and writes are missing from the disk, it keeps growing.            *)
(***************************************************************************)
EXTENDS Naturals

VARIABLES
    accepted,  \* writes accepted in memory
    stored,    \* writes on disk
    open       \* the board is in memory

vars == <<accepted, stored, open>>

Init == accepted = 0 /\ stored = 0 /\ open = TRUE

Write == open /\ accepted' = accepted + 1 /\ UNCHANGED <<stored, open>>

Store == stored < accepted /\ stored' \in stored + 1 .. accepted
                           /\ UNCHANGED <<accepted, open>>

Close == open /\ open' = FALSE /\ UNCHANGED <<accepted, stored>>

Next == Write \/ Store \/ Close

Fairness == WF_vars(open /\ Store)

Spec == Init /\ [][Next]_vars /\ Fairness
=============================================================================
