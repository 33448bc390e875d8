-------------------------- MODULE MCBoardLifecycle --------------------------
(* Model checking instance of BoardLifecycle: pages are interchangeable. *)
EXTENDS BoardLifecycle, TLC

PageSymmetry == Permutations(Sockets)

\* One process that serves its pages one generation after the other, with
\* failures and postponed unloads; everything at once, with few writes; and pages that
\* come during an unload, without or with a second one behind it.
OneAfterTheOther == [writes |-> 3, queued |-> 2, foreign |-> 0, failures |-> 1,
                     retries |-> 2, overlap |-> FALSE, blank |-> {2}, empty |-> {1}]
AllAtOnce == [writes |-> 2, queued |-> 0, foreign |-> 1, failures |-> 0,
              retries |-> 0, overlap |-> TRUE, blank |-> {2}, empty |-> {1}]
OneUnload == [AllAtOnce EXCEPT !.foreign = 0, !.failures = 1]
TwoUnloads == [AllAtOnce EXCEPT !.foreign = 0, !.writes = 3, !.queued = 1]
MCScenarios == {OneAfterTheOther, AllAtOnce, OneUnload}
MCTwoUnloads == {TwoUnloads}
=============================================================================
