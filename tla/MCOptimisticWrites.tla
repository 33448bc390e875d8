------------------------ MODULE MCOptimisticWrites ------------------------
EXTENDS OptimisticWrites
S(own, others, refusals, limits, cuts, waits, guarded) ==
    [own |-> own, others |-> others, refusals |-> refusals, limits |-> limits,
     cuts |-> cuts, waits |-> waits, guarded |-> guarded]
\* A page that is alone and never loses its connection.
MCAlone == {S(2, 0, 1, 0, 0, 0, FALSE)}
\* A page on a guarded board where somebody else writes.
MCGuarded == {S(2, 1, 0, 0, 0, 0, TRUE)}
MCScenarios == {S(2, 2, 1, 0, 0, 0, FALSE), S(2, 1, 0, 1, 1, 0, FALSE),
                S(2, 1, 0, 1, 0, 1, FALSE), S(2, 1, 0, 0, 0, 0, TRUE),
                S(1, 1, 0, 1, 0, 0, TRUE)}
=============================================================================
