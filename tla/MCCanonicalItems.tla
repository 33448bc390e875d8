--------------------------- MODULE MCCanonicalItems ---------------------------
EXTENDS CanonicalItems

CONSTANTS a, b, c

\* What the Hand tool sends as one message: a selection that is duplicated and
\* moved, one that is duplicated and deleted, two copies, and a batch whose last
\* mutation is refused.
MCBatches ==
  {<<[type |-> "copy", id |-> a, newid |-> b], [type |-> "update", id |-> b, look |-> "moved"]>>,
   <<[type |-> "copy", id |-> a, newid |-> c], [type |-> "delete", id |-> a]>>,
   <<[type |-> "copy", id |-> b, newid |-> a], [type |-> "copy", id |-> a, newid |-> c]>>,
   <<[type |-> "delete", id |-> a], [type |-> "update", id |-> b, look |-> "huge"]>>}
===============================================================================
