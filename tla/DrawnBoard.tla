------------------------------ MODULE DrawnBoard ------------------------------
(***************************************************************************)
(* What the canonical item index promises: a board is a set of items, each *)
(* recorded mutation changes what is shown the way a collaborator's        *)
(* browser does, and a save stores the items as they were when the save    *)
(* began, without changing what is shown.                                  *)
(***************************************************************************)
EXTENDS Naturals, Sequences

VARIABLES
  shown,      \* the live drawing: item id -> what is painted
  stored,     \* the drawing of the stored SVG
  saving,     \* the drawing a running save stores, in a set that is otherwise empty
  recorded    \* the mutations the last turn gave to the replay log

vars == <<shown, stored, saving, recorded>>

With(doc, id, entry) ==
  [other \in DOMAIN doc \cup {id} |-> IF other = id THEN entry ELSE doc[other]]

Without(doc, id) == [other \in DOMAIN doc \ {id} |-> doc[other]]

NewEntry(kind) ==
  [kind |-> kind,
   look |-> IF kind = "inline" THEN "seed" ELSE "drawn",
   body |-> IF kind = "text" THEN <<0>> ELSE << >>]

\* One mutation as every collaborator applies it.
Apply(doc, m) ==
  CASE m.type = "create" -> With(doc, m.id, NewEntry(m.kind))
    [] m.type = "update" -> [doc EXCEPT ![m.id].look = m.look]
    [] m.type = "write"  -> [doc EXCEPT ![m.id].body = <<m.text>>]
    [] m.type = "append" -> [doc EXCEPT ![m.id].body = Append(@, m.point)]
    [] m.type = "copy"   -> With(doc, m.newid, doc[m.id])
    [] m.type = "delete" -> Without(doc, m.id)
    [] m.type = "clear"  -> << >>

ApplyAll(doc, ms) ==
  LET upTo[n \in 0..Len(ms)] == IF n = 0 THEN doc ELSE Apply(upTo[n - 1], ms[n])
  IN upTo[Len(ms)]

\* A stroke that has no point yet is not part of the stored drawing.
Storable(doc) ==
  [id \in {id \in DOMAIN doc : doc[id].kind = "children" => doc[id].body # << >>} |-> doc[id]]

Init == shown = << >> /\ stored = << >> /\ saving = {} /\ recorded = << >>

Edit == shown' = ApplyAll(shown, recorded') /\ UNCHANGED <<stored, saving>>

StartSave ==
  /\ saving = {}
  /\ saving' = {shown}
  /\ recorded' = << >>
  /\ UNCHANGED <<shown, stored>>

FinishSave ==
  /\ \E drawing \in saving : stored' = Storable(drawing)
  /\ saving' = {}
  /\ recorded' = << >>
  /\ UNCHANGED shown

FailSave ==
  /\ saving' = {}
  /\ recorded' = << >>
  /\ UNCHANGED <<shown, stored>>

Restart ==
  /\ shown' = stored
  /\ saving' = {}
  /\ recorded' = << >>
  /\ UNCHANGED stored

Next == Edit \/ StartSave \/ FinishSave \/ FailSave \/ Restart

Spec == Init /\ [][Next]_vars
===============================================================================
