---------------------------- MODULE CanonicalItems ----------------------------
(***************************************************************************)
(* The canonical item index of one board and its saves.                    *)
(*                                                                         *)
(* The server does not hold the drawing: of a stored text it keeps the     *)
(* length, of a stored stroke the number of points, and only what was      *)
(* written since the last save (board/canonical_items.mjs).  A copy of a   *)
(* stored item names the item whose stored content it continues.  A save   *)
(* takes the map as it is, streams the old file into the new one while     *)
(* mutations go on, and then folds what it stored into the index           *)
(* (finalizePersistedCanonicalItems), object identity telling the items    *)
(* that were replaced meanwhile.                                           *)
(*                                                                         *)
(* An action is one turn of the event loop.  The steps on the files        *)
(* themselves, and the time a save starts, are in SvgFiles and             *)
(* SaveScheduler.                                                          *)
(***************************************************************************)
EXTENDS Naturals, Sequences, FiniteSets, SequencesExt, FiniteSetsExt

CONSTANTS
  Ids,             \* the item ids that occur
  Points,          \* the points a stroke can be extended with
  MaxText,         \* a text is modelled by its length, 0..MaxText, its content by <<length>>
  MaxChildren,     \* MAX_CHILDREN
  MaxItemCount,    \* MAX_ITEM_COUNT
  Batches,         \* the batches a client sends, sequences of messages
  MaxEdits,        \* bound: messages accepted or rejected in a behaviour
  ReuseIds,        \* a create or a copy may name an id that is still known
  CopyDuringSave,  \* a copy may arrive while a save is running
  NoId,
  Unwritable,      \* "Missing persisted pencil path data": the error fails the whole save
  NothingToWrite   \* a stroke without points has no tag

NoText == MaxText + 1

NoSave == [running |-> FALSE]

VARIABLES
  itemsById,            \* id -> item, tombstones included
  paintOrder,           \* the ids in the order they were first seen
  liveItemCount,
  trimPaintOrderIndex,
  persistedItemIds,     \* the ids the last save or load found in the file
  unsaved,              \* getSeq() # getPersistedSeq()
  file,                 \* the items of the stored SVG, in document order
  save,                 \* the snapshot of the running save, or NoSave
  recorded,             \* the mutations the last turn recorded in the replay log
  edits                 \* counts messages, for the bound

index == <<itemsById, paintOrder, liveItemCount, trimPaintOrderIndex>>
vars == <<index, persistedItemIds, unsaved, file, save, recorded, edits>>

Kinds == {"inline", "text", "children"}
Looks == {"seed", "drawn", "moved"}

Messages ==
       [type : {"create"}, id : Ids, kind : Kinds]
  \cup [type : {"update"}, id : Ids, look : {"drawn", "moved", "huge"}]
  \cup [type : {"write"}, id : Ids, text : 1..MaxText]
  \cup [type : {"append"}, id : Ids, point : Points]
  \cup {m \in [type : {"copy"}, id : Ids, newid : Ids] : m.id # m.newid}
  \cup [type : {"delete"}, id : Ids]
  \cup [type : {"clear"}]

\* The mutations a client may send in a batch (batchMessageFields of the Hand tool).
BatchMessages == {m \in Messages : m.type \in {"update", "copy", "delete"}}

ASSUME BoundsAssumption ==
  /\ MaxText \in Nat /\ MaxChildren \in Nat /\ MaxEdits \in Nat
  /\ MaxItemCount \in Nat \ {0}
  /\ ReuseIds \in BOOLEAN /\ CopyDuringSave \in BOOLEAN
  /\ NoId \notin Ids
  /\ Unwritable \notin Seq(Points \cup Nat) /\ NothingToWrite \notin Seq(Points \cup Nat)
  /\ Unwritable # NothingToWrite
  /\ Batches \subseteq Seq(BatchMessages)

\* `held`: this object is the one the running save took into its snapshot.
\* `txt`: an update leaves the text among the attributes too, and there it
\* survives the save that clears modifiedText.
Item == [kind : Kinds, look : Looks, deleted : BOOLEAN, dirty : BOOLEAN, held : BOOLEAN,
         modifiedText : 0..NoText, txt : 0..NoText, textLength : 0..MaxText,
         persistedChildCount : Nat, appendedChildren : Seq(Points),
         copySource : Ids \cup {NoId}]

-------------------------------------------------------------------------------
\* The elements of a sequence at the positions in K, in their order.
Rank(K, i) == Cardinality({j \in K : j < i})
Part(seq, K) == [k \in 1 .. Cardinality(K) |-> seq[CHOOSE i \in K : Rank(K, i) = k - 1]]

(* Items.                                                                   *)

Live(items, id) == id \in DOMAIN items /\ ~items[id].deleted

LiveIds(items) == {id \in DOMAIN items : ~items[id].deleted}

NewItem(kind) ==
  [kind |-> kind, look |-> IF kind = "inline" THEN "seed" ELSE "drawn",
   deleted |-> FALSE, dirty |-> TRUE, held |-> FALSE,
   modifiedText |-> IF kind = "text" THEN 0 ELSE NoText, txt |-> NoText, textLength |-> 0,
   persistedChildCount |-> 0, appendedChildren |-> << >>, copySource |-> NoId]

Tombstone(item) == [item EXCEPT !.deleted = TRUE, !.dirty = TRUE, !.held = FALSE]

effectiveChildCount(item) == item.persistedChildCount + Len(item.appendedChildren)

SourceOf(item, id, persisted) ==
  IF item.copySource # NoId THEN item.copySource
  ELSE IF id \in persisted THEN id ELSE NoId

copyCanonicalItem(item, id, persisted) ==
  [item EXCEPT !.dirty = TRUE, !.held = FALSE,
     !.copySource = IF item.kind = "children" \/ (item.kind = "text" /\ item.modifiedText = NoText)
                    THEN SourceOf(item, id, persisted)
                    ELSE NoId]

Changed(item) == [item EXCEPT !.dirty = TRUE, !.held = FALSE]

-------------------------------------------------------------------------------
(* Mutations.  `items` is what a mutation reads: the index, seen through    *)
(* the overlay of the batch the mutation is part of.                        *)

\* "huge" stands for an update out of the board's bounds.
Refuses(items, m) ==
  \/ m.type \in {"update", "write", "append", "copy"} /\ ~Live(items, m.id)
  \/ m.type = "update" /\ m.look = "huge"
  \/ m.type = "append" /\ (\/ items[m.id].kind # "children"
                           \/ effectiveChildCount(items[m.id]) >= MaxChildren)

\* The item a mutation replaces, and what it puts in its place.
Target(m) == IF m.type = "copy" THEN m.newid ELSE m.id

prepareMutation(items, m) ==
  CASE m.type = "create" -> NewItem(m.kind)
    [] m.type = "update" -> [Changed(items[m.id]) EXCEPT !.look = m.look]
    [] m.type = "write"  -> [Changed(items[m.id]) EXCEPT !.modifiedText = m.text, !.txt = m.text,
                                                         !.textLength = m.text]
    [] m.type = "append" -> [Changed(items[m.id]) EXCEPT !.appendedChildren = Append(@, m.point)]
    [] m.type = "copy"   -> copyCanonicalItem(items[m.id], m.id, persistedItemIds)
    [] m.type = "delete" -> Tombstone(items[m.id])

\* The overlay of a batch: what was prepared so far, and the ids the index does
\* not know yet, in the order they came.
NoOverlay == [ok |-> TRUE, clear |-> FALSE, items |-> << >>, fresh |-> << >>]

Over(new, old) ==
  [id \in DOMAIN new \cup DOMAIN old |-> IF id \in DOMAIN new THEN new[id] ELSE old[id]]

Seen(overlay) == IF overlay.clear THEN overlay.items ELSE Over(overlay.items, itemsById)

Prepare(overlay, m) ==
  LET items == Seen(overlay)
      id == Target(m)
  IN IF ~overlay.ok \/ Refuses(items, m) THEN [overlay EXCEPT !.ok = FALSE]
     ELSE IF m.type = "clear" THEN [NoOverlay EXCEPT !.clear = TRUE]
     ELSE IF m.type = "delete" /\ ~Live(items, id) THEN overlay
     ELSE [overlay EXCEPT
             !.items = Over([other \in {id} |-> prepareMutation(items, m)], @),
             !.fresh = IF id \in DOMAIN overlay.items \cup DOMAIN itemsById THEN @
                       ELSE Append(@, id)]

OverlayOf(ms) ==
  LET upTo[n \in 0..Len(ms)] == IF n = 0 THEN NoOverlay ELSE Prepare(upTo[n - 1], ms[n])
  IN upTo[Len(ms)]

Cleared(items) == [id \in DOMAIN items |-> Tombstone(items[id])]

\* Mutant: a clear leaves the count of live items as it was.
AppliedCountKept(overlay) ==
  LET base == IF overlay.clear THEN Cleared(itemsById) ELSE itemsById
      born == {id \in LiveIds(overlay.items) : ~Live(base, id)}
      died == {id \in DOMAIN overlay.items \ LiveIds(overlay.items) : Live(base, id)}
  IN [items |-> Over(overlay.items, base),
      order |-> paintOrder \o overlay.fresh,
      count |-> liveItemCount + Cardinality(born) - Cardinality(died),
      trim  |-> IF overlay.clear THEN Len(paintOrder) ELSE trimPaintOrderIndex]

\* The index once the overlay is applied (clearItems, then upsertItem of each).
Applied(overlay) ==
  LET base == IF overlay.clear THEN Cleared(itemsById) ELSE itemsById
      born == {id \in LiveIds(overlay.items) : ~Live(base, id)}
      died == {id \in DOMAIN overlay.items \ LiveIds(overlay.items) : Live(base, id)}
  IN [items |-> Over(overlay.items, base),
      order |-> paintOrder \o overlay.fresh,
      count |-> (IF overlay.clear THEN 0 ELSE liveItemCount) + Cardinality(born) - Cardinality(died),
      trim  |-> IF overlay.clear THEN Len(paintOrder) ELSE trimPaintOrderIndex]

\* The scan for the oldest items, from the trim index until enough were found.
LiveBetween(st, to) == {i \in st.trim + 1 .. to : Live(st.items, st.order[i])}

TrimEnd(st) ==
  Min({j \in st.trim .. Len(st.order) :
         \/ st.count - Cardinality(LiveBetween(st, j)) <= MaxItemCount
         \/ j = Len(st.order)})

Overflow(st) == LiveBetween(st, TrimEnd(st))

OverflowIds(st) == {st.order[i] : i \in Overflow(st)}

eraserDeleteMutation(id) == [type |-> "delete", id |-> id]

\* commitMutation: the oldest items make room, and each removal is recorded.
Commit(st, ms) ==
  LET gone == Part(st.order, Overflow(st))
  IN /\ itemsById' = [id \in DOMAIN st.items |-> IF id \in OverflowIds(st) THEN Tombstone(st.items[id])
                                                 ELSE st.items[id]]
     /\ paintOrder' = st.order
     /\ liveItemCount' = st.count - Cardinality(Overflow(st))
     /\ trimPaintOrderIndex' = TrimEnd(st)
     /\ recorded' = ms \o [i \in DOMAIN gone |-> eraserDeleteMutation(gone[i])]

-------------------------------------------------------------------------------
(* Turns that handle a message.                                             *)

\* What a browser sends: texts for text items, and fresh ids unless ReuseIds.
Sendable(ms) ==
  \A i \in DOMAIN ms :
    /\ ms[i].type = "create" /\ ~ReuseIds => ms[i].id \notin DOMAIN itemsById
    /\ ms[i].type = "copy" /\ ~ReuseIds => ms[i].newid \notin DOMAIN itemsById
    /\ ms[i].type = "copy" => save = NoSave \/ CopyDuringSave
    /\ ms[i].type = "write" /\ Live(itemsById, ms[i].id) => itemsById[ms[i].id].kind = "text"

Receive(ms) ==
  /\ edits < MaxEdits
  /\ Sendable(ms)
  /\ edits' = edits + 1
  /\ UNCHANGED <<persistedItemIds, file, save>>

\* processMessage and processMessageBatch, when every mutation is accepted.
Accept(ms) ==
  /\ Receive(ms)
  /\ OverlayOf(ms).ok
  /\ Commit(Applied(OverlayOf(ms)), ms)
  /\ unsaved' = TRUE

\* A shape is created with no extent; an update too large for the board that
\* meets it still so is refused and removes it.
DropsSeed(m) ==
  /\ m.type = "update" /\ m.look = "huge"
  /\ Live(itemsById, m.id)
  /\ itemsById[m.id].kind = "inline" /\ itemsById[m.id].look = "seed"

DropSeed(m) ==
  /\ Receive(<<m>>)
  /\ DropsSeed(m)
  /\ itemsById' = [itemsById EXCEPT ![m.id] = Tombstone(@)]
  /\ liveItemCount' = liveItemCount - 1
  /\ recorded' = <<eraserDeleteMutation(m.id)>>
  /\ unsaved' = TRUE
  /\ UNCHANGED <<paintOrder, trimPaintOrderIndex>>

Refuse(ms) ==
  /\ Receive(ms)
  /\ ~OverlayOf(ms).ok
  /\ ~(Len(ms) = 1 /\ DropsSeed(ms[1]))
  /\ recorded' = << >>
  /\ UNCHANGED <<index, unsaved>>

-------------------------------------------------------------------------------
(* Saves.                                                                   *)

EntryOf(id, f) == f[CHOOSE i \in DOMAIN f : f[i].id = id]
IdsOf(f) == {f[i].id : i \in DOMAIN f}

HasDirty == \E id \in DOMAIN itemsById : itemsById[id].dirty

\* clean(): items over the limit leave the index without a tombstone.
Cleaned ==
  LET st == [items |-> itemsById, order |-> paintOrder,
             count |-> liveItemCount, trim |-> trimPaintOrderIndex]
      kept == DOMAIN itemsById \ OverflowIds(st)
  IN IF liveItemCount <= MaxItemCount THEN st
     ELSE IF Overflow(st) = {} THEN [st EXCEPT !.trim = TrimEnd(st)]
     ELSE [items |-> [id \in kept |-> itemsById[id]],
           order |-> Part(paintOrder, {i \in DOMAIN paintOrder : paintOrder[i] \in kept}),
           count |-> Cardinality({id \in kept : ~itemsById[id].deleted}),
           trim |-> 0]

StartSave ==
  /\ save = NoSave
  /\ HasDirty \/ unsaved
  /\ LET st == Cleaned
         held == [id \in DOMAIN st.items |-> [st.items[id] EXCEPT !.held = TRUE]]
     IN /\ itemsById' = held
        /\ paintOrder' = st.order
        /\ liveItemCount' = st.count
        /\ trimPaintOrderIndex' = st.trim
        /\ save' = [running |-> TRUE, items |-> held, order |-> st.order, unsaved |-> unsaved]
  /\ unsaved' = FALSE
  /\ recorded' = << >>
  /\ UNCHANGED <<persistedItemIds, file, edits>>

\* Mutant: the content of an item that was erased meanwhile is not kept for its copies.
SourceAliveOnly(items, id, persisted, f) ==
  LET of == IF id \in persisted THEN id ELSE items[id].copySource
  IN {f[i].body : i \in {j \in DOMAIN f : /\ f[j].id = of /\ f[j].kind = items[id].kind
                                          /\ Live(items, of) /\ items[of].kind = items[id].kind}}

\* The stored content an item continues: its own, or that of the item it was
\* copied from, which the rewrite keeps when the index still knows that item.
Source(items, id, persisted, f) ==
  LET of == IF id \in persisted THEN id ELSE items[id].copySource
  IN {f[i].body : i \in {j \in DOMAIN f : /\ f[j].id = of /\ f[j].kind = items[id].kind
                                          /\ of \in DOMAIN items /\ items[of].kind = items[id].kind}}

\* The text publicItemFromCanonicalItem shows.
KnownText(item) == IF item.modifiedText # NoText THEN item.modifiedText ELSE item.txt

\* The content a rewrite gives an item.
bodyForStorage(items, id, persisted, f) ==
  LET item == items[id]
      source == Source(items, id, persisted, f)
  IN CASE item.kind = "inline" -> << >>
       [] item.kind = "text" -> IF KnownText(item) # NoText THEN <<KnownText(item)>>
                                ELSE IF source # {} THEN CHOOSE b \in source : TRUE ELSE <<0>>
       [] item.kind = "children" /\ (id \in persisted \/ item.copySource # NoId) ->
            IF source = {} THEN Unwritable ELSE (CHOOSE b \in source : TRUE) \o item.appendedChildren
       [] OTHER -> IF item.persistedChildCount = 0 /\ item.appendedChildren # << >>
                   THEN item.appendedChildren ELSE NothingToWrite

serializeCanonicalItemForStorage(items, id, persisted, f) ==
  [id |-> id, kind |-> items[id].kind, look |-> items[id].look,
   body |-> bodyForStorage(items, id, persisted, f)]

\* The items of the new file: those of the old one that are still alive, raw
\* when clean, then the new ones in paint order.
Old(items, persisted, f) ==
  Part(f, {i \in DOMAIN f : Live(items, f[i].id) /\ f[i].id \in persisted})

New(items, order, persisted) ==
  Part(order, {i \in DOMAIN order : Live(items, order[i]) /\ order[i] \notin persisted})

Written(items, order, persisted, f) ==
  LET old == Old(items, persisted, f)
      new == New(items, order, persisted)
      Serialized(id) == serializeCanonicalItemForStorage(items, id, persisted, f)
      entries == [i \in DOMAIN old |-> IF items[old[i].id].dirty THEN Serialized(old[i].id) ELSE old[i]]
                 \o [i \in DOMAIN new |-> Serialized(new[i])]
  IN Part(entries, {i \in DOMAIN entries : entries[i].body # NothingToWrite})

\* An item the write strategy refuses: it continues content of a file that
\* writeCanonicalBoardState does not read.
NeedsSource(items) == \E id \in LiveIds(items) : items[id].kind = "children" /\ items[id].copySource # NoId

SaveRefused ==
  IF persistedItemIds = {} THEN NeedsSource(save.items)
  ELSE \E id \in LiveIds(save.items) :
         /\ save.items[id].dirty
         /\ bodyForStorage(save.items, id, persistedItemIds, file) = Unwritable

\* Mutant: the points the save stored are dropped but not counted as stored.
RebasedUncounted(item, saved) ==
  [item EXCEPT
     !.copySource = NoId,
     !.appendedChildren = IF item.kind = "children" /\ saved.kind = "children"
                          THEN SubSeq(@, Len(saved.appendedChildren) + 1, Len(@)) ELSE @]

\* finalizePersistedCanonicalItems for an item that was replaced during the save.
Rebased(item, saved) ==
  [item EXCEPT
     !.copySource = NoId,
     !.persistedChildCount = IF item.kind = "children" /\ saved.kind = "children"
                             THEN effectiveChildCount(saved) ELSE @,
     !.appendedChildren = IF item.kind = "children" /\ saved.kind = "children"
                          THEN SubSeq(@, Len(saved.appendedChildren) + 1, Len(@)) ELSE @]

\* ... and for one the save stored as it is.
Settled(item) ==
  [item EXCEPT
     !.dirty = FALSE,
     !.copySource = NoId,
     !.modifiedText = NoText,
     !.persistedChildCount = IF item.kind = "children" THEN effectiveChildCount(item) ELSE @,
     !.appendedChildren = << >>]

\* Mutant: an item replaced during the save is taken for the one that was stored.
FinalizeAnyRevision(id, written) ==
  LET item == itemsById[id]
  IN IF id \notin DOMAIN save.items \/ id \notin written \/ item.deleted THEN item
     ELSE Settled(item)

finalize(id, written) ==
  LET item == itemsById[id]
  IN IF id \notin DOMAIN save.items THEN item
     ELSE IF ~item.held
     THEN IF save.items[id].deleted \/ id \notin written THEN item ELSE Rebased(item, save.items[id])
     ELSE IF id \notin written \/ (~item.dirty /\ item.copySource = NoId) THEN item
     ELSE Settled(item)

FinishSave ==
  /\ save # NoSave
  /\ ~SaveRefused
  /\ LET content == Written(save.items, save.order, persistedItemIds, file)
         written == IdsOf(content)
         removed == {id \in DOMAIN itemsById : itemsById[id].held /\ itemsById[id].deleted}
         kept == DOMAIN itemsById \ removed
     IN /\ file' = content
        /\ persistedItemIds' = written
        /\ itemsById' = [id \in kept |-> [finalize(id, written) EXCEPT !.held = FALSE]]
        /\ IF removed = {}
           THEN UNCHANGED <<paintOrder, liveItemCount, trimPaintOrderIndex>>
           ELSE /\ paintOrder' = Part(paintOrder, {i \in DOMAIN paintOrder : paintOrder[i] \in kept})
                /\ liveItemCount' = Cardinality({id \in kept : ~itemsById[id].deleted})
                /\ trimPaintOrderIndex' = 0
  /\ save' = NoSave
  /\ recorded' = << >>
  /\ UNCHANGED <<unsaved, edits>>

\* The disk refuses, or an item cannot be serialized: nothing is stored.
FailSave ==
  /\ save # NoSave
  /\ itemsById' = [id \in DOMAIN itemsById |-> [itemsById[id] EXCEPT !.held = FALSE]]
  /\ unsaved' = (unsaved \/ save.unsaved)
  /\ save' = NoSave
  /\ recorded' = << >>
  /\ UNCHANGED <<paintOrder, liveItemCount, trimPaintOrderIndex, persistedItemIds, file, edits>>

\* The process stops, or the board is unloaded, and the file is loaded again.
DistinctPoints(path) ==
  Cardinality({i \in DOMAIN path : i = 1 \/ path[i] # path[IF i = 1 THEN 1 ELSE i - 1]})

canonicalItemFromStoredSvgEntry(entry) ==
  [NewItem(entry.kind) EXCEPT
     !.look = entry.look,
     !.dirty = FALSE,
     !.modifiedText = NoText,
     !.textLength = IF entry.kind = "text" THEN entry.body[1] ELSE 0,
     !.persistedChildCount = IF entry.kind = "children" THEN DistinctPoints(entry.body) ELSE 0]

Load ==
  /\ paintOrder' = [i \in DOMAIN file |-> file[i].id]
  /\ persistedItemIds' = IdsOf(file)
  /\ itemsById' = [id \in IdsOf(file) |-> canonicalItemFromStoredSvgEntry(EntryOf(id, file))]
  /\ liveItemCount' = Len(file)
  /\ trimPaintOrderIndex' = 0
  /\ unsaved' = FALSE
  /\ save' = NoSave
  /\ recorded' = << >>
  /\ UNCHANGED <<file, edits>>

Init ==
  /\ itemsById = << >> /\ paintOrder = << >>
  /\ liveItemCount = 0 /\ trimPaintOrderIndex = 0
  /\ persistedItemIds = {} /\ unsaved = FALSE
  /\ file = << >> /\ save = NoSave
  /\ recorded = << >> /\ edits = 0

Next ==
  \/ \E m \in Messages : Accept(<<m>>) \/ Refuse(<<m>>) \/ DropSeed(m)
  \/ \E ms \in Batches : Accept(ms) \/ Refuse(ms)
  \/ StartSave \/ FinishSave \/ FailSave \/ Load

Spec == Init /\ [][Next]_vars

-------------------------------------------------------------------------------
(* What must hold.                                                          *)

\* Types.
TypeOK ==
  /\ DOMAIN itemsById \subseteq Ids
  /\ \A id \in DOMAIN itemsById : itemsById[id] \in Item
  /\ paintOrder \in Seq(Ids)
  /\ liveItemCount \in Nat
  /\ trimPaintOrderIndex \in 0..Len(paintOrder)
  /\ persistedItemIds \subseteq Ids
  /\ unsaved \in BOOLEAN
  /\ IdsOf(file) = persistedItemIds
  /\ save = NoSave \/ DOMAIN save = {"running", "items", "order", "unsaved"}
  /\ edits \in 0..MaxEdits

\* The index agrees with itself: the paint order lists every known item once,
\* and the count that stands for a walk over the items is exact.  The count is
\* adjusted by upserts, removals, clears and trims, and rebuilt by saves, and no
\* turn leaves more items on the board than MAX_ITEM_COUNT.
IndexIsConsistent ==
  /\ TypeOK
  /\ ToSet(paintOrder) = DOMAIN itemsById
  /\ IsInjective(paintOrder)
  /\ liveItemCount = Cardinality(LiveIds(itemsById))
  /\ liveItemCount <= MaxItemCount

\* Without decoding it, the server knows how large the stored content is: the
\* text a save would write has the length the index holds, and the stroke has
\* as many points, repeated ones counted or not.
SizesAgree ==
  \A id \in LiveIds(itemsById) :
    LET body == bodyForStorage(itemsById, id, persistedItemIds, file)
    IN /\ itemsById[id].kind = "text" => body = <<itemsById[id].textLength>>
       /\ itemsById[id].kind = "children" /\ body \notin {Unwritable, NothingToWrite} =>
            effectiveChildCount(itemsById[id]) \in DistinctPoints(body)..Len(body)

\* Every board the server holds can be saved: no item lacks the stored content
\* it continues.
AlwaysStorable == save # NoSave => ~SaveRefused

\* What the index and the stored file stand for together.
Drawing(items) ==
  [id \in LiveIds(items) |->
     LET body == bodyForStorage(items, id, persistedItemIds, file)
     IN [kind |-> items[id].kind, look |-> items[id].look,
         body |-> IF body = NothingToWrite THEN items[id].appendedChildren ELSE body]]

StoredDrawing ==
  [id \in IdsOf(file) |->
     LET entry == EntryOf(id, file) IN [kind |-> entry.kind, look |-> entry.look, body |-> entry.body]]

Board == INSTANCE DrawnBoard WITH
  shown  <- Drawing(itemsById),
  stored <- StoredDrawing,
  saving <- IF save = NoSave THEN {} ELSE {Drawing(save.items)}

\* The index and the file are together a board: what they stand for changes by
\* exactly the mutations recorded for the collaborators (removals that make
\* room included), a save stores the drawing of the moment it began, and
\* folding it into the index changes nothing that is shown.
ImplementsDrawnBoard == Board!Spec

\* The stored drawing paints the items in the order the collaborators do.  It
\* does not hold for strokes that were without points when a save ran (README,
\* finding 6), and is kept for the repair.
PaintOrderIsStored ==
  SelectSeq(paintOrder, LAMBDA id : id \in IdsOf(file))
    = SelectSeq([i \in DOMAIN file |-> file[i].id], LAMBDA id : id \in DOMAIN itemsById)
===============================================================================
