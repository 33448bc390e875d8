------------------------------ MODULE SvgFiles ------------------------------
(***************************************************************************)
(* The files one board is stored in: the SVG, its staging file (.svg.bak), *)
(* quarantined ones and, for an old board, a JSON file.                    *)
(*                                                                         *)
(* A save writes a temporary file, renames it to the staging file and that *)
(* to the SVG.  Every reader looks for the SVG, then for the staging file, *)
(* and a reader that had to use the staging file repairs what it found: it *)
(* moves an unreadable SVG away and promotes the staging file              *)
(* (readStoredSvgWithFallback).  Page requests, downloads, the load of the *)
(* board and its saves do all this at the same time.                       *)
(*                                                                         *)
(* A step is one file operation: a stat, a rename, or an open and the      *)
(* reading that follows it, which sees the file that was opened whatever   *)
(* is renamed meanwhile.  A crash may come between any two steps.          *)
(***************************************************************************)
EXTENDS Naturals, Sequences, FiniteSets, SequencesExt

CONSTANTS
  Readers,         \* HTTP requests that may be in progress together
  Loader,          \* the load of the board
  MaxMutations,    \* bound: mutations
  MaxCrashes,      \* bound: crashes
  MaxSpoilings,    \* bound: times the SVG is damaged or removed
  NoFile, NoBoard, NotSaving,
  Failed           \* an error that reaches the caller

\* What may be stored, loaded or being saved.
Docs == Seq(0 .. MaxMutations)
Files == [doc : Docs, seq : 0 .. MaxMutations, state : {"good", "cut", "spoiled"}]
Boards == [doc : Docs, seq : 0 .. MaxMutations, persisted : 0 .. MaxMutations,
           hasPersistedBaseline : BOOLEAN]
Saves == [at : {"choose", "rewrite", "stage", "replace"}, source : {"svg", "backup"},
          doc : Docs, seq : 0 .. MaxMutations]

ASSUME FilesAssumption ==
  /\ Loader \notin Readers
  /\ NoFile \notin Files /\ Failed \notin Files \cup {NoFile}
  /\ NoBoard \notin Boards /\ NotSaving \notin Saves
  /\ MaxMutations \in Nat /\ MaxCrashes \in Nat /\ MaxSpoilings \in Nat

VARIABLES
  svg,          \* the SVG file, or NoFile
  backup,       \* the staging file, or NoFile
  quarantined,  \* the files moved away
  json,         \* the JSON file of an old board, or NoFile; nothing changes it
  board,        \* the loaded board, or NoBoard
  saving,       \* the save in progress, or NotSaving
  process,      \* what each request, and the load, is doing
  collided,     \* history: files were changed under somebody who went by them
  writes, crashes, spoilings

files == <<svg, backup, quarantined, json>>
counters == <<writes, crashes, spoilings>>
filesVars == <<files, board, saving, process, collided, counters>>

Processes == Readers \cup {Loader}

\* A document is the mutations in it.  An intact file holds it; of a "cut" one
\* the end is missing, of a "spoiled" one not even the root element is readable.
\* A migrated board keeps its old content and starts at sequence number 0.
File(doc, seq) == [doc |-> doc, seq |-> seq, state |-> "good"]

\* The load parses the whole structure, a request for the sequence number the
\* root element; a download takes any text, and a stream is opened unread.
Accepts(check, file) ==
  /\ file # NoFile
  /\ check = "structure" => file.state = "good"
  /\ check = "root" => file.state # "spoiled"

\* What a reader that runs alone would return.
View(check, s, b) ==
  CASE Accepts(check, s) -> s
    [] ~Accepts(check, s) /\ b # NoFile -> b
    [] s = NoFile /\ b = NoFile -> json
    [] OTHER -> Failed

\* `path` is the file a stream is given, `error` that reading the SVG failed.
Resting == [kind |-> "none", at |-> "idle", check |-> "none", error |-> FALSE,
            path |-> "svg", found |-> NoFile, seen |-> {}]

Requests == {"page", "baseline", "download"}

Busy == {p \in Processes : process[p].at # "idle"}

Reading(kind, check) == [Resting EXCEPT !.kind = kind, !.check = check, !.at = "statSvg"]

\* Every busy process remembers what was to be found at any time.
Watched(ps) ==
  [p \in Processes |->
     IF ps[p].at = "idle" THEN Resting
     ELSE [ps[p] EXCEPT !.seen = @ \cup {View(ps[p].check, svg', backup')}]]

\* A reader that has looked at the files goes by what it found until it is done, and
\* so does a save.
GoesByFiles(p) ==
  /\ process[p].at \notin {"idle", "done"}
  /\ process[p].at = "statSvg" => process[p].check = "path"

\* The step changes the files while there is no intact SVG to hold on to, and one of
\* those who go by them did not do it: two repairs, a repair and a first save, a
\* migration and the repair of a request, or damage from outside.
Collides ==
  /\ <<svg, backup>>' # <<svg, backup>>
  /\ ~(Accepts("structure", svg) /\ Accepts("structure", svg'))
  /\ IF spoilings' # spoilings THEN Busy # {} \/ saving # NotSaving
     ELSE \E p \in Processes :
            /\ GoesByFiles(p)
            /\ saving # NotSaving \/ \E q \in Processes \ {p} : GoesByFiles(q)

Goes(ps) == process' = Watched(ps) /\ collided' = (collided \/ Collides)
Go(p, q) == Goes([process EXCEPT ![p] = q])
Others == Goes(process)

\* How a process goes on once it has a file, or an error, in hand.
Done(q, found) == [q EXCEPT !.at = "done", !.found = found]

Returned(q, found) ==
  IF q.check = "root" /\ found # Failed THEN Reading(q.kind, "path") ELSE Done(q, found)

\* ... and when there is no SVG of any kind: a page is rendered from the old
\* drawing, a baseline is read again as text, the load migrates the old drawing.
NothingThere(q) ==
  CASE q.kind = "load" /\ json # NoFile -> [q EXCEPT !.at = "migrate"]
    [] q.kind = "baseline" /\ q.check = "root" -> Reading(q.kind, "path")
    [] q.check = "path" -> Reading(q.kind, "text")
    [] OTHER -> Done(q, json)

-------------------------------------------------------------------------------
(* Reading, step by step.                                                    *)

BeginRead(p) ==
  /\ process[p].at = "idle"
  /\ IF p = Loader
     THEN board = NoBoard /\ UNCHANGED files /\ Go(p, Reading("load", "structure"))
     ELSE /\ UNCHANGED files
          /\ \E kind \in Requests :
               Go(p, Reading(kind, IF kind = "download" THEN "text" ELSE "root"))
  /\ UNCHANGED <<board, saving, counters>>

Step(p, at) ==
  /\ process[p].at = at
  /\ UNCHANGED <<board, saving, counters>>

StatSvg(p) ==
  LET q == process[p]
  IN /\ Step(p, "statSvg")
     /\ UNCHANGED files
     /\ Go(p, IF svg = NoFile THEN [q EXCEPT !.at = "statBackup"]
              ELSE IF q.check = "path" THEN [q EXCEPT !.at = "open"]
              ELSE [q EXCEPT !.at = "readSvg"])

\* Mutant: an unreadable SVG counts as a missing one.
ReadSvgForgetsError(p) ==
  LET q == process[p]
  IN /\ Step(p, "readSvg")
     /\ UNCHANGED files
     /\ Go(p, IF Accepts(q.check, svg) THEN Returned(q, svg)
              ELSE [q EXCEPT !.at = "statBackup"])

\* An error, ENOENT included, sends the reader to the staging file.
ReadSvg(p) ==
  LET q == process[p]
  IN /\ Step(p, "readSvg")
     /\ UNCHANGED files
     /\ Go(p, IF Accepts(q.check, svg) THEN Returned(q, svg)
              ELSE [q EXCEPT !.at = "statBackup", !.error = TRUE])

StatBackup(p) ==
  LET q == process[p]
  IN /\ Step(p, "statBackup")
     /\ UNCHANGED files
     /\ Go(p, CASE backup # NoFile /\ q.check = "path" -> [q EXCEPT !.at = "promote"]
                [] backup # NoFile /\ q.check # "path" -> [q EXCEPT !.at = "readBackup"]
                [] backup = NoFile /\ q.error -> Done(q, Failed)
                [] OTHER -> NothingThere(q))

ReadBackup(p) ==
  LET q == process[p]
  IN /\ Step(p, "readBackup")
     /\ UNCHANGED files
     /\ Go(p, IF ~Accepts(q.check, backup) THEN Done(q, Failed)
              ELSE [q EXCEPT !.at = IF q.error THEN "quarantine" ELSE "promote", !.found = backup])

\* Skipped when there is nothing to move, or no name short enough for it.
Quarantine(p) ==
  /\ Step(p, "quarantine")
  /\ \/ /\ svg # NoFile
        /\ svg' = NoFile /\ quarantined' = quarantined \cup {svg}
        /\ UNCHANGED <<backup, json>>
     \/ UNCHANGED files
  /\ Go(p, [process[p] EXCEPT !.at = "promote"])

\* rename(backup, svg): ENOENT when somebody else has promoted it.
Promote(p) ==
  LET q == process[p]
  IN /\ Step(p, "promote")
     /\ IF backup = NoFile
        THEN UNCHANGED files /\ Go(p, Done(q, Failed))
        ELSE /\ svg' = backup /\ backup' = NoFile /\ UNCHANGED <<quarantined, json>>
             /\ Go(p, IF q.check = "path" THEN [q EXCEPT !.at = "open", !.path = "backup"] ELSE Returned(q, q.found))

\* The stream that is piped to the browser opens the path it was given, the
\* staging file's when that was the one that was found.
OpenFound(p) ==
  LET file == IF process[p].path = "svg" THEN svg ELSE backup
  IN /\ Step(p, "open")
     /\ UNCHANGED files
     /\ Go(p, Done(process[p], IF file = NoFile THEN Failed ELSE file))

Answer(p) ==
  /\ p # Loader
  /\ Step(p, "done")
  /\ UNCHANGED files
  /\ Go(p, Resting)

\* migrateLegacyJsonBoardToSvg, with the two renames of a save; the temporary
\* file is nobody else's.
StageMigration(p) ==
  /\ Step(p, "migrate")
  /\ backup' = json /\ UNCHANGED <<svg, quarantined, json>>
  /\ Go(p, [process[p] EXCEPT !.at = "replaceMigrated"])

\* ENOENT is taken for a missing JSON file: the board is loaded empty.
ReplaceMigrated(p) ==
  /\ Step(p, "replaceMigrated")
  /\ IF backup = NoFile
     THEN UNCHANGED files /\ Go(p, Done(process[p], NoFile))
     ELSE /\ svg' = backup /\ backup' = NoFile /\ UNCHANGED <<quarantined, json>>
          /\ Go(p, Reading("load", "structure"))

Read(p) == \/ BeginRead(p) \/ StatSvg(p) \/ ReadSvg(p) \/ StatBackup(p) \/ ReadBackup(p)
           \/ Quarantine(p) \/ Promote(p) \/ OpenFound(p) \/ Answer(p)
           \/ StageMigration(p) \/ ReplaceMigrated(p)

-------------------------------------------------------------------------------
(* The board.                                                               *)

FinishLoad ==
  LET found == process[Loader].found
      file == IF found = NoFile THEN File(<< >>, 0) ELSE found
  IN /\ process[Loader].at = "done"
     /\ UNCHANGED <<files, saving, counters>>
     /\ board' = IF found = Failed THEN NoBoard
                 ELSE [doc |-> file.doc, seq |-> file.seq,
                       persisted |-> file.seq, hasPersistedBaseline |-> file.doc # << >>]
     /\ Go(Loader, Resting)

Mutate ==
  /\ board # NoBoard /\ writes < MaxMutations
  /\ board' = [board EXCEPT !.doc = Append(@, writes + 1), !.seq = @ + 1]
  /\ writes' = writes + 1
  /\ UNCHANGED <<files, saving, process, collided, crashes, spoilings>>

Unload ==
  /\ board # NoBoard /\ saving = NotSaving /\ board.persisted = board.seq
  /\ board' = NoBoard
  /\ UNCHANGED <<files, saving, process, collided, counters>>

\* A board that has stored items rewrites the file it expects to find; another
\* one writes a new file.
SaveBoard ==
  /\ board # NoBoard /\ saving = NotSaving /\ board.seq # board.persisted
  /\ saving' = [at |-> IF board.hasPersistedBaseline THEN "choose" ELSE "stage",
                source |-> "svg", doc |-> board.doc, seq |-> board.seq]
  /\ UNCHANGED <<files, board, process, collided, counters>>

SaveStep(at) ==
  /\ saving # NotSaving
  /\ saving.at = at
  /\ UNCHANGED counters

\* Mutant: the staging file is the source of a rewrite.
ChooseBackup ==
  /\ SaveStep("choose")
  /\ saving' = [saving EXCEPT !.at = "rewrite", !.source = "backup"]
  /\ UNCHANGED <<files, board, process, collided>>

ChooseSource ==
  /\ SaveStep("choose")
  /\ saving' = [saving EXCEPT !.at = "rewrite", !.source = IF svg # NoFile THEN "svg" ELSE "backup"]
  /\ UNCHANGED <<files, board, process, collided>>

\* The caller keeps the board and tries again later, but drops it when its file
\* is missing or not the one it wrote.
SaveFails == saving' = NotSaving /\ UNCHANGED <<files, board, process, collided>>
SaveIsStale == saving' = NotSaving /\ board' = NoBoard /\ UNCHANGED <<files, process, collided>>

\* Mutant: the stored sequence number is not compared.
RewriteUnchecked(source) ==
  IF source = NoFile THEN SaveIsStale
  ELSE IF Accepts("structure", source)
       THEN saving' = [saving EXCEPT !.at = "stage"] /\ UNCHANGED <<files, board, process, collided>>
       ELSE SaveFails

Rewrite(source) ==
  CASE source = NoFile -> SaveIsStale
    [] source # NoFile /\ ~Accepts("root", source) -> SaveFails
    [] Accepts("root", source) /\ source.seq # board.persisted -> SaveIsStale
    [] Accepts("root", source) /\ source.seq = board.persisted ->
         IF Accepts("structure", source)
         THEN saving' = [saving EXCEPT !.at = "stage"] /\ UNCHANGED <<files, board, process, collided>>
         ELSE SaveFails

RewriteSource ==
  /\ SaveStep("rewrite")
  /\ Rewrite(IF saving.source = "svg" THEN svg ELSE backup)

Stage ==
  /\ SaveStep("stage")
  /\ backup' = File(saving.doc, saving.seq)
  /\ saving' = [saving EXCEPT !.at = "replace"]
  /\ UNCHANGED <<svg, quarantined, json, board>>
  /\ Others

\* Mutant: the new sequence number is not recorded.
ReplaceUnrecorded ==
  /\ SaveStep("replace")
  /\ IF backup = NoFile
     THEN IF board.hasPersistedBaseline THEN SaveIsStale ELSE SaveFails
     ELSE /\ svg' = backup /\ backup' = NoFile
          /\ board' = [board EXCEPT !.hasPersistedBaseline = TRUE]
          /\ saving' = NotSaving
          /\ UNCHANGED <<quarantined, json>>
          /\ Others

Replace ==
  /\ SaveStep("replace")
  /\ IF backup = NoFile
     THEN IF board.hasPersistedBaseline THEN SaveIsStale ELSE SaveFails
     ELSE /\ svg' = backup /\ backup' = NoFile
          /\ board' = [board EXCEPT !.persisted = saving.seq, !.hasPersistedBaseline = TRUE]
          /\ saving' = NotSaving
          /\ UNCHANGED <<quarantined, json>>
          /\ Others

-------------------------------------------------------------------------------
(* What happens to the files and the process.                               *)

Crash ==
  /\ crashes < MaxCrashes
  /\ crashes' = crashes + 1
  /\ board' = NoBoard /\ saving' = NotSaving
  /\ process' = [p \in Processes |-> Resting]
  /\ UNCHANGED <<files, collided, writes, spoilings>>

\* Somebody damages the SVG or takes it away.
Spoil ==
  /\ spoilings < MaxSpoilings
  /\ Accepts("structure", svg)
  /\ svg' \in {NoFile} \cup {[svg EXCEPT !.state = state] : state \in {"cut", "spoiled"}}
  /\ spoilings' = spoilings + 1
  /\ UNCHANGED <<backup, quarantined, json, board, saving, writes, crashes>>
  /\ Others

FilesInit ==
  /\ svg = NoFile /\ backup = NoFile /\ quarantined = {}
  /\ json \in {NoFile, File(<<0>>, 0)}
  /\ board = NoBoard /\ saving = NotSaving
  /\ process = [p \in Processes |-> Resting]
  /\ writes = 0 /\ crashes = 0 /\ spoilings = 0 /\ collided = FALSE

FilesNext ==
  \/ \E p \in Processes : Read(p)
  \/ FinishLoad \/ Mutate \/ Unload
  \/ SaveBoard \/ ChooseSource \/ RewriteSource \/ Stage \/ Replace
  \/ Crash \/ Spoil

FilesSpec == FilesInit /\ [][FilesNext]_filesVars

-------------------------------------------------------------------------------
(* What must hold.                                                          *)

\* Types.
FilesTypeOK ==
  /\ {svg, backup, json} \subseteq Files \cup {NoFile}
  /\ quarantined \subseteq Files /\ collided \in BOOLEAN
  /\ board = NoBoard \/ (board \in Boards /\ board.persisted <= board.seq)
  /\ saving = NotSaving \/ (saving \in Saves /\ board # NoBoard /\ saving.seq <= board.seq)
  /\ \A p \in Processes : process[p].at # "idle" <=> process[p].seen # {}

\* Unless files were changed under somebody, a request, or a load, that runs among
\* saves, a repair and other requests answers what it would have answered alone at
\* some moment while it ran: no missing, mixed or outdated document, and an error only
\* for an unreadable one; and only unreadable files are moved away.
AnswersAreCurrent ==
  collided \/
    /\ \A p \in Processes : process[p].at = "done" => process[p].found \in process[p].seen
    /\ \A file \in quarantined : file.state # "good"

\* ... a loaded board and the files belong together, so that its next save finds the
\* file it expects and overwrites nothing it does not know.
Continues ==
  board # NoBoard /\ saving = NotSaving /\ spoilings = 0 =>
    LET stored == View("structure", svg, NoFile)
    IN IF svg = NoFile /\ json = NoFile THEN board.persisted = 0
       ELSE stored.seq = board.persisted /\ IsPrefix(stored.doc, board.doc)

BoardContinuesFile == collided \/ (FilesTypeOK /\ Continues)

\* ... what is stored is only ever extended: neither a save or a crash in the middle
\* of one, nor a repair or a migration, loses a document that could be loaded.
Stored == View("structure", svg, backup)
DocOf(file) == IF file \in {NoFile, Failed} THEN << >> ELSE file.doc

StoredOnlyExtended ==
  [][spoilings' = spoilings => collided' \/ IsPrefix(DocOf(Stored), DocOf(Stored'))]_filesVars

\* ... and a save that is not cut short by a crash stores the board, unless the SVG was
\* damaged.
SaveSucceeds ==
  [][saving # NotSaving /\ saving' = NotSaving /\ crashes' = crashes /\ spoilings = 0 =>
       collided' \/ (board' # NoBoard /\ board'.persisted = saving.seq)]_filesVars

\* The README: "Legacy JSON boards are migrated to SVG when loaded."  Then a load
\* brings up the drawing that is stored, whatever ran meanwhile.
LoadedIsStored ==
  [][board = NoBoard /\ board' # NoBoard => board'.doc = DocOf(Stored)]_filesVars
=============================================================================
