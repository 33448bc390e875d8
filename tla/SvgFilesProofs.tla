--------------------------- MODULE SvgFilesProofs ---------------------------
(***************************************************************************)
(* What SvgFiles' run checks with two requests, for any number of requests,*)
(* writes, crashes and damages to the SVG: until files are changed under   *)
(* somebody who goes by them, readers answer what they would have answered *)
(* alone, a save stores its board, and what is stored is only extended.    *)
(*                                                                         *)
(* The invariant says what each process knows of the files between two of  *)
(* its file operations (ProcessInv), that a staging file is newer than the *)
(* SVG and than the board (FilesInv, BoardInv), and that a save goes on    *)
(* from the file its board was last stored in (SaveInv).  A step that would*)
(* make any of this untrue sets `collided` (Collides).                     *)
(***************************************************************************)
EXTENDS SvgFiles, TLAPS, SequenceTheorems

-----------------------------------------------------------------------------
(* The invariant *)

Good == Accepts("structure", svg)
Prefix(s, t) == Len(s) <= Len(t) /\ \A k \in 1 .. Len(s) : s[k] = t[k]

ProcessStates ==
  [kind : {"none", "load"} \cup Requests,
   at : {"idle", "statSvg", "readSvg", "open", "statBackup", "readBackup", "quarantine",
         "promote", "migrate", "replaceMigrated", "done"},
   check : {"none", "structure", "root", "text", "path"}, error : BOOLEAN,
   path : {"svg", "backup"}, found : Files \cup {NoFile, Failed},
   seen : SUBSET (Files \cup {NoFile, Failed})]

FilesInv ==
  /\ {svg, backup, json} \subseteq Files \cup {NoFile}
  /\ quarantined \subseteq {file \in Files : file.state # "good"}
  /\ \A file \in {svg, backup, json} : file # NoFile => file.doc # << >> /\ file.seq <= writes
  /\ json # NoFile => json.seq = 0
  /\ \A file \in {backup, json} : file # NoFile => file.state = "good"
  /\ svg # NoFile /\ backup # NoFile => svg.seq < backup.seq
  /\ writes \in 0 .. MaxMutations /\ crashes \in Nat /\ spoilings \in Nat

\* What the process p, in the state q, knows of the SVG s, the staging file b and the
\* JSON file j.
Knows(p, q, s, b, j) ==
  /\ p = Loader <=> q.kind = "load"
  /\ p = Loader => q.check = "structure"
  /\ q.check # "none" /\ q.kind # "none" /\ q.path = "svg"
  /\ q.at \in {"statSvg", "readSvg"} => ~q.error
  /\ q.at = "statSvg" /\ q.check = "path" => s # NoFile \/ b = NoFile
  /\ q.at = "readSvg" => s # NoFile /\ q.check # "path"
  /\ q.at = "open" => s # NoFile /\ q.check = "path"
  /\ q.at \in {"statBackup", "readBackup", "quarantine", "promote"} => ~Accepts(q.check, s)
  /\ q.at \in {"statBackup", "readBackup"} => (q.error <=> s # NoFile)
  /\ q.at = "statBackup" /\ q.check = "path" => b = NoFile
  /\ q.at \in {"readBackup", "quarantine", "promote"} => b # NoFile /\ q.check # "path"
  /\ q.at = "quarantine" => s # NoFile
  /\ q.at \in {"quarantine", "promote"} => q.found = b
  /\ q.at \in {"migrate", "replaceMigrated"} => p = Loader /\ j # NoFile /\ s = NoFile
  /\ q.at = "migrate" => b = NoFile
  /\ q.at = "replaceMigrated" => b = j
  /\ p = Loader /\ q.at = "done" =>
       \/ q.found = Failed
       \/ q.found = NoFile /\ s = NoFile /\ b = NoFile /\ j = NoFile
       \/ q.found = s /\ Accepts("structure", s)

Answered(q) == q.at \in {"quarantine", "promote", "done"}

ProcessInv ==
  /\ process \in [Processes -> ProcessStates]
  /\ \A p \in Processes :
       IF process[p].at = "idle" THEN process[p] = Resting
       ELSE /\ Knows(p, process[p], svg, backup, json)
            /\ process[p].seen # {}
            /\ Answered(process[p]) => process[p].found \in process[p].seen

\* The board and its file.
BoardInv ==
  board # NoBoard =>
    /\ board \in Boards /\ board.persisted <= board.seq /\ board.seq <= writes
    /\ Loader \notin Busy
    /\ board.persisted # board.seq => board.doc # << >>
    /\ IF board.hasPersistedBaseline
       THEN /\ board.doc # << >>
            /\ spoilings = 0 => Good /\ svg.seq = board.persisted
            /\ svg # NoFile => svg.seq >= board.persisted
            /\ svg # NoFile /\ svg.seq = board.persisted => Prefix(svg.doc, board.doc)
            /\ backup # NoFile /\ (saving = NotSaving \/ saving.at # "replace") =>
                 backup.seq > board.persisted
       ELSE /\ svg = NoFile /\ json = NoFile /\ board.persisted = 0
            /\ saving = NotSaving \/ saving.at # "replace" => backup = NoFile

SaveInv ==
  saving # NotSaving =>
    /\ saving \in Saves /\ board # NoBoard
    /\ board.persisted < saving.seq /\ saving.seq <= board.seq
    /\ saving.doc # << >> /\ Prefix(saving.doc, board.doc)
    /\ IF board.hasPersistedBaseline
       THEN /\ svg # NoFile /\ svg.seq = board.persisted => Prefix(svg.doc, saving.doc)
            /\ saving.at \in {"stage", "replace"} => Good /\ svg.seq = board.persisted
            /\ saving.at = "rewrite" /\ spoilings = 0 => saving.source = "svg"
       ELSE saving.at \in {"stage", "replace"}
    /\ saving.at = "replace" => backup = File(saving.doc, saving.seq)

IInv == FilesInv /\ ProcessInv /\ BoardInv /\ SaveInv

\* ... until files are changed under somebody.
UntilCollided == collided \in BOOLEAN /\ (collided \/ IInv)

-----------------------------------------------------------------------------
(* Files and documents *)

\* What writing a file leaves (serializeStoredSvg and the rename): an intact file that
\* is not taken for a missing one.
LEMMA FileFacts ==
  ASSUME NEW doc \in Docs, NEW seq \in 0 .. MaxMutations
  PROVE  /\ File(doc, seq) \in Files /\ File(doc, seq) # NoFile
         /\ File(doc, seq).doc = doc /\ File(doc, seq).seq = seq
         /\ File(doc, seq).state = "good"
<1>1. File(doc, seq) \in Files
  BY DEF File, Files
<1> QED
  BY <1>1, FilesAssumption DEF File

\* A prefix as the community modules define it.
LEMMA PrefixIs ==
  ASSUME NEW s \in Docs, NEW t \in Docs, Prefix(s, t)
  PROVE  IsPrefix(s, t)
<1>1. PICK m \in Nat, n \in Nat : m = Len(s) /\ n = Len(t)
  BY LenProperties DEF Docs
<1>2. m <= n /\ \A k \in 1 .. m : s[k] = t[k]
  BY <1>1 DEF Prefix
<1>3. \A k \in 1 .. n : t[k] \in 0 .. MaxMutations
  BY <1>1, ElementOfSeq DEF Docs
<1>4. \A k \in 1 .. m : t[k] \in 0 .. MaxMutations
  BY <1>2, <1>3
<1>5. PICK u : u = SubSeq(t, 1, m)
  OBVIOUS
<1>6. u \in Docs /\ Len(u) = (IF 1 <= m THEN m - 1 + 1 ELSE 0)
      /\ \A k \in 1 .. m - 1 + 1 : u[k] = t[1 + k - 1]
  BY <1>4, <1>5, SubSeqProperties DEF Docs
<1>7. Len(u) = m /\ \A k \in 1 .. m : u[k] = t[k]
  BY <1>6
<1>8. u = s
  BY <1>1, <1>2, <1>6, <1>7, SeqEqual DEF Docs
<1>9. SubSeq(s, 1, m) = s
  BY <1>1, SubSeqFull DEF Docs
<1> QED
  BY <1>1, <1>2, <1>5, <1>8, <1>9 DEF IsPrefix

\* Being a prefix is reflexive and transitive, and the empty drawing is a prefix of
\* all.
LEMMA PrefixFacts ==
  /\ \A s \in Docs : Prefix(s, s) /\ Prefix(<< >>, s)
  /\ \A s, t, u \in Docs : Prefix(s, t) /\ Prefix(t, u) => Prefix(s, u)
<1>1. ASSUME NEW s \in Docs
      PROVE  Prefix(s, s) /\ Prefix(<< >>, s)
  <2>1. Len(s) \in Nat
    BY LenProperties DEF Docs
  <2>2. Len(<< >>) = 0 /\ 1 .. 0 = {}
    BY EmptySeq
  <2> QED
    BY <2>1, <2>2 DEF Prefix
<1>2. ASSUME NEW s \in Docs, NEW t \in Docs, NEW u \in Docs, Prefix(s, t), Prefix(t, u)
      PROVE  Prefix(s, u)
  <2>1. PICK l \in Nat, m \in Nat, n \in Nat : l = Len(s) /\ m = Len(t) /\ n = Len(u)
    BY LenProperties DEF Docs
  <2> QED
    BY <1>2, <2>1 DEF Prefix
<1> QED
  BY <1>1, <1>2

\* A mutation is appended to the document and changes nothing before it.
LEMMA PrefixAppend ==
  ASSUME NEW s \in Docs, NEW t \in Docs, Prefix(s, t), NEW w \in 0 .. MaxMutations
  PROVE  Append(t, w) \in Docs /\ Append(t, w) # << >> /\ Prefix(s, Append(t, w))
<1>1. PICK m \in Nat, n \in Nat : m = Len(s) /\ n = Len(t)
  BY LenProperties DEF Docs
<1>2. /\ Append(t, w) \in Docs /\ Append(t, w) # << >>
      /\ Len(Append(t, w)) = n + 1 /\ \A k \in 1 .. n : Append(t, w)[k] = t[k]
  BY <1>1, AppendProperties DEF Docs
<1> QED
  BY <1>1, <1>2 DEF Prefix

-----------------------------------------------------------------------------
(* Processes *)

\* What there is to see after the step.
Sight(q) == View(q.check, svg', backup')
After(q) == [q EXCEPT !.seen = q.seen \cup {Sight(q)}]

\* A process that sees more keeps all it has and knows (what a reader found stays found
\* while others go on).
LEMMA AfterFacts ==
  ASSUME FilesInv, FilesInv', NEW q \in ProcessStates
  PROVE  /\ After(q) \in ProcessStates
         /\ After(q).at = q.at /\ After(q).found = q.found
         /\ After(q).seen = q.seen \cup {Sight(q)}
         /\ \A p, s, b, j : Knows(p, q, s, b, j) => Knows(p, After(q), s, b, j)
<1>1. Sight(q) \in Files \cup {NoFile, Failed}
  <2>1. svg' \in Files \cup {NoFile} /\ backup' \in Files \cup {NoFile}
        /\ json \in Files \cup {NoFile}
    BY DEF FilesInv
  <2> QED
    BY <2>1 DEF Sight, View, Accepts
<1>2. PICK v \in Files \cup {NoFile, Failed} : v = Sight(q)
  BY <1>1
<1>3. PICK new : new = After(q)
  OBVIOUS
<1>4. /\ new \in ProcessStates /\ new.at = q.at /\ new.found = q.found
      /\ new.seen = q.seen \cup {v}
      /\ new.kind = q.kind /\ new.check = q.check /\ new.error = q.error
      /\ new.path = q.path
  BY <1>2, <1>3 DEF After, ProcessStates
<1>5. ASSUME NEW p, NEW s, NEW b, NEW j, Knows(p, q, s, b, j)
      PROVE  Knows(p, new, s, b, j)
  BY <1>4, <1>5 DEF Knows
<1> QED
  BY <1>2, <1>3, <1>4, <1>5

\* A request that was answered is a process of no kind.
LEMMA IdleFacts ==
  Resting \in ProcessStates /\ Resting.at = "idle"
BY DEF Resting, ProcessStates

\* What a step makes of each process: the busy ones see the files as they are now.
LEMMA WatchedIs ==
  ASSUME NEW ps \in [Processes -> ProcessStates], process' = Watched(ps),
         FilesInv, FilesInv', NEW p \in Processes
  PROVE  process'[p] = IF ps[p].at = "idle" THEN Resting ELSE After(ps[p])
BY DEF Watched, After, Sight

\* ... and all of them stay what processes may be.
LEMMA WatchedTyped ==
  ASSUME NEW ps \in [Processes -> ProcessStates], process' = Watched(ps),
         FilesInv, FilesInv'
  PROVE  process' \in [Processes -> ProcessStates]
<1>1. \A p \in Processes : (IF ps[p].at = "idle" THEN Resting ELSE After(ps[p])) \in ProcessStates
  BY AfterFacts, IdleFacts
<1>2. process' = [p \in Processes |-> IF ps[p].at = "idle" THEN Resting ELSE After(ps[p])]
  BY DEF Watched, After, Sight
<1> QED
  BY <1>1, <1>2

\* A reader that does not go by the files, and the load if it has found no staging file.
Apart(p, q) ==
  /\ q.at \in {"statSvg", "done"} /\ (q.at = "statSvg" => q.check # "path")
  /\ p = Loader => ~Good /\ backup # NoFile

\* A process that does nothing knows what it knew, if the files are the same, or the
\* SVG is intact before and after, or it does not go by them.
LEMMA StillKnows ==
  ASSUME NEW p \in Processes, NEW q \in ProcessStates, FilesInv, FilesInv', json' = json,
         Knows(p, q, svg, backup, json), q.at # "idle",
         \/ UNCHANGED <<svg, backup>>
         \/ Good /\ Good' /\ p # Loader
         \/ Apart(p, q)
  PROVE  Knows(p, q, svg', backup', json')
<1>1. CASE UNCHANGED <<svg, backup>>
  BY <1>1
<1>2. CASE Good /\ Good' /\ p # Loader
  <2>1. /\ svg # NoFile /\ svg' # NoFile /\ Accepts(q.check, svg)
    BY <1>2 DEF Good, Accepts
  <2> QED
    BY <1>2, <2>1 DEF Knows
<1>3. CASE Apart(p, q)
  BY <1>3 DEF Knows, Apart, Good
<1> QED
  BY <1>1, <1>2, <1>3

OtherInv(p) ==
  IF process[p].at = "idle" THEN process[p] = Resting
  ELSE /\ Knows(p, process[p], svg, backup, json)
       /\ process[p].seen # {}
       /\ Answered(process[p]) => process[p].found \in process[p].seen

\* ... so a process that does nothing itself keeps its part of the invariant.
LEMMA OtherKept ==
  ASSUME FilesInv, FilesInv', ProcessInv, NEW p \in Processes, json' = json,
         \/ UNCHANGED <<svg, backup>>
         \/ Good /\ Good' /\ p # Loader
         \/ process[p].at = "idle"
         \/ Apart(p, process[p]),
         process'[p] = IF process[p].at = "idle" THEN Resting ELSE After(process[p])
  PROVE  OtherInv(p)' /\ process'[p].at = process[p].at
<1>1. process[p] \in ProcessStates /\ OtherInv(p)
  BY DEF ProcessInv, OtherInv
<1>2. CASE process[p].at = "idle"
  BY <1>2, IdleFacts DEF OtherInv
<1>3. CASE process[p].at # "idle"
  <2>1. PICK q \in ProcessStates : q = process[p]
    BY <1>1
  <2>2. PICK new : new = After(q)
    OBVIOUS
  <2>3. Knows(p, q, svg, backup, json) /\ q.seen # {} /\ (Answered(q) => q.found \in q.seen)
    BY <1>1, <1>3, <2>1 DEF OtherInv
  <2>4. Knows(p, q, svg', backup', json')
    BY <1>3, <2>1, <2>3, StillKnows
  <2>5. /\ Knows(p, new, svg', backup', json') /\ new.at = q.at /\ new.found = q.found
        /\ new.seen = q.seen \cup {Sight(q)}
    BY <2>2, <2>4, AfterFacts
  <2>6. process'[p] = new
    BY <1>3, <2>1, <2>2
  <2>7. Answered(new) => new.found \in new.seen
    BY <2>3, <2>5 DEF Answered
  <2> QED
    BY <1>3, <2>1, <2>3, <2>5, <2>6, <2>7 DEF OtherInv
<1> QED
  BY <1>2, <1>3

\* Nobody but the server does anything.
LEMMA OthersKept ==
  ASSUME FilesInv, FilesInv', ProcessInv, json' = json, Others,
         \/ UNCHANGED <<svg, backup>>
         \/ Good /\ Good' /\ Loader \notin Busy
         \/ Loader \notin Busy /\ \A p \in Processes : ~GoesByFiles(p)
  PROVE  ProcessInv' /\ Busy' = Busy
<1>1. process \in [Processes -> ProcessStates] /\ process' = Watched(process)
  BY DEF ProcessInv, Others, Goes
<1>2. \A p \in Processes :
        process'[p] = IF process[p].at = "idle" THEN Resting ELSE After(process[p])
  BY <1>1, WatchedIs
<1>3. ASSUME NEW p \in Processes
      PROVE  OtherInv(p)' /\ process'[p].at = process[p].at
  <2>1. process[p].at # "idle" /\ ~GoesByFiles(p) /\ Loader \notin Busy => Apart(p, process[p])
    BY DEF Apart, GoesByFiles, Busy
  <2> QED
    BY <1>2, <2>1, OtherKept DEF Busy
<1>4. process' \in [Processes -> ProcessStates]
  BY <1>1, WatchedTyped
<1>5. ProcessInv'
  BY <1>3, <1>4 DEF ProcessInv, OtherInv
<1>6. Busy' = Busy
  BY <1>3 DEF Busy
<1> QED
  BY <1>5, <1>6

\* The process p goes on in the state q.
LEMMA GoStep ==
  ASSUME FilesInv, FilesInv', ProcessInv, json' = json,
         NEW p \in Processes, NEW q \in ProcessStates, Go(p, q), q.at # "idle",
         \/ UNCHANGED <<svg, backup>>
         \/ \A r \in Processes \ {p} : ~GoesByFiles(r) /\ (r = Loader => ~Good /\ backup # NoFile),
         Knows(p, q, svg', backup', json'),
         Answered(q) => q.found \in q.seen \cup {Sight(q)}
  PROVE  ProcessInv' /\ Busy' = Busy \cup {p}
<1>1. PICK ps : ps = [process EXCEPT ![p] = q]
  OBVIOUS
<1>2. /\ ps \in [Processes -> ProcessStates] /\ process' = Watched(ps) /\ ps[p] = q
      /\ \A r \in Processes \ {p} : ps[r] = process[r]
  BY <1>1 DEF ProcessInv, Go, Goes
<1>3. \A r \in Processes :
        process'[r] = IF ps[r].at = "idle" THEN Resting ELSE After(ps[r])
  BY <1>2, WatchedIs
<1>4. ASSUME NEW r \in Processes \ {p}
      PROVE  OtherInv(r)' /\ process'[r].at = process[r].at
  <2>1. process'[r] = IF process[r].at = "idle" THEN Resting ELSE After(process[r])
    BY <1>2, <1>3
  <2>2. UNCHANGED <<svg, backup>> \/ process[r].at = "idle" \/ Apart(r, process[r])
    BY DEF Apart, GoesByFiles
  <2> QED
    BY <2>1, <2>2, OtherKept
<1>5. OtherInv(p)' /\ process'[p].at = q.at
  <2>1. PICK new : new = After(q)
    OBVIOUS
  <2>2. process'[p] = new
    BY <1>2, <1>3, <2>1
  <2>3. /\ Knows(p, new, svg', backup', json') /\ new.at = q.at /\ new.found = q.found
        /\ new.seen = q.seen \cup {Sight(q)}
    BY <2>1, AfterFacts
  <2>4. Answered(new) => new.found \in new.seen
    BY <2>3 DEF Answered
  <2> QED
    BY <2>2, <2>3, <2>4 DEF OtherInv
<1>6. process' \in [Processes -> ProcessStates]
  BY <1>2, WatchedTyped
<1>7. ProcessInv'
  BY <1>4, <1>5, <1>6 DEF ProcessInv, OtherInv
<1>8. Busy' = Busy \cup {p}
  BY <1>4, <1>5 DEF Busy
<1> QED
  BY <1>7, <1>8

\* It is done.
LEMMA IdleStep ==
  ASSUME FilesInv, FilesInv', ProcessInv, UNCHANGED files, NEW p \in Processes, Go(p, Resting)
  PROVE  ProcessInv' /\ Busy' = Busy \ {p}
<1>1. PICK ps : ps = [process EXCEPT ![p] = Resting]
  OBVIOUS
<1>2. /\ ps \in [Processes -> ProcessStates] /\ process' = Watched(ps) /\ ps[p] = Resting
      /\ \A r \in Processes \ {p} : ps[r] = process[r]
  BY <1>1, IdleFacts DEF ProcessInv, Go, Goes
<1>3. \A r \in Processes :
        process'[r] = IF ps[r].at = "idle" THEN Resting ELSE After(ps[r])
  BY <1>2, WatchedIs
<1>4. UNCHANGED <<svg, backup, json>>
  BY DEF files
<1>5. ASSUME NEW r \in Processes \ {p}
      PROVE  OtherInv(r)' /\ process'[r].at = process[r].at
  <2>1. process'[r] = IF process[r].at = "idle" THEN Resting ELSE After(process[r])
    BY <1>2, <1>3
  <2> QED
    BY <1>4, <2>1, OtherKept
<1>6. process'[p] = Resting /\ Resting.at = "idle"
  BY <1>2, <1>3, IdleFacts
<1>7. process' \in [Processes -> ProcessStates]
  BY <1>2, WatchedTyped
<1>8. ProcessInv'
  BY <1>5, <1>6, <1>7 DEF ProcessInv, OtherInv
<1>9. Busy' = Busy \ {p}
  BY <1>5, <1>6 DEF Busy
<1> QED
  BY <1>8, <1>9

-----------------------------------------------------------------------------
(* Reading *)

\* A step that touches no file leaves the files sound.
LEMMA FilesSame ==
  ASSUME FilesInv, UNCHANGED <<files, counters>>
  PROVE  FilesInv'
BY DEF FilesInv, files, counters

\* A step that touches no file.
LEMMA Untouched ==
  ASSUME IInv, UNCHANGED <<files, board, saving, counters>>, ProcessInv', Busy' \subseteq Busy
  PROVE  IInv'
<1>1. UNCHANGED <<svg, backup, json, quarantined, writes, crashes, spoilings, board, saving>>
  BY DEF files, counters
<1>2. FilesInv' /\ Good' = Good
  BY <1>1, FilesSame DEF IInv, Good, Accepts
<1>3. BoardInv'
  BY <1>1, <1>2 DEF IInv, BoardInv
<1>4. SaveInv'
  BY <1>1, <1>2 DEF IInv, SaveInv
<1> QED
  BY <1>2, <1>3, <1>4 DEF IInv

\* What p knows before its step.
LEMMA StepFacts ==
  ASSUME IInv, NEW p \in Processes, NEW at, at # "idle", Step(p, at)
  PROVE  /\ process[p] \in ProcessStates /\ process[p].at = at /\ p \in Busy
         /\ Knows(p, process[p], svg, backup, json)
         /\ process[p].seen # {}
         /\ Answered(process[p]) => process[p].found \in process[p].seen
         /\ UNCHANGED <<board, saving, counters>>
BY DEF IInv, ProcessInv, Step, Busy

\* p reads on without touching a file.
LEMMA ReadOn ==
  ASSUME IInv, NEW p \in Processes, p \in Busy, UNCHANGED <<files, board, saving, counters>>,
         NEW q \in ProcessStates, Go(p, q), q.at # "idle",
         Knows(p, q, svg, backup, json),
         Answered(q) => q.found \in q.seen \cup {View(q.check, svg, backup)}
  PROVE  IInv'
<1>1. UNCHANGED <<svg, backup, json>> /\ FilesInv'
  BY FilesSame DEF IInv, files
<1>2. Sight(q) = View(q.check, svg, backup)
  BY <1>1 DEF Sight
<1>3. ProcessInv' /\ Busy' = Busy \cup {p}
  BY <1>1, <1>2, GoStep DEF IInv
<1> QED
  BY <1>3, Untouched

\* The state in which a reader starts (readStoredSvgWithFallback).
LEMMA ReadingFacts ==
  ASSUME NEW kind \in {"load"} \cup Requests, NEW check \in {"structure", "root", "text", "path"}
  PROVE  LET q == Reading(kind, check)
         IN  /\ q \in ProcessStates /\ q.kind = kind /\ q.check = check
             /\ q.at = "statSvg" /\ q.error = FALSE /\ q.path = "svg"
BY DEF Reading, Resting, ProcessStates

\* The state in which a reader ends, its answer in hand.
LEMMA DoneFacts ==
  ASSUME NEW q \in ProcessStates, NEW found \in Files \cup {NoFile, Failed}
  PROVE  LET d == Done(q, found)
         IN  /\ d \in ProcessStates /\ d.kind = q.kind /\ d.check = q.check
             /\ d.at = "done" /\ d.found = found /\ d.path = q.path /\ d.seen = q.seen
BY DEF Done, ProcessStates

\* The stat of the SVG keeps the invariant.
LEMMA StatSvgStep ==
  ASSUME IInv, NEW p \in Processes, StatSvg(p)
  PROVE  IInv'
<1>1. PICK q \in ProcessStates : q = process[p]
  BY DEF IInv, ProcessInv
<1>2. /\ q.at = "statSvg" /\ p \in Busy /\ Knows(p, q, svg, backup, json)
      /\ UNCHANGED <<files, board, saving, counters>>
  <2>1. Step(p, "statSvg") /\ UNCHANGED files
    BY DEF StatSvg
  <2> QED
    BY <1>1, <2>1, StepFacts
<1>3. PICK at \in {"statBackup", "open", "readSvg"} :
        at = (IF svg = NoFile THEN "statBackup" ELSE IF q.check = "path" THEN "open" ELSE "readSvg")
  OBVIOUS
<1>4. PICK new : new = [q EXCEPT !.at = at]
  OBVIOUS
<1>5. Go(p, new)
  BY <1>1, <1>3, <1>4 DEF StatSvg
<1>6. /\ new \in ProcessStates /\ new.at = at /\ new.kind = q.kind /\ new.check = q.check
      /\ new.error = q.error /\ new.path = q.path /\ new.seen = q.seen
  BY <1>4 DEF ProcessStates
<1>7. Knows(p, new, svg, backup, json)
  BY <1>2, <1>3, <1>6 DEF Knows, Accepts
<1> QED
  BY <1>2, <1>3, <1>5, <1>6, <1>7, ReadOn DEF Answered

\* ... so does reading it, whether it is accepted or not,
LEMMA ReadSvgStep ==
  ASSUME IInv, NEW p \in Processes, ReadSvg(p)
  PROVE  IInv'
<1>1. PICK q \in ProcessStates : q = process[p]
  BY DEF IInv, ProcessInv
<1>2. /\ q.at = "readSvg" /\ p \in Busy /\ Knows(p, q, svg, backup, json)
      /\ UNCHANGED <<files, board, saving, counters>>
  <2>1. Step(p, "readSvg") /\ UNCHANGED files
    BY DEF ReadSvg
  <2> QED
    BY <1>1, <2>1, StepFacts
<1>3. svg \in Files /\ svg # NoFile /\ svg # Failed /\ q.check # "path"
  BY <1>2, FilesAssumption DEF Knows, IInv, FilesInv
<1>4. CASE ~Accepts(q.check, svg)
  <2>1. PICK new : new = [q EXCEPT !.at = "statBackup", !.error = TRUE]
    OBVIOUS
  <2>2. Go(p, new)
    BY <1>1, <1>4, <2>1 DEF ReadSvg
  <2>3. /\ new \in ProcessStates /\ new.at = "statBackup" /\ new.kind = q.kind
        /\ new.check = q.check /\ new.error = TRUE /\ new.path = q.path
    BY <2>1 DEF ProcessStates
  <2>4. Knows(p, new, svg, backup, json)
    BY <1>2, <1>3, <1>4, <2>3 DEF Knows
  <2> QED
    BY <1>2, <2>2, <2>3, <2>4, ReadOn DEF Answered
<1>5. CASE Accepts(q.check, svg) /\ q.check = "root"
  <2>1. PICK new : new = Reading(q.kind, "path")
    OBVIOUS
  <2>2. Go(p, new)
    BY <1>1, <1>3, <1>5, <2>1 DEF ReadSvg, Returned
  <2>3. q.kind \in {"load"} \cup Requests
    BY <1>2 DEF Knows, ProcessStates
  <2>4. /\ new \in ProcessStates /\ new.at = "statSvg" /\ new.kind = q.kind
        /\ new.check = "path" /\ new.error = FALSE /\ new.path = "svg"
    BY <2>1, <2>3, ReadingFacts
  <2>5. Knows(p, new, svg, backup, json)
    BY <1>2, <1>3, <1>5, <2>4 DEF Knows
  <2> QED
    BY <1>2, <2>2, <2>4, <2>5, ReadOn DEF Answered
<1>6. CASE Accepts(q.check, svg) /\ q.check # "root"
  <2>1. PICK new : new = Done(q, svg)
    OBVIOUS
  <2>2. Go(p, new)
    BY <1>1, <1>3, <1>6, <2>1 DEF ReadSvg, Returned
  <2>3. /\ new \in ProcessStates /\ new.at = "done" /\ new.kind = q.kind
        /\ new.check = q.check /\ new.found = svg /\ new.path = q.path
    BY <1>3, <2>1, DoneFacts
  <2>4. Knows(p, new, svg, backup, json)
    BY <1>2, <1>6, <2>3 DEF Knows
  <2>5. View(new.check, svg, backup) = svg
    BY <1>3, <1>6, <2>3 DEF View
  <2> QED
    BY <1>2, <2>2, <2>3, <2>4, <2>5, ReadOn
<1> QED
  BY <1>4, <1>5, <1>6

\* ... the stat of the staging file, whether it is there or nothing is,
LEMMA StatBackupStep ==
  ASSUME IInv, NEW p \in Processes, StatBackup(p)
  PROVE  IInv'
<1>1. PICK q \in ProcessStates : q = process[p]
  BY DEF IInv, ProcessInv
<1>2. /\ q.at = "statBackup" /\ p \in Busy /\ Knows(p, q, svg, backup, json)
      /\ UNCHANGED <<files, board, saving, counters>>
  <2>1. Step(p, "statBackup") /\ UNCHANGED files
    BY DEF StatBackup
  <2> QED
    BY <1>1, <2>1, StepFacts
<1>3. ~Accepts(q.check, svg) /\ (q.error <=> svg # NoFile)
      /\ (q.check = "path" => backup = NoFile)
  BY <1>2 DEF Knows
<1>4. q.kind \in {"load"} \cup Requests /\ (q.kind = "load" => q.check = "structure")
      /\ json \in Files \cup {NoFile}
  BY <1>2 DEF Knows, ProcessStates, IInv, FilesInv
<1>5. CASE backup # NoFile
  <2>1. PICK new : new = [q EXCEPT !.at = "readBackup"]
    OBVIOUS
  <2>2. Go(p, new)
    BY <1>1, <1>3, <1>5, <2>1 DEF StatBackup
  <2>3. /\ new \in ProcessStates /\ new.at = "readBackup" /\ new.kind = q.kind
        /\ new.check = q.check /\ new.error = q.error /\ new.path = q.path
    BY <2>1 DEF ProcessStates
  <2>4. Knows(p, new, svg, backup, json)
    BY <1>2, <1>3, <1>5, <2>3 DEF Knows
  <2> QED
    BY <1>2, <2>2, <2>3, <2>4, ReadOn DEF Answered
<1>6. CASE backup = NoFile /\ q.error
  <2>1. PICK new : new = Done(q, Failed)
    OBVIOUS
  <2>2. Go(p, new)
    BY <1>1, <1>6, <2>1 DEF StatBackup
  <2>3. /\ new \in ProcessStates /\ new.at = "done" /\ new.kind = q.kind
        /\ new.check = q.check /\ new.found = Failed /\ new.path = q.path
    BY <2>1, DoneFacts
  <2>4. Knows(p, new, svg, backup, json)
    BY <1>2, <2>3 DEF Knows
  <2>5. View(new.check, svg, backup) = Failed
    BY <1>3, <1>6, <2>3 DEF View
  <2> QED
    BY <1>2, <2>2, <2>3, <2>4, <2>5, ReadOn
<1>7. CASE backup = NoFile /\ ~q.error
  <2>0. svg = NoFile /\ Go(p, NothingThere(q))
    BY <1>1, <1>3, <1>7 DEF StatBackup
  <2>1. CASE q.kind = "load" /\ json # NoFile
    <3>1. PICK new : new = [q EXCEPT !.at = "migrate"]
      OBVIOUS
    <3>2. Go(p, new)
      BY <1>4, <2>0, <2>1, <3>1 DEF NothingThere
    <3>3. /\ new \in ProcessStates /\ new.at = "migrate" /\ new.kind = q.kind
          /\ new.check = q.check /\ new.error = q.error /\ new.path = q.path
      BY <3>1 DEF ProcessStates
    <3>4. Knows(p, new, svg, backup, json)
      BY <1>2, <1>7, <2>0, <2>1, <3>3 DEF Knows
    <3> QED
      BY <1>2, <3>2, <3>3, <3>4, ReadOn DEF Answered
  <2>2. CASE q.kind = "baseline" /\ q.check = "root"
    <3>1. PICK new : new = Reading(q.kind, "path")
      OBVIOUS
    <3>2. Go(p, new)
      BY <2>0, <2>2, <3>1 DEF NothingThere
    <3>3. /\ new \in ProcessStates /\ new.at = "statSvg" /\ new.kind = q.kind
          /\ new.check = "path" /\ new.error = FALSE /\ new.path = "svg"
      BY <1>4, <3>1, ReadingFacts
    <3>4. Knows(p, new, svg, backup, json)
      BY <1>2, <1>7, <2>2, <3>3 DEF Knows
    <3> QED
      BY <1>2, <3>2, <3>3, <3>4, ReadOn DEF Answered
  <2>3. CASE q.check = "path"
    <3>1. PICK new : new = Reading(q.kind, "text")
      OBVIOUS
    <3>2. Go(p, new)
      BY <1>4, <2>0, <2>3, <3>1 DEF NothingThere
    <3>3. /\ new \in ProcessStates /\ new.at = "statSvg" /\ new.kind = q.kind
          /\ new.check = "text" /\ new.error = FALSE /\ new.path = "svg"
      BY <1>4, <3>1, ReadingFacts
    <3>4. Knows(p, new, svg, backup, json)
      BY <1>2, <1>4, <2>3, <3>3 DEF Knows
    <3> QED
      BY <1>2, <3>2, <3>3, <3>4, ReadOn DEF Answered
  <2>4. CASE ~(q.kind = "load" /\ json # NoFile) /\ q.check # "path"
             /\ ~(q.kind = "baseline" /\ q.check = "root")
    <3>1. PICK new : new = Done(q, json)
      OBVIOUS
    <3>2. Go(p, new)
      BY <2>0, <2>4, <3>1 DEF NothingThere
    <3>3. /\ new \in ProcessStates /\ new.at = "done" /\ new.kind = q.kind
          /\ new.check = q.check /\ new.found = json /\ new.path = q.path
      BY <1>4, <3>1, DoneFacts
    <3>4. Knows(p, new, svg, backup, json)
      BY <1>2, <1>7, <2>0, <2>4, <3>3 DEF Knows
    <3>5. View(new.check, svg, backup) = json
      BY <1>7, <2>0 DEF View, Accepts
    <3> QED
      BY <1>2, <3>2, <3>3, <3>4, <3>5, ReadOn
  <2> QED
    BY <2>1, <2>2, <2>3, <2>4
<1> QED
  BY <1>5, <1>6, <1>7

\* ... reading the staging file,
LEMMA ReadBackupStep ==
  ASSUME IInv, NEW p \in Processes, ReadBackup(p)
  PROVE  IInv'
<1>1. PICK q \in ProcessStates : q = process[p]
  BY DEF IInv, ProcessInv
<1>2. /\ q.at = "readBackup" /\ p \in Busy /\ Knows(p, q, svg, backup, json)
      /\ UNCHANGED <<files, board, saving, counters>>
  <2>1. Step(p, "readBackup") /\ UNCHANGED files
    BY DEF ReadBackup
  <2> QED
    BY <1>1, <2>1, StepFacts
<1>3. /\ ~Accepts(q.check, svg) /\ (q.error <=> svg # NoFile)
      /\ backup # NoFile /\ q.check # "path"
  BY <1>2 DEF Knows
<1>4. Accepts(q.check, backup) /\ backup \in Files
  BY <1>3 DEF Accepts, IInv, FilesInv
<1>5. PICK at \in {"quarantine", "promote"} : at = (IF q.error THEN "quarantine" ELSE "promote")
  OBVIOUS
<1>6. PICK new : new = [q EXCEPT !.at = at, !.found = backup]
  OBVIOUS
<1>7. Go(p, new)
  BY <1>1, <1>4, <1>5, <1>6 DEF ReadBackup
<1>8. /\ new \in ProcessStates /\ new.at = at /\ new.kind = q.kind /\ new.found = backup
      /\ new.check = q.check /\ new.error = q.error /\ new.path = q.path
  BY <1>4, <1>6 DEF ProcessStates
<1>9. Knows(p, new, svg, backup, json)
  BY <1>2, <1>3, <1>5, <1>8 DEF Knows
<1>10. View(new.check, svg, backup) = backup
  BY <1>3, <1>8 DEF View
<1> QED
  BY <1>2, <1>5, <1>7, <1>8, <1>9, <1>10, ReadOn

\* ... opening the stream,
LEMMA OpenStep ==
  ASSUME IInv, NEW p \in Processes, OpenFound(p)
  PROVE  IInv'
<1>1. PICK q \in ProcessStates : q = process[p]
  BY DEF IInv, ProcessInv
<1>2. /\ q.at = "open" /\ p \in Busy /\ Knows(p, q, svg, backup, json)
      /\ UNCHANGED <<files, board, saving, counters>>
  <2>1. Step(p, "open") /\ UNCHANGED files
    BY DEF OpenFound
  <2> QED
    BY <1>1, <2>1, StepFacts
<1>3. svg \in Files /\ svg # NoFile /\ q.check = "path" /\ q.path = "svg"
  BY <1>2 DEF Knows, IInv, FilesInv
<1>4. PICK new : new = Done(q, svg)
  OBVIOUS
<1>5. Go(p, new)
  BY <1>1, <1>3, <1>4 DEF OpenFound
<1>6. /\ new \in ProcessStates /\ new.at = "done" /\ new.kind = q.kind
      /\ new.check = q.check /\ new.found = svg /\ new.path = q.path
  BY <1>3, <1>4, DoneFacts
<1>7. Knows(p, new, svg, backup, json)
  BY <1>2, <1>3, <1>6 DEF Knows, Accepts
<1>8. View(new.check, svg, backup) = svg
  BY <1>3, <1>6 DEF View, Accepts
<1> QED
  BY <1>2, <1>5, <1>6, <1>7, <1>8, ReadOn

\* ... the answer to the request,
LEMMA AnswerStep ==
  ASSUME IInv, NEW p \in Processes, Answer(p)
  PROVE  IInv'
<1>1. UNCHANGED <<files, board, saving, counters>> /\ Go(p, Resting)
  BY DEF Answer, Step
<1>2. ProcessInv' /\ Busy' = Busy \ {p}
  BY <1>1, IdleStep, FilesSame DEF IInv
<1> QED
  BY <1>1, <1>2, Untouched

\* ... and the start of a request or of the load, which knows nothing yet.
LEMMA BeginStep ==
  ASSUME IInv, NEW p \in Processes, BeginRead(p)
  PROVE  IInv'
<1>1. /\ process[p].at = "idle" /\ UNCHANGED <<files, board, saving, counters>>
      /\ p = Loader => board = NoBoard
  BY DEF BeginRead
<1>2. PICK kind \in {"load"} \cup Requests, check \in {"structure", "root", "text", "path"} :
        /\ Go(p, Reading(kind, check)) /\ check # "path"
        /\ p = Loader => kind = "load" /\ check = "structure"
        /\ p # Loader => kind \in Requests
  <2>1. CASE p = Loader
    BY <2>1 DEF BeginRead
  <2>2. CASE p # Loader
    <3>1. PICK kind \in Requests :
            Go(p, Reading(kind, IF kind = "download" THEN "text" ELSE "root"))
      BY <2>2 DEF BeginRead
    <3>2. PICK check \in {"structure", "root", "text", "path"} :
            check = (IF kind = "download" THEN "text" ELSE "root") /\ check # "path"
      OBVIOUS
    <3> QED
      BY <2>2, <3>1, <3>2
  <2> QED
    BY <2>1, <2>2
<1>3. PICK q : q = Reading(kind, check)
  OBVIOUS
<1>4. /\ q \in ProcessStates /\ q.kind = kind /\ q.check = check
      /\ q.at = "statSvg" /\ q.error = FALSE /\ q.path = "svg"
  BY <1>3 DEF Reading, Resting, ProcessStates
<1>5. UNCHANGED <<svg, backup, json>> /\ FilesInv'
  BY <1>1, FilesSame DEF IInv, files
<1>6. Knows(p, q, svg', backup', json')
  BY <1>2, <1>4 DEF Knows, Requests
<1>7. ProcessInv' /\ Busy' = Busy \cup {p}
  BY <1>2, <1>3, <1>4, <1>5, <1>6, GoStep DEF IInv, Answered
<1>8. Good' = Good /\ UNCHANGED <<board, saving, writes, spoilings>>
  BY <1>1, <1>5 DEF Good, Accepts, counters
<1>9. BoardInv'
  BY <1>1, <1>5, <1>7, <1>8 DEF IInv, BoardInv
<1>10. SaveInv'
  BY <1>5, <1>8 DEF IInv, SaveInv
<1> QED
  BY <1>5, <1>7, <1>9, <1>10 DEF IInv

-----------------------------------------------------------------------------
(* Repairs *)

\* A step that collides with nobody.
LEMMA NoCollision ==
  ASSUME NEW ps, Goes(ps), ~collided'
  PROVE  ~Collides
BY Zenon DEF Goes

\* Who repairs or migrates is the only one to go by the files.
LEMMA RepairsAlone ==
  ASSUME NEW p \in Processes, GoesByFiles(p), ~Good, NEW q, Go(p, q), ~collided',
         svg' # svg \/ backup' # backup, UNCHANGED counters
  PROVE  saving = NotSaving /\ \A r \in Processes \ {p} : ~GoesByFiles(r)
<1>1. ~Collides
  BY NoCollision DEF Go
<1>2. <<svg, backup>>' # <<svg, backup>> /\ spoilings' = spoilings
  BY DEF counters
<1> QED
  BY <1>1, <1>2 DEF Collides, Good

\* The board while somebody else changes the files: it was not written to what is there.
LEMMA BoardWaits ==
  ASSUME IInv, ~Good, saving = NotSaving, backup # NoFile, board # NoBoard,
         UNCHANGED <<board, saving, writes, spoilings, json>>, Busy' = Busy,
         \/ svg' = NoFile /\ backup' = backup
         \/ svg' = backup /\ backup' = NoFile
  PROVE  BoardInv'
<1>1. board.hasPersistedBaseline
  BY DEF IInv, BoardInv
<1>2. /\ spoilings # 0 /\ backup.seq > board.persisted /\ board.doc # << >>
      /\ board \in Boards /\ board.persisted <= board.seq /\ board.seq <= writes
      /\ Loader \notin Busy /\ (board.persisted # board.seq => board.doc # << >>)
  BY <1>1 DEF IInv, BoardInv
<1>3. backup.seq \in Nat /\ board.persisted \in Nat
  BY <1>2 DEF IInv, FilesInv, Files, Boards
<1> QED
  BY <1>1, <1>2, <1>3 DEF BoardInv

\* Moving an unreadable SVG away keeps the invariant: no board or save relies on it.
LEMMA QuarantineStep ==
  ASSUME IInv, ~collided', NEW p \in Processes, Quarantine(p)
  PROVE  IInv'
<1>1. PICK q \in ProcessStates : q = process[p]
  BY DEF IInv, ProcessInv
<1>2. /\ q.at = "quarantine" /\ p \in Busy /\ Knows(p, q, svg, backup, json)
      /\ Answered(q) => q.found \in q.seen
      /\ UNCHANGED <<board, saving, counters>>
  <2>1. Step(p, "quarantine")
    BY DEF Quarantine
  <2> QED
    BY <1>1, <2>1, StepFacts
<1>3. /\ ~Accepts(q.check, svg) /\ svg # NoFile /\ backup # NoFile /\ q.found = backup
      /\ q.check # "path" /\ q.check # "none" /\ q.found \in q.seen
  BY <1>2 DEF Knows, Answered
<1>4. svg \in Files /\ svg.state # "good"
  BY <1>3 DEF Accepts, IInv, FilesInv, Files, ProcessStates
<1>5. ~Good
  BY <1>4 DEF Good, Accepts
<1>6. GoesByFiles(p)
  BY <1>1, <1>2 DEF GoesByFiles
<1>7. PICK new : new = [q EXCEPT !.at = "promote"]
  OBVIOUS
<1>8. Go(p, new)
  BY <1>1, <1>7 DEF Quarantine
<1>9. /\ new \in ProcessStates /\ new.at = "promote" /\ new.kind = q.kind
      /\ new.check = q.check /\ new.found = q.found /\ new.path = q.path /\ new.seen = q.seen
  BY <1>7 DEF ProcessStates
<1>10. CASE UNCHANGED files
  <2>1. Knows(p, new, svg, backup, json)
    BY <1>2, <1>3, <1>9 DEF Knows
  <2> QED
    BY <1>2, <1>3, <1>8, <1>9, <1>10, <2>1, ReadOn
<1>11. CASE /\ svg' = NoFile /\ quarantined' = quarantined \cup {svg}
            /\ UNCHANGED <<backup, json>>
  <2>1. FilesInv'
    BY <1>2, <1>4, <1>11 DEF IInv, FilesInv, counters
  <2>2. Knows(p, new, svg', backup', json')
    BY <1>2, <1>3, <1>9, <1>11 DEF Knows, Accepts
  <2>6. saving = NotSaving /\ \A r \in Processes \ {p} : ~GoesByFiles(r)
    BY <1>2, <1>3, <1>5, <1>6, <1>8, <1>11, RepairsAlone
  <2>3. ProcessInv' /\ Busy' = Busy
    BY <1>2, <1>3, <1>5, <1>8, <1>9, <1>11, <2>1, <2>2, <2>6, GoStep DEF IInv
  <2>4. SaveInv'
    BY <1>2, <2>6 DEF SaveInv
  <2>5. BoardInv'
    <3>1. CASE board = NoBoard
      BY <1>2, <3>1 DEF BoardInv
    <3>2. CASE board # NoBoard
      BY <1>2, <1>3, <1>5, <1>11, <2>3, <2>6, <3>2, BoardWaits DEF counters
    <3> QED
      BY <3>1, <3>2
  <2> QED
    BY <2>1, <2>3, <2>4, <2>5 DEF IInv
<1> QED
  BY <1>10, <1>11 DEF Quarantine

\* ... so does promoting the staging file, which is newer than the SVG,
LEMMA PromoteStep ==
  ASSUME IInv, ~collided', NEW p \in Processes, Promote(p)
  PROVE  IInv'
<1>1. PICK q \in ProcessStates : q = process[p]
  BY DEF IInv, ProcessInv
<1>2. /\ q.at = "promote" /\ p \in Busy /\ Knows(p, q, svg, backup, json)
      /\ Answered(q) => q.found \in q.seen
      /\ UNCHANGED <<board, saving, counters>>
  <2>1. Step(p, "promote")
    BY DEF Promote
  <2> QED
    BY <1>1, <2>1, StepFacts
<1>3. /\ ~Accepts(q.check, svg) /\ backup # NoFile /\ q.found = backup
      /\ q.check # "path" /\ q.found \in q.seen /\ q.path = "svg"
      /\ (p = Loader <=> q.kind = "load") /\ (p = Loader => q.check = "structure")
      /\ q.check # "none" /\ q.kind # "none"
  BY <1>2 DEF Knows, Answered
<1>4. backup \in Files /\ backup.state = "good" /\ backup # Failed
  BY <1>3, FilesAssumption DEF IInv, FilesInv
<1>5. ~Good
  BY <1>3 DEF Good, Accepts
<1>7. svg' = backup /\ backup' = NoFile /\ UNCHANGED <<quarantined, json>>
      /\ Go(p, Returned(q, backup))
  BY <1>1, <1>3 DEF Promote
<1>6. saving = NotSaving /\ \A r \in Processes \ {p} : ~GoesByFiles(r)
  <2>1. GoesByFiles(p)
    BY <1>1, <1>2 DEF GoesByFiles
  <2> QED
    BY <1>2, <1>3, <1>5, <1>7, <2>1, RepairsAlone
<1>8. FilesInv' /\ Good'
  BY <1>2, <1>3, <1>4, <1>7 DEF IInv, FilesInv, counters, Good, Accepts
<1>9. ProcessInv' /\ Busy' = Busy
  <2>1. CASE q.check = "root"
    <3>1. PICK new : new = Reading(q.kind, "path")
      OBVIOUS
    <3>2. Go(p, new)
      BY <1>4, <1>7, <2>1, <3>1 DEF Returned
    <3>3. q.kind \in {"load"} \cup Requests
      BY <1>3 DEF ProcessStates
    <3>4. /\ new \in ProcessStates /\ new.at = "statSvg" /\ new.kind = q.kind
          /\ new.check = "path" /\ new.error = FALSE /\ new.path = "svg"
      BY <3>1, <3>3, ReadingFacts
    <3>5. Knows(p, new, svg', backup', json')
      BY <1>3, <1>7, <2>1, <3>4 DEF Knows
    <3> QED
      BY <1>2, <1>3, <1>5, <1>6, <1>7, <1>8, <3>2, <3>4, <3>5, GoStep DEF IInv, Answered
  <2>2. CASE q.check # "root"
    <3>1. PICK new : new = Done(q, backup)
      OBVIOUS
    <3>2. Go(p, new)
      BY <1>7, <2>2, <3>1 DEF Returned
    <3>3. /\ new \in ProcessStates /\ new.at = "done" /\ new.kind = q.kind /\ new.seen = q.seen
          /\ new.check = q.check /\ new.found = backup /\ new.path = q.path
      BY <1>4, <3>1, DoneFacts
    <3>4. Knows(p, new, svg', backup', json')
      BY <1>3, <1>7, <1>8, <3>3 DEF Knows, Good
    <3> QED
      BY <1>2, <1>3, <1>5, <1>6, <1>7, <1>8, <3>2, <3>3, <3>4, GoStep DEF IInv
  <2> QED
    BY <2>1, <2>2
<1>10. SaveInv'
  BY <1>2, <1>6 DEF SaveInv
<1>11. BoardInv'
  <2>1. CASE board = NoBoard
    BY <1>2, <2>1 DEF BoardInv
  <2>2. CASE board # NoBoard
    BY <1>2, <1>3, <1>5, <1>6, <1>7, <1>9, <2>2, BoardWaits DEF counters
  <2> QED
    BY <2>1, <2>2
<1> QED
  BY <1>8, <1>9, <1>10, <1>11 DEF IInv

\* Migration happens while a board is being loaded, and there is none.
LEMMA NoBoardWhileLoading ==
  ASSUME IInv, Loader \in Busy
  PROVE  board = NoBoard /\ saving = NotSaving
BY DEF IInv, BoardInv, SaveInv

\* ... staging the migrated drawing (migrateLegacyJsonBoardToSvg),
LEMMA StageMigrationStep ==
  ASSUME IInv, ~collided', NEW p \in Processes, StageMigration(p)
  PROVE  IInv'
<1>1. PICK q \in ProcessStates : q = process[p]
  BY DEF IInv, ProcessInv
<1>2. /\ q.at = "migrate" /\ p \in Busy /\ Knows(p, q, svg, backup, json)
      /\ UNCHANGED <<board, saving, counters>>
  <2>1. Step(p, "migrate")
    BY DEF StageMigration
  <2> QED
    BY <1>1, <2>1, StepFacts
<1>3. p = Loader /\ json # NoFile /\ svg = NoFile /\ backup = NoFile /\ json \in Files
  BY <1>2 DEF Knows, IInv, FilesInv
<1>4. ~Good
  BY <1>3 DEF Good, Accepts
<1>6. backup' = json /\ UNCHANGED <<svg, quarantined, json>>
  BY DEF StageMigration
<1>7. FilesInv'
  BY <1>2, <1>3, <1>6 DEF IInv, FilesInv, counters
<1>8. PICK new : new = [q EXCEPT !.at = "replaceMigrated"]
  OBVIOUS
<1>9. Go(p, new)
  BY <1>1, <1>8 DEF StageMigration
<1>5. /\ saving = NotSaving /\ board = NoBoard
      /\ \A r \in Processes \ {p} : ~GoesByFiles(r)
  <2>1. GoesByFiles(p)
    BY <1>1, <1>2 DEF GoesByFiles
  <2> QED
    BY <1>2, <1>3, <1>4, <1>6, <1>9, <2>1, RepairsAlone, NoBoardWhileLoading
<1>10. /\ new \in ProcessStates /\ new.at = "replaceMigrated" /\ new.kind = q.kind
       /\ new.check = q.check /\ new.path = q.path
  BY <1>8 DEF ProcessStates
<1>11. Knows(p, new, svg', backup', json')
  BY <1>2, <1>3, <1>6, <1>10 DEF Knows
<1>12. ProcessInv' /\ Busy' = Busy
  BY <1>2, <1>3, <1>5, <1>6, <1>7, <1>9, <1>10, <1>11, GoStep DEF IInv, Answered
<1> QED
  BY <1>2, <1>5, <1>7, <1>12 DEF IInv, BoardInv, SaveInv

\* ... and putting it where the SVG was missing.
LEMMA ReplaceMigratedStep ==
  ASSUME IInv, ~collided', NEW p \in Processes, ReplaceMigrated(p)
  PROVE  IInv'
<1>1. PICK q \in ProcessStates : q = process[p]
  BY DEF IInv, ProcessInv
<1>2. /\ q.at = "replaceMigrated" /\ p \in Busy /\ Knows(p, q, svg, backup, json)
      /\ UNCHANGED <<board, saving, counters>>
  <2>1. Step(p, "replaceMigrated")
    BY DEF ReplaceMigrated
  <2> QED
    BY <1>1, <2>1, StepFacts
<1>3. p = Loader /\ json # NoFile /\ svg = NoFile /\ backup = json /\ json \in Files
      /\ json.state = "good"
  BY <1>2 DEF Knows, IInv, FilesInv
<1>4. ~Good
  BY <1>3 DEF Good, Accepts
<1>6. svg' = json /\ backup' = NoFile /\ UNCHANGED <<quarantined, json>>
      /\ Go(p, Reading("load", "structure"))
  BY <1>3 DEF ReplaceMigrated
<1>5. /\ saving = NotSaving /\ board = NoBoard
      /\ \A r \in Processes \ {p} : ~GoesByFiles(r)
  <2>1. GoesByFiles(p)
    BY <1>1, <1>2 DEF GoesByFiles
  <2> QED
    BY <1>2, <1>3, <1>4, <1>6, <2>1, RepairsAlone, NoBoardWhileLoading
<1>7. FilesInv' /\ Good'
  BY <1>2, <1>3, <1>6 DEF IInv, FilesInv, counters, Good, Accepts
<1>8. PICK new : new = Reading("load", "structure")
  OBVIOUS
<1>9. /\ new \in ProcessStates /\ new.at = "statSvg" /\ new.kind = "load"
      /\ new.check = "structure" /\ new.error = FALSE /\ new.path = "svg"
  BY <1>8 DEF Reading, Resting, ProcessStates
<1>10. Knows(p, new, svg', backup', json')
  BY <1>3, <1>9 DEF Knows
<1>11. ProcessInv' /\ Busy' = Busy
  BY <1>2, <1>3, <1>5, <1>6, <1>7, <1>8, <1>9, <1>10, GoStep DEF IInv, Answered
<1> QED
  BY <1>2, <1>5, <1>7, <1>11 DEF IInv, BoardInv, SaveInv

\* Whatever a reader does keeps the invariant.
LEMMA ReadStep ==
  ASSUME IInv, ~collided', NEW p \in Processes, Read(p)
  PROVE  IInv'
BY BeginStep, StatSvgStep, ReadSvgStep, StatBackupStep, ReadBackupStep, QuarantineStep,
   PromoteStep, OpenStep, AnswerStep, StageMigrationStep, ReplaceMigratedStep DEF Read

-----------------------------------------------------------------------------
(* The board and its saves *)

\* A step of the board that leaves files and processes as they are.
LEMMA BoardStep ==
  ASSUME IInv, UNCHANGED <<files, process>>, UNCHANGED <<crashes, spoilings>>,
         writes' \in 0 .. MaxMutations, writes' >= writes,
         BoardInv', SaveInv'
  PROVE  IInv'
<1>1. UNCHANGED <<svg, backup, json, quarantined, process, crashes, spoilings>>
  BY DEF files
<1>2. FilesInv'
  <2>1. \A file \in Files : file.seq \in Nat
    BY DEF Files
  <2>2. writes \in Nat /\ writes' \in Nat
    BY DEF IInv, FilesInv
  <2>3. \A file \in {svg, backup, json} :
          file # NoFile => file \in Files /\ file.doc # << >> /\ file.seq <= writes'
    BY <2>1, <2>2 DEF IInv, FilesInv
  <2> QED
    BY <1>1, <2>3 DEF IInv, FilesInv
<1>3. ProcessInv'
  BY <1>1 DEF IInv, ProcessInv
<1> QED
  BY <1>2, <1>3 DEF IInv

\* A mutation keeps the invariant: the board goes on from what was stored.
LEMMA WriteStep ==
  ASSUME IInv, Mutate
  PROVE  IInv'
<1>1. /\ board # NoBoard /\ writes < MaxMutations /\ writes' = writes + 1
      /\ UNCHANGED <<files, saving, process, crashes, spoilings>>
  BY DEF Mutate
<1>2. MaxMutations \in Nat /\ writes \in Nat
  BY FilesAssumption DEF IInv, FilesInv
<1>3. PICK w \in 0 .. MaxMutations : w = writes + 1
  BY <1>2, <1>1
<1>4. PICK doc : doc = Append(board.doc, w)
  OBVIOUS
<1>5. board \in Boards /\ board.seq <= writes /\ board.persisted <= board.seq
  BY <1>1 DEF IInv, BoardInv
<1>6. board.seq \in Nat /\ board.persisted \in Nat /\ board.doc \in Docs
  BY <1>2, <1>5 DEF Boards
<1>7. PICK n \in 0 .. MaxMutations : n = board.seq + 1
  BY <1>2, <1>1, <1>5, <1>6
<1>8. board' = [board EXCEPT !.doc = doc, !.seq = n]
  BY <1>3, <1>4, <1>7 DEF Mutate
<1>9. /\ doc \in Docs /\ doc # << >>
      /\ \A s \in Docs : Prefix(s, board.doc) => Prefix(s, doc)
  <2>1. ASSUME NEW s \in Docs, Prefix(s, board.doc)
        PROVE  doc \in Docs /\ doc # << >> /\ Prefix(s, doc)
    BY <1>4, <1>6, <2>1, PrefixAppend
  <2>2. Prefix(board.doc, board.doc)
    BY <1>6, PrefixFacts
  <2> QED
    BY <1>6, <2>1, <2>2
<1>10. /\ board' \in Boards /\ board'.doc = doc /\ board'.seq = n
      /\ board'.persisted = board.persisted
      /\ board'.hasPersistedBaseline = board.hasPersistedBaseline
  BY <1>5, <1>8, <1>9 DEF Boards
<1>11. UNCHANGED <<svg, backup, json, process, saving, spoilings>> /\ Good' = Good /\ Busy' = Busy
  BY <1>1 DEF files, Good, Busy
<1>12. board'.persisted <= n /\ n <= writes' /\ board.seq < n /\ board.persisted < n
  BY <1>1, <1>2, <1>5, <1>6, <1>7, <1>10
<1>13. svg # NoFile => svg.doc \in Docs
  BY DEF IInv, FilesInv, Files
<1>14. BoardInv'
  <2>1. board'.persisted <= board'.seq /\ board'.seq <= writes' /\ Loader \notin Busy'
        /\ board'.doc # << >>
    BY <1>1, <1>9, <1>10, <1>11, <1>12 DEF IInv, BoardInv
  <2>2. CASE board.hasPersistedBaseline
    <3>1. /\ spoilings = 0 => Good /\ svg.seq = board.persisted
          /\ svg # NoFile => svg.seq >= board.persisted
          /\ svg # NoFile /\ svg.seq = board.persisted => Prefix(svg.doc, board.doc)
          /\ backup # NoFile /\ (saving = NotSaving \/ saving.at # "replace") =>
               backup.seq > board.persisted
      BY <1>1, <2>2 DEF IInv, BoardInv
    <3>2. svg # NoFile /\ svg.seq = board.persisted => Prefix(svg.doc, doc)
      BY <1>9, <1>13, <3>1
    <3> QED
      BY <1>10, <1>11, <2>1, <2>2, <3>1, <3>2 DEF BoardInv
  <2>3. CASE ~board.hasPersistedBaseline
    <3>1. /\ svg = NoFile /\ json = NoFile /\ board.persisted = 0
          /\ saving = NotSaving \/ saving.at # "replace" => backup = NoFile
      BY <1>1, <2>3 DEF IInv, BoardInv
    <3> QED
      BY <1>10, <1>11, <2>1, <2>3, <3>1 DEF BoardInv
  <2> QED
    BY <2>2, <2>3
<1>15. SaveInv'
  <2>1. CASE saving = NotSaving
    BY <1>11, <2>1 DEF SaveInv
  <2>2. CASE saving # NotSaving
    <3>1. saving.doc \in Docs /\ Prefix(saving.doc, doc)
      BY <1>9, <2>2 DEF IInv, SaveInv, Saves
    <3>2. saving.seq <= n
      BY <1>5, <1>7, <2>2 DEF IInv, SaveInv, Saves, Boards
    <3>3. NoBoard # board'
      BY <1>10, FilesAssumption
    <3> QED
      BY <1>10, <1>11, <3>1, <3>2, <3>3 DEF IInv, SaveInv
  <2> QED
    BY <2>1, <2>2
<1>16. writes' \in 0 .. MaxMutations /\ writes' >= writes
  BY <1>1, <1>3 DEF IInv, FilesInv
<1> QED
  BY <1>1, <1>14, <1>15, <1>16, BoardStep

\* ... so does forgetting a board that is stored,
LEMMA UnloadStep ==
  ASSUME IInv, Unload
  PROVE  IInv'
<1>1. board' = NoBoard /\ saving = NotSaving /\ UNCHANGED <<files, saving, process, counters>>
  BY DEF Unload
<1>2. BoardInv' /\ SaveInv'
  BY <1>1 DEF BoardInv, SaveInv
<1>3. writes' \in 0 .. MaxMutations /\ writes' >= writes /\ UNCHANGED <<crashes, spoilings>>
  BY <1>1 DEF IInv, FilesInv, counters
<1> QED
  BY <1>1, <1>2, <1>3, BoardStep

\* ... the start of a save, which copies the board,
LEMMA StartSaveStep ==
  ASSUME IInv, SaveBoard
  PROVE  IInv'
<1>1. /\ board # NoBoard /\ saving = NotSaving /\ board.seq # board.persisted
      /\ UNCHANGED <<files, board, process, counters>>
  BY DEF SaveBoard
<1>2. board \in Boards /\ board.persisted < board.seq /\ board.doc # << >>
  BY <1>1 DEF IInv, BoardInv, Boards
<1>3. PICK at \in {"choose", "stage"} :
        at = IF board.hasPersistedBaseline THEN "choose" ELSE "stage"
  OBVIOUS
<1>4. saving' = [at |-> at, source |-> "svg", doc |-> board.doc, seq |-> board.seq]
  BY <1>3 DEF SaveBoard
<1>5. saving' \in Saves /\ saving'.at = at /\ saving'.doc = board.doc /\ saving'.seq = board.seq
      /\ saving' # NotSaving
  BY <1>2, <1>4, FilesAssumption DEF Saves, Boards
<1>6. UNCHANGED <<svg, backup, json, process, board, spoilings, writes, crashes>>
      /\ Good' = Good /\ Busy' = Busy
  BY <1>1 DEF files, Good, Busy, counters
<1>7. Prefix(board.doc, board.doc) /\ board.seq <= board.seq
  BY <1>2, PrefixFacts DEF Boards
<1>8. BoardInv'
  BY <1>1, <1>3, <1>5, <1>6 DEF IInv, BoardInv
<1>9. SaveInv'
  BY <1>1, <1>2, <1>3, <1>5, <1>6, <1>7 DEF IInv, BoardInv, SaveInv
<1>10. writes' \in 0 .. MaxMutations /\ writes' >= writes
  BY <1>6 DEF IInv, FilesInv
<1> QED
  BY <1>1, <1>6, <1>8, <1>9, <1>10, BoardStep

\* A save that gives up, with or without its board.
LEMMA GivesUp ==
  ASSUME IInv, saving # NotSaving, SaveFails \/ SaveIsStale, UNCHANGED counters,
         saving.at # "replace"
  PROVE  IInv'
<1>1. saving' = NotSaving /\ UNCHANGED <<files, process, counters>> /\ (board' = board \/ board' = NoBoard)
  BY DEF SaveFails, SaveIsStale
<1>2. UNCHANGED <<svg, backup, json, process, spoilings, writes, crashes>>
      /\ Good' = Good /\ Busy' = Busy
  BY <1>1 DEF files, Good, Busy, counters
<1>3. BoardInv'
  BY <1>1, <1>2 DEF IInv, BoardInv
<1>4. SaveInv'
  BY <1>1 DEF SaveInv
<1>5. writes' \in 0 .. MaxMutations /\ writes' >= writes
  BY <1>2 DEF IInv, FilesInv
<1> QED
  BY <1>1, <1>2, <1>3, <1>4, <1>5, BoardStep

\* ... the choice of the file to rewrite, the SVG unless it was damaged,
LEMMA ChooseSourceStep ==
  ASSUME IInv, ChooseSource
  PROVE  IInv'
<1>1. /\ saving # NotSaving /\ saving.at = "choose" /\ UNCHANGED <<files, board, process, counters>>
  BY DEF ChooseSource, SaveStep
<1>2. PICK source \in {"svg", "backup"} : source = IF svg # NoFile THEN "svg" ELSE "backup"
  OBVIOUS
<1>3. saving' = [saving EXCEPT !.at = "rewrite", !.source = source]
  BY <1>2 DEF ChooseSource
<1>4. saving \in Saves
  BY <1>1 DEF IInv, SaveInv
<1>5. saving' \in Saves /\ saving'.at = "rewrite" /\ saving'.doc = saving.doc /\ saving'.seq = saving.seq
      /\ saving' # NotSaving /\ saving'.source = source
  BY <1>3, <1>4, FilesAssumption DEF Saves
<1>6. UNCHANGED <<svg, backup, json, process, board, spoilings, writes, crashes>>
      /\ Good' = Good /\ Busy' = Busy
  BY <1>1 DEF files, Good, Busy, counters
<1>7. BoardInv'
  BY <1>1, <1>5, <1>6 DEF IInv, BoardInv
<1>8. spoilings = 0 => source = "svg"
  BY <1>1, <1>2 DEF IInv, BoardInv, SaveInv, Good, Accepts
<1>9. SaveInv'
  BY <1>1, <1>5, <1>6, <1>8 DEF IInv, SaveInv
<1>10. writes' \in 0 .. MaxMutations /\ writes' >= writes
  BY <1>6 DEF IInv, FilesInv
<1> QED
  BY <1>1, <1>6, <1>7, <1>9, <1>10, BoardStep

\* A rewrite goes on only from the file that the board was last stored in.
LEMMA RewriteFacts ==
  ASSUME IInv, RewriteSource
  PROVE  /\ saving # NotSaving /\ saving.at = "rewrite" /\ UNCHANGED counters
         /\ \/ SaveFails \/ SaveIsStale
            \/ /\ Good /\ svg.seq = board.persisted /\ board.hasPersistedBaseline
               /\ saving' = [saving EXCEPT !.at = "stage"] /\ UNCHANGED <<files, board, process>>
         /\ spoilings = 0 => ~SaveFails /\ ~SaveIsStale
<1>1. saving # NotSaving /\ saving.at = "rewrite" /\ UNCHANGED counters
  BY DEF RewriteSource, SaveStep
<1>2. PICK source : source = IF saving.source = "svg" THEN svg ELSE backup
  OBVIOUS
<1>3. Rewrite(source)
  BY <1>2 DEF RewriteSource
<1>4. board # NoBoard /\ board.hasPersistedBaseline /\ board.persisted \in Nat
  BY <1>1 DEF IInv, SaveInv, BoardInv, Boards
<1>5. /\ backup # NoFile => backup.seq > board.persisted /\ backup.seq \in Nat
      /\ spoilings = 0 => source = svg /\ Good /\ svg.seq = board.persisted
  BY <1>1, <1>2, <1>4 DEF IInv, SaveInv, BoardInv, FilesInv, Files
<1>6. saving \in Saves /\ NotSaving \notin Saves
  BY <1>1, FilesAssumption DEF IInv, SaveInv
<1>7. [saving EXCEPT !.at = "stage"] # NotSaving
  <2>1. [saving EXCEPT !.at = "stage"] \in Saves
    BY <1>6 DEF Saves
  <2> QED
    BY <1>6, <2>1
<1>8. CASE source = NoFile
  <2>1. SaveIsStale
    BY <1>3, <1>8 DEF Rewrite, Accepts
  <2> QED
    BY <1>1, <1>5, <1>8, <2>1 DEF Good, Accepts
<1>9. CASE source # NoFile /\ ~Accepts("root", source)
  <2>1. SaveFails
    BY <1>3, <1>9 DEF Rewrite
  <2> QED
    BY <1>1, <1>5, <1>9, <2>1 DEF Good, Accepts
<1>10. CASE Accepts("root", source) /\ source.seq # board.persisted
  <2>1. SaveIsStale
    BY <1>3, <1>10 DEF Rewrite, Accepts
  <2> QED
    BY <1>1, <1>5, <1>10, <2>1
<1>11. CASE Accepts("root", source) /\ source.seq = board.persisted
  <2>1. source = svg
    BY <1>2, <1>4, <1>5, <1>11 DEF Accepts
  <2>2. CASE Good
    <3>1. saving' = [saving EXCEPT !.at = "stage"] /\ UNCHANGED <<files, board, process>>
      BY <1>3, <1>11, <2>1, <2>2 DEF Rewrite, Good, Accepts
    <3> QED
      BY <1>1, <1>4, <1>7, <1>11, <2>1, <2>2, <3>1 DEF SaveFails, SaveIsStale
  <2>3. CASE ~Good
    <3>1. SaveFails
      BY <1>3, <1>11, <2>1, <2>3 DEF Rewrite, Good, Accepts
    <3> QED
      BY <1>1, <1>5, <2>3, <3>1
  <2> QED
    BY <2>2, <2>3
<1> QED
  BY <1>8, <1>9, <1>10, <1>11

\* ... and the rewriting of it, or giving up.
LEMMA RewriteSourceStep ==
  ASSUME IInv, RewriteSource
  PROVE  IInv'
<1>1. saving # NotSaving /\ saving.at = "rewrite" /\ UNCHANGED counters
  BY RewriteFacts
<1>2. CASE SaveFails \/ SaveIsStale
  BY <1>1, <1>2, GivesUp
<1>3. CASE /\ Good /\ svg.seq = board.persisted /\ board.hasPersistedBaseline
           /\ saving' = [saving EXCEPT !.at = "stage"] /\ UNCHANGED <<files, board, process>>
  <2>1. saving \in Saves
    BY <1>1 DEF IInv, SaveInv
  <2>2. saving' \in Saves /\ saving'.at = "stage" /\ saving'.doc = saving.doc /\ saving'.seq = saving.seq
        /\ saving' # NotSaving
    BY <1>3, <2>1, FilesAssumption DEF Saves
  <2>3. UNCHANGED <<svg, backup, json, process, board, spoilings, writes, crashes>>
        /\ Good' = Good /\ Busy' = Busy
    BY <1>1, <1>3 DEF files, Good, Busy, counters
  <2>4. BoardInv'
    BY <1>1, <2>2, <2>3 DEF IInv, BoardInv
  <2>5. SaveInv'
    BY <1>1, <1>3, <2>2, <2>3 DEF IInv, SaveInv
  <2>6. writes' \in 0 .. MaxMutations /\ writes' >= writes
    BY <2>3 DEF IInv, FilesInv
  <2> QED
    BY <1>1, <1>3, <2>3, <2>4, <2>5, <2>6, BoardStep
<1> QED
  BY <1>2, <1>3, RewriteFacts

\* While a save stages and replaces, the SVG is intact or nobody else goes by the files.
LEMMA SaverAlone ==
  ASSUME IInv, saving # NotSaving, Others, ~collided',
         svg' # svg \/ backup' # backup, UNCHANGED counters
  PROVE  /\ board # NoBoard /\ Loader \notin Busy
         /\ (Good /\ Good') \/ \A p \in Processes : ~GoesByFiles(p)
<1>1. ~Collides
  BY NoCollision DEF Others
<1>2. <<svg, backup>>' # <<svg, backup>> /\ spoilings' = spoilings
  BY DEF counters
<1>3. (Good /\ Good') \/ \A p \in Processes : ~GoesByFiles(p)
  BY <1>1, <1>2 DEF Collides, Good
<1> QED
  BY <1>3 DEF IInv, SaveInv, BoardInv

\* Renaming the temporary file to the staging file keeps the invariant.
LEMMA StageStep ==
  ASSUME IInv, ~collided', Stage
  PROVE  IInv'
<1>1. /\ saving # NotSaving /\ saving.at = "stage" /\ backup' = File(saving.doc, saving.seq)
      /\ saving' = [saving EXCEPT !.at = "replace"] /\ Others
      /\ UNCHANGED <<svg, quarantined, json, board, counters>>
  BY DEF Stage, SaveStep
<1>2. saving \in Saves /\ board # NoBoard /\ board \in Boards
  BY <1>1 DEF IInv, SaveInv, BoardInv
<1>3. saving' \in Saves /\ saving'.at = "replace" /\ saving'.doc = saving.doc /\ saving'.seq = saving.seq
      /\ saving' # NotSaving
  BY <1>1, <1>2, FilesAssumption DEF Saves
<1>4. backup' \in Files /\ backup' # NoFile /\ backup'.doc = saving.doc
      /\ backup'.seq = saving.seq /\ backup'.state = "good"
  BY <1>1, <1>2, FileFacts DEF Saves
<1>5. saving.doc # << >> /\ saving.seq <= writes /\ board.persisted < saving.seq
  BY <1>1, <1>2 DEF IInv, SaveInv, BoardInv, Saves, Boards, FilesInv
<1>6. svg # NoFile => svg.seq < saving.seq
  <2>1. CASE board.hasPersistedBaseline
    BY <1>1, <1>5, <2>1 DEF IInv, SaveInv
  <2>2. CASE ~board.hasPersistedBaseline
    BY <1>2, <2>2 DEF IInv, BoardInv
  <2> QED
    BY <2>1, <2>2
<1>7. UNCHANGED <<svg, json, quarantined, board, writes, crashes, spoilings>> /\ Good' = Good
  BY <1>1 DEF counters, Good
<1>8. FilesInv'
  BY <1>4, <1>5, <1>6, <1>7 DEF IInv, FilesInv
<1>9. ProcessInv' /\ Busy' = Busy
  <2>1. CASE UNCHANGED <<svg, backup>>
    BY <1>1, <1>7, <1>8, <2>1, OthersKept DEF IInv
  <2>2. CASE backup' # backup
    BY <1>1, <1>7, <1>8, <2>2, SaverAlone, OthersKept DEF IInv
  <2> QED
    BY <1>7, <2>1, <2>2
<1>11. BoardInv'
  BY <1>1, <1>3, <1>7, <1>9 DEF IInv, BoardInv
<1>12. SaveInv'
  BY <1>1, <1>3, <1>7 DEF IInv, SaveInv
<1> QED
  BY <1>8, <1>9, <1>11, <1>12 DEF IInv

\* A save that has come so far succeeds.
LEMMA ReplaceFacts ==
  ASSUME IInv, Replace
  PROVE  /\ saving # NotSaving /\ saving.at = "replace" /\ board # NoBoard
         /\ svg' = File(saving.doc, saving.seq) /\ backup = svg' /\ backup' = NoFile
         /\ board' = [board EXCEPT !.persisted = saving.seq, !.hasPersistedBaseline = TRUE]
         /\ saving' = NotSaving /\ Others
         /\ UNCHANGED <<quarantined, json, counters>>
<1>1. saving # NotSaving /\ saving.at = "replace" /\ UNCHANGED counters
  BY DEF Replace, SaveStep
<1>2. saving \in Saves /\ board # NoBoard /\ backup = File(saving.doc, saving.seq)
  BY <1>1 DEF IInv, SaveInv
<1>3. backup # NoFile
  BY <1>2, FileFacts DEF Saves
<1> QED
  BY <1>1, <1>2, <1>3 DEF Replace

\* ... and so does renaming that to the SVG and recording what was stored.
LEMMA ReplaceStep ==
  ASSUME IInv, ~collided', Replace
  PROVE  IInv'
<1>1. /\ saving # NotSaving /\ saving.at = "replace" /\ board # NoBoard
      /\ svg' = File(saving.doc, saving.seq) /\ backup = svg' /\ backup' = NoFile
      /\ saving' = NotSaving /\ Others
      /\ UNCHANGED <<quarantined, json, counters>>
  BY ReplaceFacts
<1>2. saving \in Saves /\ board \in Boards /\ board.doc \in Docs
  BY <1>1 DEF IInv, SaveInv, BoardInv, Boards
<1>3. PICK seq \in 0 .. MaxMutations : seq = saving.seq
  BY <1>2 DEF Saves
<1>4. board' = [board EXCEPT !.persisted = seq, !.hasPersistedBaseline = TRUE]
  BY <1>3, ReplaceFacts
<1>5. board' \in Boards /\ board'.doc = board.doc /\ board'.seq = board.seq
      /\ board'.persisted = seq /\ board'.hasPersistedBaseline = TRUE
  BY <1>2, <1>4 DEF Boards
<1>6. svg' \in Files /\ svg' # NoFile /\ svg'.doc = saving.doc
      /\ svg'.seq = saving.seq /\ svg'.state = "good"
  BY <1>1, <1>2, FileFacts DEF Saves
<1>7. Good'
  BY <1>6 DEF Good, Accepts
<1>8. saving.doc # << >> /\ saving.seq <= board.seq /\ board.seq <= writes
      /\ saving.seq <= writes /\ Prefix(saving.doc, board.doc)
  BY <1>1, <1>2 DEF IInv, SaveInv, BoardInv, Saves, Boards, FilesInv
<1>9. UNCHANGED <<json, quarantined, writes, crashes, spoilings>>
  BY <1>1 DEF counters
<1>10. FilesInv'
  BY <1>1, <1>6, <1>8, <1>9 DEF IInv, FilesInv
<1>11. ProcessInv' /\ Busy' = Busy /\ Loader \notin Busy
  <2>1. backup' # backup
    BY <1>1, <1>6
  <2> QED
    BY <1>1, <1>7, <1>9, <1>10, <2>1, SaverAlone, OthersKept DEF IInv
<1>12. SaveInv'
  BY <1>1 DEF SaveInv
<1>13. board.doc # << >>
  <2>1. board.persisted < saving.seq /\ saving.seq <= board.seq
    BY <1>1 DEF IInv, SaveInv
  <2>2. board.persisted # board.seq
    BY <1>2, <2>1 DEF Boards, Saves
  <2> QED
    BY <1>1, <2>2 DEF IInv, BoardInv
<1>14. BoardInv'
  BY <1>1, <1>3, <1>5, <1>6, <1>7, <1>8, <1>9, <1>11, <1>13 DEF BoardInv
<1> QED
  BY <1>10, <1>11, <1>12, <1>14 DEF IInv

\* A load ends with a board that continues its file, with an empty one, or with none.
LEMMA FinishLoadStep ==
  ASSUME IInv, FinishLoad
  PROVE  IInv'
<1>1. PICK q \in ProcessStates : q = process[Loader]
  BY DEF IInv, ProcessInv, Processes
<1>2. /\ q.at = "done" /\ UNCHANGED <<files, saving, counters>> /\ Go(Loader, Resting)
  BY <1>1 DEF FinishLoad
<1>3. Loader \in Busy /\ Loader \in Processes /\ Knows(Loader, q, svg, backup, json)
  BY <1>1, <1>2 DEF IInv, ProcessInv, Busy, Processes
<1>4. board = NoBoard /\ saving = NotSaving
  BY <1>3 DEF IInv, BoardInv, SaveInv
<1>5. UNCHANGED <<svg, backup, json, quarantined, writes, crashes, spoilings, saving>>
      /\ Good' = Good
  BY <1>2 DEF files, counters, Good
<1>6. FilesInv'
  BY <1>2, FilesSame DEF IInv
<1>7. ProcessInv' /\ Busy' = Busy \ {Loader}
  BY <1>2, <1>3, <1>6, IdleStep DEF IInv
<1>8. SaveInv'
  BY <1>4, <1>5 DEF SaveInv
<1>9. CASE q.found = Failed
  <2>1. board' = NoBoard
    BY <1>1, <1>9 DEF FinishLoad
  <2> QED
    BY <1>6, <1>7, <1>8, <2>1 DEF IInv, BoardInv
<1>10. CASE q.found = NoFile /\ svg = NoFile /\ backup = NoFile /\ json = NoFile
  <2>1. << >> \in Docs /\ 0 \in 0 .. MaxMutations
    BY EmptySeq, FilesAssumption DEF Docs
  <2>2. File(<< >>, 0).doc = << >> /\ File(<< >>, 0).seq = 0 /\ Failed # NoFile
    BY <2>1, FileFacts, FilesAssumption
  <2>3. board' = [doc |-> << >>, seq |-> 0, persisted |-> 0, hasPersistedBaseline |-> FALSE]
    BY <1>1, <1>10, <2>2 DEF FinishLoad
  <2>4. board' \in Boards /\ 0 <= writes
    BY <2>1, <2>3 DEF Boards, IInv, FilesInv
  <2>5. BoardInv'
    BY <1>5, <1>7, <1>10, <2>3, <2>4 DEF BoardInv
  <2> QED
    BY <1>6, <1>7, <1>8, <2>5 DEF IInv
<1>11. CASE q.found = svg /\ Good
  <2>1. svg \in Files /\ svg # NoFile /\ svg # Failed /\ svg.doc # << >> /\ svg.seq <= writes
    BY <1>11, FilesAssumption DEF Good, Accepts, IInv, FilesInv
  <2>2. PICK doc \in Docs, seq \in 0 .. MaxMutations : doc = svg.doc /\ seq = svg.seq
    BY <2>1 DEF Files
  <2>3. board' = [doc |-> doc, seq |-> seq, persisted |-> seq, hasPersistedBaseline |-> TRUE]
    BY <1>1, <1>11, <2>1, <2>2 DEF FinishLoad
  <2>4. board' \in Boards /\ seq <= seq /\ seq <= writes
    BY <2>1, <2>2, <2>3 DEF Boards
  <2>5. Prefix(svg.doc, doc)
    BY <2>2, PrefixFacts
  <2>6. backup # NoFile => backup.seq > seq
    BY <2>1, <2>2 DEF IInv, FilesInv, Files
  <2>7. BoardInv'
    BY <1>4, <1>5, <1>7, <1>11, <2>1, <2>2, <2>3, <2>4, <2>5, <2>6 DEF BoardInv
  <2> QED
    BY <1>6, <1>7, <1>8, <2>7 DEF IInv
<1> QED
  BY <1>2, <1>3, <1>9, <1>10, <1>11 DEF Knows, Good

-----------------------------------------------------------------------------
(* What happens to the files and the process *)

\* A crash between any two file operations keeps the invariant: what is left is
\* readable or repairable.
LEMMA CrashStep ==
  ASSUME IInv, Crash
  PROVE  IInv'
<1>1. /\ crashes' = crashes + 1 /\ board' = NoBoard /\ saving' = NotSaving
      /\ process' = [p \in Processes |-> Resting]
      /\ UNCHANGED <<svg, backup, quarantined, json, writes, spoilings>>
  BY DEF Crash, files
<1>2. FilesInv'
  BY <1>1 DEF IInv, FilesInv
<1>3. ProcessInv' /\ Busy' = {}
  BY <1>1, IdleFacts DEF ProcessInv, Busy
<1>4. BoardInv' /\ SaveInv'
  BY <1>1 DEF BoardInv, SaveInv
<1> QED
  BY <1>2, <1>3, <1>4 DEF IInv

\* Damage to an intact SVG keeps it: no process, and no save, is under way.
LEMMA SpoilStep ==
  ASSUME IInv, ~collided', Spoil
  PROVE  IInv'
<1>0. /\ Good /\ spoilings' = spoilings + 1 /\ Others
      /\ UNCHANGED <<backup, quarantined, json, board, saving, writes, crashes>>
  BY DEF Spoil, Good
<1>9. Busy = {} /\ saving = NotSaving
  <2>1. ~Collides
    BY <1>0, NoCollision DEF Others
  <2>2. spoilings' # spoilings
    BY <1>0 DEF IInv, FilesInv
  <2>3. svg \in Files /\ svg # NoFile /\ svg.state = "good"
    BY <1>0 DEF Good, Accepts, IInv, FilesInv
  <2>4. ~Good'
    <3>1. CASE svg' = NoFile
      BY <3>1 DEF Good, Accepts
    <3>2. CASE \E state \in {"cut", "spoiled"} : svg' = [svg EXCEPT !.state = state]
      <4>1. svg'.state \in {"cut", "spoiled"}
        BY <2>3, <3>2 DEF Files
      <4> QED
        BY <4>1 DEF Good, Accepts
    <3> QED
      BY <3>1, <3>2 DEF Spoil
  <2>5. <<svg, backup>>' # <<svg, backup>>
    BY <1>0, <2>4 DEF Good, Accepts
  <2> QED
    BY <2>1, <2>2, <2>4, <2>5 DEF Collides, Good
<1>1. /\ Good /\ Busy = {} /\ saving = NotSaving /\ spoilings' = spoilings + 1 /\ Others
      /\ UNCHANGED <<backup, quarantined, json, board, saving, writes, crashes>>
  BY <1>0, <1>9
<1>2. svg \in Files /\ svg # NoFile /\ svg.doc # << >> /\ svg.seq <= writes
  BY <1>1 DEF Good, Accepts, IInv, FilesInv
<1>3. /\ svg' \in Files \cup {NoFile}
      /\ svg' # NoFile => svg'.doc = svg.doc /\ svg'.seq = svg.seq
  <2>1. CASE svg' = NoFile
    BY <2>1
  <2>2. CASE \E state \in {"cut", "spoiled"} : svg' = [svg EXCEPT !.state = state]
    BY <1>2, <2>2 DEF Files
  <2> QED
    BY <2>1, <2>2 DEF Spoil
<1>4. FilesInv'
  BY <1>1, <1>2, <1>3 DEF IInv, FilesInv
<1>5. ProcessInv' /\ Busy' = {}
  <2>1. Loader \in Processes /\ \A p \in Processes : ~GoesByFiles(p)
    BY <1>1 DEF Busy, GoesByFiles, Processes
  <2> QED
    BY <1>1, <1>4, <2>1, OthersKept DEF IInv
<1>6. SaveInv'
  BY <1>1 DEF SaveInv
<1>7. spoilings' # 0
  BY <1>1 DEF IInv, FilesInv
<1>8. BoardInv'
  BY <1>1, <1>2, <1>3, <1>5, <1>7 DEF IInv, BoardInv
<1> QED
  BY <1>4, <1>5, <1>6, <1>8 DEF IInv

\* A step that changes nothing keeps the invariant.
LEMMA StutterStep ==
  ASSUME IInv, UNCHANGED filesVars
  PROVE  IInv'
<1>1. /\ UNCHANGED <<svg, backup, quarantined, json, board, saving, process, writes, crashes, spoilings>>
  BY DEF filesVars, files, counters
<1> QED
  BY <1>1 DEF IInv, FilesInv, ProcessInv, BoardInv, SaveInv, Good, Busy

-----------------------------------------------------------------------------
(* Theorems *)

\* The invariant holds at the start, with or without an old JSON board.
LEMMA InitOk ==
  ASSUME FilesInit
  PROVE  IInv
<1>1. /\ svg = NoFile /\ backup = NoFile /\ quarantined = {} /\ board = NoBoard /\ saving = NotSaving
      /\ process = [p \in Processes |-> Resting] /\ writes = 0 /\ crashes = 0 /\ spoilings = 0
      /\ json = NoFile \/ json = File(<<0>>, 0)
  BY DEF FilesInit
<1>2. <<0>> \in Docs /\ <<0>> # << >> /\ 0 \in 0 .. MaxMutations
  BY FilesAssumption DEF Docs
<1>3. /\ File(<<0>>, 0) \in Files /\ File(<<0>>, 0).doc = <<0>> /\ File(<<0>>, 0).seq = 0
      /\ File(<<0>>, 0).state = "good"
  BY <1>2, FileFacts
<1>4. FilesInv
  BY <1>1, <1>2, <1>3 DEF FilesInv
<1>5. ProcessInv /\ Busy = {}
  BY <1>1, IdleFacts DEF ProcessInv, Busy
<1> QED
  BY <1>1, <1>4, <1>5 DEF IInv, BoardInv, SaveInv

\* Every step keeps the invariant.
LEMMA Inductive ==
  ASSUME IInv, ~collided', [FilesNext]_filesVars
  PROVE  IInv'
<1>1. ASSUME NEW p \in Processes, Read(p)
      PROVE  IInv'
  BY <1>1, ReadStep
<1> QED
  BY <1>1, FinishLoadStep, WriteStep, UnloadStep, StartSaveStep, ChooseSourceStep,
     RewriteSourceStep, StageStep, ReplaceStep, CrashStep, SpoilStep, StutterStep DEF FilesNext

\* Whatever happens, a collision is not forgotten.
LEMMA CollidedStays ==
  ASSUME collided \in BOOLEAN, [FilesNext]_filesVars
  PROVE  collided' \in BOOLEAN /\ (collided => collided')
<1>1. ASSUME NEW ps, Goes(ps)
      PROVE  collided' \in BOOLEAN /\ (collided => collided')
  BY <1>1, Zenon DEF Goes
<1>2. UNCHANGED collided => collided' \in BOOLEAN /\ (collided => collided')
  OBVIOUS
<1>3. ASSUME NEW p \in Processes, Read(p)
      PROVE  \E q : Go(p, q)
  BY <1>3 DEF Read, BeginRead, StatSvg, ReadSvg, StatBackup, ReadBackup, Quarantine, Promote,
     OpenFound, Answer, StageMigration, ReplaceMigrated
<1>4. (\E p \in Processes : Read(p)) => collided' \in BOOLEAN /\ (collided => collided')
  BY <1>1, <1>3 DEF Go
<1>5. FinishLoad \/ Stage \/ Spoil => collided' \in BOOLEAN /\ (collided => collided')
  BY <1>1 DEF FinishLoad, Go, Stage, Spoil, Others
<1>6. Replace => collided' \in BOOLEAN /\ (collided => collided')
  BY <1>1, <1>2 DEF Replace, SaveFails, SaveIsStale, Others
<1>7. Mutate \/ Unload \/ SaveBoard \/ ChooseSource \/ Crash \/ UNCHANGED filesVars
      => UNCHANGED collided
  BY DEF Mutate, Unload, SaveBoard, ChooseSource, Crash, filesVars
<1>8. RewriteSource => UNCHANGED collided
  BY DEF RewriteSource, Rewrite, SaveFails, SaveIsStale
<1> QED
  BY <1>2, <1>4, <1>5, <1>6, <1>7, <1>8 DEF FilesNext

\* The strengthening holds until files are changed under somebody.
THEOREM Invariance ==
  FilesSpec => []UntilCollided
<1>1. FilesInit => UntilCollided
  BY InitOk DEF UntilCollided, FilesInit
<1>2. UntilCollided /\ [FilesNext]_filesVars => UntilCollided'
  BY Inductive, CollidedStays DEF UntilCollided
<1> QED
  BY <1>1, <1>2, PTL DEF FilesSpec

\* Until files are changed under somebody who goes by them, a request, or a load, that
\* runs among saves and repairs answers what it would have answered alone at some moment
\* while it ran (readStoredSvgWithFallback), and only unreadable files are moved away.
THEOREM AnswersStayCurrent ==
  FilesSpec => []AnswersAreCurrent
<1>1. IInv => AnswersAreCurrent
  BY DEF IInv, FilesInv, ProcessInv, Answered, AnswersAreCurrent
<1>2. UntilCollided => AnswersAreCurrent
  BY <1>1 DEF UntilCollided, AnswersAreCurrent
<1> QED
  BY <1>2, Invariance, PTL

\* The invariant types the variables.
LEMMA Typed ==
  IInv /\ collided \in BOOLEAN => FilesTypeOK
<1> SUFFICES ASSUME IInv, collided \in BOOLEAN
             PROVE  FilesTypeOK
  OBVIOUS
<1>1. {svg, backup, json} \subseteq Files \cup {NoFile} /\ quarantined \subseteq Files
  BY DEF IInv, FilesInv
<1>2. board = NoBoard \/ (board \in Boards /\ board.persisted <= board.seq)
  BY DEF IInv, BoardInv
<1>3. saving = NotSaving \/ (saving \in Saves /\ board # NoBoard /\ saving.seq <= board.seq)
  BY DEF IInv, SaveInv
<1>4. \A p \in Processes : process[p].at # "idle" <=> process[p].seen # {}
  BY DEF IInv, ProcessInv, Resting
<1> QED
  BY <1>1, <1>2, <1>3, <1>4 DEF FilesTypeOK

\* Until files are changed under somebody, a loaded board and its file belong together:
\* a save finds the sequence number it expects (persistedSeq) and a document that the
\* board extends.
THEOREM BoardsContinueFiles ==
  FilesSpec => []BoardContinuesFile
<1>1. ASSUME IInv, board # NoBoard, saving = NotSaving, spoilings = 0
      PROVE  LET stored == View("structure", svg, NoFile)
             IN IF svg = NoFile /\ json = NoFile THEN board.persisted = 0
                ELSE stored.seq = board.persisted /\ IsPrefix(stored.doc, board.doc)
  <2>1. CASE board.hasPersistedBaseline
    <3>1. Good /\ svg.seq = board.persisted /\ Prefix(svg.doc, board.doc) /\ svg # NoFile
      BY <1>1, <2>1 DEF IInv, BoardInv, Good, Accepts
    <3>2. svg.doc \in Docs /\ board.doc \in Docs
      BY <1>1, <3>1 DEF IInv, FilesInv, BoardInv, Files, Boards
    <3>3. IsPrefix(svg.doc, board.doc)
      BY <3>1, <3>2, PrefixIs
    <3>4. View("structure", svg, NoFile) = svg
      BY <3>1 DEF View, Good
    <3> QED
      BY <3>1, <3>3, <3>4
  <2>2. CASE ~board.hasPersistedBaseline
    <3>1. svg = NoFile /\ json = NoFile /\ board.persisted = 0
      BY <1>1, <2>2 DEF IInv, BoardInv
    <3> QED
      BY <3>1
  <2> QED
    BY <2>1, <2>2
<1>2. UntilCollided => BoardContinuesFile
  BY <1>1, Typed DEF UntilCollided, BoardContinuesFile, Continues
<1> QED
  BY <1>2, Invariance, PTL

\* What can be loaded is a document, that of the SVG while it is intact.
LEMMA DocOfFacts ==
  ASSUME FilesInv
  PROVE  /\ DocOf(Stored) \in Docs
         /\ Good => DocOf(Stored) = svg.doc
         /\ svg = NoFile /\ backup = NoFile /\ json = NoFile => DocOf(Stored) = << >>
<1>1. {svg, backup, json} \subseteq Files \cup {NoFile} /\ NoFile \notin Files /\ Failed \notin Files
  BY FilesAssumption DEF FilesInv
<1>2. Stored \in Files \cup {NoFile, Failed}
  BY <1>1 DEF Stored, View, Accepts
<1>3. << >> \in Docs
  BY EmptySeq DEF Docs
<1>7. \A file \in Files : file.doc \in Docs
  BY DEF Files
<1>4. Good => Stored = svg
  BY DEF Stored, View, Good, Accepts
<1>5. svg = NoFile /\ backup = NoFile /\ json = NoFile => Stored = NoFile
  BY DEF Stored, View, Accepts
<1>6. Good => svg \in Files
  BY <1>1 DEF Good, Accepts
<1> QED
  BY <1>1, <1>2, <1>3, <1>4, <1>5, <1>6, <1>7 DEF DocOf

\* ... in a form that can be used of the next state.
LEMMA StoredIsDoc ==
  FilesInv => DocOf(Stored) \in Docs
BY DocOfFacts

\* Reading repairs and migrates without changing what can be loaded.
LEMMA ReadKeepsStored ==
  ASSUME IInv, NEW p \in Processes, Read(p)
  PROVE  Stored' = Stored
<1>1. CASE UNCHANGED files
  BY <1>1 DEF files, Stored, View
<1>2. CASE Quarantine(p) /\ ~UNCHANGED files
  <2>1. Step(p, "quarantine") /\ svg' = NoFile /\ UNCHANGED <<backup, json>>
    BY <1>2 DEF Quarantine
  <2>2. ~Accepts(process[p].check, svg) /\ backup # NoFile
    BY <2>1, StepFacts DEF Knows
  <2> QED
    BY <2>1, <2>2 DEF Stored, View, Accepts
<1>3. CASE Promote(p) /\ ~UNCHANGED files
  <2>1. Step(p, "promote") /\ svg' = backup /\ UNCHANGED <<json>> /\ backup # NoFile
    BY <1>3 DEF Promote
  <2>2. ~Accepts(process[p].check, svg)
    BY <2>1, StepFacts DEF Knows
  <2>3. backup.state = "good"
    BY <2>1 DEF IInv, FilesInv
  <2> QED
    BY <2>1, <2>2, <2>3 DEF Stored, View, Accepts
<1>4. CASE StageMigration(p)
  <2>1. Step(p, "migrate") /\ backup' = json /\ UNCHANGED <<svg, json>>
    BY <1>4 DEF StageMigration
  <2>2. json # NoFile /\ svg = NoFile /\ backup = NoFile
    BY <2>1, StepFacts DEF Knows
  <2> QED
    BY <2>1, <2>2 DEF Stored, View, Accepts
<1>5. CASE ReplaceMigrated(p) /\ ~UNCHANGED files
  <2>1. Step(p, "replaceMigrated") /\ svg' = backup /\ UNCHANGED <<json>> /\ backup # NoFile
    BY <1>5 DEF ReplaceMigrated
  <2>2. svg = NoFile
    BY <2>1, StepFacts DEF Knows
  <2>3. backup.state = "good"
    BY <2>1 DEF IInv, FilesInv
  <2> QED
    BY <2>1, <2>2, <2>3 DEF Stored, View, Accepts
<1>6. BeginRead(p) \/ StatSvg(p) \/ ReadSvg(p) \/ StatBackup(p) \/ ReadBackup(p) \/ OpenFound(p) \/ Answer(p)
      => UNCHANGED files
  BY DEF BeginRead, StatSvg, ReadSvg, StatBackup, ReadBackup, OpenFound, Answer
<1> QED
  BY <1>1, <1>2, <1>3, <1>4, <1>5, <1>6 DEF Read

\* Staging a save shows nothing until the SVG is gone, or the first document of a board
\* that had none.
LEMMA StageExtends ==
  ASSUME IInv, IInv', Stage
  PROVE  Prefix(DocOf(Stored), DocOf(Stored'))
<1>1. saving # NotSaving /\ saving.at = "stage" /\ UNCHANGED <<svg, json>>
  BY DEF Stage, SaveStep
<1>2. DocOf(Stored) \in Docs /\ DocOf(Stored') \in Docs
  <2>1. FilesInv /\ FilesInv'
    BY DEF IInv
  <2>2. (DocOf(Stored) \in Docs)'
    BY <2>1, StoredIsDoc, PTL
  <2> QED
    BY <2>1, <2>2, StoredIsDoc
<1>3. board # NoBoard
  BY <1>1 DEF IInv, SaveInv
<1>4. CASE board.hasPersistedBaseline
  <2>1. Good
    BY <1>1, <1>4 DEF IInv, SaveInv
  <2>2. Stored' = Stored
    BY <1>1, <2>1 DEF Stored, View, Good
  <2> QED
    BY <1>2, <2>2, PrefixFacts
<1>5. CASE ~board.hasPersistedBaseline
  <2>1. svg = NoFile /\ json = NoFile /\ backup = NoFile
    BY <1>1, <1>3, <1>5 DEF IInv, BoardInv
  <2>2. DocOf(Stored) = << >>
    BY <2>1, DocOfFacts DEF IInv
  <2> QED
    BY <1>2, <2>2, PrefixFacts
<1> QED
  BY <1>4, <1>5

\* Replacing the SVG extends what it held.
LEMMA ReplaceExtends ==
  ASSUME IInv, IInv', Replace
  PROVE  Prefix(DocOf(Stored), DocOf(Stored'))
<1>1. /\ saving # NotSaving /\ saving.at = "replace" /\ board # NoBoard
      /\ svg' = File(saving.doc, saving.seq) /\ backup = svg' /\ UNCHANGED json
  BY ReplaceFacts
<1>2. saving.doc \in Docs /\ saving.seq \in 0 .. MaxMutations
  BY <1>1 DEF IInv, SaveInv, Saves
<1>3. svg' \in Files /\ svg' # NoFile /\ svg'.doc = saving.doc /\ svg'.state = "good"
  BY <1>1, <1>2, FileFacts
<1>4. Stored' = svg' /\ DocOf(Stored') = saving.doc
  <2>1. Stored' = svg'
    BY <1>3 DEF Stored, View, Accepts
  <2> QED
    BY <1>3, <2>1, FilesAssumption DEF DocOf
<1>5. CASE board.hasPersistedBaseline
  <2>1. Good /\ Prefix(svg.doc, saving.doc)
    BY <1>1, <1>5 DEF IInv, SaveInv, Good, Accepts
  <2> QED
    BY <1>4, <2>1, DocOfFacts DEF IInv
<1>6. CASE ~board.hasPersistedBaseline
  <2>1. svg = NoFile
    BY <1>1, <1>6 DEF IInv, BoardInv
  <2>2. Stored = backup
    BY <1>1, <1>3, <2>1 DEF Stored, View, Accepts
  <2> QED
    BY <1>1, <1>2, <1>4, <2>2, PrefixFacts
<1> QED
  BY <1>5, <1>6

\* Every step that damages nothing extends what is stored.
LEMMA StoredStep ==
  ASSUME IInv, ~collided', [FilesNext]_filesVars, spoilings' = spoilings
  PROVE  IsPrefix(DocOf(Stored), DocOf(Stored'))
<1>1. IInv'
  BY Inductive
<1>2. DocOf(Stored) \in Docs /\ DocOf(Stored') \in Docs
  <2>1. FilesInv /\ FilesInv'
    BY <1>1 DEF IInv
  <2>2. (DocOf(Stored) \in Docs)'
    BY <2>1, StoredIsDoc, PTL
  <2> QED
    BY <2>1, <2>2, StoredIsDoc
<1>3. Stored' = Stored => Prefix(DocOf(Stored), DocOf(Stored'))
  BY <1>2, PrefixFacts
<1>4. UNCHANGED files => Stored' = Stored
  BY DEF files, Stored, View
<1>5. ASSUME NEW p \in Processes, Read(p)
      PROVE  Stored' = Stored
  BY <1>5, ReadKeepsStored
<1>6. FinishLoad \/ Mutate \/ Unload \/ SaveBoard \/ ChooseSource \/ RewriteSource \/ Crash
      => UNCHANGED files
  <2>1. RewriteSource => UNCHANGED files
    BY RewriteFacts DEF SaveFails, SaveIsStale
  <2> QED
    BY <2>1 DEF FinishLoad, Mutate, Unload, SaveBoard, ChooseSource, Crash
<1>7. ~Spoil
  BY DEF Spoil, IInv, FilesInv
<1>8. UNCHANGED filesVars => UNCHANGED files
  BY DEF filesVars
<1>9. Prefix(DocOf(Stored), DocOf(Stored'))
  BY <1>1, <1>3, <1>4, <1>5, <1>6, <1>7, <1>8, StageExtends, ReplaceExtends DEF FilesNext
<1> QED
  BY <1>2, <1>9, PrefixIs

\* Until files are changed under somebody, neither a save or a crash in the middle of
\* one, nor a repair or a migration, loses a document that could be loaded (the two
\* renames of a save, readStoredSvgWithFallback).
THEOREM SavesOnlyExtendFiles ==
  FilesSpec => StoredOnlyExtended
<1>1. UntilCollided /\ [FilesNext]_filesVars =>
        (spoilings' = spoilings => collided' \/ IsPrefix(DocOf(Stored), DocOf(Stored')))
  BY StoredStep, CollidedStays DEF UntilCollided
<1> QED
  BY <1>1, Invariance, PTL DEF FilesSpec, StoredOnlyExtended

\* A save ends by a crash, because the SVG was damaged, or with its board stored.
LEMMA SaveStepSucceeds ==
  ASSUME IInv, [FilesNext]_filesVars, saving # NotSaving, saving' = NotSaving, crashes' = crashes, spoilings = 0
  PROVE  board' # NoBoard /\ board'.persisted = saving.seq
<1>1. saving \in Saves /\ NotSaving \notin Saves /\ board \in Boards /\ NoBoard \notin Boards
  BY FilesAssumption DEF IInv, SaveInv, BoardInv
<1>2. \A at \in {"rewrite", "stage", "replace"}, source \in {"svg", "backup"} :
        [saving EXCEPT !.at = at, !.source = source] \in Saves /\ [saving EXCEPT !.at = at] \in Saves
  BY <1>1 DEF Saves
<1>3. CASE Replace
  <2>1. board' = [board EXCEPT !.persisted = saving.seq, !.hasPersistedBaseline = TRUE]
    BY <1>3, ReplaceFacts
  <2>2. PICK seq \in 0 .. MaxMutations : seq = saving.seq
    BY <1>1 DEF Saves
  <2>3. board' \in Boards /\ board'.persisted = seq
    BY <1>1, <2>1, <2>2 DEF Boards
  <2> QED
    BY <1>1, <2>2, <2>3
<1>4. ~RewriteSource
  BY <1>1, <1>2, RewriteFacts
<1>5. ~Stage /\ ~ChooseSource
  BY <1>1, <1>2 DEF Stage, ChooseSource
<1>6. ~Crash
  BY DEF Crash, IInv, FilesInv
<1>7. ~Unload /\ ~SaveBoard
  BY DEF Unload, SaveBoard
<1>8. ~FinishLoad /\ ~Mutate /\ ~Spoil /\ ~UNCHANGED filesVars
  BY DEF FinishLoad, Mutate, Spoil, filesVars
<1>9. \A p \in Processes : ~Read(p)
  BY DEF Read, BeginRead, StatSvg, ReadSvg, StatBackup, ReadBackup, Quarantine, Promote, OpenFound,
     Answer, StageMigration, ReplaceMigrated, Step
<1> QED
  BY <1>3, <1>4, <1>5, <1>6, <1>7, <1>8, <1>9 DEF FilesNext

\* Until files are changed under somebody, a save that no crash cuts short stores the
\* board, unless the SVG was damaged (rewriteStoredSvgFromCanonical finds its file, and
\* the staging file is still there to rename).
THEOREM SavesSucceed ==
  FilesSpec => SaveSucceeds
<1>1. UntilCollided /\ [FilesNext]_filesVars =>
        (saving # NotSaving /\ saving' = NotSaving /\ crashes' = crashes /\ spoilings = 0 =>
           collided' \/ (board' # NoBoard /\ board'.persisted = saving.seq))
  BY SaveStepSucceeds, CollidedStays DEF UntilCollided
<1> QED
  BY <1>1, Invariance, PTL DEF FilesSpec, SaveSucceeds
=============================================================================
