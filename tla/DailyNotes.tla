------------------------------ MODULE DailyNotes ------------------------------
(* One file of daily notes (daily-notes.ts) and the runtimes of a process that write to it.   *)
(* A write reads the file, works out the new text, and puts it in place by a rename; a queue  *)
(* of the process, by path, holds writes back until the one before has ended.                 *)
EXTENDS Integers, Sequences

CONSTANTS
  Runtime,       \* the runtimes of the process
  Title,         \* items of the file
  Note,          \* what an item may say
  NoFile,        \* a model value: there is no file
  MaxWriting     \* bound: writes that are waiting or under way

ASSUME NotesAssumption == NoFile \notin Note /\ MaxWriting \in Nat

VARIABLES
  file,      \* the file: title -> note, or NoFile
  backup,    \* the file beside it that holds the text before
  line       \* queues: the writes to the path, the first one under way
noteVars == <<file, backup, line>>

\* A mistake that WritesAreWhole finds: a queue for each runtime.
QueueOfRuntime(r) == r

\* The queue a write goes to: the process has one.
QueueOf(r) == "process"
Queues == {"process"} \cup Runtime

Items(text) == IF text = NoFile THEN << >> ELSE text
Holding(text, note) == {t \in DOMAIN Items(text) : Items(text)[t] = note}

\* A new item, or another note in place of the only one that reads like old_text.
NewItem(t, n) == [old |-> NoFile, title |-> t, note |-> n]
ChangedItem(old, n) == [old |-> old, title |-> NoFile, note |-> n]
NoteWrites == {NewItem(t, n) : t \in Title, n \in Note} \cup {ChangedItem(old, n) : old, n \in Note}

Accepts(text, w) ==
  IF w.old = NoFile THEN w.title \notin DOMAIN Items(text)
                    ELSE \E t \in Title : Holding(text, w.old) = {t}
Updated(text, w) ==
  IF w.old = NoFile
    THEN [t \in DOMAIN Items(text) \cup {w.title} |-> IF t = w.title THEN w.note ELSE Items(text)[t]]
    ELSE [t \in DOMAIN Items(text) |-> IF Items(text)[t] = w.old THEN w.note ELSE Items(text)[t]]

Waiting(w) == [write |-> w, at |-> "waits", before |-> NoFile]
Head1(q) == line[q][1]
Goes(q, at) == line[q] # << >> /\ Head1(q).at = at
Leaves(q) == line' = [line EXCEPT ![q] = Tail(@)]

WriteNote(r, w) ==
  /\ \A q \in Queues : Len(line[q]) < MaxWriting
  /\ line' = [line EXCEPT ![QueueOf(r)] = Append(@, Waiting(w))]
  /\ UNCHANGED <<file, backup>>

\* The write is refused when the text does not fit what the file holds.
Load(q) ==
  /\ Goes(q, "waits")
  /\ IF Accepts(file, Head1(q).write)
       THEN line' = [line EXCEPT ![q][1] = [@ EXCEPT !.at = "loaded", !.before = file]]
       ELSE Leaves(q)
  /\ UNCHANGED <<file, backup>>

\* The new text is written to a temporary file; the old one is copied and becomes the backup.
KeepBackup(q) ==
  /\ Goes(q, "loaded")
  /\ backup' = IF Head1(q).before = NoFile THEN backup ELSE Head1(q).before
  /\ line' = [line EXCEPT ![q][1].at = "backed"]
  /\ UNCHANGED file

Rename(q) ==
  /\ Goes(q, "backed")
  /\ file' = Updated(Head1(q).before, Head1(q).write)
  /\ Leaves(q)
  /\ UNCHANGED backup

\* The disk refuses a step: the write fails, and the queue goes on with the next.
WriteFails(q) ==
  /\ line[q] # << >>
  /\ Leaves(q)
  /\ UNCHANGED <<file, backup>>

ProcessDies ==
  /\ \E q \in Queues : line[q] # << >>
  /\ line' = [q \in Queues |-> << >>]
  /\ UNCHANGED <<file, backup>>

NotesInit == file = NoFile /\ backup = NoFile /\ line = [q \in Queues |-> << >>]
NotesNext ==
  \/ \E r \in Runtime, w \in NoteWrites : WriteNote(r, w)
  \/ \E q \in Queues : Load(q) \/ KeepBackup(q) \/ Rename(q) \/ WriteFails(q)
  \/ ProcessDies
NotesSpec == NotesInit /\ [][NotesNext]_noteVars

----------------------------------------------------------------------------
NoteTexts == {NoFile} \cup UNION {[D -> Note] : D \in SUBSET Title}
NotesTypeOK ==
  /\ file \in NoteTexts /\ backup \in NoteTexts
  /\ line \in [Queues -> Seq([write : NoteWrites, at : {"waits", "loaded", "backed"}, before : NoteTexts])]

\* Every change of the file is one whole write, applied to what the file held just before, and
\* the backup beside it is what it replaced; so no note is lost to another runtime of the process
\* that writes at the same time ("a process-wide queue also covers two runtimes sharing a file",
\* daily-notes.ts:37), nor to a write that failed or was cut off.
WritesAreWhole ==
  [][file' # file =>
       /\ \E q \in Queues :
            /\ line[q] # << >>
            /\ Accepts(file, Head1(q).write) /\ file' = Updated(file, Head1(q).write)
       /\ file # NoFile => backup = file]_noteVars

============================================================================
