----------------------------- MODULE StateFile -----------------------------
(***************************************************************************)
(* StateStore (store.py): state.json, one section per component, rewritten *)
(* as a whole with every change: temporary file, fsync, rename, fsync of   *)
(* the directory.  Each component writes its own section from under its    *)
(* own lock, so a section has at most one write under way; the lock of the *)
(* store keeps the writes of different sections apart.                     *)
(*                                                                         *)
(* A crash of the manager leaves the file as the kernel shows it; a power  *)
(* loss leaves one of the versions that may have reached the disk.         *)
(***************************************************************************)
EXTENDS Integers, FiniteSets

CONSTANTS
  Sections,    \* "reservations", "downloads", "servers", "prompts"
  Values,      \* what each section may hold
  FileFirst,   \* the sections whose component changes its memory after the file
  Torn,        \* a file whose content was cut off
  NoContent    \* what a writer with nothing to write writes

VARIABLES
  own,      \* each component's memory of its section
  data,     \* StateStore._data
  file,     \* state.json as the kernel shows it
  disk,     \* the versions of state.json a power loss may leave
  shaky,    \* the last fsync of the directory failed
  pc, new,  \* where the write of each section is, and the content it writes
  tmp,      \* its temporary file
  allowed,  \* history: what a client may find in a section, from the answers given
  refused   \* history: the sections whose last write was refused

vars == <<own, data, file, disk, shaky, pc, new, tmp, allowed, refused>>

ASSUME SectionsAssumption == FileFirst \subseteq Sections

Content == {c \in [Sections -> UNION {Values[s] : s \in Sections}] : \A s \in Sections : c[s] \in Values[s]}

ASSUME TornAssumption == Torn \notin Content

Writing(s) == pc[s] # "idle"

\* Renamed, not yet answered: what a restart may find of it, or not.
InFlight(s) == IF pc[s] \in {"syncDir", "answer"} THEN {new[s][s]} ELSE {}

Goto(s, label) == pc' = [pc EXCEPT ![s] = label]

-----------------------------------------------------------------------------
\* Mutant: the sections are not kept apart by the lock.
BeginUnlocked(s) ==
  /\ ~Writing(s)
  /\ \E v \in Values[s] :
       /\ new' = [new EXCEPT ![s] = [data EXCEPT ![s] = v]]
       /\ own' = IF s \in FileFirst THEN own ELSE [own EXCEPT ![s] = v]
  /\ Goto(s, "write")
  /\ UNCHANGED <<data, file, disk, shaky, tmp, allowed, refused>>

\* Mutant: every component changes its memory before the file.
BeginMemoryFirst(s) ==
  /\ \A r \in Sections : ~Writing(r)
  /\ \E v \in Values[s] :
       /\ new' = [new EXCEPT ![s] = [data EXCEPT ![s] = v]]
       /\ own' = [own EXCEPT ![s] = v]
  /\ Goto(s, "write")
  /\ UNCHANGED <<data, file, disk, shaky, tmp, allowed, refused>>

\* write() takes the lock and puts the section beside the others; prompts,
\* downloads and servers have changed their own memory before.
Begin(s) ==
  /\ \A r \in Sections : ~Writing(r)
  /\ \E v \in Values[s] :
       /\ new' = [new EXCEPT ![s] = [data EXCEPT ![s] = v]]
       /\ own' = IF s \in FileFirst THEN own ELSE [own EXCEPT ![s] = v]
  /\ Goto(s, "write")
  /\ UNCHANGED <<data, file, disk, shaky, tmp, allowed, refused>>

\* Mutant: the temporary file is not synced before the rename.
WriteTmpOnly(s) ==
  /\ pc[s] = "write"
  /\ tmp' = [tmp EXCEPT ![s] = "written"]
  /\ Goto(s, "replace")
  /\ UNCHANGED <<own, data, file, disk, shaky, new, allowed, refused>>

WriteTmp(s) ==
  /\ pc[s] = "write"
  /\ tmp' = [tmp EXCEPT ![s] = "written"]
  /\ Goto(s, "sync")
  /\ UNCHANGED <<own, data, file, disk, shaky, new, allowed, refused>>

SyncTmp(s) ==
  /\ pc[s] = "sync"
  /\ tmp' = [tmp EXCEPT ![s] = "synced"]
  /\ Goto(s, "replace")
  /\ UNCHANGED <<own, data, file, disk, shaky, new, allowed, refused>>

\* The rename is there at once for every reader, for a power loss perhaps.
Replace(s) ==
  /\ pc[s] = "replace"
  /\ file' = new[s]
  /\ disk' = disk \cup {IF tmp[s] = "synced" THEN new[s] ELSE Torn}
  /\ tmp' = [tmp EXCEPT ![s] = "none"]
  /\ Goto(s, "syncDir")
  /\ UNCHANGED <<own, data, shaky, new, allowed, refused>>

\* Mutant: the memory takes the new content before the file does.
FailKeepsNew(s) ==
  /\ pc[s] \in {"write", "sync", "replace"}
  /\ tmp' = [tmp EXCEPT ![s] = "none"]
  /\ data' = new[s]
  /\ new' = [new EXCEPT ![s] = NoContent]
  /\ refused' = refused \cup {s}
  /\ Goto(s, "idle")
  /\ UNCHANGED <<own, file, disk, shaky, allowed>>

\* No space, no rights: the temporary file goes and the writer gets the error.
Fail(s) ==
  /\ pc[s] \in {"write", "sync", "replace"}
  /\ tmp' = [tmp EXCEPT ![s] = "none"]
  /\ new' = [new EXCEPT ![s] = NoContent]
  /\ refused' = refused \cup {s}
  /\ Goto(s, "idle")
  /\ UNCHANGED <<own, data, file, disk, shaky, allowed>>

\* Mutant: the directory is not synced at all.
SyncDirNever(s) ==
  /\ pc[s] = "syncDir"
  /\ Goto(s, "answer")
  /\ UNCHANGED <<own, data, file, disk, shaky, new, tmp, allowed, refused>>

\* A failed fsync of the directory does not make the write a failed one.
SyncDir(s) ==
  /\ pc[s] = "syncDir"
  /\ \/ disk' = {file} /\ shaky' = FALSE
     \/ shaky' = TRUE /\ UNCHANGED disk
  /\ Goto(s, "answer")
  /\ UNCHANGED <<own, data, file, new, tmp, allowed, refused>>

Answer(s) ==
  /\ pc[s] = "answer"
  /\ data' = new[s]
  /\ own' = [own EXCEPT ![s] = new[s][s]]
  /\ allowed' = [allowed EXCEPT ![s] = {new[s][s]}]
  /\ new' = [new EXCEPT ![s] = NoContent]
  /\ refused' = refused \ {s}
  /\ Goto(s, "idle")
  /\ UNCHANGED <<file, disk, shaky, tmp>>

-----------------------------------------------------------------------------
\* The manager loads what the file holds and starts with nothing under way;
\* temporary files left behind are never read.  (A file that is torn stops
\* the start; Readable says there is none.)
Load(content) ==
  /\ data' = content /\ own' = content
  /\ pc' = [s \in Sections |-> "idle"]
  /\ new' = [s \in Sections |-> NoContent]
  /\ tmp' = [s \in Sections |-> "none"]
  /\ refused' = {}

Crash ==
  /\ Load(file)
  /\ allowed' = [s \in Sections |-> allowed[s] \cup InFlight(s)]
  /\ UNCHANGED <<file, disk, shaky>>

\* The kernel writes the rename out in its own time.
Writeback ==
  /\ disk' = {file}
  /\ UNCHANGED <<own, data, file, shaky, pc, new, tmp, allowed, refused>>

\* What is found after a power loss is on the disk for good.
PowerLoss ==
  /\ \E content \in disk :
       /\ Load(content)
       /\ file' = content
       /\ disk' = {content}
       /\ allowed' = [s \in Sections |-> {content[s]}]
  /\ shaky' = FALSE

-----------------------------------------------------------------------------
Init ==
  /\ file \in Content
  /\ data = file /\ own = file /\ disk = {file} /\ shaky = FALSE
  /\ pc = [s \in Sections |-> "idle"]
  /\ new = [s \in Sections |-> NoContent]
  /\ tmp = [s \in Sections |-> "none"]
  /\ allowed = [s \in Sections |-> {file[s]}] /\ refused = {}

Write(s) ==
  \/ Begin(s) \/ WriteTmp(s) \/ SyncTmp(s) \/ Replace(s) \/ SyncDir(s) \/ Answer(s)
  \/ Fail(s)

Next == (\E s \in Sections : Write(s)) \/ Writeback \/ Crash \/ PowerLoss

Spec == Init /\ [][Next]_vars

-----------------------------------------------------------------------------
\* Properties

\* Every variable keeps its type, and the lock of the store has one holder.
TypeOK ==
  /\ own \in Content /\ data \in Content /\ file \in Content \cup {Torn}
  /\ disk \subseteq Content \cup {Torn} /\ disk # {}
  /\ shaky \in BOOLEAN
  /\ pc \in [Sections -> {"idle", "write", "sync", "replace", "syncDir", "answer"}]
  /\ new \in [Sections -> Content \cup {NoContent}]
  /\ \A s \in Sections : Writing(s) => new[s] \in Content
  /\ tmp \in [Sections -> {"none", "written", "synced"}]
  /\ \A s \in Sections : allowed[s] \subseteq Values[s]
  /\ DOMAIN allowed = Sections /\ refused \subseteq Sections
  /\ \A r, s \in Sections : Writing(r) /\ Writing(s) => r = s

\* Whatever dies at whatever moment, the next start finds a whole file
\* (store.py: a crash in the middle of a write does not leave half a file).
Readable == file # Torn /\ Torn \notin disk

\* A write that was answered is found by every later start, after a crash and
\* after a power loss, and one that was refused is not, unless the directory
\* could not be synced (fsync_dir: the answer has already said "saved").
AnsweredSurvives ==
  /\ \A s \in Sections : file[s] \in allowed[s] \cup InFlight(s)
  /\ ~shaky => \A c \in disk : \A s \in Sections : c[s] \in allowed[s] \cup InFlight(s)

\* A write of one section never takes back what another section has written,
\* however the writes of the components come together.
SectionsApart ==
  [][\A s \in Sections : Replace(s) => \A r \in Sections \ {s} : file'[r] = file[r]]_vars

\* Between writes the store's memory is what the file holds, after refused
\* writes too (write: the memory stays old).
MemoryIsFile == (\A s \in Sections : ~Writing(s)) => data = file

\* What a component shows is what is saved (reservations.py, _commit); one that changes its memory
\* before the file (prompts.py 40-41) differs from it only from a refused write to its next answered
\* one or the restart.
ShowsWhatIsSaved == \A s \in Sections : Writing(s) \/ own[s] = data[s] \/ s \in refused \ FileFirst
=============================================================================
