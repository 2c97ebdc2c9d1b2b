-------------------------- MODULE DownloadsProofs --------------------------
(***************************************************************************)
(* What the queue of downloads promises, for any models, revisions,        *)
(* requests, restarts and number of places.                                *)
(***************************************************************************)
EXTENDS Downloads, FiniteSetTheorems, TLAPS

\* The files of a record that says it is done, or keeps a revision ready, are there.
FilesAreThere(its) == \A r \in Repos \ Overlap : its[r] # NoItem =>
  /\ its[r].status = "done" => its[r].rev \in complete[r]
  /\ its[r].ready # NoRev => its[r].ready \in complete[r]

\* Thread t stands between the check of a download of r and its record.
Records(t, r) == pc[t] \in Unrecorded /\ req[t].repo = r

\* A process works for the active record of its model.
ProcsServe == \A r \in Repos \ Overlap : procs[r] # NoProc =>
  /\ HasStatus(items, r, "downloading") /\ procs[r].rev = items[r].rev
  /\ procs[r].state = "ok" => procs[r].rev \in complete[r]

\* One request at a time records a download, while none is active, and what it
\* saw of the disk still holds.
OneRecords == \A r \in Repos \ Overlap : \A t \in Threads : Records(t, r) =>
  /\ \A u \in Threads : Records(u, r) => u = t
  /\ ~IsActive(items, r)
  /\ pc[t] = "whole" => req[t].rev \in complete[r]
  /\ pc[t] = "missing" => req[t].rev \notin complete[r]

HasJob == \A t \in Threads : pc[t] # "idle" => req[t] # NoReq

\* What a restart makes of the file it makes of the memory too.
FileKeeps == \A r \in Repos :
  /\ IsActive(items, r) => /\ IsActive(saved, r) /\ saved[r].rev = items[r].rev
                           /\ saved[r].started = items[r].started
  /\ HasStatus(items, r, "cancelled") => saved[r] = items[r]

Truth == /\ FilesAreThere(items) /\ FilesAreThere(saved)
         /\ ProcsServe /\ OneRecords /\ FileKeeps

IInv == TypeOK /\ HasJob /\ Truth

USE ConstantsAssumption

Item == Download \cup {NoItem}

-----------------------------------------------------------------------------
(***************************************************************************)
(* A pass over the queue, model by model.                                  *)
(***************************************************************************)
Kept(r) == procs'[r] = procs[r] /\ items'[r] = items[r]

Judged(r) == /\ r \in Ended /\ procs'[r] = NoProc
             /\ items'[r] = Verdicts[r]

Taken(r) == /\ r \in Queue /\ procs'[r] = [rev |-> items[r].rev, state |-> "running"]
            /\ items'[r] = [items[r] EXCEPT !.status = "downloading"]

NoRoom(r) == /\ r \in Queue /\ procs'[r] = NoProc
             /\ items'[r] = [items[r] EXCEPT !.status = "failed"]

Fates == \A r \in Repos : Kept(r) \/ Judged(r) \/ Taken(r) \/ NoRoom(r)

LEMMA VerdictTypes ==
  ASSUME TypeOK, NEW r \in Repos
  PROVE  /\ Verdicts[r] \in Item
         /\ items[r] = NoItem => Verdicts[r] = NoItem
         /\ r \in Ended /\ items[r] # NoItem =>
              Verdicts[r] = [items[r] EXCEPT !.status = IF procs[r].state = "ok" THEN "done" ELSE "failed"]
BY DEF TypeOK, Verdicts, Item, Download

LEMMA OutcomeFates ==
  ASSUME TypeOK, NEW S \in SUBSET Queue, NEW F \in SUBSET Queue, S \cap F = {}, Outcome(S, F)
  PROVE  /\ Fates
         /\ items' = [r \in Repos |-> items'[r]] /\ procs' = [r \in Repos |-> procs'[r]]
         /\ \A r \in Repos : Taken(r) => r \in S
         /\ \A r \in S : Taken(r)
         /\ \A r \in F : NoRoom(r)
<1>1. ASSUME NEW r \in Repos PROVE Kept(r) \/ Judged(r) \/ Taken(r) \/ NoRoom(r)
  <2>1. CASE r \in S BY <2>1 DEF Outcome, Taken
  <2>2. CASE r \notin S /\ r \in F
    <3>1. procs[r] = NoProc /\ r \notin Ended BY <2>2 DEF Queue, Running, Ended
    <3> QED BY <2>2, <3>1 DEF Outcome, NoRoom
  <2>3. CASE r \notin S /\ r \notin F /\ r \in Ended BY <2>3 DEF Outcome, Judged
  <2>4. CASE r \notin S /\ r \notin F /\ r \notin Ended BY <2>4 DEF Outcome, Kept, Verdicts
  <2> QED BY <2>1, <2>2, <2>3, <2>4
<1>2. ASSUME NEW r \in Repos, Taken(r) PROVE r \in S
  <2>1. r \notin Ended /\ procs[r] = NoProc BY <1>2 DEF Taken, Queue, Running, Ended
  <2>2. procs'[r] # NoProc BY <1>2 DEF Taken, TypeOK, Queue, HasStatus, Download, Proc
  <2> QED BY <2>1, <2>2 DEF Outcome
<1>3. ASSUME NEW r \in S PROVE Taken(r) BY DEF Outcome, Taken, Queue
<1>4. ASSUME NEW r \in F PROVE NoRoom(r)
  <2>1. procs[r] = NoProc /\ r \notin Ended /\ r \in Repos BY DEF Queue, Running, Ended
  <2> QED BY <2>1 DEF Outcome, NoRoom
<1>5. /\ items' = [r \in Repos |-> items'[r]] /\ procs' = [r \in Repos |-> procs'[r]]
  BY DEF Outcome
<1> QED BY <1>1, <1>2, <1>3, <1>4, <1>5 DEF Fates

LEMMA PassFates ==
  ASSUME TypeOK, Pass \/ PollSpawnFails
  PROVE  /\ Fates
         /\ items' = [r \in Repos |-> items'[r]] /\ procs' = [r \in Repos |-> procs'[r]]
         /\ saved' = saved \/ saved' = items'
<1>1. CASE Pass /\ Strays # {}
  <2>1. PICK s \in Strays, before \in SUBSET (Ended \ Strays) :
          /\ procs' = [q \in Repos |-> IF q \in before \cup {s} THEN NoProc ELSE procs[q]]
          /\ items' = [q \in Repos |-> IF q \in before THEN Verdicts[q] ELSE items[q]]
          /\ UNCHANGED saved
    BY <1>1 DEF Pass
  <2>2. ASSUME NEW r \in Repos PROVE Kept(r) \/ Judged(r)
    BY <2>1 DEF Kept, Judged, Strays, Verdicts
  <2> QED BY <2>1, <2>2 DEF Fates
<1>2. CASE Pass /\ Strays = {}
  <2>1. PICK S \in SUBSET Queue, F \in SUBSET Queue :
          /\ S \cap F = {} /\ Outcome(S, F)
          /\ saved' = IF Ended \cup S \cup F = {} THEN saved ELSE items'
    BY <1>2 DEF Pass
  <2> QED BY <2>1, OutcomeFates
<1>3. CASE PollSpawnFails
  <2>1. PICK S \in SUBSET Queue, F \in SUBSET Queue : S \cap F = {} /\ Outcome(S, F)
    BY <1>3 DEF PollSpawnFails
  <2>2. saved' = saved BY <1>3 DEF PollSpawnFails
  <2> QED BY <2>1, <2>2, OutcomeFates
<1> QED BY <1>1, <1>2, <1>3

LEMMA FateTypes ==
  ASSUME TypeOK, Pass \/ PollSpawnFails
  PROVE  /\ items' \in [Repos -> Item] /\ saved' \in [Repos -> Item]
         /\ procs' \in [Repos -> Proc \cup {NoProc}]
<1>1. ASSUME NEW r \in Repos
      PROVE  items'[r] \in Item /\ procs'[r] \in Proc \cup {NoProc}
  <2>1. CASE Kept(r) BY <2>1 DEF Kept, TypeOK, Item
  <2>2. CASE Judged(r) BY <2>2, VerdictTypes DEF Judged
  <2>3. CASE Taken(r) BY <2>3 DEF Taken, TypeOK, Item, Download, Active, Proc, Queue, HasStatus
  <2>4. CASE NoRoom(r) BY <2>4 DEF NoRoom, TypeOK, Item, Download, Queue, HasStatus
  <2> QED BY <2>1, <2>2, <2>3, <2>4, PassFates DEF Fates
<1> QED BY <1>1, PassFates DEF TypeOK, Item

\* A pass fills no more places than there are.
LEMMA PassPlaces ==
  ASSUME TypeOK, Pass \/ PollSpawnFails
  PROVE  Cardinality(Running') <= MaxParallel
<1>0. IsFiniteSet(Running) BY FS_Subset DEF Running
<1>1. ASSUME NEW S \in SUBSET Queue, NEW F \in SUBSET Queue, S \cap F = {}, Outcome(S, F),
             Cardinality(S) <= MaxParallel - Cardinality(Running \ Ended)
      PROVE  Cardinality(Running') <= MaxParallel
  <2>1. Running' \subseteq S \cup (Running \ Ended)
    <3>1. SUFFICES ASSUME NEW r \in Repos, procs'[r] # NoProc, r \notin S
                   PROVE  r \in Running \ Ended
      BY DEF Running
    <3> QED BY <1>1, <3>1 DEF Outcome, Running
  <2>2. IsFiniteSet(S) /\ IsFiniteSet(Running \ Ended)
    BY <1>0, FS_Subset DEF Queue
  <2>3. /\ Cardinality(S \cup (Running \ Ended)) =
             Cardinality(S) + Cardinality(Running \ Ended) - Cardinality(S \cap (Running \ Ended))
        /\ IsFiniteSet(S \cup (Running \ Ended))
    BY <2>2, FS_Union
  <2>4. /\ Cardinality(S) \in Nat /\ Cardinality(Running \ Ended) \in Nat
        /\ Cardinality(S \cap (Running \ Ended)) \in Nat
    BY <2>2, FS_CardinalityType, FS_Subset
  <2>5. Cardinality(Running') <= Cardinality(S \cup (Running \ Ended)) /\ Cardinality(Running') \in Nat
    BY <2>1, <2>3, FS_Subset, FS_CardinalityType
  <2> QED BY <1>1, <2>3, <2>4, <2>5
<1>2. CASE Pass /\ Strays # {}
  <2>1. Running' \subseteq Running BY <1>2 DEF Pass, Running
  <2> QED BY <1>0, <2>1, FS_Subset, FS_CardinalityType DEF TypeOK
<1>3. CASE Pass /\ Strays = {} BY <1>1, <1>3 DEF Pass, Takes
<1>4. CASE PollSpawnFails
  <2>1. PICK S \in SUBSET Queue, F \in SUBSET Queue :
          /\ S \cap F = {} /\ Outcome(S, F)
          /\ Cardinality(S) < MaxParallel - Cardinality(Running \ Ended)
    BY <1>4 DEF PollSpawnFails
  <2>2. IsFiniteSet(S) /\ IsFiniteSet(Running \ Ended)
    BY <1>0, FS_Subset DEF Queue
  <2>3. Cardinality(S) \in Nat /\ Cardinality(Running \ Ended) \in Nat
    BY <2>2, FS_CardinalityType
  <2> QED BY <1>1, <2>1, <2>3
<1> QED BY <1>2, <1>3, <1>4

-----------------------------------------------------------------------------
\* Types, and no more processes than places.

LEMMA FewerRun ==
  ASSUME TypeOK, Running' \subseteq Running
  PROVE  Cardinality(Running') <= MaxParallel
<1>1. IsFiniteSet(Running) BY FS_Subset DEF Running
<1> QED BY <1>1, FS_Subset, FS_CardinalityType DEF TypeOK

LEMMA SameRun ==
  ASSUME procs \in [Repos -> Proc \cup {NoProc}], NEW r \in Repos, NEW p \in Proc, procs[r] # NoProc,
         procs' = [procs EXCEPT ![r] = p]
  PROVE  Running' = Running
BY DEF Running

LEMMA TypesHold == Init => TypeOK
<1> SUFFICES ASSUME Init PROVE TypeOK OBVIOUS
<1>1. Running = {} BY DEF Init, Running
<1>2. Cardinality(Running) <= MaxParallel BY <1>1, FS_EmptySet
<1> QED BY <1>2 DEF Init, TypeOK, Unrecorded

LEMMA Requests ==
  ASSUME TypeOK, NEW t \in Threads, BeginDownload(t) \/ Refused(t) \/ Look(t)
  PROVE  TypeOK'
<1>1. Running' = Running BY DEF BeginDownload, Refused, Look, Running
<1>2. CASE BeginDownload(t)
  BY <1>1, <1>2 DEF BeginDownload, TypeOK, Call, disk, Unrecorded, ConstantsAssumption
<1>3. CASE Refused(t) BY <1>1, <1>3 DEF Refused, TypeOK, Return, disk, Unrecorded
<1>4. CASE Look(t) BY <1>1, <1>4 DEF Look, TypeOK, Goto, disk, Unrecorded
<1> QED BY <1>2, <1>3, <1>4

LEMMA TypesKept ==
  ASSUME TypeOK, HasJob, [Next]_vars
  PROVE  TypeOK' /\ HasJob'
<1>0. CASE UNCHANGED vars BY <1>0 DEF vars, disk, TypeOK, HasJob, Running
<1>1. ASSUME NEW t \in Threads, BeginDownload(t) PROVE TypeOK' /\ HasJob'
  <2>1. TypeOK' BY <1>1, Requests
  <2>2. \A u \in Threads : pc'[u] # "idle" => pc[u] # "idle" \/ req'[u] \in [repo : Repos, rev : Revs]
    BY <1>1 DEF BeginDownload, TypeOK
  <2>3. \A u \in Threads : pc[u] # "idle" => req'[u] = req[u]
    BY <1>1 DEF BeginDownload, TypeOK, Call
  <2> QED BY <2>1, <2>2, <2>3 DEF HasJob, ConstantsAssumption
<1>2. ASSUME NEW t \in Threads, Refused(t) PROVE TypeOK' /\ HasJob'
  BY <1>2, Requests DEF Refused, Return, HasJob, TypeOK
<1>3. ASSUME NEW t \in Threads, Look(t) PROVE TypeOK' /\ HasJob'
  BY <1>3, Requests DEF Look, Goto, HasJob, TypeOK
<1>4. ASSUME NEW t \in Threads, RecordDone(t) PROVE TypeOK' /\ HasJob'
  <2>1. Running' = Running BY <1>4 DEF RecordDone, Running
  <2>2. req[t] \in [repo : Repos, rev : Revs] BY <1>4 DEF RecordDone, TypeOK, HasJob
  <2>3. items' \in [Repos -> Item] BY <1>4, <2>2 DEF RecordDone, TypeOK, Item, Download
  <2> QED BY <1>4, <2>1, <2>2, <2>3 DEF RecordDone, TypeOK, HasJob, Return, disk, Item
<1>5. ASSUME NEW t \in Threads, RecordQueued(t) PROVE TypeOK' /\ HasJob'
  <2>1. Running' = Running BY <1>5 DEF RecordQueued, Running
  <2>2. req[t] \in [repo : Repos, rev : Revs] BY <1>5 DEF RecordQueued, TypeOK, HasJob
  <2>3. ReadyBefore(req[t].repo) \in Revs \cup {NoRev}
    BY <2>2 DEF ReadyBefore, TypeOK, Download
  <2>4. items' \in [Repos -> Item]
    BY <1>5, <2>2, <2>3 DEF RecordQueued, TypeOK, Item, Download, Active
  <2> QED BY <1>5, <2>1, <2>2, <2>4 DEF RecordQueued, TypeOK, HasJob, Goto, disk, Item
<1>6. ASSUME NEW t \in Threads, DownloadPoll(t) PROVE TypeOK' /\ HasJob'
  BY <1>6, FateTypes, PassPlaces DEF DownloadPoll, TypeOK, HasJob, Return, disk, Item
<1>7. ASSUME NEW t \in Threads, Cancel(t) PROVE TypeOK' /\ HasJob'
  <2>1. PICK r \in Repos : /\ Call(t, r) /\ IsActive(items, r) /\ StopWorker(r)
                           /\ items' = [items EXCEPT ![r].status = "cancelled"]
    BY <1>7 DEF Cancel
  <2>2. Cardinality(Running') <= MaxParallel
    BY <2>1, FewerRun DEF StopWorker, Running, TypeOK
  <2>3. items' \in [Repos -> Item]
    BY <2>1 DEF TypeOK, Item, Download, IsActive
  <2> QED BY <1>7, <2>1, <2>2, <2>3 DEF Cancel, TypeOK, HasJob, Call, StopWorker, disk, Item
<1>8. ASSUME NEW t \in Threads, Delete(t) PROVE TypeOK' /\ HasJob'
  <2>1. Running' = Running BY <1>8 DEF Delete, Running
  <2> QED BY <1>8, <2>1 DEF Delete, TypeOK, HasJob, Call
<1>9. CASE Poll
  BY <1>9, FateTypes, PassPlaces DEF Poll, TypeOK, HasJob, disk, Item
<1>10. CASE PollSpawnFails
  BY <1>10, FateTypes, PassPlaces DEF PollSpawnFails, TypeOK, HasJob, disk, Item
<1>11. ASSUME NEW r \in Repos, Progress(r) PROVE TypeOK' /\ HasJob'
  <2>1. Running' = Running BY <1>11 DEF Progress, Running
  <2>2. procs[r].rev \in Revs BY <1>11 DEF Progress, TypeOK, Proc
  <2> QED BY <1>11, <2>1, <2>2 DEF Progress, TypeOK, HasJob
<1>12. ASSUME NEW r \in Repos, Succeed(r) PROVE TypeOK' /\ HasJob'
  <2>1. procs[r] \in Proc BY <1>12 DEF Succeed, TypeOK
  <2>2. Running' = Running BY <1>12, <2>1 DEF Succeed, Running, TypeOK, Proc
  <2> QED BY <1>12, <2>1, <2>2 DEF Succeed, TypeOK, HasJob, Proc
<1>13. ASSUME NEW r \in Repos, Fail(r) PROVE TypeOK' /\ HasJob'
  <2>1. procs[r] \in Proc BY <1>13 DEF Fail, TypeOK
  <2>2. Running' = Running BY <1>13, <2>1 DEF Fail, Running, TypeOK, Proc
  <2> QED BY <1>13, <2>1, <2>2 DEF Fail, TypeOK, HasJob, Proc, disk
<1>14. CASE Crash
  <2>1. Running' = {} BY <1>14 DEF Crash, Running
  <2>2. items' \in [Repos -> Item]
    BY <1>14 DEF Crash, Loaded, HasStatus, TypeOK, Item, Download, Active
  <2>3. Cardinality(Running') <= MaxParallel BY <2>1, FS_EmptySet
  <2> QED BY <1>14, <2>2, <2>3 DEF Crash, TypeOK, HasJob, disk, Item
<1> QED BY <1>0, <1>1, <1>2, <1>3, <1>4, <1>5, <1>6, <1>7, <1>8, <1>9, <1>10, <1>11, <1>12, <1>13, <1>14
        DEF Next, Work

\* Every variable of the queue keeps its type, and never do more workers run, or wait
\* to be noticed, than downloads.max_parallel, whoever polls.
THEOREM QueueTypes == Spec => [](TypeOK /\ HasJob)
<1>1. Init => TypeOK /\ HasJob BY TypesHold DEF Init, HasJob
<1>2. TypeOK /\ HasJob /\ [Next]_vars => TypeOK' /\ HasJob' BY TypesKept
<1> QED BY <1>1, <1>2, PTL DEF Spec

-----------------------------------------------------------------------------
(***************************************************************************)
(* What is said of a model is true of the disk, and the file keeps the     *)
(* queue.                                                                  *)
(***************************************************************************)
LEMMA BeginTruth == ASSUME IInv, TypeOK', NEW t \in Threads, BeginDownload(t) PROVE Truth'
<1>1. PICK r \in Repos : \E v \in RevsOf[r] :
         /\ Call(t, r) /\ ~IsActive(items, r)
         /\ req' = [req EXCEPT ![t] = [repo |-> r, rev |-> v]]
  BY DEF BeginDownload
<1>2. pc' = [pc EXCEPT ![t] = "asked"] /\ UNCHANGED <<items, saved, procs, disk>> BY DEF BeginDownload
<1>3. \A u \in Threads : u # t => pc'[u] = pc[u] /\ req'[u] = req[u]
  BY <1>1, <1>2 DEF IInv, TypeOK
<1>4. pc'[t] = "asked" /\ req'[t].repo = r BY <1>1, <1>2 DEF IInv, TypeOK
<1>5. r \notin Overlap => \A u \in Threads : ~Records(u, r) BY <1>1 DEF Call, Records
<1>6. \A q \in Repos : \A u \in Threads : Records(u, q)' => Records(u, q) \/ (u = t /\ q = r)
  BY <1>3, <1>4 DEF Records
<1>7. \A q \in Repos : ~Records(t, q)
  BY <1>1 DEF Call, Records, Unrecorded
<1>8. OneRecords'
  <2>1. SUFFICES ASSUME NEW q \in Repos \ Overlap, NEW u \in Threads, Records(u, q)'
                 PROVE  /\ \A w \in Threads : Records(w, q)' => w = u
                        /\ ~IsActive(items, q)'
                        /\ pc'[u] = "whole" => req'[u].rev \in complete'[q]
                        /\ pc'[u] = "missing" => req'[u].rev \notin complete'[q]
    BY DEF OneRecords
  <2>2. CASE u = t /\ q = r
    BY <1>1, <1>2, <1>4, <1>5, <1>6, <2>2 DEF disk, IsActive
  <2>3. CASE u # t \/ q # r
    <3>1. Records(u, q) /\ u # t /\ q # r BY <1>5, <1>6, <1>7, <2>1, <2>3
    <3> QED BY <1>2, <1>3, <1>6, <3>1 DEF IInv, Truth, OneRecords, disk, IsActive
  <2> QED BY <2>2, <2>3
<1> QED BY <1>2, <1>8 DEF IInv, Truth, FilesAreThere, ProcsServe, FileKeeps, disk, HasStatus, IsActive

LEMMA RefusedTruth == ASSUME IInv, NEW t \in Threads, Refused(t) PROVE Truth'
<1>1. \A q \in Repos : \A u \in Threads :
        Records(u, q)' => Records(u, q) /\ pc'[u] = pc[u] /\ req'[u] = req[u]
  BY DEF Refused, Return, Records, IInv, TypeOK, Unrecorded
<1>2. UNCHANGED <<items, saved, procs, disk>> BY DEF Refused
<1>3. OneRecords' BY <1>1, <1>2 DEF OneRecords, IInv, Truth, disk, IsActive
<1> QED BY <1>2, <1>3 DEF IInv, Truth, FilesAreThere, ProcsServe, FileKeeps, disk, HasStatus, IsActive

LEMMA LookTruth == ASSUME IInv, NEW t \in Threads, Look(t) PROVE Truth'
<1>1. \A q \in Repos : \A u \in Threads : /\ Records(u, q)' => Records(u, q)
                                          /\ req'[u] = req[u]
                                          /\ u # t => pc'[u] = pc[u]
  BY DEF Look, Goto, Records, IInv, TypeOK, Unrecorded
<1>2. UNCHANGED <<items, saved, procs, disk>> BY DEF Look
<1>3. pc'[t] = IF req[t].rev \in complete[req[t].repo] THEN "whole" ELSE "missing"
  BY DEF Look, Goto, IsComplete, IInv, TypeOK
<1>4. OneRecords'
  <2>1. SUFFICES ASSUME NEW q \in Repos \ Overlap, NEW u \in Threads, Records(u, q)'
                 PROVE  /\ \A w \in Threads : Records(w, q)' => w = u
                        /\ ~IsActive(items, q)'
                        /\ pc'[u] = "whole" => req'[u].rev \in complete'[q]
                        /\ pc'[u] = "missing" => req'[u].rev \notin complete'[q]
    BY DEF OneRecords
  <2>2. Records(u, q) /\ \A w \in Threads : Records(w, q)' => w = u
    BY <1>1, <2>1 DEF IInv, Truth, OneRecords
  <2>3. ~IsActive(items, q)' BY <1>2, <2>2 DEF IInv, Truth, OneRecords, IsActive
  <2>4. CASE u = t BY <1>1, <1>2, <1>3, <2>2, <2>3, <2>4 DEF disk, Records
  <2>5. CASE u # t BY <1>1, <1>2, <2>2, <2>3, <2>5 DEF disk, IInv, Truth, OneRecords
  <2> QED BY <2>4, <2>5
<1> QED BY <1>2, <1>4 DEF IInv, Truth, FilesAreThere, ProcsServe, FileKeeps, disk, HasStatus, IsActive

\* A thread that leaves its record behind leaves the others where they were.
LEMMA Recorded ==
  ASSUME IInv, TypeOK', NEW t \in Threads, Records(t, req[t].repo), req[t].repo \in Repos,
         pc'[t] \in {"idle", "poll"},
         \A u \in Threads : u # t => pc'[u] = pc[u] /\ req'[u] = req[u],
         \A q \in Repos : q # req[t].repo => items'[q] = items[q], UNCHANGED disk
  PROVE  OneRecords'
<1>1. SUFFICES ASSUME NEW q \in Repos \ Overlap, NEW u \in Threads, Records(u, q)'
               PROVE  /\ \A w \in Threads : Records(w, q)' => w = u
                      /\ ~IsActive(items, q)'
                      /\ pc'[u] = "whole" => req'[u].rev \in complete'[q]
                      /\ pc'[u] = "missing" => req'[u].rev \notin complete'[q]
  BY DEF OneRecords
<1>2. \A w \in Threads : Records(w, q)' => w # t /\ Records(w, q)
  BY DEF Records, Unrecorded
<1>3. q # req[t].repo BY <1>1, <1>2 DEF IInv, Truth, OneRecords
<1> QED BY <1>1, <1>2, <1>3 DEF IInv, Truth, OneRecords, IsActive, disk

LEMMA RecordDoneTruth == ASSUME IInv, TypeOK', NEW t \in Threads, RecordDone(t) PROVE Truth'
<1> DEFINE r == req[t].repo
<1>1. req[t] \in [repo : Repos, rev : Revs] /\ Records(t, r)
  BY DEF RecordDone, IInv, TypeOK, HasJob, Records, Unrecorded
<1>2. /\ items' = [items EXCEPT ![r] = [rev |-> req[t].rev, status |-> "done", started |-> clock, ready |-> NoRev]]
      /\ saved' = items' /\ UNCHANGED <<procs, disk>> /\ pc[t] = "whole"
  BY DEF RecordDone
<1>3. OneRecords' BY <1>1, <1>2, Recorded DEF RecordDone, Return, IInv, TypeOK
<1>4. FilesAreThere(items)' /\ FilesAreThere(saved)'
  BY <1>1, <1>2 DEF IInv, Truth, FilesAreThere, OneRecords, disk, TypeOK
<1>5. ProcsServe'
  BY <1>1, <1>2 DEF IInv, Truth, ProcsServe, OneRecords, disk, TypeOK, HasStatus, IsActive, Active
<1>6. FileKeeps' BY <1>2 DEF FileKeeps, IsActive, HasStatus
<1> QED BY <1>3, <1>4, <1>5, <1>6 DEF Truth, FilesAreThere

LEMMA RecordQueuedTruth == ASSUME IInv, TypeOK', NEW t \in Threads, RecordQueued(t) PROVE Truth'
<1> DEFINE r == req[t].repo
           v == req[t].rev
<1>1. req[t] \in [repo : Repos, rev : Revs] /\ Records(t, r)
  BY DEF RecordQueued, IInv, TypeOK, HasJob, Records, Unrecorded
<1>2. /\ items' = [items EXCEPT ![r] = [rev |-> v, status |-> "queued", started |-> clock,
                      ready |-> IF ReadyBefore(r) = v THEN NoRev ELSE ReadyBefore(r)]]
      /\ saved' = items' /\ UNCHANGED <<procs, disk>>
  BY DEF RecordQueued
<1>3. OneRecords' BY <1>1, <1>2, Recorded DEF RecordQueued, Goto, IInv, TypeOK
<1>4. r \notin Overlap => ReadyBefore(r) = NoRev \/ ReadyBefore(r) \in complete[r]
  BY <1>1 DEF ReadyBefore, IInv, Truth, FilesAreThere
<1>5. FilesAreThere(items)' /\ FilesAreThere(saved)'
  BY <1>1, <1>2, <1>4 DEF IInv, Truth, FilesAreThere, disk, TypeOK
<1>6. ProcsServe'
  BY <1>1, <1>2 DEF IInv, Truth, ProcsServe, OneRecords, disk, TypeOK, HasStatus, IsActive, Active
<1>7. FileKeeps' BY <1>2 DEF FileKeeps, IsActive, HasStatus
<1> QED BY <1>3, <1>5, <1>6, <1>7 DEF Truth, FilesAreThere

LEMMA CancelTruth == ASSUME IInv, TypeOK', NEW t \in Threads, Cancel(t) PROVE Truth'
<1>1. PICK r \in Repos : /\ Call(t, r) /\ IsActive(items, r)
                         /\ procs' = [procs EXCEPT ![r] = NoProc]
                         /\ items' = [items EXCEPT ![r].status = "cancelled"]
  BY DEF Cancel, StopWorker
<1>2. saved' = items' /\ UNCHANGED <<disk, pc, req>> BY DEF Cancel
<1>3. items'[r] = [items[r] EXCEPT !.status = "cancelled"] /\ items[r] \in Download
  BY <1>1 DEF IInv, TypeOK, IsActive
<1>4. \A q \in Repos : q # r => items'[q] = items[q] /\ procs'[q] = procs[q]
  BY <1>1 DEF IInv, TypeOK
<1>5. procs'[r] = NoProc BY <1>1 DEF IInv, TypeOK
<1>6. FilesAreThere(items)' /\ FilesAreThere(saved)'
  BY <1>2, <1>3, <1>4 DEF IInv, Truth, FilesAreThere, disk, Download
<1>7. ProcsServe' BY <1>2, <1>4, <1>5 DEF IInv, Truth, ProcsServe, HasStatus, disk
<1>8. OneRecords'
  BY <1>2, <1>3, <1>4 DEF IInv, Truth, OneRecords, Records, IsActive, Active, disk, Download
<1>9. FileKeeps' BY <1>2 DEF FileKeeps, IsActive, HasStatus
<1> QED BY <1>6, <1>7, <1>8, <1>9 DEF Truth

LEMMA DeleteTruth == ASSUME IInv, TypeOK', NEW t \in Threads, Delete(t) PROVE Truth'
<1>1. PICK r \in Repos : /\ Call(t, r) /\ ~IsActive(items, r)
                         /\ complete' = [complete EXCEPT ![r] = {}]
                         /\ items' = [items EXCEPT ![r] = NoItem]
  BY DEF Delete
<1>2. saved' = items' /\ UNCHANGED <<procs, pc, req>> BY DEF Delete
<1>3. items'[r] = NoItem /\ \A q \in Repos : q # r => items'[q] = items[q] /\ complete'[q] = complete[q]
  BY <1>1 DEF IInv, TypeOK
<1>4. FilesAreThere(items)' /\ FilesAreThere(saved)'
  BY <1>2, <1>3 DEF IInv, Truth, FilesAreThere
<1>5. r \notin Overlap => procs[r] = NoProc /\ \A u \in Threads : ~Records(u, r)
  BY <1>1 DEF IInv, Truth, ProcsServe, Call, Records, HasStatus, IsActive, Active
<1>6. ProcsServe' BY <1>2, <1>3, <1>5 DEF IInv, Truth, ProcsServe, HasStatus
<1>7. OneRecords'
  <2>1. \A u \in Threads : \A q \in Repos : Records(u, q)' <=> Records(u, q) BY <1>2 DEF Records
  <2> QED BY <1>2, <1>3, <1>5, <2>1 DEF IInv, Truth, OneRecords, IsActive
<1>8. FileKeeps' BY <1>2 DEF FileKeeps, IsActive, HasStatus
<1> QED BY <1>4, <1>6, <1>7, <1>8 DEF Truth

\* What a pass leaves of a record.
RecordKept(r) ==
  /\ items[r] # NoItem /\ items'[r].rev = items[r].rev
  /\ items'[r].started = items[r].started /\ items'[r].ready = items[r].ready
  /\ IsActive(items', r) => IsActive(items, r)
  /\ items'[r].status = "cancelled" => Kept(r)
  /\ items'[r].status = "done" => Kept(r) \/ procs[r].state = "ok"

LEMMA PassRecords ==
  ASSUME TypeOK, Pass \/ PollSpawnFails, NEW r \in Repos, items'[r] # NoItem
  PROVE  RecordKept(r)
<1>1. CASE Kept(r) BY <1>1 DEF Kept, IsActive, RecordKept
<1>2. CASE Judged(r)
  <2>1. items[r] # NoItem BY <1>2, VerdictTypes DEF Judged
  <2>2. items'[r] = [items[r] EXCEPT !.status = IF procs[r].state = "ok" THEN "done" ELSE "failed"]
    BY <1>2, <2>1, VerdictTypes DEF Judged
  <2> QED BY <2>1, <2>2 DEF TypeOK, Download, IsActive, Active, RecordKept
<1>3. CASE Taken(r)
  BY <1>3 DEF Taken, TypeOK, Download, IsActive, Active, Queue, HasStatus, RecordKept
<1>4. CASE NoRoom(r)
  BY <1>4 DEF NoRoom, TypeOK, Download, IsActive, Active, Queue, HasStatus, RecordKept
<1> QED BY <1>1, <1>2, <1>3, <1>4, PassFates DEF Fates

LEMMA PassTruth ==
  ASSUME IInv, TypeOK', Pass \/ PollSpawnFails, UNCHANGED disk,
         \A t \in Threads : pc'[t] \in Unrecorded => pc'[t] = pc[t] /\ req'[t] = req[t]
  PROVE  Truth'
<1>1. Fates /\ (saved' = saved \/ saved' = items') BY PassFates DEF IInv
<1>2. \A r \in Repos : items'[r] # NoItem => RecordKept(r) BY PassRecords DEF IInv
<1>3. ASSUME NEW r \in Repos \ Overlap, items'[r] # NoItem, items'[r].status = "done"
      PROVE  items'[r].rev \in complete[r]
  <2>1. CASE Kept(r) BY <1>3, <2>1 DEF Kept, IInv, Truth, FilesAreThere
  <2>2. CASE Judged(r)
    <3>1. procs[r] # NoProc /\ (Kept(r) \/ procs[r].state = "ok")
      BY <1>2, <1>3, <2>2 DEF Judged, Ended, Running, RecordKept
    <3> QED BY <1>2, <1>3, <2>1, <3>1 DEF IInv, Truth, ProcsServe, RecordKept
  <2>3. CASE Taken(r) \/ NoRoom(r)
    BY <1>3, <2>3 DEF Taken, NoRoom, IInv, TypeOK, Download, Queue, HasStatus
  <2> QED BY <1>1, <2>1, <2>2, <2>3 DEF Fates
<1>4. FilesAreThere(items)' BY <1>2, <1>3 DEF RecordKept, FilesAreThere, IInv, Truth, disk
<1>5. FilesAreThere(saved)' BY <1>1, <1>4 DEF FilesAreThere, IInv, Truth, disk
<1>6. ProcsServe'
  <2>1. SUFFICES ASSUME NEW r \in Repos \ Overlap, procs'[r] # NoProc
                 PROVE  /\ HasStatus(items', r, "downloading") /\ procs'[r].rev = items'[r].rev
                        /\ procs'[r].state = "ok" => procs'[r].rev \in complete'[r]
    BY DEF ProcsServe, HasStatus
  <2>2. CASE Kept(r) BY <2>1, <2>2 DEF Kept, IInv, Truth, ProcsServe, HasStatus, disk
  <2>3. CASE Taken(r)
    <3>1. items[r] \in Download BY <2>3 DEF Taken, Queue, HasStatus, IInv, TypeOK
    <3>2. procs'[r].rev = items[r].rev /\ procs'[r].state = "running" BY <2>3 DEF Taken
    <3>3. items'[r] \in Download /\ items'[r].status = "downloading" /\ items'[r].rev = items[r].rev
      BY <2>3, <3>1 DEF Taken, Download, Active
    <3>4. items'[r] # NoItem BY <3>3 DEF ConstantsAssumption
    <3> QED BY <3>2, <3>3, <3>4 DEF HasStatus
  <2>4. CASE Judged(r) \/ NoRoom(r) BY <2>1, <2>4 DEF Judged, NoRoom
  <2> QED BY <1>1, <2>2, <2>3, <2>4 DEF Fates
<1>7. OneRecords'
  <2>1. \A q \in Repos : \A u \in Threads : Records(u, q)' => Records(u, q) /\ pc'[u] = pc[u] /\ req'[u] = req[u]
    BY DEF Records
  <2>2. \A q \in Repos : IsActive(items', q) => IsActive(items, q) BY <1>2 DEF IsActive, RecordKept
  <2> QED BY <2>1, <2>2 DEF IInv, Truth, OneRecords, IsActive, disk
<1>8. FileKeeps'
  <2>1. CASE saved' = items' BY <2>1 DEF FileKeeps, IsActive, HasStatus
  <2>2. CASE saved' = saved
    <3>1. SUFFICES ASSUME NEW r \in Repos, items'[r] # NoItem
                   PROVE  /\ IsActive(items', r) => /\ IsActive(saved', r) /\ saved'[r].rev = items'[r].rev
                                                    /\ saved'[r].started = items'[r].started
                          /\ HasStatus(items', r, "cancelled") => saved'[r] = items'[r]
      BY DEF FileKeeps, IsActive, HasStatus
    <3> QED BY <1>2, <2>2, <3>1 DEF RecordKept, FileKeeps, IInv, Truth, IsActive, HasStatus, Kept
  <2> QED BY <1>1, <2>1, <2>2
<1> QED BY <1>4, <1>5, <1>6, <1>7, <1>8 DEF Truth

LEMMA WorkerTruth ==
  ASSUME IInv, TypeOK', NEW r \in Repos, Progress(r) \/ Succeed(r) \/ Fail(r) PROVE Truth'
<1>1. items' = items /\ saved' = saved /\ pc' = pc /\ req' = req /\ procs[r] # NoProc /\ procs[r] \in Proc
  BY DEF Progress, Succeed, Fail, IInv, TypeOK
<1>2. \A q \in Repos : \A v \in complete[q] : v \in complete'[q]
  BY DEF Progress, Succeed, Fail, disk, IInv, TypeOK
<1>9. ASSUME NEW q \in Repos, q # r PROVE complete'[q] = complete[q] /\ procs'[q] = procs[q]
  BY <1>9 DEF Progress, Succeed, Fail, disk, IInv, TypeOK
<1>3. /\ procs'[r].rev = procs[r].rev
      /\ procs'[r].state = "ok" => procs'[r].rev \in complete'[r]
  BY <1>1 DEF Progress, Succeed, Fail, disk, IInv, TypeOK, Proc
<1>4. FilesAreThere(items)' /\ FilesAreThere(saved)'
  BY <1>1, <1>2 DEF IInv, Truth, FilesAreThere
<1>5. ProcsServe'
  <2>1. SUFFICES ASSUME NEW q \in Repos \ Overlap, procs'[q] # NoProc
                 PROVE  /\ HasStatus(items, q, "downloading") /\ procs'[q].rev = items[q].rev
                        /\ procs'[q].state = "ok" => procs'[q].rev \in complete'[q]
    BY <1>1 DEF ProcsServe, HasStatus
  <2>2. CASE q = r BY <1>1, <1>3, <2>1, <2>2 DEF IInv, Truth, ProcsServe
  <2>3. CASE q # r BY <1>9, <2>1, <2>3 DEF IInv, Truth, ProcsServe
  <2> QED BY <2>2, <2>3
<1>6. r \notin Overlap => \A u \in Threads : ~Records(u, r)
  BY <1>1 DEF IInv, Truth, ProcsServe, OneRecords, HasStatus, IsActive, Active
<1>7. OneRecords'
  <2>1. \A u \in Threads : \A q \in Repos : Records(u, q)' <=> Records(u, q) BY <1>1 DEF Records
  <2>2. SUFFICES ASSUME NEW q \in Repos \ Overlap, NEW u \in Threads, Records(u, q)
                 PROVE  /\ \A w \in Threads : Records(w, q) => w = u
                        /\ ~IsActive(items, q)
                        /\ pc[u] = "whole" => req[u].rev \in complete'[q]
                        /\ pc[u] = "missing" => req[u].rev \notin complete'[q]
    BY <1>1, <2>1 DEF OneRecords, IsActive
  <2>3. complete'[q] = complete[q] BY <1>6, <1>9, <2>2
  <2> QED BY <2>2, <2>3 DEF IInv, Truth, OneRecords
<1>8. FileKeeps' BY <1>1 DEF IInv, Truth, FileKeeps, IsActive, HasStatus
<1> QED BY <1>4, <1>5, <1>7, <1>8 DEF Truth

LEMMA CrashTruth == ASSUME IInv, TypeOK', Crash PROVE Truth'
<1>1. /\ UNCHANGED <<saved, disk>> /\ \A t \in Threads : pc'[t] = "idle"
      /\ \A r \in Repos : procs'[r] = NoProc
  BY DEF Crash
<1>2. ASSUME NEW r \in Repos
      PROVE  items'[r] = IF HasStatus(saved, r, "downloading")
                         THEN [saved[r] EXCEPT !.status = "queued"] ELSE saved[r]
  BY DEF Crash, Loaded, HasStatus
<1>3. ASSUME NEW r \in Repos
      PROVE  \/ items'[r] = NoItem /\ saved[r] = NoItem
             \/ items'[r] = saved[r] /\ saved[r] \in Download
             \/ /\ saved[r] # NoItem /\ items'[r] # NoItem
                /\ items'[r].rev = saved[r].rev /\ items'[r].started = saved[r].started
                /\ items'[r].ready = saved[r].ready /\ items'[r].status = "queued"
                /\ saved[r].status = "downloading"
  <2>1. CASE HasStatus(saved, r, "downloading")
    <3>1. saved[r] \in Download BY <2>1 DEF HasStatus, IInv, TypeOK
    <3>2. items'[r] \in Download BY <1>2, <2>1, <3>1 DEF Download, Active
    <3> QED BY <1>2, <2>1, <3>1, <3>2 DEF HasStatus, Download, ConstantsAssumption
  <2>2. CASE ~HasStatus(saved, r, "downloading") BY <1>2, <2>2 DEF IInv, TypeOK
  <2> QED BY <2>1, <2>2
<1>4. FilesAreThere(items)' /\ FilesAreThere(saved)'
  BY <1>1, <1>3 DEF IInv, Truth, FilesAreThere, disk
<1>5. ProcsServe' BY <1>1 DEF ProcsServe
<1>6. OneRecords' BY <1>1 DEF OneRecords, Records, Unrecorded
<1>7. FileKeeps' BY <1>1, <1>3 DEF FileKeeps, IsActive, HasStatus, Active
<1> QED BY <1>4, <1>5, <1>6, <1>7 DEF Truth

THEOREM QueueInvariant == Spec => []IInv
<1>1. Init => IInv
  <2> SUFFICES ASSUME Init PROVE IInv OBVIOUS
  <2> QED BY TypesHold DEF Init, IInv, HasJob, Truth, FilesAreThere, ProcsServe, OneRecords, FileKeeps,
                           Records, Unrecorded, IsActive, HasStatus
<1>2. IInv /\ [Next]_vars => IInv'
  <2> SUFFICES ASSUME IInv, [Next]_vars PROVE IInv' OBVIOUS
  <2>1. TypeOK' /\ HasJob' BY TypesKept DEF IInv
  <2>2. CASE UNCHANGED vars
    <3>1. UNCHANGED <<items, saved, procs, complete, pc, req>> BY <2>2 DEF vars, disk
    <3>2. FilesAreThere(items)' /\ FilesAreThere(saved)' BY <3>1 DEF IInv, Truth, FilesAreThere
    <3>3. ProcsServe' BY <3>1 DEF IInv, Truth, ProcsServe, HasStatus
    <3>4. OneRecords' BY <3>1 DEF IInv, Truth, OneRecords, Records, IsActive
    <3>5. FileKeeps' BY <3>1 DEF IInv, Truth, FileKeeps, IsActive, HasStatus
    <3> QED BY <2>1, <3>2, <3>3, <3>4, <3>5 DEF IInv, Truth
  <2>3. ASSUME NEW t \in Threads, BeginDownload(t) \/ Refused(t) \/ Work(t) \/ Cancel(t) \/ Delete(t)
        PROVE  Truth'
    <3>1. CASE DownloadPoll(t)
      <4>1. \A u \in Threads : pc'[u] \in Unrecorded => pc'[u] = pc[u] /\ req'[u] = req[u]
        BY <3>1 DEF DownloadPoll, Return, Unrecorded, IInv, TypeOK
      <4> QED BY <2>1, <3>1, <4>1, PassTruth DEF DownloadPoll
    <3> QED BY <2>1, <2>3, <3>1, BeginTruth, RefusedTruth, LookTruth, RecordDoneTruth, RecordQueuedTruth,
               CancelTruth, DeleteTruth DEF Work
  <2>4. CASE Poll \/ PollSpawnFails
    <3>1. (Pass \/ PollSpawnFails) /\ UNCHANGED <<disk, pc, req>> BY <2>4 DEF Poll, PollSpawnFails
    <3>2. \A t \in Threads : pc'[t] \in Unrecorded => pc'[t] = pc[t] /\ req'[t] = req[t] BY <3>1
    <3> QED BY <2>1, <3>1, <3>2, PassTruth DEF IInv
  <2>5. ASSUME NEW r \in Repos, Progress(r) \/ Succeed(r) \/ Fail(r) PROVE Truth'
    BY <2>1, <2>5, WorkerTruth
  <2>6. CASE Crash BY <2>1, <2>6, CrashTruth DEF IInv
  <2> QED BY <2>1, <2>2, <2>3, <2>4, <2>5, <2>6 DEF Next, IInv
<1> QED BY <1>1, <1>2, PTL DEF Spec

\* A download is "done" only when all its files are on the disk, where requests about
\* the model do not overlap.
THEOREM DoneMeansComplete == Spec => []DoneIsComplete
<1>1. IInv => DoneIsComplete BY DEF IInv, Truth, FilesAreThere, DoneIsComplete, HasStatus
<1> QED BY <1>1, QueueInvariant, PTL

\* A crash at any moment loses no accepted download and revives no cancelled one,
\* overlapping requests, failed starts and interrupted passes included.
THEOREM QueueSurvives == Spec => []RestartKeepsQueue
<1>1. IInv => RestartKeepsQueue BY DEF IInv, Truth, FileKeeps, RestartKeepsQueue
<1> QED BY <1>1, QueueInvariant, PTL

\* A model is offered as ready only with a revision all of which is on the disk.
THEOREM OfferedIsComplete == Spec => []ReadyRuns
<1>1. IInv => ReadyRuns
  <2> SUFFICES ASSUME IInv, NEW r \in Repos \ Overlap, items[r] # NoItem, LocalReady(r)
               PROVE  Picks(r) \subseteq complete[r]
    BY DEF ReadyRuns
  <2>1. items[r] \in Download /\ present[r] \subseteq Revs /\ complete[r] \subseteq present[r]
    BY DEF IInv, TypeOK
  <2>2. items[r].ready \in present[r] => items[r].ready \in complete[r]
    BY <2>1 DEF IInv, Truth, FilesAreThere, ConstantsAssumption
  <2>3. items[r].status = "done" => items[r].rev \in complete[r]
    BY <2>1 DEF IInv, Truth, FilesAreThere
  <2> QED BY <2>1, <2>2, <2>3 DEF LocalReady, Picks
<1> QED BY <1>1, QueueInvariant, PTL

-----------------------------------------------------------------------------
(***************************************************************************)
(* What a step may never do.                                               *)
(***************************************************************************)
LEMMA NeverUnready ==
  ASSUME IInv, TypeOK', [Next]_vars, NEW r \in Repos \ Overlap,
         items[r] # NoItem, LocalReady(r), saved[r] = items[r]
  PROVE  LocalReady(r)' \/ items'[r] = NoItem
<1> SUFFICES ASSUME items'[r] # NoItem PROVE LocalReady(r)' OBVIOUS
<1>0. items[r] \in Download /\ present[r] # {} BY DEF IInv, TypeOK, LocalReady
<1>1. ASSUME present[r] \subseteq present'[r],
             items'[r].ready = items[r].ready,
             items[r].status = "done" => items'[r].status = "done"
      PROVE  LocalReady(r)'
  BY <1>0, <1>1 DEF LocalReady
<1>2. ASSUME NEW t \in Threads, RecordDone(t) PROVE LocalReady(r)'
  <2>1. req[t].repo = r => items'[r].status = "done" BY <1>2 DEF RecordDone, IInv, TypeOK
  <2>2. req[t].repo # r => items'[r] = items[r] BY <1>2 DEF RecordDone, IInv, TypeOK
  <2>3. present' = present BY <1>2 DEF RecordDone, disk
  <2> QED BY <1>0, <1>1, <2>1, <2>2, <2>3 DEF LocalReady
<1>3. ASSUME NEW t \in Threads, RecordQueued(t) PROVE LocalReady(r)'
  <2>1. present' = present BY <1>3 DEF RecordQueued, disk
  <2>2. CASE req[t].repo # r
    <3>1. items'[r] = items[r] BY <1>3, <2>2 DEF RecordQueued, IInv, TypeOK
    <3> QED BY <1>1, <2>1, <3>1
  <2>3. CASE req[t].repo = r
    <3>1. req[t].rev \notin complete[r]
      BY <1>3, <2>3 DEF RecordQueued, IInv, Truth, OneRecords, Records, Unrecorded
    <3>2. ReadyBefore(r) \in complete[r] /\ complete[r] \subseteq present[r]
      <4>1. present[r] \subseteq Revs /\ complete[r] \subseteq present[r] BY DEF IInv, TypeOK
      <4>2. CASE items[r].status = "done"
        BY <4>1, <4>2 DEF ReadyBefore, IInv, Truth, FilesAreThere
      <4>3. CASE items[r].status # "done"
        <5>1. items[r].ready \in present[r] BY <4>3 DEF LocalReady
        <5>2. items[r].ready # NoRev BY <4>1, <5>1 DEF ConstantsAssumption
        <5> QED BY <4>1, <4>3, <5>2 DEF ReadyBefore, IInv, Truth, FilesAreThere
      <4> QED BY <4>2, <4>3
    <3>3. items'[r].ready = ReadyBefore(r)
      BY <1>3, <2>3, <3>1, <3>2 DEF RecordQueued, IInv, TypeOK
    <3> QED BY <1>0, <2>1, <3>2, <3>3 DEF LocalReady
  <2> QED BY <2>2, <2>3
<1>4. ASSUME Pass \/ PollSpawnFails, UNCHANGED disk PROVE LocalReady(r)'
  <2>1. Fates BY <1>4, PassFates DEF IInv
  <2>2. present' = present BY <1>4 DEF disk
  <2>3. CASE Kept(r) BY <1>1, <2>2, <2>3 DEF Kept
  <2>4. CASE Judged(r)
    <3>1. items'[r] = [items[r] EXCEPT !.status = IF procs[r].state = "ok" THEN "done" ELSE "failed"]
      BY <1>0, <2>4, VerdictTypes DEF Judged, IInv
    <3>2. items[r].status = "downloading"
      BY <2>4 DEF Judged, Ended, Running, IInv, Truth, ProcsServe, HasStatus
    <3> QED BY <1>0, <1>1, <2>2, <3>1, <3>2 DEF Download
  <2>5. CASE Taken(r) \/ NoRoom(r)
    BY <1>0, <1>1, <2>2, <2>5 DEF Taken, NoRoom, Queue, HasStatus, Download
  <2> QED BY <2>1, <2>3, <2>4, <2>5 DEF Fates
<1>5. ASSUME NEW t \in Threads, BeginDownload(t) \/ Refused(t) \/ Look(t) PROVE LocalReady(r)'
  <2>1. UNCHANGED <<items, present>> BY <1>5 DEF BeginDownload, Refused, Look, disk
  <2> QED BY <1>1, <2>1
<1>6. ASSUME NEW t \in Threads, Cancel(t) PROVE LocalReady(r)'
  <2>1. PICK q \in Repos : IsActive(items, q) /\ items' = [items EXCEPT ![q].status = "cancelled"]
    BY <1>6 DEF Cancel
  <2>2. items'[r].ready = items[r].ready /\ (items[r].status = "done" => items'[r].status = "done")
    BY <1>0, <2>1 DEF IInv, TypeOK, IsActive, Active, Download
  <2>3. present' = present BY <1>6 DEF Cancel, disk
  <2> QED BY <1>1, <2>2, <2>3
<1>7. ASSUME NEW t \in Threads, Delete(t) PROVE LocalReady(r)'
  <2>1. PICK q \in Repos : /\ present' = [present EXCEPT ![q] = {}]
                           /\ items' = [items EXCEPT ![q] = NoItem]
    BY <1>7 DEF Delete
  <2>2. items'[r] = items[r] /\ present'[r] = present[r] BY <2>1 DEF IInv, TypeOK
  <2> QED BY <1>1, <2>2
<1>8. ASSUME NEW q \in Repos, Progress(q) \/ Succeed(q) \/ Fail(q) PROVE LocalReady(r)'
  <2>1. items' = items /\ present[r] \subseteq present'[r]
    BY <1>8 DEF Progress, Succeed, Fail, disk, IInv, TypeOK
  <2> QED BY <1>1, <2>1
<1>9. CASE Crash
  <2>1. items'[r] = items[r] \/ (items[r].status = "downloading" /\ items'[r] = [items[r] EXCEPT !.status = "queued"])
    BY <1>9 DEF Crash, Loaded, HasStatus
  <2>2. present' = present BY <1>9 DEF Crash, disk
  <2> QED BY <1>0, <1>1, <2>1, <2>2 DEF Download
<1>10. CASE UNCHANGED vars BY <1>1, <1>10 DEF vars, disk
<1>11. CASE \E t \in Threads : DownloadPoll(t)
  BY <1>4, <1>11 DEF DownloadPoll
<1>12. CASE Poll \/ PollSpawnFails
  BY <1>4, <1>12 DEF Poll, PollSpawnFails
<1> QED BY <1>2, <1>3, <1>5, <1>6, <1>7, <1>8, <1>9, <1>10, <1>11, <1>12 DEF Next, Work

\* A model the manager has a record of and that is ready stays ready until it is deleted,
\* whatever is queued, downloaded, cancelled or fails, unless a restart falls back behind an
\* unsaved verdict.
THEOREM ReadyIsKept == Spec => ReadyStaysReady
<1>1. IInv /\ TypeOK' /\ [Next]_vars =>
        [\A r \in Repos \ Overlap : items[r] # NoItem /\ LocalReady(r) /\ saved[r] = items[r]
           => LocalReady(r)' \/ items'[r] = NoItem]_vars
  BY NeverUnready
<1>2. IInv => TypeOK BY DEF IInv
<1> QED BY <1>1, <1>2, QueueInvariant, PTL DEF Spec, ReadyStaysReady

\* A verdict ends a download.
LEMMA JudgedEnds ==
  ASSUME TypeOK, NEW r \in Repos, items[r] # NoItem, Judged(r)
  PROVE  items'[r].status \in {"done", "failed"}
<1> DEFINE verdict == IF procs[r].state = "ok" THEN "done" ELSE "failed"
<1>1. items'[r] = [items[r] EXCEPT !.status = verdict] BY VerdictTypes DEF Judged
<1>2. verdict \in {"done", "failed"} OBVIOUS
<1>3. items[r] \in Download BY DEF TypeOK
<1> HIDE DEF verdict
<1>4. [items[r] EXCEPT !.status = verdict].status = verdict BY <1>3 DEF Download
<1> QED BY <1>1, <1>2, <1>4

\* Of the queue of a pass the older ones are served first.
LEMMA PassInTurn ==
  ASSUME TypeOK, Pass \/ PollSpawnFails, NEW q \in Repos, NEW r \in Repos,
         HasStatus(items, q, "queued"), HasStatus(items, r, "queued"), Older(q, r),
         HasStatus(items', r, "downloading"), q \notin Running
  PROVE  ~HasStatus(items', q, "queued")
<1>0. /\ items[q] \in Download /\ items[r] \in Download
      /\ items[q].status = "queued" /\ items[r].status = "queued" /\ items'[r].status = "downloading"
  BY DEF HasStatus, TypeOK
<1>1. Taken(r)
  <2>1. ~Kept(r) BY <1>0 DEF Kept
  <2>2. ~Judged(r) BY <1>0, JudgedEnds DEF HasStatus
  <2>3. ~NoRoom(r) BY <1>0 DEF NoRoom, Download
  <2> QED BY <2>1, <2>2, <2>3, PassFates DEF Fates
<1>2. q \in Queue BY DEF Queue
<1>3. ASSUME NEW S \in SUBSET Queue, NEW F \in SUBSET Queue, S \cap F = {}, Outcome(S, F), q \in S \cup F
      PROVE  ~HasStatus(items', q, "queued")
  <2>1. Taken(q) \/ NoRoom(q) BY <1>3, OutcomeFates
  <2> QED BY <1>0, <2>1 DEF Taken, NoRoom, HasStatus, Download
<1>4. CASE Pass /\ Strays # {}
  <2>1. procs'[r] \in {NoProc, procs[r]} BY <1>4 DEF Pass
  <2>2. procs[r] = NoProc BY <1>1 DEF Taken, Queue, Running
  <2>3. procs'[r] \in Proc BY <1>0, <1>1 DEF Taken, Proc, Download
  <2> QED BY <2>1, <2>2, <2>3 DEF ConstantsAssumption
<1>5. CASE Pass /\ Strays = {}
  <2>1. PICK S \in SUBSET Queue, F \in SUBSET Queue : S \cap F = {} /\ Outcome(S, F) /\ Takes(S, F)
    BY <1>5 DEF Pass
  <2>2. r \in S BY <1>1, <2>1, OutcomeFates
  <2>3. q \in S \cup F BY <1>2, <2>1, <2>2 DEF Takes
  <2> QED BY <1>3, <2>1, <2>3
<1>6. CASE PollSpawnFails
  <2>1. PICK p \in Queue : \E S \in SUBSET (Queue \ {p}) : \E F \in SUBSET (Queue \ S) :
          S \cup F = {x \in Queue : Older(x, p)} /\ Outcome(S, F)
    BY <1>6 DEF PollSpawnFails
  <2>2. PICK S \in SUBSET Queue, F \in SUBSET Queue :
          S \cap F = {} /\ S \cup F = {x \in Queue : Older(x, p)} /\ Outcome(S, F)
    BY <2>1
  <2>3. r \in S BY <1>1, <2>2, OutcomeFates
  <2>4. Older(r, p) BY <2>2, <2>3
  <2>5. items[p] \in Download BY DEF Queue, HasStatus, TypeOK
  <2>6. Older(q, p) BY <1>0, <2>4, <2>5 DEF Older, Download
  <2> QED BY <1>2, <1>3, <2>2, <2>6
<1> QED BY <1>4, <1>5, <1>6

\* A new record is younger than all there are.
Dated == \A r \in Repos : /\ items[r] # NoItem => items[r].started < clock
                          /\ saved[r] # NoItem => saved[r].started < clock

LEMMA DatedStays == ASSUME IInv, Dated, [Next]_vars PROVE Dated'
<1>1. ASSUME UNCHANGED <<items, saved, clock>> PROVE Dated' BY <1>1 DEF Dated
<1>2. ASSUME NEW t \in Threads, RecordDone(t) \/ RecordQueued(t) PROVE Dated'
  <2>1. clock \in Nat /\ clock' = clock + 1 /\ saved' = items'
    BY <1>2 DEF RecordDone, RecordQueued, IInv, TypeOK
  <2>2. \A r \in Repos : items'[r] = items[r] \/ items'[r].started = clock
    BY <1>2 DEF RecordDone, RecordQueued, IInv, TypeOK
  <2>3. \A r \in Repos : items[r] # NoItem => items[r].started \in Nat BY DEF IInv, TypeOK, Download
  <2> QED BY <2>1, <2>2, <2>3 DEF Dated
<1>3. ASSUME NEW t \in Threads, Cancel(t) \/ Delete(t) PROVE Dated'
  <2>1. PICK q \in Repos : \/ items' = [items EXCEPT ![q].status = "cancelled"] /\ IsActive(items, q)
                           \/ items' = [items EXCEPT ![q] = NoItem]
    BY <1>3 DEF Cancel, Delete
  <2>2. clock' = clock /\ saved' = items' BY <1>3 DEF Cancel, Delete
  <2>3. \A r \in Repos : items'[r] # NoItem => items[r] # NoItem /\ items'[r].started = items[r].started
    BY <2>1 DEF IInv, TypeOK, Download, IsActive
  <2> QED BY <2>2, <2>3 DEF Dated
<1>4. ASSUME Pass \/ PollSpawnFails, clock' = clock PROVE Dated'
  <2>1. \A r \in Repos : items'[r] # NoItem => items[r] # NoItem /\ items'[r].started = items[r].started
    BY <1>4, PassRecords DEF IInv, RecordKept
  <2>2. saved' = saved \/ saved' = items' BY <1>4, PassFates DEF IInv
  <2> QED BY <1>4, <2>1, <2>2 DEF Dated
<1>5. CASE Crash
  <2>1. clock' = clock /\ saved' = saved BY <1>5 DEF Crash
  <2>2. \A r \in Repos : items'[r] # NoItem => saved[r] # NoItem /\ items'[r].started = saved[r].started
    BY <1>5 DEF Crash, Loaded, HasStatus, IInv, TypeOK, Download
  <2> QED BY <2>1, <2>2 DEF Dated
<1>6. CASE Next
  BY <1>1, <1>2, <1>3, <1>4, <1>5, <1>6
     DEF Next, Work, BeginDownload, Refused, Look, DownloadPoll, Poll, PollSpawnFails, Progress, Succeed, Fail
<1>7. CASE UNCHANGED vars BY <1>1, <1>7 DEF vars
<1> QED BY <1>6, <1>7

\* Where q waits and r runs after a step, so they did before it, or the step is a pass.
LEMMA TurnKept ==
  ASSUME IInv, Dated, [Next]_vars, NEW q \in Repos, NEW r \in Repos,
         HasStatus(items', q, "queued"), q \notin Running', HasStatus(items', r, "downloading"),
         items'[q].started < items'[r].started
  PROVE  \/ Pass \/ PollSpawnFails
         \/ items'[q] = items[q] /\ items'[r] = items[r] /\ q \notin Running
<1>0. /\ items'[q].status = "queued" /\ items'[r].status = "downloading"
      /\ items'[q] # NoItem /\ items'[r] # NoItem /\ q # r
  BY DEF HasStatus
<1>1. ASSUME procs' = procs PROVE q \notin Running BY <1>1 DEF Running
<1>2. ASSUME NEW t \in Threads, RecordDone(t) \/ RecordQueued(t)
      PROVE  items'[q] = items[q] /\ items'[r] = items[r] /\ q \notin Running
  <2>1. req[t].repo # r BY <1>0, <1>2 DEF RecordDone, RecordQueued, IInv, TypeOK
  <2>2. items'[r] = items[r] BY <1>2, <2>1 DEF RecordDone, RecordQueued, IInv, TypeOK
  <2>3. items[r].started < clock /\ items[r].started \in Nat /\ clock \in Nat
    BY <1>0, <2>2 DEF Dated, IInv, TypeOK, Download
  <2>4. req[t].repo = q => items'[q].started = clock
    BY <1>2 DEF RecordDone, RecordQueued, IInv, TypeOK
  <2>5. req[t].repo # q BY <2>2, <2>3, <2>4
  <2>6. items'[q] = items[q] BY <1>2, <2>5 DEF RecordDone, RecordQueued, IInv, TypeOK
  <2> QED BY <1>1, <1>2, <2>2, <2>6 DEF RecordDone, RecordQueued
<1>3. ASSUME NEW t \in Threads, Cancel(t)
      PROVE  items'[q] = items[q] /\ items'[r] = items[r] /\ q \notin Running
  <2>1. PICK p \in Repos : /\ items' = [items EXCEPT ![p].status = "cancelled"] /\ IsActive(items, p)
                           /\ procs' = [procs EXCEPT ![p] = NoProc]
    BY <1>3 DEF Cancel, StopWorker
  <2>2. p # q /\ p # r BY <1>0, <2>1 DEF IInv, TypeOK, Download, IsActive
  <2> QED BY <2>1, <2>2 DEF IInv, TypeOK, Running
<1>4. ASSUME NEW t \in Threads, Delete(t)
      PROVE  items'[q] = items[q] /\ items'[r] = items[r] /\ q \notin Running
  <2>1. PICK p \in Repos : items' = [items EXCEPT ![p] = NoItem] BY <1>4 DEF Delete
  <2>2. p # q /\ p # r BY <1>0, <2>1 DEF IInv, TypeOK
  <2>3. procs' = procs BY <1>4 DEF Delete
  <2> QED BY <1>1, <2>1, <2>2, <2>3 DEF IInv, TypeOK
<1>5. CASE Crash
  <2>1. items'[r] = IF HasStatus(saved, r, "downloading")
                    THEN [saved[r] EXCEPT !.status = "queued"] ELSE saved[r]
    BY <1>5 DEF Crash, Loaded
  <2>2. saved[r] \in Download \cup {NoItem} BY DEF IInv, TypeOK
  <2> QED BY <1>0, <2>1, <2>2 DEF HasStatus, Download
<1>6. ASSUME NEW p \in Repos, Progress(p) \/ Succeed(p) \/ Fail(p)
      PROVE  items' = items /\ q \notin Running
  <2>1. procs[p] # NoProc /\ items' = items BY <1>6 DEF Progress, Succeed, Fail
  <2>2. procs'[q] = procs[q] \/ q = p BY <1>6 DEF Progress, Succeed, Fail, IInv, TypeOK
  <2>3. procs'[q] = NoProc BY DEF Running
  <2>4. q = p => procs'[q] \in Proc
    BY <1>6 DEF Progress, Succeed, Fail, IInv, TypeOK, Proc
  <2>5. NoProc \notin Proc BY DEF ConstantsAssumption
  <2> QED BY <2>1, <2>2, <2>3, <2>4, <2>5 DEF Running
<1>7. ASSUME UNCHANGED <<items, procs>> PROVE items' = items /\ q \notin Running BY <1>1, <1>7
<1>8. CASE Next
  BY <1>2, <1>3, <1>4, <1>5, <1>6, <1>7, <1>8
     DEF Next, Work, BeginDownload, Refused, Look, DownloadPoll, Poll
<1>9. CASE UNCHANGED vars BY <1>7, <1>9 DEF vars
<1> QED BY <1>8, <1>9

LEMMA TurnStays ==
  ASSUME IInv, TypeOK', Dated, NoOvertaking, [Next]_vars
  PROVE  NoOvertaking'
<1> SUFFICES ASSUME NEW q \in Repos, NEW r \in Repos,
                    HasStatus(items', q, "queued"), q \notin Running', HasStatus(items', r, "downloading"),
                    items'[q].started < items'[r].started
             PROVE  FALSE
  BY DEF NoOvertaking, Older, HasStatus
<1>1. CASE items'[q] = items[q] /\ items'[r] = items[r] /\ q \notin Running
  BY <1>1 DEF NoOvertaking, Older, HasStatus
<1>2. CASE Pass \/ PollSpawnFails
  <2>0. TypeOK /\ Fates BY <1>2, PassFates DEF IInv
  <2>1. /\ items'[q].status = "queued" /\ items'[r].status = "downloading"
        /\ items'[q] # NoItem /\ items'[r] # NoItem
    BY DEF HasStatus
  <2>2. RecordKept(q) /\ RecordKept(r) BY <1>2, <2>0, <2>1, PassRecords
  <2>3. /\ items[q] \in Download /\ items[r] \in Download
        /\ items[q].started < items[r].started
    BY <2>0, <2>2 DEF RecordKept, TypeOK
  <2>4. Kept(q)
    <3>1. ~Judged(q) BY <2>0, <2>1, <2>2, JudgedEnds DEF RecordKept
    <3>2. ~Taken(q) /\ ~NoRoom(q) BY <2>1, <2>3 DEF Taken, NoRoom, Download
    <3> QED BY <2>0, <3>1, <3>2 DEF Fates
  <2>5. q \notin Running /\ HasStatus(items, q, "queued")
    BY <2>1, <2>4 DEF Kept, Running, HasStatus
  <2>6. CASE Kept(r)
    BY <2>3, <2>5, <2>6 DEF Kept, NoOvertaking, Older, HasStatus
  <2>7. CASE Taken(r)
    <3>1. HasStatus(items, r, "queued") BY <2>7 DEF Taken, Queue
    <3> QED BY <1>2, <2>0, <2>3, <2>5, <3>1, PassInTurn DEF Older
  <2>8. ~Judged(r) BY <2>0, <2>1, <2>2, JudgedEnds DEF RecordKept
  <2>9. ~NoRoom(r) BY <2>1, <2>3 DEF NoRoom, Download
  <2> QED BY <2>0, <2>6, <2>7, <2>8, <2>9 DEF Fates
<1> QED BY <1>1, <1>2, TurnKept

\* No download runs while one accepted before it waits for a place, whoever polls, whichever
\* worker fails to start, and whatever is cancelled, deleted, replaced or restarted in between.
THEOREM NoneOvertakes == Spec => []NoOvertaking
<1>1. Init => Dated /\ NoOvertaking BY DEF Init, Dated, NoOvertaking, HasStatus
<1>2. IInv /\ TypeOK' /\ Dated /\ NoOvertaking /\ [Next]_vars => Dated' /\ NoOvertaking'
  BY DatedStays, TurnStays
<1>3. IInv => TypeOK BY DEF IInv
<1> QED BY <1>1, <1>2, <1>3, QueueInvariant, PTL DEF Spec
=============================================================================
