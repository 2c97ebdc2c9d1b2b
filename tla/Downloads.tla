----------------------------- MODULE Downloads -----------------------------
(***************************************************************************)
(* ModelStore (models.py): the queue of model downloads.                   *)
(*                                                                         *)
(* A step is a critical section of the store's lock or what a request does *)
(* between two of them (the calls to HuggingFace, the look at the disk).   *)
(* One pass of poll() is a single critical section.  The worker processes  *)
(* write to the HF cache and end on their own; they share the manager's    *)
(* control group, so a crash of the manager takes them with it.            *)
(***************************************************************************)
EXTENDS Integers, FiniteSets

CONSTANTS
  Repos,          \* models
  Revs,           \* revisions (commit sha)
  RevsOf,         \* bound: the revisions of each model the clients ask for
  Threads,        \* worker threads that carry requests
  MaxParallel,    \* downloads.max_parallel
  Overlap,        \* models about which a request may come while a download
                  \* of them stands between its check and its record
  SpawnMayFail,   \* a worker process may fail to start
  MaxCalls,       \* bound: requests in a behaviour
  MaxCrashes,     \* bound: restarts of the manager in a behaviour
  NoItem, NoProc, NoRev, NoReq   \* null values

VARIABLES
  items,      \* ModelStore._items
  saved,      \* the "downloads" section of state.json
  procs,      \* ModelStore._procs and what became of the processes
  present,    \* HF cache: the revisions with a snapshot, complete or not
  complete,   \* HF cache: the revisions all chosen files of which are there
  pc, req,    \* where each request thread is, and what it asks for
  clock, calls, crashes

vars == <<items, saved, procs, present, complete, pc, req, clock, calls, crashes>>

disk == <<present, complete>>

Active == {"queued", "downloading"}

Download == [rev : Revs, status : Active \cup {"done", "failed", "cancelled"},
             started : Nat, ready : Revs \cup {NoRev}]

Proc == [rev : Revs, state : {"running", "ok", "bad"}]

ASSUME ConstantsAssumption ==
  /\ IsFiniteSet(Repos) /\ IsFiniteSet(Revs) /\ NoRev \notin Revs
  /\ MaxParallel \in Nat \ {0} /\ MaxCalls \in Nat /\ MaxCrashes \in Nat
  /\ RevsOf \in [Repos -> SUBSET Revs]
  /\ Overlap \subseteq Repos /\ SpawnMayFail \in BOOLEAN
  /\ NoItem \notin Download /\ NoProc \notin Proc /\ NoReq \notin [repo : Repos, rev : Revs]

IsActive(its, r) == its[r] # NoItem /\ its[r].status \in Active

HasStatus(its, r, status) == its[r] # NoItem /\ its[r].status = status

Running == {r \in Repos : procs[r] # NoProc}

Goto(t, label) == pc' = [pc EXCEPT ![t] = label] /\ UNCHANGED req

Return(t) == /\ pc' = [pc EXCEPT ![t] = "idle"]
             /\ req' = [req EXCEPT ![t] = NoReq]

Unrecorded == {"asked", "whole", "missing"}   \* between check and record

Call(t, r) ==
  /\ pc[t] = "idle"
  /\ calls < MaxCalls /\ calls' = calls + 1
  /\ r \notin Overlap => ~\E u \in Threads : pc[u] \in Unrecorded /\ req[u].repo = r

-----------------------------------------------------------------------------
\* download(): an active download is answered as it is; otherwise HuggingFace
\* and the disk are asked without the lock, and the record is written after.

BeginDownload(t) ==
  /\ \E r \in Repos : \E v \in RevsOf[r] :
       /\ Call(t, r)
       /\ ~IsActive(items, r)
       /\ req' = [req EXCEPT ![t] = [repo |-> r, rev |-> v]]
  /\ pc' = [pc EXCEPT ![t] = "asked"]
  /\ UNCHANGED <<items, saved, procs, disk, clock, crashes>>

\* HuggingFace refuses, there are no weights, or the disk is full.
Refused(t) ==
  /\ pc[t] = "asked"
  /\ Return(t)
  /\ UNCHANGED <<items, saved, procs, disk, clock, calls, crashes>>

\* Mutant: a revision partly on the disk passes for a whole one.
LookAtPresent(t) ==
  /\ pc[t] = "asked"
  /\ Goto(t, IF req[t].rev \in present[req[t].repo] THEN "whole" ELSE "missing")
  /\ UNCHANGED <<items, saved, procs, disk, clock, calls, crashes>>

\* _complete: all chosen files are in the snapshot, not only their size.
IsComplete(r, v) == v \in complete[r]

Look(t) ==
  /\ pc[t] = "asked"
  /\ Goto(t, IF IsComplete(req[t].repo, req[t].rev) THEN "whole" ELSE "missing")
  /\ UNCHANGED <<items, saved, procs, disk, clock, calls, crashes>>

\* All files are on the disk: done without a process.
RecordDone(t) ==
  /\ pc[t] = "whole"
  /\ items' = [items EXCEPT ![req[t].repo] =
                 [rev |-> req[t].rev, status |-> "done", started |-> clock, ready |-> NoRev]]
  /\ saved' = items'
  /\ clock' = clock + 1
  /\ Return(t)
  /\ UNCHANGED <<procs, disk, calls, crashes>>

\* Mutant: an unfinished revision is kept as ready.
ReadyBeforeUnfinished(r) == IF items[r] = NoItem THEN NoRev ELSE items[r].rev

\* Mutant: a second new revision forgets the ready one.
ReadyBeforeForgotten(r) ==
  IF items[r] # NoItem /\ items[r].status = "done" THEN items[r].rev ELSE NoRev

\* The revision that stays fit to run while another one is downloaded.
ReadyBefore(r) ==
  IF items[r] = NoItem THEN NoRev
  ELSE IF items[r].status = "done" THEN items[r].rev ELSE items[r].ready

RecordQueued(t) ==
  /\ pc[t] = "missing"
  /\ LET r == req[t].repo
         v == req[t].rev
     IN  items' = [items EXCEPT ![r] =
                     [rev |-> v, status |-> "queued", started |-> clock,
                      ready |-> IF ReadyBefore(r) = v THEN NoRev ELSE ReadyBefore(r)]]
  /\ saved' = items'
  /\ clock' = clock + 1
  /\ Goto(t, "poll")
  /\ UNCHANGED <<procs, disk, calls, crashes>>

\* _stop: the worker is terminated, killed when it does not end, and waited for.
StopWorker(r) == procs' = [procs EXCEPT ![r] = NoProc]

\* Mutant: the cancellation is not saved.
CancelUnsaved(t) ==
  /\ \E r \in Repos :
       /\ Call(t, r)
       /\ IsActive(items, r)
       /\ StopWorker(r)
       /\ items' = [items EXCEPT ![r].status = "cancelled"]
  /\ UNCHANGED <<saved, disk, pc, req, clock, crashes>>

\* cancel(): the process is stopped and waited for under the lock.
Cancel(t) ==
  /\ \E r \in Repos :
       /\ Call(t, r)
       /\ IsActive(items, r)
       /\ StopWorker(r)
       /\ items' = [items EXCEPT ![r].status = "cancelled"]
  /\ saved' = items'
  /\ UNCHANGED <<disk, pc, req, clock, crashes>>

\* delete(): refused while a download is active; a model in use by the runner
\* may refuse it at any other time.
Delete(t) ==
  /\ \E r \in Repos :
       /\ Call(t, r)
       /\ ~IsActive(items, r)
       /\ present[r] # {}
       /\ present' = [present EXCEPT ![r] = {}]
       /\ complete' = [complete EXCEPT ![r] = {}]
       /\ items' = [items EXCEPT ![r] = NoItem]
  /\ saved' = items'
  /\ UNCHANGED <<procs, pc, req, clock, crashes>>

-----------------------------------------------------------------------------
\* poll(): processes that ended, then the queue, oldest first

Ended == {r \in Running : procs[r].state # "running"}

Verdicts ==
  [r \in Repos |->
     IF r \in Ended /\ items[r] # NoItem
     THEN [items[r] EXCEPT !.status = IF procs[r].state = "ok" THEN "done" ELSE "failed"]
     ELSE items[r]]

\* Ended processes whose record was deleted.
Strays == {r \in Ended : items[r] = NoItem}

Queue == {r \in Repos : HasStatus(items, r, "queued") /\ r \notin Running}

Older(q, r) == items[q].started < items[r].started

\* Mutant: one place too many.
TakesOneMore(S, F) ==
  LET places == MaxParallel + 1 - Cardinality(Running \ Ended)
  IN  /\ Cardinality(S) <= places
      /\ \A r \in S \cup F : \A q \in Queue : Older(q, r) => q \in S \cup F
      /\ \/ S \cup F = Queue
         \/ /\ Cardinality(S) = places
            /\ \A r \in F : \E q \in S : Older(r, q)

\* The pass takes the queue from its head: S is started, F found the disk full.
\* It stops when all places are taken, or when the queue is at its end.
Takes(S, F) ==
  LET places == MaxParallel - Cardinality(Running \ Ended)
  IN  /\ Cardinality(S) <= places
      /\ \A r \in S \cup F : \A q \in Queue : Older(q, r) => q \in S \cup F
      /\ \/ S \cup F = Queue
         \/ /\ Cardinality(S) = places
            /\ \A r \in F : \E q \in S : Older(r, q)

\* Where the pass leaves the processes and the records.
Outcome(S, F) ==
  /\ procs' = [r \in Repos |->
                 IF r \in S THEN [rev |-> items[r].rev, state |-> "running"]
                 ELSE IF r \in Ended THEN NoProc ELSE procs[r]]
  /\ items' = [r \in Repos |->
                 IF r \in S THEN [items[r] EXCEPT !.status = "downloading"]
                 ELSE IF r \in F THEN [items[r] EXCEPT !.status = "failed"]
                 ELSE Verdicts[r]]

\* A process without a record ends the pass with a KeyError: it is forgotten, so
\* that the next pass goes on, and so are those looked at before it, whose
\* verdicts stay in memory only.
Pass ==
  IF Strays # {}
  THEN /\ \E r \in Strays : \E before \in SUBSET (Ended \ Strays) :
            /\ procs' = [q \in Repos |-> IF q \in before \cup {r} THEN NoProc ELSE procs[q]]
            /\ items' = [q \in Repos |-> IF q \in before THEN Verdicts[q] ELSE items[q]]
       /\ UNCHANGED saved
  ELSE \E S \in SUBSET Queue : \E F \in SUBSET (Queue \ S) :
         /\ Takes(S, F) /\ Outcome(S, F)
         /\ saved' = IF Ended \cup S \cup F = {} THEN saved ELSE items'

Poll ==
  /\ Pass
  /\ UNCHANGED <<disk, pc, req, clock, calls, crashes>>

\* download() ends with a pass of its own.
DownloadPoll(t) ==
  /\ pc[t] = "poll"
  /\ Pass
  /\ Return(t)
  /\ UNCHANGED <<disk, clock, calls, crashes>>

\* Mutant: the exception is caught, and the pass goes on with the rest of the queue.
PollSpawnGoesOn ==
  /\ SpawnMayFail /\ Strays = {}
  /\ \E r \in Queue : \E S \in SUBSET (Queue \ {r}) : \E F \in SUBSET (Queue \ S) :
       /\ Cardinality(S) <= MaxParallel - Cardinality(Running \ Ended)
       /\ S \cup F = Queue \ {r}
       /\ Outcome(S, F)
  /\ UNCHANGED <<saved, disk, pc, req, clock, calls, crashes>>

\* The worker of the next in the queue does not start: the exception ends the
\* pass before it saves.
PollSpawnFails ==
  /\ SpawnMayFail /\ Strays = {}
  /\ \E r \in Queue : \E S \in SUBSET (Queue \ {r}) : \E F \in SUBSET (Queue \ S) :
       /\ Cardinality(S) < MaxParallel - Cardinality(Running \ Ended)
       /\ S \cup F = {q \in Queue : Older(q, r)}
       /\ Outcome(S, F)
  /\ UNCHANGED <<saved, disk, pc, req, clock, calls, crashes>>

-----------------------------------------------------------------------------
\* The worker processes and restarts

Progress(r) ==
  /\ procs[r] # NoProc /\ procs[r].state = "running"
  /\ present' = [present EXCEPT ![r] = @ \cup {procs[r].rev}]
  /\ UNCHANGED <<items, saved, procs, complete, pc, req, clock, calls, crashes>>

Succeed(r) ==
  /\ procs[r] # NoProc /\ procs[r].state = "running"
  /\ present' = [present EXCEPT ![r] = @ \cup {procs[r].rev}]
  /\ complete' = [complete EXCEPT ![r] = @ \cup {procs[r].rev}]
  /\ procs' = [procs EXCEPT ![r].state = "ok"]
  /\ UNCHANGED <<items, saved, pc, req, clock, calls, crashes>>

Fail(r) ==
  /\ procs[r] # NoProc /\ procs[r].state = "running"
  /\ procs' = [procs EXCEPT ![r].state = "bad"]
  /\ UNCHANGED <<items, saved, disk, pc, req, clock, calls, crashes>>

\* Mutant: an interrupted download stays "downloading" without a process.
LoadedAsIs(file) == file

\* What __init__ makes of the file: an unfinished download is queued again.
Loaded(file) ==
  [r \in Repos |-> IF HasStatus(file, r, "downloading")
                   THEN [file[r] EXCEPT !.status = "queued"] ELSE file[r]]

Crash ==
  /\ crashes < MaxCrashes /\ crashes' = crashes + 1
  /\ items' = Loaded(saved)
  /\ procs' = [r \in Repos |-> NoProc]
  /\ pc' = [t \in Threads |-> "idle"]
  /\ req' = [t \in Threads |-> NoReq]
  /\ UNCHANGED <<saved, disk, clock, calls>>

-----------------------------------------------------------------------------
\* At first nothing was downloaded by the manager; a model may be in the cache.
Init ==
  /\ items = [r \in Repos |-> NoItem] /\ saved = items
  /\ procs = [r \in Repos |-> NoProc]
  /\ complete \in {f \in [Repos -> SUBSET Revs] :
                      \A r \in Repos : f[r] \subseteq RevsOf[r] /\ Cardinality(f[r]) <= 1}
  /\ present = complete
  /\ pc = [t \in Threads |-> "idle"] /\ req = [t \in Threads |-> NoReq]
  /\ clock = 1 /\ calls = 0 /\ crashes = 0

Work(t) == Look(t) \/ RecordDone(t) \/ RecordQueued(t) \/ DownloadPoll(t)

Next ==
  \/ \E t \in Threads : BeginDownload(t) \/ Refused(t) \/ Work(t) \/ Cancel(t) \/ Delete(t)
  \/ Poll \/ PollSpawnFails
  \/ \E r \in Repos : Progress(r) \/ Succeed(r) \/ Fail(r)
  \/ Crash

Spec == Init /\ [][Next]_vars

\* The queue is polled for ever (app.py), not every pass ends in a worker that does not
\* start, and a worker process comes to an end.
Fairness ==
  /\ WF_vars(Poll) /\ \A t \in Threads : WF_vars(Work(t))
  /\ \A r \in Repos : WF_vars(Succeed(r) \/ Fail(r))

FairSpec == Spec /\ Fairness

-----------------------------------------------------------------------------
\* Properties

\* Types; and no more worker processes than downloads.max_parallel, counting those
\* that ended unseen: requests poll beside the background loop.
TypeOK ==
  /\ items \in [Repos -> Download \cup {NoItem}] /\ saved \in [Repos -> Download \cup {NoItem}]
  /\ procs \in [Repos -> Proc \cup {NoProc}] /\ Cardinality(Running) <= MaxParallel
  /\ present \in [Repos -> SUBSET Revs] /\ complete \in [Repos -> SUBSET Revs]
  /\ \A r \in Repos : complete[r] \subseteq present[r]
  /\ pc \in [Threads -> Unrecorded \cup {"idle", "poll"}]
  /\ req \in [Threads -> [repo : Repos, rev : Revs] \cup {NoReq}]
  /\ clock \in Nat /\ calls \in Nat /\ crashes \in Nat

\* "done" is said only of a revision all of which is on the disk, where requests
\* about the model do not overlap.
DoneIsComplete ==
  \A r \in Repos \ Overlap : HasStatus(items, r, "done") => items[r].rev \in complete[r]

\* What local() offers to start: ready or not, and the revision it names.
LocalReady(r) ==
  /\ present[r] # {}
  /\ items[r] = NoItem \/ items[r].status = "done" \/ items[r].ready \in present[r]

Picks(r) ==
  IF items[r].status = "done" /\ items[r].rev \in present[r] THEN {items[r].rev}
  ELSE IF items[r].ready \in present[r] THEN {items[r].ready}
  ELSE present[r]

\* A model the manager downloads is offered as ready only with a revision that
\* is complete, also while a newer one is partly on the disk.
ReadyRuns ==
  \A r \in Repos \ Overlap : items[r] # NoItem /\ LocalReady(r) => Picks(r) \subseteq complete[r]

\* A model the manager has a record of and that is ready stays ready while a newer
\* revision is queued, downloaded, cancelled or failed, until it is deleted.  A
\* restart may fall back behind a verdict that an interrupted pass did not save.
\* (A model that is ready without a record, from the HF cache alone, is not once a
\* newer revision is queued: there is no ready revision to keep, models.py 146-149.)
ReadyStaysReady ==
  [][\A r \in Repos \ Overlap : items[r] # NoItem /\ LocalReady(r) /\ saved[r] = items[r]
       => LocalReady(r)' \/ items'[r] = NoItem]_vars

\* An accepted download survives a crash at any moment, and a cancelled one
\* does not come back with the restart.
RestartKeepsQueue ==
  \A r \in Repos :
    /\ IsActive(items, r) => IsActive(saved, r) /\ saved[r].rev = items[r].rev
    /\ HasStatus(items, r, "cancelled") => saved[r] = items[r]

\* No download is running while one that was accepted before it waits for a place,
\* through passes cut short by an exception, cancellations, second downloads of a
\* model and restarts, which queue again what was running.  (One whose overtaken
\* process is still to be noticed waits for that.)
NoOvertaking ==
  \A q, r \in Repos :
    HasStatus(items, q, "queued") /\ q \notin Running /\ HasStatus(items, r, "downloading")
      => ~Older(q, r)

\* Every accepted download comes to an end, restarts of the manager, workers that
\* fail to start at times (not at every pass for ever) and overlapping requests included.
DownloadsSettle == \A r \in Repos : IsActive(items, r) ~> ~IsActive(items, r)

\* An active download is never replaced by a new record (download(): an active
\* download of the same model is not duplicated).
ActiveNotReplaced ==
  [][\A r \in Repos : IsActive(items, r) /\ items'[r] # NoItem
       => items'[r].started = items[r].started]_vars

=============================================================================
