----------------------------- MODULE Telemetry -----------------------------
(***************************************************************************)
(* One card's samples: GpuManager.tick (core.py), which the background     *)
(* loop and every move call, and History (history.py), which keeps them in *)
(* a ring and writes the worst of each window to SQLite.                   *)
(***************************************************************************)
EXTENDS Selections

CONSTANTS
  Movers,      \* request threads that move a model
  NoOne,       \* the tick lock is free
  NoTime,      \* no window has begun
  Temps,       \* readings of a card
  Interval,    \* db_interval_s
  RingKeep,    \* ring_keep_s
  DbKeep,      \* db_keep_days
  PruneEvery,  \* _PRUNE_EVERY_S
  MaxTime,     \* bound: the last moment of the clock
  MaxMoves     \* bound: moves

ASSUME TelemetryAssumption ==
  /\ IsFiniteSet(Movers) /\ NoOne \notin Movers \cup {"loop"} /\ "loop" \notin Movers
  /\ Temps \subseteq Nat /\ Temps # {} /\ NoTime \notin Nat
  /\ {Interval, RingKeep, DbKeep, PruneEvery, MaxTime, MaxMoves} \subseteq Nat

VARIABLES
  now,        \* the clock
  lock,       \* who holds _tick_lock
  pc,         \* where each caller of tick is
  job,        \* the sample each of them is taking
  next,       \* when the loop wakes again
  freed,      \* how many models have been stopped and their memory freed
  mine,       \* per mover, freed after its own stop
  sample,     \* GpuManager._samples, the memory in it: freed when it was measured
  ring,       \* History._ring of the card
  window,     \* History._window_start
  pruned,     \* History._last_prune
  db,         \* committed rows of SQLite
  view,       \* rows with those of a transaction whose commit failed: what a query sees
  taken       \* history: samples SQLite owes a row, or will

vars == <<now, lock, pc, job, next, freed, mine, sample, ring, window, pruned, db, view, taken>>
history == <<ring, window, pruned, db, view, taken>>

Callers == Movers \cup {"loop"}
Times == 0 .. MaxTime
Reading == [ts : Times, temp : Temps, freed : 0 .. MaxMoves, ok : BOOLEAN]
Point == [ts : Times, temp : Temps]
InTick == {"sampling", "measured", "stored"}
Nothing == [ts |-> 0, temp |-> CHOOSE t \in Temps : TRUE, freed |-> 0, ok |-> FALSE]

-----------------------------------------------------------------------------
(* Taking a sample. *)

\* move stops its model; systemctl returns when the memory is free. The service takes requests
\* after its first tick.
StopModel(m) ==
  /\ pc[m] = "idle" /\ window # NoTime /\ freed < MaxMoves
  /\ freed' = freed + 1
  /\ mine' = [mine EXCEPT ![m] = freed + 1]
  /\ pc' = [pc EXCEPT ![m] = "stopped"]
  /\ UNCHANGED <<now, lock, job, next, sample, history>>

\* Mutant: ticks do not wait for each other.
BeginUnlocked(c) ==
  /\ pc[c] = IF c = "loop" THEN "idle" ELSE "stopped"
  /\ c = "loop" => now >= next
  /\ lock' = c
  /\ job' = [job EXCEPT ![c].ts = now]
  /\ pc' = [pc EXCEPT ![c] = "sampling"]
  /\ UNCHANGED <<now, next, freed, mine, sample, history>>

\* The tick lock is taken and the time of the sample read.
Begin(c) ==
  /\ pc[c] = IF c = "loop" THEN "idle" ELSE "stopped"
  /\ c = "loop" => now >= next
  /\ lock = NoOne
  /\ lock' = c
  /\ job' = [job EXCEPT ![c].ts = now]
  /\ pc' = [pc EXCEPT ![c] = "sampling"]
  /\ UNCHANGED <<now, next, freed, mine, sample, history>>

\* NVML reads the card, or reports an error for it.
Measure(c) ==
  /\ pc[c] = "sampling"
  /\ \/ \E t \in Temps : job' = [job EXCEPT ![c] = [ts |-> @.ts, temp |-> t, freed |-> freed, ok |-> TRUE]]
     \/ job' = [job EXCEPT ![c] = [ts |-> @.ts, temp |-> @.temp, freed |-> freed, ok |-> FALSE]]
  /\ pc' = [pc EXCEPT ![c] = "measured"]
  /\ UNCHANGED <<now, lock, next, freed, mine, sample, history>>

\* The end of a tick: the loop sleeps, a move goes on to its start.
Leave(c, result) ==
  /\ lock' = NoOne
  /\ pc' = [pc EXCEPT ![c] = IF c = "loop" THEN "idle" ELSE result]
  /\ next' = IF c = "loop" THEN now + 1 ELSE next
  /\ job' = [job EXCEPT ![c] = Nothing]
  /\ UNCHANGED <<now, freed, mine>>

\* Mutant: the lock is not released when the reading fails.
MeasureFailsLocked(c) ==
  /\ pc[c] = "sampling" /\ window # NoTime
  /\ pc' = [pc EXCEPT ![c] = IF c = "loop" THEN "idle" ELSE "stale"]
  /\ UNCHANGED <<now, lock, job, next, freed, mine, sample, history>>

\* The reading fails as a whole: the previous sample stays. (At the first tick of a run the
\* service ends with it, as in Crash.)
MeasureFails(c) ==
  /\ pc[c] = "sampling" /\ window # NoTime
  /\ Leave(c, "stale")
  /\ UNCHANGED <<sample, history>>

Store(c) ==
  /\ pc[c] = "measured"
  /\ sample' = job[c].freed
  /\ pc' = [pc EXCEPT ![c] = "stored"]
  /\ UNCHANGED <<now, lock, job, next, freed, mine, history>>

\* The model is started again on what the sample says; the request ends.
StartModel(m) ==
  /\ pc[m] \in {"fresh", "stale"}
  /\ pc' = [pc EXCEPT ![m] = "idle"]
  /\ mine' = [mine EXCEPT ![m] = 0]
  /\ UNCHANGED <<now, lock, job, next, freed, sample, history>>

-----------------------------------------------------------------------------
(* History.add, under its lock. *)

New(c) == IF job[c].ok THEN {[ts |-> job[c].ts, temp |-> job[c].temp]} ELSE {}

PointsOf(points) == {points[i] : i \in DOMAIN points}

\* Points are dropped from the left until one is young enough.
Trimmed(points, oldest) ==
  LET young == {i \in DOMAIN points : points[i].ts >= oldest}
  IN  IF young = {} THEN <<>>
      ELSE SubSeq(points, CHOOSE i \in young : \A j \in young : i <= j, Len(points))

\* The ring with the new point, and without the ones that are too old.
Kept(c) ==
  IF job[c].ok
  THEN Trimmed(Append(ring, [ts |-> job[c].ts, temp |-> job[c].temp]), now - RingKeep)
  ELSE ring

\* Points the ring dropped before a flush could take them are owed no more.
Owed(c) == {p \in taken \cup New(c) : p.ts < window \/ p \in PointsOf(Kept(c))}

Due == window # NoTime /\ now - window >= Interval

\* The first tick of a run begins the window; a sample from before that moment is in no window.
AddFirst(c) ==
  /\ pc[c] = "stored" /\ window = NoTime
  /\ ring' = Kept(c)
  /\ window' = now
  /\ taken' = taken \cup {p \in New(c) : p.ts = now}
  /\ Leave(c, "fresh")
  /\ UNCHANGED <<sample, pruned, db, view>>

Add(c) ==
  /\ pc[c] = "stored" /\ window # NoTime /\ ~Due
  /\ ring' = Kept(c)
  /\ taken' = Owed(c)
  /\ Leave(c, "fresh")
  /\ UNCHANGED <<sample, window, pruned, db, view>>

\* SQLite with the row of this window: the worst of the points since it began.
Inserted(c) ==
  LET since == {p \in PointsOf(Kept(c)) : p.ts >= window}
  IN  view \cup {[ts |-> now, temp |-> p.temp] : p \in {q \in since : \A o \in since : o.temp <= q.temp}}

Prunes == now - pruned >= PruneEvery
Cleaned(rows) == IF Prunes THEN {r \in rows : r.ts >= now - DbKeep} ELSE rows

\* A flush: the row, the pruning, the commit; then the next window begins.
Flush(c) ==
  /\ pc[c] = "stored" /\ Due
  /\ ring' = Kept(c)
  /\ view' = Cleaned(Inserted(c))
  /\ db' = view'
  /\ pruned' = IF Prunes THEN now ELSE pruned
  /\ window' = now
  /\ taken' = Owed(c)
  /\ Leave(c, "fresh")
  /\ UNCHANGED sample

\* Mutant: the next window begins though nothing was written.
FlushFailsMovesOn(c) ==
  /\ pc[c] = "stored" /\ Due
  /\ ring' = Kept(c)
  /\ window' = now
  /\ taken' = Owed(c)
  /\ Leave(c, "stale")
  /\ UNCHANGED <<sample, pruned, db, view>>

\* SQLite fails at the insert, after it, or at the commit, and keeps the transaction or rolls it
\* back. The window goes on; the tick ends with the exception.
FlushFails(c) ==
  /\ pc[c] = "stored" /\ Due
  /\ ring' = Kept(c)
  /\ \/ view' \in {view, Inserted(c), db} /\ UNCHANGED pruned
     \/ view' \in {Cleaned(Inserted(c)), db} /\ pruned' = IF Prunes THEN now ELSE pruned
  /\ taken' = Owed(c)
  /\ Leave(c, "stale")
  /\ UNCHANGED <<sample, window, db>>

-----------------------------------------------------------------------------
(* History.query: at most n points of the last d seconds. *)

\* Short periods come from the ring, longer ones from SQLite, ordered by time.
Series(d) ==
  IF d <= RingKeep THEN Selected(ring, {i \in DOMAIN ring : ring[i].ts >= now - d})
  ELSE LET rows == {r \in view : r.ts >= now - d}
       IN  Ordered(rows, [r \in rows |-> r.ts])

\* The worst of the points at some places of the series, at the time of the last one.
Aggregate(series, places) ==
  [ts   |-> series[CHOOSE i \in places : \A j \in places : j <= i].ts,
   temp |-> series[CHOOSE i \in places : \A j \in places : series[j].temp <= series[i].temp].temp]

\* Mutant: a point of this very moment gets a bucket of its own.
BucketUnbounded(p, d, n) == ((p.ts - (now - d)) * n) \div d

\* The period in n equal parts; a point of this very moment belongs to the last.
Bucket(p, d, n) ==
  LET b == ((p.ts - (now - d)) * n) \div d
  IN  IF b < n THEN b ELSE n - 1

Downsample(series, d, n) ==
  IF Len(series) <= n THEN series
  ELSE LET Part(b) == {i \in DOMAIN series : Bucket(series[i], d, n) = b}
           buckets == {Bucket(series[i], d, n) : i \in DOMAIN series}
       IN  [k \in 1..Cardinality(buckets) |-> Aggregate(series, Part(Ascending(buckets)[k]))]

-----------------------------------------------------------------------------
Advance ==
  /\ now < MaxTime
  /\ now' = now + 1
  /\ UNCHANGED <<lock, pc, job, next, freed, mine, sample, history>>

\* The process dies or is stopped: ring, window and an open transaction are gone. SQLite owes
\* the next run only what a flush has answered for.
Crash ==
  /\ lock' = NoOne
  /\ pc' = [c \in Callers |-> "idle"]
  /\ job' = [c \in Callers |-> Nothing]
  /\ next' = now
  /\ sample' = 0 /\ mine' = [m \in Movers |-> 0]
  /\ ring' = <<>> /\ window' = NoTime /\ pruned' = 0 /\ view' = db
  /\ taken' = IF window = NoTime THEN taken ELSE {p \in taken : p.ts < window}
  /\ UNCHANGED <<now, freed, db>>

Init ==
  /\ now = 0 /\ next = 0 /\ lock = NoOne
  /\ pc = [c \in Callers |-> "idle"]
  /\ job = [c \in Callers |-> Nothing]
  /\ freed = 0 /\ mine = [m \in Movers |-> 0] /\ sample = 0
  /\ ring = <<>> /\ window = NoTime /\ pruned = 0
  /\ db = {} /\ view = {} /\ taken = {}

Tick(c) ==
  \/ Begin(c) \/ Measure(c) \/ MeasureFails(c) \/ Store(c)
  \/ AddFirst(c) \/ Add(c) \/ Flush(c) \/ FlushFails(c)

Next ==
  \/ \E c \in Callers : Tick(c)
  \/ \E m \in Movers : StopModel(m) \/ StartModel(m)
  \/ Advance \/ Crash

Spec == Init /\ [][Next]_vars

-----------------------------------------------------------------------------
\* Types, and one tick at a time: whoever is inside tick holds its lock.
TypeOK ==
  /\ now \in Times /\ next \in 0 .. MaxTime + 1 /\ lock \in Callers \cup {NoOne}
  /\ pc \in [Callers -> InTick \cup {"idle", "stopped", "fresh", "stale"}]
  /\ \A c \in Callers : pc[c] \in InTick <=> lock = c
  /\ job \in [Callers -> Reading] /\ sample \in 0 .. MaxMoves
  /\ freed \in 0 .. MaxMoves /\ mine \in [Movers -> 0 .. MaxMoves]
  /\ ring \in Seq(Point) /\ window \in Times \cup {NoTime} /\ pruned \in Times
  /\ db \subseteq Point /\ view \subseteq Point /\ taken \subseteq Point

\* After the fresh sample of a move the card is seen as it was after the move's stop: no sample
\* that another tick began to take before it is stored later (the comment at core.py 52-53).
SeesItsStop == \A m \in Movers : pc[m] = "fresh" => sample >= mine[m]

\* The points of the ring lie in the order of their times: the trimming from the left and the
\* time of an aggregate (history.py 64, 115) rely on it.
RingInOrder == \A i, j \in DOMAIN ring : i < j => ring[i].ts <= ring[j].ts

\* A peak is not lost (docstring of _aggregate, history.py 111): every sample since a window began
\* waits in the ring for the flush, or the row of its time, whatever failed and restarted
\* meanwhile, is at least as bad; until the row is too old.
PeakIsKept ==
  \A p \in taken :
    \/ window # NoTime /\ p.ts >= window /\ p \in PointsOf(ring)
    \/ \E r \in view :
         /\ r.ts >= p.ts /\ r.temp >= p.temp
         /\ ~\E q \in view : p.ts < q.ts /\ q.ts < r.ts
    \/ p.ts < now - DbKeep

PeakShown(d, n) ==
  LET series == Series(d)
      shown == Downsample(series, d, n)
  IN  /\ Len(shown) <= n
      /\ \A i, j \in DOMAIN shown : i < j => shown[i].ts <= shown[j].ts
      /\ \A i \in DOMAIN series : \E j \in DOMAIN shown : shown[j].temp >= series[i].temp

\* An answer of query (history.py 86-89) has at most the points asked for, in the order of their
\* times, and shows the peak of its period.
ShownIsTheWorst == \A d \in 1 .. MaxTime, n \in 1 .. 2 : PeakShown(d, n)

=============================================================================
