-------------------------- MODULE TelemetryProofs --------------------------
(***************************************************************************)
(* Telemetry for any number of moves, any readings, any clock and any of   *)
(* the periods of History. The lock of tick keeps an older reading from    *)
(* being stored after a newer one; the ring keeps every sample until a row *)
(* of SQLite answers for it; a query shows the peak of its period.         *)
(***************************************************************************)
EXTENDS Telemetry, OperatorProofs

\* The part of TypeOK that is about taking samples.
TickTypes ==
  /\ now \in Times
  /\ pc \in [Callers -> InTick \cup {"idle", "stopped", "fresh", "stale"}]
  /\ job \in [Callers -> Reading]
  /\ freed \in 0 .. MaxMoves /\ sample \in 0 .. MaxMoves
  /\ mine \in [Movers -> 0 .. MaxMoves]

\* Whoever is inside tick holds its lock.
OneTick == \A c \in Callers : pc[c] \in InTick <=> lock = c

\* What is stored is never newer than what has been stopped, and a reading not yet stored is at
\* least as new as what is stored.
Newer ==
  /\ sample <= freed
  /\ \A c \in Callers : pc[c] = "measured" => sample <= job[c].freed /\ job[c].freed <= freed

\* A mover's own stop is before whatever it has read, stored and seen since.
AfterStop ==
  \A m \in Movers :
    /\ mine[m] <= freed
    /\ pc[m] = "measured" => mine[m] <= job[m].freed
    /\ pc[m] \in {"stored", "fresh"} => mine[m] <= sample

TickInv == TickTypes /\ OneTick /\ Newer /\ AfterStop

\* A caller that leaves tick, having stored its sample or gone without one.
LEMMA LeavingKeeps ==
  ASSUME TickInv, NEW c \in Callers, NEW result \in {"fresh", "stale"},
         Leave(c, result), sample' = sample,
         result = "fresh" => pc[c] = "stored", pc[c] \in InTick
  PROVE  TickInv'
<1> USE TelemetryAssumption DEF TickInv, Callers, InTick
<1>1. lock = c /\ lock' = NoOne BY DEF OneTick, Leave
<1>2. pc' = [pc EXCEPT ![c] = IF c = "loop" THEN "idle" ELSE result] /\ UNCHANGED <<now, freed, mine>>
  BY DEF Leave
<1>3. Nothing \in Reading
  <2>1. (CHOOSE t \in Temps : TRUE) \in Temps OBVIOUS
  <2> QED BY <2>1 DEF Nothing, Reading, Times
<1>4. TickTypes' BY <1>2, <1>3 DEF TickTypes, Leave
<1>5. OneTick' BY <1>1, <1>2 DEF TickTypes, OneTick
<1>6. \A d \in Callers : pc'[d] \in {"measured", "stored"} => d # c /\ pc[d] = pc'[d]
  BY <1>2 DEF TickTypes
<1>7. \A d \in Callers : d # c => job'[d] = job[d] BY DEF Leave, TickTypes
<1>8. Newer' BY <1>2, <1>6, <1>7 DEF Newer
<1>9. AfterStop'
  <2> SUFFICES ASSUME NEW m \in Movers
               PROVE  /\ mine'[m] <= freed'
                      /\ pc'[m] = "measured" => mine'[m] <= job'[m].freed
                      /\ pc'[m] \in {"stored", "fresh"} => mine'[m] <= sample'
    BY DEF AfterStop
  <2>1. CASE m = c BY <2>1, <1>2 DEF AfterStop, TickTypes
  <2>2. CASE m # c BY <2>2, <1>2, <1>7 DEF AfterStop, TickTypes
  <2> QED BY <2>1, <2>2
<1> QED BY <1>4, <1>5, <1>8, <1>9

LEMMA TickInvStarts == Init => TickInv
<1> SUFFICES ASSUME Init PROVE TickInv OBVIOUS
<1> USE TelemetryAssumption DEF Init, Callers, InTick
<1>1. Nothing \in Reading
  <2>1. (CHOOSE t \in Temps : TRUE) \in Temps OBVIOUS
  <2> QED BY <2>1 DEF Nothing, Reading, Times
<1>2. TickTypes BY <1>1 DEF TickTypes, Times
<1>3. OneTick BY DEF OneTick
<1>4. Newer /\ AfterStop BY DEF Newer, AfterStop
<1> QED BY <1>2, <1>3, <1>4 DEF TickInv

LEMMA TickInvIsKept == TickInv /\ [Next]_vars => TickInv'
<1> SUFFICES ASSUME TickInv, [Next]_vars PROVE TickInv' OBVIOUS
<1> USE TelemetryAssumption DEF TickInv, Callers, InTick
<1>1. ASSUME NEW m \in Movers, StopModel(m) PROVE TickInv'
  <2>1. TickTypes' BY <1>1 DEF StopModel, TickTypes
  <2>2. OneTick' BY <1>1 DEF StopModel, TickTypes, OneTick
  <2>3. Newer' BY <1>1 DEF StopModel, TickTypes, Newer, Reading
  <2>4. AfterStop' BY <1>1 DEF StopModel, TickTypes, AfterStop
  <2> QED BY <2>1, <2>2, <2>3, <2>4
<1>2. ASSUME NEW m \in Movers, StartModel(m) PROVE TickInv'
  <2>1. TickTypes' BY <1>2 DEF StartModel, TickTypes
  <2>2. OneTick' BY <1>2 DEF StartModel, TickTypes, OneTick
  <2>3. Newer' BY <1>2 DEF StartModel, TickTypes, Newer
  <2>4. AfterStop' BY <1>2 DEF StartModel, TickTypes, AfterStop
  <2> QED BY <2>1, <2>2, <2>3, <2>4
<1>3. ASSUME NEW c \in Callers, Begin(c) PROVE TickInv'
  <2>1. TickTypes' BY <1>3 DEF Begin, TickTypes, Reading
  <2>2. OneTick' BY <1>3 DEF Begin, TickTypes, OneTick
  <2>3. Newer' BY <1>3 DEF Begin, TickTypes, Newer
  <2>4. AfterStop' BY <1>3 DEF Begin, TickTypes, AfterStop
  <2> QED BY <2>1, <2>2, <2>3, <2>4
<1>4. ASSUME NEW c \in Callers, Measure(c) PROVE TickInv'
  <2>1. TickTypes'
    <3>1. job[c] \in Reading BY DEF TickTypes
    <3>2. PICK r \in Reading : job' = [job EXCEPT ![c] = r]
      <4>1. CASE \E t \in Temps : job' = [job EXCEPT ![c] = [ts |-> @.ts, temp |-> t, freed |-> freed, ok |-> TRUE]]
        <5>1. PICK t \in Temps : job' = [job EXCEPT ![c] = [ts |-> @.ts, temp |-> t, freed |-> freed, ok |-> TRUE]]
          BY <4>1
        <5>2. [ts |-> job[c].ts, temp |-> t, freed |-> freed, ok |-> TRUE] \in Reading
          BY <3>1 DEF Reading, TickTypes
        <5> QED BY <5>1, <5>2 DEF TickTypes
      <4>2. CASE job' = [job EXCEPT ![c] = [ts |-> @.ts, temp |-> @.temp, freed |-> freed, ok |-> FALSE]]
        <5>1. [ts |-> job[c].ts, temp |-> job[c].temp, freed |-> freed, ok |-> FALSE] \in Reading
          BY <3>1 DEF Reading, TickTypes
        <5> QED BY <4>2, <5>1 DEF TickTypes
      <4> QED BY <1>4, <4>1, <4>2 DEF Measure
    <3> QED BY <1>4, <3>2 DEF Measure, TickTypes
  <2>2. OneTick' BY <1>4 DEF Measure, TickTypes, OneTick
  <2>3. job'[c].freed = freed /\ \A d \in Callers : d # c => job'[d] = job[d]
    BY <1>4 DEF Measure, TickTypes, Reading
  <2>4. pc' = [pc EXCEPT ![c] = "measured"] /\ UNCHANGED <<freed, mine, sample>> BY <1>4 DEF Measure
  <2>5. Newer' BY <2>3, <2>4 DEF TickTypes, Newer
  <2>6. AfterStop' BY <2>3, <2>4 DEF TickTypes, AfterStop
  <2> QED BY <2>1, <2>2, <2>5, <2>6
<1>5. ASSUME NEW c \in Callers, Store(c) PROVE TickInv'
  <2>1. TickTypes' BY <1>5 DEF Store, TickTypes, Reading
  <2>2. OneTick' BY <1>5 DEF Store, TickTypes, OneTick
  <2>3. \A d \in Callers : pc[d] = "measured" => d = c BY <1>5 DEF Store, OneTick
  <2>4. Newer' BY <1>5, <2>3 DEF Store, TickTypes, Newer
  <2>5. sample <= sample' BY <1>5 DEF Store, Newer
  <2>6. AfterStop'
    <3> SUFFICES ASSUME NEW m \in Movers
                 PROVE  /\ mine'[m] <= freed'
                        /\ pc'[m] = "measured" => mine'[m] <= job'[m].freed
                        /\ pc'[m] \in {"stored", "fresh"} => mine'[m] <= sample'
      BY DEF AfterStop
    <3>1. CASE m = c BY <3>1, <1>5 DEF AfterStop, TickTypes, Store
    <3>2. CASE m # c BY <3>2, <1>5, <2>1, <2>5 DEF AfterStop, TickTypes, Store
    <3> QED BY <3>1, <3>2
  <2> QED BY <2>1, <2>2, <2>4, <2>6
<1>6. ASSUME NEW c \in Callers, MeasureFails(c) PROVE TickInv'
  BY <1>6, LeavingKeeps DEF MeasureFails
<1>7. ASSUME NEW c \in Callers, AddFirst(c) \/ Add(c) \/ Flush(c) PROVE TickInv'
  <2>1. pc[c] = "stored" /\ Leave(c, "fresh") /\ sample' = sample BY <1>7 DEF AddFirst, Add, Flush
  <2> QED BY <2>1, LeavingKeeps
<1>8. ASSUME NEW c \in Callers, FlushFails(c) PROVE TickInv'
  <2>1. pc[c] = "stored" /\ Leave(c, "stale") /\ sample' = sample BY <1>8 DEF FlushFails
  <2> QED BY <2>1, LeavingKeeps
<1>9. CASE Advance
  <2>1. TickTypes' BY <1>9 DEF Advance, TickTypes, Times
  <2>2. OneTick' /\ Newer' /\ AfterStop' BY <1>9 DEF Advance, OneTick, Newer, AfterStop
  <2> QED BY <2>1, <2>2
<1>10. CASE Crash
  <2>1. Nothing \in Reading
    <3>1. (CHOOSE t \in Temps : TRUE) \in Temps OBVIOUS
    <3> QED BY <3>1 DEF Nothing, Reading, Times
  <2>2. TickTypes' BY <1>10, <2>1 DEF Crash, TickTypes
  <2>3. OneTick' BY <1>10 DEF Crash, OneTick
  <2>4. Newer' /\ AfterStop' BY <1>10 DEF Crash, TickTypes, Newer, AfterStop
  <2> QED BY <2>2, <2>3, <2>4
<1>11. CASE UNCHANGED vars
  BY <1>11 DEF vars, TickTypes, OneTick, Newer, AfterStop
<1> QED BY <1>1, <1>2, <1>3, <1>4, <1>5, <1>6, <1>7, <1>8, <1>9, <1>10, <1>11 DEF Next, Tick

\* After the fresh sample of a move the card is never seen as it was before the move's stop,
\* whatever the background loop was measuring meanwhile (GpuManager._tick_lock).
THEOREM StopIsSeen == Spec => []SeesItsStop
<1>1. Init => TickInv BY TickInvStarts
<1>2. TickInv /\ [Next]_vars => TickInv' BY TickInvIsKept
<1>3. TickInv => SeesItsStop BY DEF TickInv, AfterStop, SeesItsStop
<1> QED BY <1>1, <1>2, <1>3, PTL DEF Spec
-----------------------------------------------------------------------------
(* History: what the ring, the windows and the rows owe each other. *)

HistoryTypes ==
  /\ next \in 0 .. MaxTime + 1 /\ lock \in Callers \cup {NoOne}
  /\ ring \in Seq(Point) /\ window \in Times \cup {NoTime} /\ pruned \in Times
  /\ db \subseteq Point /\ IsFiniteSet(db)
  /\ view \subseteq Point /\ IsFiniteSet(view)
  /\ taken \subseteq Point

\* Nothing is from the future, and nothing committed is from the window that goes on.
Past ==
  /\ \A p \in PointsOf(ring) \cup db \cup view : p.ts <= now
  /\ window # NoTime => window <= now /\ \A r \in db : r.ts <= window

\* The sample being taken is the latest.
LatestLast ==
  \A c \in Callers : pc[c] \in InTick =>
    /\ job[c].ts <= now
    /\ \A p \in PointsOf(ring) \cup view : p.ts <= job[c].ts
    /\ window # NoTime => window <= job[c].ts

\* A sample of the window waits in the ring; between runs of the service there is none.
Waits ==
  \A p \in taken :
    /\ window # NoTime /\ p.ts >= window => p \in PointsOf(ring)
    /\ window = NoTime => p.ts < now

\* The row of the sample's time is at least as bad.
Answered(p, rows) ==
  \E r \in rows : /\ r.ts >= p.ts /\ r.temp >= p.temp
                  /\ ~\E q \in rows : p.ts < q.ts /\ q.ts < r.ts

\* A sample of an earlier window has its row, in the file and in what a query sees.
Flushed ==
  \A p \in taken : (window # NoTime => p.ts < window) =>
    p.ts < now - DbKeep \/ (Answered(p, db) /\ Answered(p, view))

\* The rows of failed commits that follow a sample of the window are as bad as the sample.
NoBetter ==
  \A p \in taken, q \in view :
    window # NoTime /\ p.ts >= window /\ q.ts > p.ts => q.temp >= p.temp

HistoryInv ==
  HistoryTypes /\ Past /\ LatestLast /\ RingInOrder /\ Waits /\ Flushed /\ NoBetter
LEMMA PointNumbers == \A p \in Point : p.ts \in Nat /\ p.temp \in Int
<1>1. Temps \subseteq Int BY TelemetryAssumption
<1>2. \A p \in Point : p.temp \in Temps /\ p.ts \in Nat BY DEF Point, Times
<1> QED BY <1>1, <1>2

\* Trimming keeps the order and every point that is young enough, and adds none.
LEMMA TrimmedFacts ==
  ASSUME NEW s \in Seq(Point), NEW oldest \in Int
  PROVE  /\ Trimmed(s, oldest) \in Seq(Point)
         /\ PointsOf(Trimmed(s, oldest)) \subseteq PointsOf(s)
         /\ \A i \in DOMAIN s : s[i].ts >= oldest => s[i] \in PointsOf(Trimmed(s, oldest))
         /\ (\A i, j \in DOMAIN s : i < j => s[i].ts <= s[j].ts)
              => \A i, j \in DOMAIN Trimmed(s, oldest) :
                   i < j => Trimmed(s, oldest)[i].ts <= Trimmed(s, oldest)[j].ts
<1> DEFINE young == {i \in DOMAIN s : s[i].ts >= oldest}
<1>1. Len(s) \in Nat /\ DOMAIN s = 1..Len(s) BY LenProperties
<1>2. CASE young = {}
  <2>1. Trimmed(s, oldest) = <<>> BY <1>2 DEF Trimmed
  <2>2. DOMAIN <<>> = {} OBVIOUS
  <2>3. \A i \in DOMAIN s : ~(s[i].ts >= oldest) BY <1>2
  <2> QED BY <2>1, <2>2, <2>3 DEF PointsOf
<1>3. CASE young # {}
  <2> DEFINE first == CHOOSE i \in young : \A j \in young : i <= j
  <2>1. first \in young /\ \A j \in young : first <= j
    <3> DEFINE key == [i \in Nat |-> 0 - i]
    <3>1. key \in [Nat -> Int] /\ \A i \in Nat : key[i] = 0 - i OBVIOUS
    <3>2. IsFiniteSet(young)
      <4>1. IsFiniteSet(1..Len(s)) BY <1>1, FS_Interval
      <4>2. young \subseteq 1..Len(s) BY <1>1
      <4> QED BY <4>1, <4>2, FS_Subset
    <3>3. young \in SUBSET Nat BY <1>1
    <3> HIDE DEF key, young
    <3>4. PICK i \in young : \A j \in young : key[j] <= key[i] BY <3>1, <3>2, <3>3, <1>3, HighestExists
    <3>5. \A j \in young : i <= j
      <4> TAKE j \in young
      <4>1. i \in Nat /\ j \in Nat /\ 0 - j <= 0 - i BY <3>1, <3>3, <3>4
      <4> QED BY <4>1
    <3> QED BY <3>5
  <2>2. Trimmed(s, oldest) = SubSeq(s, first, Len(s)) BY <1>3 DEF Trimmed
  <2>3. first \in 1..Len(s) BY <1>1, <2>1
  <2> DEFINE t == Trimmed(s, oldest)
  <2> HIDE DEF first, t
  <2>4. /\ t \in Seq(Point) /\ Len(t) = Len(s) - first + 1
        /\ \A k \in 1..Len(t) : t[k] = s[first + k - 1]
    BY <1>1, <2>2, <2>3 DEF t
  <2>5. DOMAIN t = 1..Len(t) BY <2>4, LenProperties
  <2>6. PointsOf(t) \subseteq PointsOf(s)
    <3> SUFFICES ASSUME NEW k \in 1..Len(t) PROVE t[k] \in PointsOf(s) BY <2>5 DEF PointsOf
    <3>1. first + k - 1 \in 1..Len(s) BY <1>1, <2>3, <2>4
    <3> QED BY <1>1, <2>4, <3>1 DEF PointsOf
  <2>7. ASSUME NEW i \in DOMAIN s, s[i].ts >= oldest PROVE s[i] \in PointsOf(t)
    <3>1. first <= i /\ i \in 1..Len(s) BY <1>1, <2>1, <2>7
    <3>2. i - first + 1 \in 1..Len(t) BY <1>1, <2>3, <2>4, <3>1
    <3>3. t[i - first + 1] = s[first + (i - first + 1) - 1] BY <2>4, <3>2
    <3>4. first + (i - first + 1) - 1 = i BY <2>3, <3>1
    <3> QED BY <2>5, <3>2, <3>3, <3>4 DEF PointsOf
  <2>8. ASSUME \A i, j \in DOMAIN s : i < j => s[i].ts <= s[j].ts, NEW i \in DOMAIN t, NEW j \in DOMAIN t, i < j
        PROVE  t[i].ts <= t[j].ts
    <3>1. first + i - 1 \in 1..Len(s) /\ first + j - 1 \in 1..Len(s) /\ first + i - 1 < first + j - 1
      BY <1>1, <2>3, <2>4, <2>5, <2>8
    <3>2. t[i] = s[first + i - 1] /\ t[j] = s[first + j - 1] BY <2>4, <2>5
    <3> QED BY <1>1, <2>8, <3>1, <3>2
  <2> QED BY <2>4, <2>6, <2>7, <2>8 DEF t
<1> QED BY <1>2, <1>3

Inside(c) == pc[c] \in InTick

\* The sample c is taking, if the card could be read, as it would lie in the ring.
Taking(c) == [ts |-> job[c].ts, temp |-> job[c].temp]

\* The ring after History.add: in order, with the new sample unless it is too old already.
LEMMA KeptFacts ==
  ASSUME TickInv, HistoryInv, NEW c \in Callers, Inside(c)
  PROVE  /\ Kept(c) \in Seq(Point) /\ New(c) \subseteq Point
         /\ \A p \in New(c) : p.ts = job[c].ts
         /\ PointsOf(Kept(c)) \subseteq PointsOf(ring) \cup New(c)
         /\ \A p \in New(c) : p.ts >= now - RingKeep => p \in PointsOf(Kept(c))
         /\ \A i, j \in DOMAIN Kept(c) : i < j => Kept(c)[i].ts <= Kept(c)[j].ts
<1> DEFINE p == [ts |-> job[c].ts, temp |-> job[c].temp]
           s == Append(ring, p)
<1>1. ring \in Seq(Point) BY DEF HistoryInv, HistoryTypes
<1>2. job[c] \in Reading BY DEF TickInv, TickTypes
<1>3. p \in Point /\ p.ts = job[c].ts BY <1>2 DEF Point, Reading
<1>4. CASE ~job[c].ok
  BY <1>1, <1>4 DEF Kept, New, HistoryInv, RingInOrder
<1>5. CASE job[c].ok
  <2> HIDE DEF p
  <2>1. /\ s \in Seq(Point) /\ Len(s) = Len(ring) + 1 /\ Len(ring) \in Nat
        /\ \A i \in 1..Len(ring) : s[i] = ring[i]
        /\ s[Len(ring) + 1] = p
    <3>1. Len(ring) \in Nat BY <1>1, LenProperties
    <3> QED BY <1>1, <1>3, <3>1, AppendProperties
  <2>2. DOMAIN s = 1..(Len(ring) + 1) /\ DOMAIN ring = 1..Len(ring) BY <1>1, <2>1, LenProperties
  <2> HIDE DEF s
  <2>3. now - RingKeep \in Int BY TelemetryAssumption DEF TickInv, TickTypes, Times
  <2>4. Kept(c) = Trimmed(s, now - RingKeep) /\ New(c) = {p} BY <1>5 DEF Kept, New, s, p
  <2>5. PointsOf(s) \subseteq PointsOf(ring) \cup {p}
    <3> SUFFICES ASSUME NEW i \in 1..(Len(ring) + 1) PROVE s[i] \in PointsOf(ring) \cup {p} BY <2>2 DEF PointsOf
    <3>1. CASE i = Len(ring) + 1 BY <2>1, <3>1
    <3>2. CASE i # Len(ring) + 1
      <4>1. i \in 1..Len(ring) BY <2>1, <3>2
      <4> QED BY <2>1, <2>2, <4>1 DEF PointsOf
    <3> QED BY <3>1, <3>2
  <2>6. ASSUME NEW i \in DOMAIN s, NEW j \in DOMAIN s, i < j PROVE s[i].ts <= s[j].ts
    <3>1. i \in 1..Len(ring) BY <2>1, <2>2, <2>6
    <3>2. s[i] = ring[i] /\ ring[i] \in PointsOf(ring) BY <2>1, <2>2, <3>1 DEF PointsOf
    <3>3. CASE j = Len(ring) + 1
      <4>1. ring[i].ts <= job[c].ts BY <3>2 DEF HistoryInv, LatestLast, Inside
      <4> QED BY <1>3, <2>1, <3>2, <3>3, <4>1
    <3>4. CASE j # Len(ring) + 1
      <4>1. j \in 1..Len(ring) BY <2>1, <2>2, <3>4
      <4> QED BY <2>1, <2>2, <2>6, <3>1, <4>1 DEF HistoryInv, RingInOrder
    <3> QED BY <3>3, <3>4
  <2>7. Len(ring) + 1 \in DOMAIN s BY <2>1, <2>2
  <2>8. p.ts >= now - RingKeep => p \in PointsOf(Kept(c)) BY <2>1, <2>3, <2>4, <2>7, TrimmedFacts
  <2>9. Kept(c) \in Seq(Point) /\ PointsOf(Kept(c)) \subseteq PointsOf(s)
        /\ \A i, j \in DOMAIN Kept(c) : i < j => Kept(c)[i].ts <= Kept(c)[j].ts
    BY <2>1, <2>3, <2>4, <2>6, TrimmedFacts
  <2> QED BY <1>3, <2>4, <2>5, <2>8, <2>9
<1> QED BY <1>4, <1>5

\* What the transaction of a flush sees: the rows before and at most one, the worst of the window.
LEMMA InsertedFacts ==
  ASSUME TickInv, HistoryInv, NEW c \in Callers, Inside(c), window # NoTime
  PROVE  \E W : /\ Inserted(c) = view \cup W
                /\ W \subseteq Point /\ IsFiniteSet(W)
                /\ \A w \in W : w.ts = now
                /\ \A p \in PointsOf(Kept(c)), w \in W : p.ts >= window => p.temp <= w.temp
                /\ (\E p \in PointsOf(Kept(c)) : p.ts >= window) => W # {}
<1> DEFINE since == {p \in PointsOf(Kept(c)) : p.ts >= window}
           worst == {q \in since : \A o \in since : o.temp <= q.temp}
           W == {[ts |-> now, temp |-> p.temp] : p \in worst}
<1>1. Inserted(c) = view \cup W BY DEF Inserted
<1>2. Kept(c) \in Seq(Point) BY KeptFacts
<1>3. Len(Kept(c)) \in Nat /\ DOMAIN Kept(c) = 1..Len(Kept(c)) BY <1>2, LenProperties
<1>4. since \subseteq Point
  <2>1. \A i \in 1..Len(Kept(c)) : Kept(c)[i] \in Point BY <1>2, ElementOfSeq
  <2> QED BY <1>3, <2>1 DEF PointsOf
<1>5. IsFiniteSet(since)
  <2> DEFINE D == DOMAIN Kept(c)
             f == [i \in D |-> Kept(c)[i]]
  <2>1. IsFiniteSet(D) BY <1>3, FS_Interval
  <2>2. PointsOf(Kept(c)) = {Kept(c)[i] : i \in D} BY DEF PointsOf
  <2>3. IsFiniteSet(PointsOf(Kept(c)))
    <3>1. f \in Surjection(D, PointsOf(Kept(c))) BY <2>2 DEF Surjection
    <3> HIDE DEF f, D
    <3> QED BY <2>1, <3>1, FS_Surjection
  <2> QED BY <2>3, FS_Subset
<1>6. now \in Times BY DEF TickInv, TickTypes
<1>7. \A p \in Point : p.temp \in Int BY PointNumbers
<1> HIDE DEF since
<1>8. \A w \in W : w \in Point /\ w.ts = now BY <1>4, <1>6 DEF Point
<1>9. \A p \in since, w \in W : p.temp <= w.temp OBVIOUS
<1>10. IsFiniteSet(W) /\ (since # {} => W # {})
  <2>1. CASE since = {}
    <3>1. W = {} BY <2>1
    <3> QED BY <2>1, <3>1, FS_EmptySet
  <2>2. CASE since # {}
    <3> DEFINE key == [p \in Point |-> p.temp]
    <3>1. key \in [Point -> Int] /\ \A p \in Point : key[p] = p.temp BY <1>7
    <3> HIDE DEF key
    <3>2. PICK m \in since : \A p \in since : key[p] <= key[m] BY <1>4, <1>5, <2>2, <3>1, HighestExists
    <3>3. m \in worst BY <1>4, <3>1, <3>2
    <3>4. W = {[ts |-> now, temp |-> m.temp]}
      <4>1. \A q \in worst : q.temp = m.temp
        <5> TAKE q \in worst
        <5>1. q.temp <= m.temp /\ m.temp <= q.temp BY <1>4, <3>1, <3>2
        <5>2. q.temp \in Int /\ m.temp \in Int BY <1>4, <1>7
        <5> QED BY <5>1, <5>2
      <4> QED BY <3>3, <4>1
    <3> QED BY <3>4, FS_Singleton
  <2> QED BY <2>1, <2>2
<1> HIDE DEF W
<1>11. \A p \in PointsOf(Kept(c)) : p.ts >= window => p \in since BY DEF since
<1> QED BY <1>1, <1>8, <1>9, <1>10, <1>11
\* A row that answers for a sample still does when later rows join it and old ones go.
LEMMA AnsweredStill ==
  ASSUME now \in Times, NEW p \in Point, NEW rows \in SUBSET Point, NEW W \in SUBSET Point,
         NEW kept \in SUBSET (rows \cup W), Answered(p, rows),
         \A r \in rows : r.ts <= now, \A w \in W : w.ts = now,
         \A r \in rows : r \in kept \/ r.ts < now - DbKeep
  PROVE  p.ts < now - DbKeep \/ Answered(p, kept)
<1>1. PICK r \in rows : /\ r.ts >= p.ts /\ r.temp >= p.temp
                       /\ ~\E q \in rows : p.ts < q.ts /\ q.ts < r.ts
  BY DEF Answered
<1>2. p.ts \in Nat /\ r.ts \in Nat /\ now \in Nat /\ DbKeep \in Nat BY TelemetryAssumption DEF Point, Times
<1>3. CASE r \in kept
  <2>1. \A q \in kept : ~(p.ts < q.ts /\ q.ts < r.ts) BY <1>1, <1>2
  <2> QED BY <1>1, <1>3, <2>1 DEF Answered
<1>4. CASE r.ts < now - DbKeep BY <1>1, <1>2, <1>4
<1> QED BY <1>3, <1>4

\* If every row after a sample is as bad, and there is one, the first of them answers for it.
LEMMA AnsweredAnew ==
  ASSUME NEW p \in Point, NEW rows \in SUBSET Point, NEW w \in rows, w.ts > p.ts,
         \A q \in rows : q.ts > p.ts => q.temp >= p.temp
  PROVE  Answered(p, rows)
<1> DEFINE later == {n \in Times : \E q \in rows : q.ts = n /\ q.ts > p.ts}
           key == [n \in Times |-> 0 - n]
<1>1. w.ts \in later BY DEF Point
<1>2. IsFiniteSet(later)
  <2>1. IsFiniteSet(Times) BY TelemetryAssumption, FS_Interval DEF Times
  <2> QED BY <2>1, FS_Subset
<1>3. key \in [Times -> Int] /\ \A n \in Times : key[n] = 0 - n BY DEF Times
<1>4. later \in SUBSET Times OBVIOUS
<1> HIDE DEF key
<1>5. PICK n \in later : \A m \in later : key[m] <= key[n]
  <2> HIDE DEF later
  <2> QED BY <1>1, <1>2, <1>3, <1>4, HighestExists
<1>6. \A m \in later : n <= m
  <2> TAKE m \in later
  <2>1. m \in Nat /\ n \in Nat /\ 0 - m <= 0 - n BY <1>3, <1>4, <1>5 DEF Times
  <2> QED BY <2>1
<1>7. PICK r \in rows : r.ts = n /\ r.ts > p.ts OBVIOUS
<1>8. \A q \in rows : ~(p.ts < q.ts /\ q.ts < r.ts)
  <2> SUFFICES ASSUME NEW q \in rows, p.ts < q.ts, q.ts < r.ts PROVE FALSE OBVIOUS
  <2>1. p.ts \in Nat /\ q.ts \in Times /\ q.ts \in Nat /\ r.ts \in Nat BY DEF Point, Times
  <2>2. q.ts \in later BY <2>1
  <2> HIDE DEF later
  <2> QED BY <1>6, <1>7, <2>1, <2>2
<1>9. p.ts \in Nat /\ r.ts \in Nat BY DEF Point, Times
<1> QED BY <1>7, <1>8, <1>9 DEF Answered

\* After a tick nobody is inside one.
LEMMA LeavingEmpties ==
  ASSUME TickInv, NEW c \in Callers, Inside(c), NEW result \in {"fresh", "stale"}, Leave(c, result)
  PROVE  /\ \A d \in Callers : pc'[d] \notin InTick
         /\ now' = now /\ next' \in {next, now + 1} /\ lock' = NoOne
<1>1. \A d \in Callers : pc[d] \in InTick => d = c BY DEF TickInv, OneTick, Inside
<1>2. pc' = [pc EXCEPT ![c] = IF c = "loop" THEN "idle" ELSE result] BY DEF Leave
<1>3. \A d \in Callers : d # c => pc'[d] = pc[d] BY <1>2 DEF TickInv, TickTypes
<1>4. pc'[c] \in {"idle", "fresh", "stale"} BY <1>2 DEF TickInv, TickTypes
<1> QED BY <1>1, <1>3, <1>4 DEF Leave, InTick

\* What every addition to the ring keeps.
LEMMA AddingKeeps ==
  ASSUME TickInv, HistoryInv, NEW c \in Callers, Inside(c), NEW result \in {"fresh", "stale"},
         Leave(c, result), ring' = Kept(c), taken' \subseteq taken \cup New(c)
  PROVE  /\ next' \in 0 .. MaxTime + 1 /\ lock' \in Callers \cup {NoOne} /\ now' = now
         /\ ring' \in Seq(Point) /\ taken' \subseteq Point
         /\ \A p \in PointsOf(ring') : p.ts <= now
         /\ RingInOrder' /\ LatestLast'
<1>1. now' = now /\ next' \in {next, now + 1} /\ lock' = NoOne BY LeavingEmpties
<1>2. next' \in 0 .. MaxTime + 1
  BY <1>1, TelemetryAssumption DEF HistoryInv, HistoryTypes, TickInv, TickTypes, Times
<1>3. /\ ring' \in Seq(Point) /\ New(c) \subseteq Point
      /\ \A p \in New(c) : p.ts = job[c].ts
      /\ PointsOf(ring') \subseteq PointsOf(ring) \cup New(c)
      /\ RingInOrder'
  BY KeptFacts DEF RingInOrder
<1>4. taken' \subseteq Point BY <1>3 DEF HistoryInv, HistoryTypes
<1>5. LatestLast' BY LeavingEmpties DEF LatestLast, InTick
<1>6. job[c].ts <= now BY DEF HistoryInv, LatestLast, Inside
<1>7. \A p \in PointsOf(ring') : p.ts <= now BY <1>3, <1>6 DEF HistoryInv, Past
<1> QED BY <1>1, <1>2, <1>3, <1>4, <1>5, <1>7

\* The first tick of a run.
LEMMA AddFirstKeeps ==
  ASSUME TickInv, HistoryInv, NEW c \in Callers, AddFirst(c)
  PROVE  HistoryInv'
<1>1. /\ Inside(c) /\ Leave(c, "fresh") /\ window = NoTime /\ window' = now /\ ring' = Kept(c)
      /\ taken' = taken \cup {p \in New(c) : p.ts = now}
      /\ UNCHANGED <<sample, pruned, db, view>>
  BY DEF AddFirst, Inside, InTick
<1>2. taken' \subseteq taken \cup New(c) BY <1>1
<1>3. /\ next' \in 0 .. MaxTime + 1 /\ lock' \in Callers \cup {NoOne} /\ now' = now
      /\ ring' \in Seq(Point) /\ taken' \subseteq Point
      /\ \A p \in PointsOf(ring') : p.ts <= now
      /\ RingInOrder' /\ LatestLast'
  BY <1>1, <1>2, AddingKeeps
<1>4. now \in Times /\ now \in Nat /\ now # NoTime /\ RingKeep \in Nat
  BY TelemetryAssumption DEF TickInv, TickTypes, Times
<1>5. HistoryTypes' BY <1>1, <1>3, <1>4 DEF HistoryInv, HistoryTypes
<1>6. Past' BY <1>1, <1>3, <1>4 DEF HistoryInv, Past, PointsOf
<1>7. \A p \in taken : p.ts < now BY <1>1 DEF HistoryInv, Waits
<1>8. \A p \in Point : p.ts \in Nat BY DEF Point, Times
<1>9. \A p \in New(c) : p.ts = now => p \in PointsOf(ring')
  <2>1. now >= now - RingKeep BY <1>4
  <2> QED BY <1>1, <2>1, KeptFacts
<1>10. Waits'
  <2> SUFFICES ASSUME NEW p \in taken', p.ts >= now PROVE p \in PointsOf(ring')
    BY <1>1, <1>4 DEF Waits, PointsOf
  <2>1. p.ts \in Nat BY <1>3, <1>8
  <2>2. p \notin taken BY <1>4, <1>7, <2>1
  <2> QED BY <1>1, <1>9, <2>2
<1>11. Flushed'
  <2> SUFFICES ASSUME NEW p \in taken', p.ts < now
               PROVE  p.ts < now - DbKeep \/ (Answered(p, db) /\ Answered(p, view))
    BY <1>1, <1>3, <1>4 DEF Flushed, Answered
  <2>1. p \in taken BY <1>1, <1>4
  <2> QED BY <1>1, <2>1 DEF HistoryInv, Flushed
<1>12. NoBetter'
  <2> SUFFICES ASSUME NEW p \in taken', NEW q \in view, p.ts >= now, q.ts > p.ts PROVE FALSE
    BY <1>1 DEF NoBetter
  <2>1. q.ts <= now /\ q.ts \in Nat /\ p.ts \in Nat
    BY <1>3, <1>8 DEF HistoryInv, Past, HistoryTypes
  <2> QED BY <1>4, <2>1
<1> QED BY <1>3, <1>5, <1>6, <1>10, <1>11, <1>12 DEF HistoryInv
\* Of what is owed after a tick, what lies in the window is in the ring, and the rest was owed.
LEMMA OwedFacts ==
  ASSUME TickInv, HistoryInv, NEW c \in Callers, Inside(c), window # NoTime
  PROVE  /\ Owed(c) \subseteq taken \cup New(c)
         /\ \A p \in Owed(c) : p.ts >= window => p \in PointsOf(Kept(c))
         /\ \A p \in Owed(c) : p.ts < window => p \in taken
         /\ \A p \in New(c) : p.ts >= window
<1>1. New(c) \subseteq Point /\ \A p \in New(c) : p.ts = job[c].ts BY KeptFacts
<1>2. window <= job[c].ts BY DEF HistoryInv, LatestLast, Inside
<1>3. window \in Nat /\ \A p \in Point : p.ts \in Nat BY DEF HistoryInv, HistoryTypes, Point, Times
<1>4. taken \subseteq Point BY DEF HistoryInv, HistoryTypes
<1>5. \A p \in New(c) : p.ts >= window BY <1>1, <1>2, <1>3
<1>6. \A p \in Owed(c) : p.ts \in Nat BY <1>1, <1>3, <1>4 DEF Owed
<1>7. \A p \in Owed(c) : p.ts >= window => p \in PointsOf(Kept(c)) BY <1>3, <1>6 DEF Owed
<1>8. \A p \in Owed(c) : p.ts < window => p \in taken BY <1>3, <1>5, <1>6 DEF Owed
<1> QED BY <1>5, <1>7, <1>8 DEF Owed

\* A sample of the window has no better row after it, the one just taken included.
LEMMA StillNoBetter ==
  ASSUME TickInv, HistoryInv, NEW c \in Callers, Inside(c), window # NoTime,
         NEW p \in taken \cup New(c), p.ts >= window, NEW q \in view, q.ts > p.ts
  PROVE  q.temp >= p.temp
<1>1. CASE p \in taken BY <1>1 DEF HistoryInv, NoBetter
<1>2. CASE p \in New(c)
  <2>1. p \in Point /\ p.ts = job[c].ts BY <1>2, KeptFacts
  <2>2. q.ts <= job[c].ts BY DEF HistoryInv, LatestLast, Inside
  <2>3. p.ts \in Nat /\ q.ts \in Nat BY <2>1 DEF HistoryInv, HistoryTypes, Point, Times
  <2> QED BY <2>1, <2>2, <2>3
<1> QED BY <1>1, <1>2

LEMMA AddKeeps ==
  ASSUME TickInv, HistoryInv, NEW c \in Callers, Add(c)
  PROVE  HistoryInv'
<1>1. /\ Inside(c) /\ Leave(c, "fresh") /\ window # NoTime /\ ring' = Kept(c) /\ taken' = Owed(c)
      /\ UNCHANGED <<sample, window, pruned, db, view>>
  BY DEF Add, Inside, InTick
<1>2. /\ taken' \subseteq taken \cup New(c)
      /\ \A p \in taken' : p.ts >= window => p \in PointsOf(ring')
      /\ \A p \in taken' : p.ts < window => p \in taken
  BY <1>1, OwedFacts
<1>3. /\ next' \in 0 .. MaxTime + 1 /\ lock' \in Callers \cup {NoOne} /\ now' = now
      /\ ring' \in Seq(Point) /\ taken' \subseteq Point
      /\ \A p \in PointsOf(ring') : p.ts <= now
      /\ RingInOrder' /\ LatestLast'
  BY <1>1, <1>2, AddingKeeps
<1>4. HistoryTypes' BY <1>1, <1>3 DEF HistoryInv, HistoryTypes
<1>5. Past' BY <1>1, <1>3 DEF HistoryInv, Past, PointsOf
<1>6. Waits' BY <1>1, <1>2 DEF Waits, PointsOf
<1>7. Flushed' BY <1>1, <1>2, <1>3 DEF HistoryInv, Flushed, Answered
<1>8. NoBetter'
  <2> SUFFICES ASSUME NEW p \in taken', NEW q \in view, p.ts >= window, q.ts > p.ts PROVE q.temp >= p.temp
    BY <1>1 DEF NoBetter
  <2> QED BY <1>1, <1>2, StillNoBetter
<1> QED BY <1>3, <1>4, <1>5, <1>6, <1>7, <1>8 DEF HistoryInv

LEMMA FlushKeeps ==
  ASSUME TickInv, HistoryInv, NEW c \in Callers, Flush(c)
  PROVE  HistoryInv'
<1>1. /\ Inside(c) /\ Leave(c, "fresh") /\ window # NoTime /\ ring' = Kept(c) /\ taken' = Owed(c)
      /\ window' = now /\ view' = Cleaned(Inserted(c)) /\ db' = view'
      /\ pruned' \in {now, pruned}
  BY DEF Flush, Due, Inside, InTick
<1>2. /\ taken' \subseteq taken \cup New(c)
      /\ \A p \in taken' : p.ts >= window => p \in PointsOf(ring')
      /\ \A p \in taken' : p.ts < window => p \in taken
  BY <1>1, OwedFacts
<1>3. /\ next' \in 0 .. MaxTime + 1 /\ lock' \in Callers \cup {NoOne} /\ now' = now
      /\ ring' \in Seq(Point) /\ taken' \subseteq Point
      /\ \A p \in PointsOf(ring') : p.ts <= now
      /\ RingInOrder' /\ LatestLast'
  BY <1>1, <1>2, AddingKeeps
<1>4. /\ now \in Times /\ now \in Nat /\ now # NoTime /\ DbKeep \in Nat
      /\ window \in Nat /\ window <= now
  BY <1>1, TelemetryAssumption DEF TickInv, TickTypes, HistoryInv, HistoryTypes, Past, Times
<1>5. PICK W : /\ Inserted(c) = view \cup W
               /\ W \subseteq Point /\ IsFiniteSet(W)
               /\ \A w \in W : w.ts = now
               /\ \A p \in PointsOf(Kept(c)), w \in W : p.ts >= window => p.temp <= w.temp
               /\ (\E p \in PointsOf(Kept(c)) : p.ts >= window) => W # {}
  BY <1>1, InsertedFacts
<1>6. /\ view \subseteq Point /\ IsFiniteSet(view) /\ taken \subseteq Point
      /\ \A r \in view : r.ts <= now
  BY DEF HistoryInv, HistoryTypes, Past
<1>7. view' \subseteq view \cup W /\ \A r \in view \cup W : r \in view' \/ r.ts < now - DbKeep
  <2>1. \A r \in view \cup W : r.ts \in Nat BY <1>5, <1>6 DEF Point, Times
  <2> QED BY <1>1, <1>4, <1>5, <2>1 DEF Cleaned
<1>8. IsFiniteSet(view') /\ view' \subseteq Point
  <2>1. IsFiniteSet(view \cup W) BY <1>5, <1>6, FS_Union
  <2> QED BY <1>5, <1>6, <1>7, <2>1, FS_Subset
<1>9. \A w \in W : w \in view' BY <1>4, <1>5, <1>7
<1>10. \A p \in Point : p.ts \in Nat /\ p.temp \in Int BY PointNumbers
<1>11. HistoryTypes' BY <1>1, <1>3, <1>4, <1>8 DEF HistoryInv, HistoryTypes, TickInv, TickTypes
<1>12. \A r \in view' : r.ts <= now BY <1>4, <1>5, <1>6, <1>7
<1>13. Past'
  <2>1. \A p \in PointsOf(ring') \cup db' \cup view' : p.ts <= now' BY <1>1, <1>3, <1>12
  <2>2. window' <= now' /\ \A r \in db' : r.ts <= window' BY <1>1, <1>3, <1>4, <1>12
  <2> QED BY <2>1, <2>2 DEF Past, PointsOf
<1>14. Waits'
  <2> SUFFICES ASSUME NEW p \in taken', p.ts >= now PROVE p \in PointsOf(ring')
    BY <1>1, <1>4 DEF Waits, PointsOf
  <2>1. p.ts \in Nat BY <1>3, <1>10
  <2>2. p.ts >= window BY <1>4, <2>1
  <2> QED BY <1>2, <2>2
<1>15. ASSUME NEW p \in taken', p.ts < now PROVE p.ts < now - DbKeep \/ Answered(p, view')
  <2>1. p \in Point /\ p.ts \in Nat BY <1>3, <1>10
  <2>2. CASE p.ts < window
    <3>1. p.ts < now - DbKeep \/ Answered(p, view) BY <1>2, <2>2 DEF HistoryInv, Flushed
    <3>2. CASE Answered(p, view)
      BY <1>4, <1>5, <1>6, <1>7, <2>1, <3>2, AnsweredStill
    <3> QED BY <3>1, <3>2
  <2>3. CASE p.ts >= window
    <3>1. p \in PointsOf(Kept(c)) BY <1>1, <1>2, <2>3
    <3>2. PICK w \in W : TRUE BY <1>5, <2>3, <3>1
    <3>3. w \in view' /\ w.ts > p.ts BY <1>4, <1>5, <1>9, <1>15, <2>1
    <3>4. ASSUME NEW q \in view', q.ts > p.ts PROVE q.temp >= p.temp
      <4>1. CASE q \in view BY <1>1, <1>2, <2>3, <3>4, <4>1, StillNoBetter
      <4>2. CASE q \in W
        <5>1. p.temp <= q.temp BY <1>5, <2>3, <3>1, <4>2
        <5>2. p.temp \in Int /\ q.temp \in Int BY <1>5, <1>10, <2>1, <4>2
        <5> QED BY <5>1, <5>2
      <4> QED BY <1>7, <4>1, <4>2
    <3> QED BY <1>8, <2>1, <3>3, <3>4, AnsweredAnew
  <2> QED BY <1>4, <2>1, <2>2, <2>3
<1>16. Flushed'
  <2> SUFFICES ASSUME NEW p \in taken', p.ts < now
               PROVE  p.ts < now - DbKeep \/ (Answered(p, view'))
    BY <1>1, <1>3, <1>4 DEF Flushed, Answered
  <2> QED BY <1>15
<1>17. NoBetter'
  <2> SUFFICES ASSUME NEW p \in taken', NEW q \in view', p.ts >= now, q.ts > p.ts PROVE FALSE
    BY <1>1 DEF NoBetter
  <2>1. q.ts <= now /\ q.ts \in Nat /\ p.ts \in Nat BY <1>3, <1>8, <1>10, <1>12
  <2> QED BY <1>4, <2>1
<1> QED BY <1>3, <1>11, <1>13, <1>14, <1>16, <1>17 DEF HistoryInv

LEMMA FlushFailsKeeps ==
  ASSUME TickInv, HistoryInv, NEW c \in Callers, FlushFails(c)
  PROVE  HistoryInv'
<1>1. /\ Inside(c) /\ Leave(c, "stale") /\ window # NoTime /\ ring' = Kept(c) /\ taken' = Owed(c)
      /\ UNCHANGED <<window, db>>
      /\ view' \in {view, Inserted(c), Cleaned(Inserted(c)), db}
      /\ pruned' \in {now, pruned}
  BY DEF FlushFails, Due, Inside, InTick
<1>2. /\ taken' \subseteq taken \cup New(c)
      /\ \A p \in taken' : p.ts >= window => p \in PointsOf(ring')
      /\ \A p \in taken' : p.ts < window => p \in taken
  BY <1>1, OwedFacts
<1>3. /\ next' \in 0 .. MaxTime + 1 /\ lock' \in Callers \cup {NoOne} /\ now' = now
      /\ ring' \in Seq(Point) /\ taken' \subseteq Point
      /\ \A p \in PointsOf(ring') : p.ts <= now
      /\ RingInOrder' /\ LatestLast'
  BY <1>1, <1>2, AddingKeeps
<1>4. now \in Times /\ now \in Nat /\ DbKeep \in Nat /\ window \in Nat
  BY <1>1, TelemetryAssumption DEF TickInv, TickTypes, HistoryInv, HistoryTypes, Times
<1>5. PICK W : /\ Inserted(c) = view \cup W
               /\ W \subseteq Point /\ IsFiniteSet(W)
               /\ \A w \in W : w.ts = now
               /\ \A p \in PointsOf(Kept(c)), w \in W : p.ts >= window => p.temp <= w.temp
               /\ (\E p \in PointsOf(Kept(c)) : p.ts >= window) => W # {}
  BY <1>1, InsertedFacts
<1>6. /\ view \subseteq Point /\ IsFiniteSet(view) /\ taken \subseteq Point
      /\ db \subseteq Point /\ IsFiniteSet(db)
      /\ \A r \in view \cup db : r.ts <= now
      /\ \A r \in db : r.ts <= window
  BY <1>1 DEF HistoryInv, HistoryTypes, Past
<1>7. \A p \in Point : p.ts \in Nat /\ p.temp \in Int BY PointNumbers
<1>8. \/ view' = db
      \/ view' \subseteq view \cup W /\ \A r \in view : r \in view' \/ r.ts < now - DbKeep
  <2>1. \A r \in view \cup W : r.ts \in Nat BY <1>5, <1>6, <1>7
  <2>2. CASE view' = Cleaned(Inserted(c)) BY <1>4, <1>5, <2>1, <2>2 DEF Cleaned
  <2> QED BY <1>1, <1>5, <2>2
<1>9. IsFiniteSet(view') /\ view' \subseteq Point
  <2>1. IsFiniteSet(view \cup W) BY <1>5, <1>6, FS_Union
  <2>2. CASE view' = db BY <1>6, <2>2
  <2>3. CASE view' \subseteq view \cup W BY <1>5, <1>6, <2>1, <2>3, FS_Subset
  <2> QED BY <1>8, <2>2, <2>3
<1>10. HistoryTypes' BY <1>1, <1>3, <1>4, <1>9 DEF HistoryInv, HistoryTypes
<1>11. \A r \in view' : r.ts <= now BY <1>4, <1>5, <1>6, <1>8
<1>12. Past'
  <2>1. \A p \in PointsOf(ring') \cup db' \cup view' : p.ts <= now' BY <1>1, <1>3, <1>6, <1>11
  <2>2. window' <= now' /\ \A r \in db' : r.ts <= window' BY <1>1, <1>3, <1>6 DEF HistoryInv, Past
  <2> QED BY <2>1, <2>2 DEF Past, PointsOf
<1>13. Waits' BY <1>1, <1>2 DEF Waits, PointsOf
<1>14. Flushed'
  <2> SUFFICES ASSUME NEW p \in taken', p.ts < window
               PROVE  p.ts < now - DbKeep \/ (Answered(p, db) /\ Answered(p, view'))
    BY <1>1, <1>3 DEF Flushed, Answered
  <2>1. p \in Point BY <1>3
  <2>2. p.ts < now - DbKeep \/ (Answered(p, db) /\ Answered(p, view)) BY <1>2 DEF HistoryInv, Flushed
  <2>3. CASE view' = db BY <2>2, <2>3
  <2>4. CASE /\ view' \subseteq view \cup W /\ \A r \in view : r \in view' \/ r.ts < now - DbKeep
             /\ Answered(p, view)
    <3>1. p.ts < now - DbKeep \/ Answered(p, view')
      BY <1>4, <1>5, <1>6, <2>1, <2>4, AnsweredStill
    <3> QED BY <2>2, <3>1
  <2> QED BY <1>8, <2>2, <2>3, <2>4
<1>15. NoBetter'
  <2> SUFFICES ASSUME NEW p \in taken', NEW q \in view', p.ts >= window, q.ts > p.ts PROVE q.temp >= p.temp
    BY <1>1 DEF NoBetter
  <2>1. p \in Point /\ p.ts \in Nat /\ p.temp \in Int BY <1>3, <1>7
  <2>2. q \notin db BY <1>4, <1>6, <1>7, <2>1
  <2>3. CASE q \in view BY <1>1, <1>2, <2>3, StillNoBetter
  <2>4. CASE q \in W
    <3>1. p.temp <= q.temp BY <1>1, <1>2, <1>5, <2>4
    <3>2. q.temp \in Int BY <1>5, <1>7, <2>4
    <3> QED BY <2>1, <3>1, <3>2
  <2> QED BY <1>8, <2>2, <2>3, <2>4
<1> QED BY <1>3, <1>10, <1>12, <1>13, <1>14, <1>15 DEF HistoryInv
\* A crash empties the ring; what it owed is owed no more.
LEMMA CrashKeeps ==
  ASSUME TickInv, HistoryInv, Crash
  PROVE  HistoryInv'
<1>1. /\ pc' = [c \in Callers |-> "idle"] /\ lock' = NoOne /\ next' = now /\ now' = now
      /\ ring' = <<>> /\ window' = NoTime /\ pruned' = 0 /\ view' = db /\ db' = db
      /\ taken' = IF window = NoTime THEN taken ELSE {p \in taken : p.ts < window}
  BY DEF Crash
<1>2. now \in Times /\ now \in Nat /\ 0 \in Times /\ now \in 0 .. MaxTime + 1
  BY TelemetryAssumption DEF TickInv, TickTypes, Times
<1>3. <<>> \in Seq(Point) /\ DOMAIN <<>> = {} BY EmptySeq
<1>4. HistoryTypes' BY <1>1, <1>2, <1>3 DEF HistoryInv, HistoryTypes
<1>5. PointsOf(ring)' = {} BY <1>1, <1>3 DEF PointsOf
<1>6. Past' BY <1>1, <1>5 DEF HistoryInv, Past
<1>7. LatestLast' BY <1>1 DEF LatestLast, InTick
<1>8. RingInOrder' BY <1>1, <1>3 DEF RingInOrder
<1>9. \A p \in taken' : p \in taken /\ (window # NoTime => p.ts < window) BY <1>1
<1>10. Waits'
  <2> SUFFICES ASSUME NEW p \in taken' PROVE p.ts < now BY <1>1 DEF Waits
  <2>1. CASE window = NoTime BY <1>9, <2>1 DEF HistoryInv, Waits
  <2>2. CASE window # NoTime
    <3>1. window \in Nat /\ window <= now BY <2>2 DEF HistoryInv, HistoryTypes, Past, Times
    <3>2. p.ts < window /\ p.ts \in Nat BY <1>9, <2>2, PointNumbers DEF HistoryInv, HistoryTypes
    <3> QED BY <1>2, <3>1, <3>2
  <2> QED BY <2>1, <2>2
<1>11. Flushed'
  <2>1. ASSUME NEW p \in taken' PROVE p.ts < now - DbKeep \/ Answered(p, db)
    BY <1>9, <2>1 DEF HistoryInv, Flushed
  <2>2. \A p \in taken' : p.ts < now' - DbKeep \/ Answered(p, db') BY <1>1, <2>1
  <2> QED BY <1>1, <2>2 DEF Flushed, Answered
<1>12. NoBetter' BY <1>1 DEF NoBetter
<1> QED BY <1>4, <1>6, <1>7, <1>8, <1>10, <1>11, <1>12 DEF HistoryInv

LEMMA AdvanceKeeps ==
  ASSUME TickInv, HistoryInv, Advance
  PROVE  HistoryInv'
<1>1. now' = now + 1 /\ UNCHANGED <<next, lock, pc, job, ring, window, pruned, db, view, taken>>
  BY DEF Advance, history
<1>2. now \in Nat /\ DbKeep \in Nat BY TelemetryAssumption DEF TickInv, TickTypes, Times
<1>3. HistoryTypes' BY <1>1 DEF HistoryInv, HistoryTypes
<1>4. \A p \in PointsOf(ring) \cup db \cup view : p.ts \in Nat
  <2>1. PointsOf(ring) \subseteq Point BY ElementOfSeq, LenProperties DEF HistoryInv, HistoryTypes, PointsOf
  <2> QED BY <2>1, PointNumbers DEF HistoryInv, HistoryTypes
<1>5. Past'
  <2>1. \A p \in PointsOf(ring) \cup db \cup view : p.ts <= now + 1 BY <1>2, <1>4 DEF HistoryInv, Past
  <2>2. window # NoTime => window <= now + 1 BY <1>2 DEF HistoryInv, HistoryTypes, Past, Times
  <2> QED BY <1>1, <2>1, <2>2 DEF HistoryInv, Past, PointsOf
<1>6. LatestLast'
  <2>1. \A c \in Callers : job[c].ts \in Nat BY DEF TickInv, TickTypes, Reading, Times
  <2> SUFFICES ASSUME NEW c \in Callers, pc[c] \in InTick
               PROVE  /\ job[c].ts <= now + 1
                      /\ \A p \in PointsOf(ring) \cup view : p.ts <= job[c].ts
                      /\ window # NoTime => window <= job[c].ts
    BY <1>1 DEF LatestLast, PointsOf, InTick
  <2> QED BY <1>2, <2>1 DEF HistoryInv, LatestLast
<1>7. RingInOrder' BY <1>1 DEF HistoryInv, RingInOrder
<1>8. \A p \in taken : p.ts \in Nat BY PointNumbers DEF HistoryInv, HistoryTypes
<1>9. Waits' BY <1>1, <1>2, <1>8 DEF HistoryInv, Waits, PointsOf
<1>10. Flushed'
  <2>1. ASSUME NEW p \in taken, window # NoTime => p.ts < window
        PROVE  p.ts < (now + 1) - DbKeep \/ (Answered(p, db) /\ Answered(p, view))
    BY <1>2, <1>8, <2>1 DEF HistoryInv, Flushed
  <2>2. \A p \in taken' : (window' # NoTime => p.ts < window') =>
           p.ts < now' - DbKeep \/ (Answered(p, db') /\ Answered(p, view'))
    BY <1>1, <2>1
  <2> QED BY <2>2 DEF Flushed, Answered
<1>11. NoBetter' BY <1>1 DEF HistoryInv, NoBetter
<1> QED BY <1>3, <1>5, <1>6, <1>7, <1>9, <1>10, <1>11 DEF HistoryInv

\* Steps that leave History and the clock alone.
LEMMA OutsideKeeps ==
  ASSUME HistoryInv, LatestLast', UNCHANGED <<now, history>>,
         next' \in 0 .. MaxTime + 1, lock' \in Callers \cup {NoOne}
  PROVE  HistoryInv'
<1>1. UNCHANGED <<now, ring, window, pruned, db, view, taken>> BY DEF history
<1>2. HistoryTypes' BY <1>1 DEF HistoryInv, HistoryTypes
<1>3. Past' BY <1>1 DEF HistoryInv, Past, PointsOf
<1>4. RingInOrder' BY <1>1 DEF HistoryInv, RingInOrder
<1>5. Waits' BY <1>1 DEF HistoryInv, Waits, PointsOf
<1>6. Flushed' BY <1>1 DEF HistoryInv, Flushed, Answered
<1>7. NoBetter' BY <1>1 DEF HistoryInv, NoBetter
<1> QED BY <1>2, <1>3, <1>4, <1>5, <1>6, <1>7 DEF HistoryInv

LEMMA HistoryInvStarts == Init => HistoryInv
<1> SUFFICES ASSUME Init PROVE HistoryInv OBVIOUS
<1>1. <<>> \in Seq(Point) /\ DOMAIN <<>> = {} BY EmptySeq
<1>2. IsFiniteSet({}) BY FS_EmptySet
<1>3. HistoryTypes BY <1>1, <1>2, TelemetryAssumption DEF Init, HistoryTypes, Times
<1>4. Past /\ RingInOrder /\ Waits /\ Flushed /\ NoBetter
  BY <1>1 DEF Init, Past, RingInOrder, Waits, Flushed, NoBetter, PointsOf
<1>5. LatestLast BY DEF Init, LatestLast, InTick
<1> QED BY <1>3, <1>4, <1>5 DEF HistoryInv

LEMMA HistoryInvIsKept == TickInv /\ HistoryInv /\ [Next]_vars => HistoryInv'
<1> SUFFICES ASSUME TickInv, HistoryInv, [Next]_vars PROVE HistoryInv' OBVIOUS
<1>1. next \in 0 .. MaxTime + 1 /\ lock \in Callers \cup {NoOne} BY DEF HistoryInv, HistoryTypes
<1>2. ASSUME NEW m \in Movers, StopModel(m) \/ StartModel(m) PROVE HistoryInv'
  <2>1. UNCHANGED <<now, lock, job, next, history>> BY <1>2 DEF StopModel, StartModel
  <2>2. \A c \in Callers : pc'[c] \in InTick => pc[c] \in InTick
    BY <1>2 DEF StopModel, StartModel, TickInv, TickTypes, Callers, InTick
  <2>3. LatestLast' BY <2>1, <2>2 DEF HistoryInv, LatestLast, history, PointsOf, InTick
  <2> QED BY <1>1, <2>1, <2>3, OutsideKeeps
<1>3. ASSUME NEW c \in Callers, Begin(c) PROVE HistoryInv'
  <2>1. UNCHANGED <<now, next, history>> /\ lock' = c BY <1>3 DEF Begin
  <2>2. \A d \in Callers : pc'[d] \in InTick => d = c
    BY <1>3, TelemetryAssumption DEF Begin, TickInv, TickTypes, OneTick, Callers
  <2>3. job'[c].ts = now BY <1>3 DEF Begin, TickInv, TickTypes, Reading
  <2>4. LatestLast'
    <3>1. now \in Nat BY DEF TickInv, TickTypes, Times
    <3>2. \A p \in PointsOf(ring) \cup view : p.ts <= now BY DEF HistoryInv, Past
    <3>3. window # NoTime => window <= now BY DEF HistoryInv, Past
    <3> QED BY <2>1, <2>2, <2>3, <3>1, <3>2, <3>3 DEF LatestLast, history, PointsOf, InTick
  <2> QED BY <1>1, <2>1, <2>4, OutsideKeeps
<1>4. ASSUME NEW c \in Callers, Measure(c) \/ Store(c) PROVE HistoryInv'
  <2>1. UNCHANGED <<now, lock, next, history>> BY <1>4 DEF Measure, Store
  <2>2. \A d \in Callers : pc'[d] \in InTick => pc[d] \in InTick
    BY <1>4 DEF Measure, Store, TickInv, TickTypes, InTick
  <2>3. \A d \in Callers : job'[d].ts = job[d].ts BY <1>4 DEF Measure, Store, TickInv, TickTypes, Reading
  <2>4. LatestLast' BY <2>1, <2>2, <2>3 DEF HistoryInv, LatestLast, history, PointsOf, InTick
  <2> QED BY <1>1, <2>1, <2>4, OutsideKeeps
<1>5. ASSUME NEW c \in Callers, MeasureFails(c) PROVE HistoryInv'
  <2>1. Leave(c, "stale") /\ Inside(c) /\ UNCHANGED history BY <1>5 DEF MeasureFails, Inside, InTick
  <2>2. /\ \A d \in Callers : pc'[d] \notin InTick
        /\ now' = now /\ next' \in {next, now + 1} /\ lock' = NoOne
    BY <2>1, LeavingEmpties
  <2>3. next' \in 0 .. MaxTime + 1 BY <1>1, <2>2, TelemetryAssumption DEF TickInv, TickTypes, Times
  <2>4. LatestLast' BY <2>2 DEF LatestLast, InTick
  <2> QED BY <2>1, <2>2, <2>3, <2>4, OutsideKeeps
<1>6. ASSUME NEW c \in Callers, AddFirst(c) \/ Add(c) \/ Flush(c) \/ FlushFails(c) PROVE HistoryInv'
  BY <1>6, AddFirstKeeps, AddKeeps, FlushKeeps, FlushFailsKeeps
<1>7. CASE Advance BY <1>7, AdvanceKeeps
<1>8. CASE Crash BY <1>8, CrashKeeps
<1>9. CASE UNCHANGED vars
  <2>1. UNCHANGED <<now, history, next, lock, pc, job>> BY <1>9 DEF vars, history
  <2>2. LatestLast' BY <2>1 DEF HistoryInv, LatestLast, history, PointsOf, InTick
  <2> QED BY <1>1, <2>1, <2>2, OutsideKeeps
<1> QED BY <1>2, <1>3, <1>4, <1>5, <1>6, <1>7, <1>8, <1>9 DEF Next, Tick

LEMMA SpecKeepsHistoryInv == Spec => [](TickInv /\ HistoryInv)
<1>1. Init => TickInv /\ HistoryInv BY TickInvStarts, HistoryInvStarts
<1>2. (TickInv /\ HistoryInv) /\ [Next]_vars => (TickInv /\ HistoryInv)'
  BY TickInvIsKept, HistoryInvIsKept
<1> QED BY <1>1, <1>2, PTL DEF Spec

\* Every variable has its type, and one tick runs at a time, failures and crashes included.
THEOREM TelemetryTyped == Spec => []TypeOK
<1>1. TickInv /\ HistoryInv => TypeOK
  BY DEF TickInv, TickTypes, OneTick, HistoryInv, HistoryTypes, TypeOK
<1> QED BY <1>1, SpecKeepsHistoryInv, PTL

\* Points lie in the ring in the order of their times, whoever takes them (history.py 64, 115).
THEOREM RingIsInOrder == Spec => []RingInOrder
<1>1. TickInv /\ HistoryInv => RingInOrder BY DEF HistoryInv
<1> QED BY <1>1, SpecKeepsHistoryInv, PTL

\* A sample is in the ring until a row at least as bad answers for it, through failed commits,
\* pruning and restarts (docstring of _aggregate, history.py 111).
THEOREM PeaksAreKept == Spec => []PeakIsKept
<1>1. ASSUME TickInv, HistoryInv, NEW p \in taken
      PROVE  \/ window # NoTime /\ p.ts >= window /\ p \in PointsOf(ring)
             \/ Answered(p, view)
             \/ p.ts < now - DbKeep
  <2>1. CASE window # NoTime /\ p.ts >= window BY <1>1, <2>1 DEF HistoryInv, Waits
  <2>2. CASE window # NoTime => p.ts < window BY <1>1, <2>2 DEF HistoryInv, Flushed
  <2>3. window # NoTime => window \in Nat /\ p.ts \in Nat
    BY <1>1, PointNumbers DEF HistoryInv, HistoryTypes, Times
  <2> QED BY <2>1, <2>2, <2>3
<1>2. TickInv /\ HistoryInv => PeakIsKept BY <1>1 DEF PeakIsKept, Answered
<1> QED BY <1>2, SpecKeepsHistoryInv, PTL
-----------------------------------------------------------------------------
(* History.query. *)

LEMMA Quotient ==
  ASSUME NEW x \in Nat, NEW d \in Nat \ {0}
  PROVE  x \div d \in Nat /\ d * (x \div d) <= x /\ x < d * (x \div d) + d
  OBVIOUS

\* A later time does not belong to an earlier part of the period.
LEMMA BucketRises ==
  ASSUME now \in Nat, NEW p \in Point, NEW q \in Point, NEW d \in Nat \ {0}, NEW n \in Nat \ {0},
         now - d <= p.ts, p.ts <= q.ts
  PROVE  /\ Bucket(p, d, n) \in 0 .. n - 1 /\ Bucket(q, d, n) \in 0 .. n - 1
         /\ Bucket(p, d, n) <= Bucket(q, d, n)
<1> DEFINE from == now - d
           x == p.ts - from
           y == q.ts - from
           a == (x * n) \div d
           b == (y * n) \div d
<1>1. x \in Nat /\ y \in Nat /\ x <= y
  <2>1. p.ts \in Nat /\ q.ts \in Nat BY PointNumbers
  <2> QED BY <2>1
<1> HIDE DEF x, y
<1>2. x * n \in Nat /\ y * n \in Nat /\ x * n <= y * n BY <1>1
<1>3. /\ a \in Nat /\ d * a <= x * n
      /\ b \in Nat /\ y * n < d * b + d
  BY <1>2, Quotient
<1>4. /\ Bucket(p, d, n) = IF a < n THEN a ELSE n - 1
      /\ Bucket(q, d, n) = IF b < n THEN b ELSE n - 1
  BY DEF Bucket, x, y
<1> HIDE DEF a, b
<1>5. a <= b
  <2> SUFFICES ASSUME b < a PROVE FALSE BY <1>3
  <2> DEFINE k == a - b - 1
  <2>1. k \in Nat /\ a = b + 1 + k BY <1>3
  <2> HIDE DEF k
  <2>2. d * k \in Nat /\ d * b \in Nat BY <1>3, <2>1
  <2>3. d * a = d * b + d + d * k BY <1>3, <2>1
  <2> QED BY <1>2, <1>3, <2>2, <2>3
<1> QED BY <1>3, <1>4, <1>5

InTimeOrder(s) == \A i, j \in DOMAIN s : i < j => s[i].ts <= s[j].ts

\* The series of a period: its points, in order.
LEMMA SeriesFacts ==
  ASSUME TickInv, HistoryInv, NEW d \in Nat \ {0}
  PROVE  /\ Series(d) \in Seq(Point) /\ InTimeOrder(Series(d))
         /\ \A i \in DOMAIN Series(d) : now - d <= Series(d)[i].ts
<1>1. ring \in Seq(Point) /\ view \subseteq Point /\ IsFiniteSet(view) BY DEF HistoryInv, HistoryTypes
<1>2. CASE d <= RingKeep
  <2> DEFINE I == {i \in DOMAIN ring : ring[i].ts >= now - d}
             s == Selected(ring, I)
  <2>1. Len(ring) \in Nat /\ DOMAIN ring = 1..Len(ring) BY <1>1, LenProperties
  <2>2. I \in SUBSET (1..Len(ring)) BY <2>1
  <2>3. \A i \in I : ring[i].ts >= now - d OBVIOUS
  <2>4. Series(d) = s BY <1>2 DEF Series
  <2> HIDE DEF I
  <2>5. /\ Cardinality(I) \in Nat /\ s \in Seq(Point) /\ Len(s) = Cardinality(I)
        /\ \A k \in 1..Cardinality(I) : Ascending(I)[k] \in I /\ s[k] = ring[Ascending(I)[k]]
        /\ \A i, j \in 1..Cardinality(I) : i < j => Ascending(I)[i] < Ascending(I)[j]
    BY <1>1, <2>2, SelectedFacts
  <2> HIDE DEF s
  <2>6. DOMAIN s = 1..Cardinality(I) BY <2>5, LenProperties
  <2>7. \A i \in DOMAIN s : now - d <= s[i].ts
    <3> TAKE i \in DOMAIN s
    <3>1. s[i] = ring[Ascending(I)[i]] /\ ring[Ascending(I)[i]].ts >= now - d BY <2>3, <2>5, <2>6
    <3>2. s[i].ts \in Nat BY <2>5, <2>6, ElementOfSeq, PointNumbers
    <3>3. now \in Nat BY DEF TickInv, TickTypes, Times
    <3> QED BY <3>1, <3>2, <3>3
  <2>8. InTimeOrder(s)
    <3> SUFFICES ASSUME NEW i \in DOMAIN s, NEW j \in DOMAIN s, i < j PROVE s[i].ts <= s[j].ts
      BY DEF InTimeOrder
    <3>1. Ascending(I)[i] \in DOMAIN ring /\ Ascending(I)[j] \in DOMAIN ring
          /\ Ascending(I)[i] < Ascending(I)[j]
      BY <2>1, <2>2, <2>5, <2>6
    <3>2. ring[Ascending(I)[i]].ts <= ring[Ascending(I)[j]].ts BY <3>1 DEF HistoryInv, RingInOrder
    <3> QED BY <2>5, <2>6, <3>2
  <2> QED BY <2>4, <2>5, <2>7, <2>8
<1>3. CASE ~(d <= RingKeep)
  <2> DEFINE rows == {r \in view : r.ts >= now - d}
             key == [r \in rows |-> r.ts]
             s == Ordered(rows, key)
  <2>1. rows \subseteq Point /\ IsFiniteSet(rows) BY <1>1, FS_Subset
  <2>2. key \in [rows -> Int] /\ \A r \in rows : key[r] = r.ts BY <2>1, PointNumbers
  <2>3. Series(d) = s BY <1>3 DEF Series
  <2>4. \A r \in rows : r.ts >= now - d OBVIOUS
  <2> HIDE DEF rows, key
  <2>5. Cardinality(rows) \in Nat /\ s \in [1..Cardinality(rows) -> rows] /\ Orders(s, rows, key)
    BY <2>1, <2>2, OrderedFacts
  <2> HIDE DEF s
  <2>6. s \in Seq(Point) /\ DOMAIN s = 1..Cardinality(rows) BY <2>1, <2>5
  <2>7. \A i \in DOMAIN s : now - d <= s[i].ts
    <3> TAKE i \in DOMAIN s
    <3>1. s[i] \in rows BY <2>5
    <3>2. s[i].ts >= now - d /\ s[i].ts \in Nat BY <2>1, <2>4, <3>1, PointNumbers
    <3>3. now \in Nat BY DEF TickInv, TickTypes, Times
    <3> QED BY <3>2, <3>3
  <2>8. InTimeOrder(s)
    <3> SUFFICES ASSUME NEW i \in DOMAIN s, NEW j \in DOMAIN s, i < j PROVE s[i].ts <= s[j].ts
      BY DEF InTimeOrder
    <3>1. s[i] \in rows /\ s[j] \in rows /\ key[s[i]] <= key[s[j]] BY <2>5, <2>6 DEF Orders
    <3> QED BY <2>2, <3>1
  <2> QED BY <2>3, <2>6, <2>7, <2>8
<1> QED BY <1>2, <1>3

\* The worst of some places of a series.
LEMMA AggregateFacts ==
  ASSUME NEW s \in Seq(Point), NEW places \in SUBSET (1..Len(s)), places # {}
  PROVE  /\ \E i \in places : Aggregate(s, places).ts = s[i].ts
         /\ \A i \in places : s[i].temp <= Aggregate(s, places).temp
<1>1. Len(s) \in Nat BY LenProperties
<1>2. IsFiniteSet(places)
  <2>1. IsFiniteSet(1..Len(s)) BY <1>1, FS_Interval
  <2> QED BY <2>1, FS_Subset
<1>3. \E i \in places : \A j \in places : j <= i
  <2> DEFINE key == [i \in 1..Len(s) |-> i]
  <2>1. key \in [1..Len(s) -> Int] /\ \A i \in 1..Len(s) : key[i] = i BY <1>1
  <2> HIDE DEF key
  <2>2. PICK i \in places : \A j \in places : key[j] <= key[i] BY <1>2, <2>1, HighestExists
  <2> QED BY <2>1, <2>2
<1>4. \E i \in places : \A j \in places : s[j].temp <= s[i].temp
  <2> DEFINE key == [i \in 1..Len(s) |-> s[i].temp]
  <2>1. \A i \in 1..Len(s) : s[i].temp \in Int BY ElementOfSeq, PointNumbers
  <2>2. key \in [1..Len(s) -> Int] /\ \A i \in 1..Len(s) : key[i] = s[i].temp BY <2>1
  <2> HIDE DEF key
  <2>3. PICK i \in places : \A j \in places : key[j] <= key[i] BY <1>2, <2>2, HighestExists
  <2> QED BY <2>2, <2>3
<1> DEFINE last == CHOOSE i \in places : \A j \in places : j <= i
           worst == CHOOSE i \in places : \A j \in places : s[j].temp <= s[i].temp
<1>5. last \in places BY <1>3
<1>6. worst \in places /\ \A j \in places : s[j].temp <= s[worst].temp BY <1>4
<1>7. Aggregate(s, places) = [ts |-> s[last].ts, temp |-> s[worst].temp] BY DEF Aggregate
<1> HIDE DEF last, worst
<1> QED BY <1>5, <1>6, <1>7

\* Downsampling leaves at most n points, in order, and the peak among them.
LEMMA DownsampleFacts ==
  ASSUME now \in Nat, NEW d \in Nat \ {0}, NEW n \in Nat \ {0}, NEW s \in Seq(Point),
         InTimeOrder(s), \A i \in DOMAIN s : now - d <= s[i].ts
  PROVE  LET shown == Downsample(s, d, n)
         IN  /\ Len(shown) <= n
             /\ InTimeOrder(shown)
             /\ \A i \in DOMAIN s : \E j \in DOMAIN shown : shown[j].temp >= s[i].temp
<1> DEFINE shown == Downsample(s, d, n)
           B == [i \in 1..Len(s) |-> Bucket(s[i], d, n)]
           Part(b) == {i \in DOMAIN s : Bucket(s[i], d, n) = b}
           buckets == {Bucket(s[i], d, n) : i \in DOMAIN s}
           K == Cardinality(buckets)
           A == Ascending(buckets)
<1>1. Len(s) \in Nat /\ DOMAIN s = 1..Len(s) BY LenProperties
<1>2. \A i \in 1..Len(s) : s[i] \in Point /\ s[i].ts \in Nat /\ s[i].temp \in Int
  BY ElementOfSeq, PointNumbers
<1>3. CASE Len(s) <= n
  <2>1. shown = s BY <1>3 DEF Downsample
  <2>2. \A i \in DOMAIN s : s[i].temp >= s[i].temp BY <1>1, <1>2
  <2> QED BY <1>3, <2>1, <2>2
<1>4. CASE ~(Len(s) <= n)
  <2>1. shown = [k \in 1..K |-> Aggregate(s, Part(A[k]))] BY <1>4 DEF Downsample
  <2>2. /\ \A i \in 1..Len(s) : B[i] \in 0 .. n - 1
        /\ \A i, j \in 1..Len(s) : s[i].ts <= s[j].ts => B[i] <= B[j]
    <3>1. ASSUME NEW i \in 1..Len(s), NEW j \in 1..Len(s), s[i].ts <= s[j].ts
          PROVE  B[i] \in 0 .. n - 1 /\ B[i] <= B[j]
      BY <1>1, <1>2, <3>1, BucketRises
    <3>2. \A i \in 1..Len(s) : s[i].ts <= s[i].ts BY <1>2
    <3> QED BY <3>1, <3>2
  <2>3. buckets = {B[i] : i \in 1..Len(s)} BY <1>1
  <2>4. \A b : Part(b) = {i \in 1..Len(s) : B[i] = b} BY <1>1
  <2> HIDE DEF B, Part, shown, buckets
  <2>5. buckets \in SUBSET Int /\ IsFiniteSet(buckets) /\ K \in Nat /\ K <= n
    <3> DEFINE m == n - 1
    <3>1. m \in Nat /\ n = m + 1 OBVIOUS
    <3>2. buckets \subseteq 0..m BY <2>2, <2>3
    <3> HIDE DEF m
    <3>3. IsFiniteSet(0..m) /\ Cardinality(0..m) = IF 0 > m THEN 0 ELSE m - 0 + 1 BY <3>1, FS_Interval
    <3>4. Cardinality(0..m) = n BY <3>1, <3>3
    <3>5. IsFiniteSet(buckets) /\ K <= Cardinality(0..m) BY <3>2, <3>3, FS_Subset
    <3>6. K \in Nat BY <3>5, FS_CardinalityType
    <3> QED BY <3>1, <3>2, <3>4, <3>5, <3>6
  <2>6. /\ A \in [1..K -> buckets]
        /\ \A b \in buckets : \E k \in 1..K : A[k] = b
        /\ \A i, j \in 1..K : i < j => A[i] < A[j]
    BY <2>5, AscendingFacts
  <2> HIDE DEF A, K
  <2>7. \A k \in 1..K : Part(A[k]) \in SUBSET (1..Len(s)) /\ Part(A[k]) # {}
    <3> TAKE k \in 1..K
    <3>1. PICK i \in 1..Len(s) : A[k] = B[i] BY <2>3, <2>6
    <3>2. i \in Part(A[k]) BY <2>4, <3>1
    <3> QED BY <2>4, <3>2
  <2>8. /\ \A k \in 1..K : \E i \in Part(A[k]) : shown[k].ts = s[i].ts
        /\ \A k \in 1..K : \A i \in Part(A[k]) : s[i].temp <= shown[k].temp
    BY <2>1, <2>7, AggregateFacts
  <2>9. DOMAIN shown = 1..K /\ Len(shown) = K
    <3>1. DOMAIN shown = 1..K BY <2>1
    <3>2. shown \in Seq({shown[k] : k \in 1..K}) BY <2>1, <2>5
    <3> QED BY <2>5, <3>1, <3>2, LenProperties
  <2>10. Len(shown) <= n BY <2>5, <2>9
  <2>11. InTimeOrder(shown)
    <3> SUFFICES ASSUME NEW i \in 1..K, NEW j \in 1..K, i < j PROVE shown[i].ts <= shown[j].ts
      BY <2>9 DEF InTimeOrder
    <3>1. PICK x \in Part(A[i]) : shown[i].ts = s[x].ts BY <2>8
    <3>2. PICK y \in Part(A[j]) : shown[j].ts = s[y].ts BY <2>8
    <3>3. /\ x \in 1..Len(s) /\ B[x] = A[i] /\ y \in 1..Len(s) /\ B[y] = A[j]
          /\ A[i] < A[j]
      BY <2>4, <2>6
    <3>4. B[x] \in Int /\ B[y] \in Int BY <2>2, <3>3
    <3>5. ~(s[y].ts <= s[x].ts) BY <2>2, <3>3, <3>4
    <3> QED BY <1>2, <3>1, <3>2, <3>3, <3>5
  <2>12. ASSUME NEW i \in DOMAIN s PROVE \E j \in DOMAIN shown : shown[j].temp >= s[i].temp
    <3>1. i \in 1..Len(s) /\ B[i] \in buckets BY <1>1, <2>3
    <3>2. PICK k \in 1..K : A[k] = B[i] BY <2>6, <3>1
    <3>3. i \in Part(A[k]) BY <2>4, <3>1, <3>2
    <3>4. s[i].temp <= shown[k].temp BY <2>8, <3>3
    <3> QED BY <2>9, <3>4
  <2> QED BY <2>10, <2>11, <2>12 DEF shown
<1> QED BY <1>3, <1>4

\* For every period and every number of points asked for.
LEMMA PeakIsShown ==
  ASSUME TickInv, HistoryInv, NEW d \in Nat \ {0}, NEW n \in Nat \ {0}
  PROVE  PeakShown(d, n)
<1>1. now \in Nat BY DEF TickInv, TickTypes, Times
<1>2. /\ Series(d) \in Seq(Point) /\ InTimeOrder(Series(d))
      /\ \A i \in DOMAIN Series(d) : now - d <= Series(d)[i].ts
  BY SeriesFacts
<1> DEFINE shown == Downsample(Series(d), d, n)
<1>3. /\ Len(shown) <= n /\ InTimeOrder(shown)
      /\ \A i \in DOMAIN Series(d) : \E j \in DOMAIN shown : shown[j].temp >= Series(d)[i].temp
  BY <1>1, <1>2, DownsampleFacts
<1> QED BY <1>3 DEF PeakShown, InTimeOrder

\* An answer of History.query is in order and shows the peak of its period, whatever the period
\* and the number of points asked for (history.py 86-89).
THEOREM QueriesShowPeaks == Spec => [](ShownIsTheWorst /\ \A d, n \in Nat \ {0} : PeakShown(d, n))
<1>1. TickInv /\ HistoryInv => \A d, n \in Nat \ {0} : PeakShown(d, n) BY PeakIsShown
<1>2. (\A d, n \in Nat \ {0} : PeakShown(d, n)) => ShownIsTheWorst BY TelemetryAssumption DEF ShownIsTheWorst
<1> QED BY <1>1, <1>2, SpecKeepsHistoryInv, PTL
=============================================================================
