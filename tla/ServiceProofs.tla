--------------------------- MODULE ServiceProofs ---------------------------
(***************************************************************************)
(* The locks of the service have an order, and every call takes them in it *)
(* or takes one anew that it holds, so no threads wait for each other in a *)
(* circle, however many there are and whatever they call.                  *)
(***************************************************************************)
EXTENDS Service, SequenceTheorems, TLAPS

\* The order of the locks; the work outside the service comes last.
Rank ==
  [tick |-> 1, models |-> 2, change |-> 3, prompts |-> 4, runner |-> 5, gpus |-> 6, book |-> 7,
   store |-> 8, journal |-> 9, history |-> 10,
   systemd |-> 11, hub |-> 11, nvml |-> 11, vllm |-> 11, download |-> 11]

Outside == {"tick", "models"}   \* the locks that are held over work outside the service

InOrder(s) == \A j \in 1..Len(s) :
  /\ \/ \A i \in 1..(j - 1) : Rank[s[i]] < Rank[s[j]]
     \/ s[j] \in Reentrant /\ \E i \in 1..(j - 1) : s[i] = s[j]
  /\ s[j] \in Slow => \A i \in 1..(j - 1) : s[i] \in Outside

Place == {s \in Seq(Lock \cup Slow) : InOrder(s)}

Typed == held \in [Threads -> Place] /\ todo \in [Threads -> Seq(Place)]

Exclusive == \A t, u \in Threads : \A lock \in Lock : Holds(t, lock) /\ Holds(u, lock) => t = u

Inv == Typed /\ Exclusive

-----------------------------------------------------------------------------
\* Every place of every call has its locks in order.

LEMMA Ranks ==
  /\ Rank["tick"] = 1 /\ Rank["models"] = 2 /\ Rank["change"] = 3 /\ Rank["prompts"] = 4
  /\ Rank["runner"] = 5 /\ Rank["gpus"] = 6 /\ Rank["book"] = 7 /\ Rank["store"] = 8
  /\ Rank["journal"] = 9 /\ Rank["history"] = 10
  /\ \A work \in Slow : Rank[work] = 11
BY DEF Rank, Slow

LEMMA NoPlace == <<>> \in Place
BY DEF Place, InOrder

LEMMA OneLock == ASSUME NEW a \in Lock \cup Slow PROVE <<a>> \in Place
BY DEF Place, InOrder

LEMMA TwoLocks ==
  ASSUME NEW a \in Lock \cup Slow, NEW b \in Lock \cup Slow,
         Rank[a] < Rank[b] \/ (a = b /\ a \in Reentrant), b \in Slow => a \in Outside
  PROVE  <<a, b>> \in Place
<1> DEFINE s == <<a, b>>
<1>1. s \in Seq(Lock \cup Slow) /\ Len(s) = 2 /\ s[1] = a /\ s[2] = b OBVIOUS
<1>2. ASSUME NEW j \in 1..Len(s) PROVE j = 1 \/ j = 2 BY <1>1
<1> HIDE DEF s
<1>3. InOrder(s) BY <1>1, <1>2 DEF InOrder
<1> QED BY <1>1, <1>3 DEF Place, s

LEMMA BookingPlace == <<"change", "book", "store">> \in Place
<1> DEFINE s == <<"change", "book", "store">>
<1>1. /\ s \in Seq(Lock \cup Slow) /\ Len(s) = 3
      /\ s[1] = "change" /\ s[2] = "book" /\ s[3] = "store"
  BY DEF Lock
<1>2. ASSUME NEW j \in 1..Len(s) PROVE j = 1 \/ j = 2 \/ j = 3 BY <1>1
<1> HIDE DEF s
<1>3. InOrder(s) BY <1>1, <1>2, Ranks DEF InOrder, Slow
<1> QED BY <1>1, <1>3 DEF Place, s

LEMMA Places ==
  /\ \A a \in Lock \cup Slow : <<a>> \in Place
  /\ <<"change", "book">> \in Place /\ <<"change", "journal">> \in Place
  /\ <<"tick", "nvml">> \in Place /\ <<"tick", "gpus">> \in Place /\ <<"tick", "history">> \in Place
  /\ <<"prompts", "store">> \in Place /\ <<"runner", "store">> \in Place
  /\ <<"runner", "gpus">> \in Place /\ <<"runner", "book">> \in Place /\ <<"runner", "runner">> \in Place
  /\ <<"models", "journal">> \in Place /\ <<"models", "models">> \in Place
  /\ <<"models", "download">> \in Place /\ <<"models", "store">> \in Place
  /\ <<"models", "runner">> \in Place
<1>1. \A a \in Lock \cup Slow : <<a>> \in Place
  BY OneLock
<1>2. ASSUME NEW a \in Lock, NEW b \in Lock, Rank[a] < Rank[b]
      PROVE  <<a, b>> \in Place
  BY <1>2, TwoLocks DEF Lock, Reentrant, Slow
<1>3. ASSUME NEW a \in Reentrant PROVE <<a, a>> \in Place
  BY <1>3, TwoLocks DEF Lock, Reentrant, Slow
<1>4. ASSUME NEW a \in Outside, NEW b \in Slow PROVE <<a, b>> \in Place
  <2>1. a \in Lock /\ Rank[a] < Rank[b] BY Ranks DEF Lock, Reentrant, Outside
  <2> QED BY <2>1, TwoLocks
<1>5. <<"change", "book">> \in Place /\ <<"change", "journal">> \in Place
  BY <1>2, Ranks DEF Lock
<1>6. <<"tick", "gpus">> \in Place /\ <<"tick", "history">> \in Place /\ <<"prompts", "store">> \in Place
  BY <1>2, Ranks DEF Lock
<1>7. /\ <<"runner", "store">> \in Place /\ <<"runner", "gpus">> \in Place
      /\ <<"runner", "book">> \in Place
  BY <1>2, Ranks DEF Lock, Reentrant
<1>8. /\ <<"models", "journal">> \in Place /\ <<"models", "store">> \in Place
      /\ <<"models", "runner">> \in Place
  BY <1>2, Ranks DEF Lock, Reentrant
<1>9. <<"runner", "runner">> \in Place /\ <<"models", "models">> \in Place
  BY <1>3 DEF Reentrant
<1>10. <<"tick", "nvml">> \in Place /\ <<"models", "download">> \in Place
  BY <1>4 DEF Outside, Slow
<1> QED BY <1>1, <1>5, <1>6, <1>7, <1>8, <1>9, <1>10

LEMMA Views == View(<<>>) \in Seq(Place) /\ View(<<"runner">>) \in Seq(Place)
<1>1. ASSUME NEW a \in Lock PROVE Append(<<>>, a) = <<a>>
  BY SeqEqual, AppendProperties
<1>2. ASSUME NEW a \in Lock, NEW b \in Lock PROVE Append(<<a>>, b) = <<a, b>>
  <2> DEFINE s == Append(<<a>>, b)
             r == <<a, b>>
  <2>1. <<a>> \in Seq(Lock) /\ Len(<<a>>) = 1 /\ <<a>>[1] = a OBVIOUS
  <2>2. s \in Seq(Lock) /\ Len(s) = 2 /\ s[1] = a /\ s[2] = b BY <2>1, AppendProperties
  <2>3. r \in Seq(Lock) /\ Len(r) = 2 /\ r[1] = a /\ r[2] = b OBVIOUS
  <2>4. ASSUME NEW i \in 1..2 PROVE s[i] = r[i]
    <3>1. i = 1 \/ i = 2 OBVIOUS
    <3> QED BY <3>1, <2>2, <2>3
  <2> HIDE DEF s, r
  <2>5. s = r BY <2>2, <2>3, <2>4, SeqEqual
  <2> QED BY <2>5 DEF s, r
<1>3. {"gpus", "book", "runner"} \subseteq Lock BY DEF Lock, Reentrant
<1>4. /\ Append(<<>>, "gpus") \in Place /\ Append(<<>>, "book") \in Place
      /\ Append(<<>>, "runner") \in Place /\ <<>> \in Place
  BY <1>1, <1>3, NoPlace, Places
<1>5. /\ Append(<<"runner">>, "gpus") \in Place /\ Append(<<"runner">>, "book") \in Place
      /\ Append(<<"runner">>, "runner") \in Place /\ <<"runner">> \in Place
  BY <1>2, <1>3, Places
<1> QED BY <1>4, <1>5 DEF View

\* The calls that are made of others.
LEMMA Parts ==
  /\ ViewCard \in Seq(Place) /\ Tick \in Seq(Place) /\ ReadLocal \in Seq(Place)
  /\ SaveServers \in Seq(Place) /\ LookAt \in Seq(Place) /\ QueuePoll \in Seq(Place)
  /\ Launch \in Seq(Place) /\ Start \in Seq(Place) /\ StartUndone \in Seq(Place)
  /\ Stop \in Seq(Place) /\ PollProbe \in Seq(Place)
<1> USE NoPlace, Places
<1>1. /\ <<"models">> \in Place /\ <<"runner">> \in Place /\ <<"systemd">> \in Place
      /\ <<"journal">> \in Place /\ <<"vllm">> \in Place
  BY DEF Lock, Reentrant, Slow
<1>2. /\ ViewCard \in Seq(Place) /\ Tick \in Seq(Place) /\ ReadLocal \in Seq(Place)
      /\ SaveServers \in Seq(Place) /\ LookAt \in Seq(Place) /\ QueuePoll \in Seq(Place)
  BY <1>1, Views DEF ViewCard, Tick, ReadLocal, SaveServers, LookAt, QueuePoll
<1>3. Launch \in Seq(Place)
  BY <1>1, <1>2 DEF Launch
<1>4. Start \in Seq(Place) /\ StartUndone \in Seq(Place)
  BY <1>1, <1>2, <1>3 DEF Start, StartUndone
<1>5. Stop \in Seq(Place) /\ PollProbe \in Seq(Place)
  BY <1>1, <1>2 DEF Stop, PollProbe
<1> QED BY <1>2, <1>3, <1>4, <1>5

LEMMA AllPaths == \A call \in DOMAIN Paths : Paths[call] \in Seq(Place)
<1> USE NoPlace, Places, Parts
<1>1. /\ <<"models">> \in Place /\ <<"runner">> \in Place /\ <<"systemd">> \in Place
      /\ <<"journal">> \in Place /\ <<"vllm">> \in Place /\ <<"hub">> \in Place
      /\ <<"prompts">> \in Place /\ <<"history">> \in Place
  BY DEF Lock, Reentrant, Slow
<1>2. ChangeBooking \in Seq(Place) BY BookingPlace DEF ChangeBooking
<1>3. Find \in Seq(Place) /\ ChangePrompt \in Seq(Place) BY <1>1 DEF Find, ChangePrompt
<1>4. StopFails \in Seq(Place) BY <1>1 DEF StopFails
<1>5. Move \in Seq(Place) BY <1>1 DEF Move
<1>6. MoveBack \in Seq(Place) BY <1>1 DEF MoveBack
<1>7. PollRetry \in Seq(Place) BY <1>1, Views DEF PollRetry
<1>8. PollGiveUp \in Seq(Place) /\ PollTimeout \in Seq(Place) BY <1>1 DEF PollGiveUp, PollTimeout
<1>9. Restore \in Seq(Place) BY <1>1 DEF Restore
<1>10. Download \in Seq(Place) BY <1>1 DEF Download
<1>11. Cancel \in Seq(Place) /\ Delete \in Seq(Place) BY <1>1 DEF Cancel, Delete
<1>12. Describe \in Seq(Place) BY <1>1 DEF Describe
<1>13. << <<"journal">> >> \in Seq(Place) /\ << <<"history">> >> \in Seq(Place) BY <1>1
<1>14. DOMAIN Paths = {"view", "booking", "tick", "find", "prompt", "local", "start", "undone",
           "stop", "stop_fails", "move", "move_back", "retry", "give_up", "probe", "timeout",
           "restore", "queue", "download", "cancel", "delete", "describe", "journal", "history"}
  BY DEF Paths
<1>15. /\ Paths["view"] \in Seq(Place) /\ Paths["booking"] \in Seq(Place)
       /\ Paths["tick"] \in Seq(Place) /\ Paths["find"] \in Seq(Place)
       /\ Paths["prompt"] \in Seq(Place) /\ Paths["local"] \in Seq(Place)
       /\ Paths["journal"] \in Seq(Place) /\ Paths["history"] \in Seq(Place)
  BY <1>2, <1>3, <1>13 DEF Paths
<1>16. /\ Paths["start"] \in Seq(Place) /\ Paths["undone"] \in Seq(Place)
       /\ Paths["stop"] \in Seq(Place) /\ Paths["stop_fails"] \in Seq(Place)
       /\ Paths["move"] \in Seq(Place) /\ Paths["move_back"] \in Seq(Place)
  BY <1>4, <1>5, <1>6 DEF Paths
<1>17. /\ Paths["retry"] \in Seq(Place) /\ Paths["give_up"] \in Seq(Place)
       /\ Paths["probe"] \in Seq(Place) /\ Paths["timeout"] \in Seq(Place)
       /\ Paths["restore"] \in Seq(Place)
  BY <1>7, <1>8, <1>9 DEF Paths
<1>18. /\ Paths["queue"] \in Seq(Place) /\ Paths["download"] \in Seq(Place)
       /\ Paths["cancel"] \in Seq(Place) /\ Paths["delete"] \in Seq(Place)
       /\ Paths["describe"] \in Seq(Place)
  BY <1>10, <1>11, <1>12 DEF Paths
<1> QED
  BY <1>14, <1>15, <1>16, <1>17, <1>18

-----------------------------------------------------------------------------
\* The locks on the way to a place.

LEMMA OnTheWay ==
  ASSUME NEW s \in Seq(Lock \cup Slow), NEW p \in Place, IsStrictPrefix(s, p)
  PROVE  /\ Len(s) < Len(p) /\ \A i \in 1..Len(s) : s[i] = p[i]
         /\ Append(s, p[Len(s) + 1]) \in Place
<1>1. p \in Seq(Lock \cup Slow) /\ InOrder(p) BY DEF Place
<1>2. Len(s) <= Len(p) /\ SubSeq(s, 1, Len(s)) = SubSeq(p, 1, Len(s)) /\ s # p
  BY DEF IsStrictPrefix, IsPrefix
<1>3. ASSUME NEW i \in 1..Len(s) PROVE s[i] = p[i]
  <2>1. SubSeq(s, 1, Len(s))[i] = s[i] BY SubSeqProperties
  <2>2. SubSeq(p, 1, Len(s))[i] = p[i] BY <1>1, <1>2, SubSeqProperties
  <2> QED BY <2>1, <2>2, <1>2
<1>4. Len(s) # Len(p) BY <1>1, <1>2, <1>3, SeqEqual
<1>5. Len(s) < Len(p) BY <1>1, <1>2, <1>4
<1> DEFINE a == Append(s, p[Len(s) + 1])
<1>6. a \in Seq(Lock \cup Slow) /\ Len(a) = Len(s) + 1 /\ \A i \in 1..Len(a) : a[i] = p[i]
  BY <1>1, <1>3, <1>5
<1>7. InOrder(a)
  <2> HIDE DEF a
  <2>1. SUFFICES ASSUME NEW j \in 1..Len(a)
                 PROVE  /\ \/ \A i \in 1..(j - 1) : Rank[a[i]] < Rank[a[j]]
                           \/ a[j] \in Reentrant /\ \E i \in 1..(j - 1) : a[i] = a[j]
                        /\ a[j] \in Slow => \A i \in 1..(j - 1) : a[i] \in Outside
    BY DEF InOrder
  <2>2. Len(s) \in Nat /\ Len(p) \in Nat BY <1>1
  <2>3. j \in 1..Len(p) /\ a[j] = p[j] /\ \A i \in 1..(j - 1) : a[i] = p[i]
    BY <2>2, <1>5, <1>6
  <2>4. /\ \/ \A i \in 1..(j - 1) : Rank[p[i]] < Rank[p[j]]
           \/ p[j] \in Reentrant /\ \E i \in 1..(j - 1) : p[i] = p[j]
        /\ p[j] \in Slow => \A i \in 1..(j - 1) : p[i] \in Outside
    BY <1>1, <2>3 DEF InOrder
  <2> QED BY <2>3, <2>4
<1> QED BY <1>3, <1>5, <1>6, <1>7 DEF Place

LEMMA OnTheWayBack == ASSUME NEW s \in Place, s # <<>>
                      PROVE  /\ Front(s) \in Place
                             /\ \A i \in DOMAIN Front(s) : i \in DOMAIN s /\ Front(s)[i] = s[i]
<1> DEFINE f == SubSeq(s, 1, Len(s) - 1)
<1>1. s \in Seq(Lock \cup Slow) /\ InOrder(s) /\ Len(s) \in Nat /\ Len(s) > 0 BY DEF Place
<1>2. \A i \in 1..(Len(s) - 1) : s[i] \in Lock \cup Slow BY <1>1
<1>3. /\ f \in Seq(Lock \cup Slow) /\ Len(f) = Len(s) - 1
      /\ \A i \in 1..Len(f) : f[i] = s[i]
  <2>1. ASSUME NEW n \in Nat, n = Len(s) - 1
        PROVE  /\ SubSeq(s, 1, n) \in Seq(Lock \cup Slow) /\ Len(SubSeq(s, 1, n)) = n
               /\ \A i \in 1..n : SubSeq(s, 1, n)[i] = s[i]
    BY <1>2, <2>1, SubSeqProperties
  <2>2. PICK n \in Nat : n = Len(s) - 1 BY <1>1
  <2>3. f = SubSeq(s, 1, n) BY <2>2
  <2> HIDE DEF f
  <2> QED BY <2>1, <2>2, <2>3
<1>4. InOrder(f)
  <2>1. ASSUME NEW j \in 1..Len(f) PROVE j \in 1..Len(s) /\ \A i \in 1..j : f[i] = s[i]
    BY <1>1, <1>3
  <2> HIDE DEF f
  <2> QED BY <1>1, <2>1 DEF InOrder
<1>5. f = Front(s) BY DEF Front
<1> HIDE DEF f
<1>6. f \in Place BY <1>3, <1>4 DEF Place
<1>7. \A i \in DOMAIN f : i \in DOMAIN s /\ f[i] = s[i]
  <2>1. DOMAIN f = 1..Len(f) /\ DOMAIN s = 1..Len(s) BY <1>1, <1>3
  <2> QED BY <1>1, <1>3, <2>1
<1> QED BY <1>5, <1>6, <1>7

LEMMA InitInv == Init => Inv
BY NoPlace DEF Init, Inv, Typed, Exclusive, Holds

LEMMA StepInv == Inv /\ [Next]_vars => Inv'
<1> SUFFICES ASSUME Inv, [Next]_vars PROVE Inv' OBVIOUS
<1> USE DEF Inv, Typed
<1>p. Place \subseteq Seq(Lock \cup Slow) /\ Seq(Place) \subseteq Seq(Seq(Lock \cup Slow)) BY DEF Place
<1>1. ASSUME NEW t \in Threads, Begin(t) PROVE Inv'
  <2>1. held' = held BY <1>1 DEF Begin
  <2>2. PICK call \in CallsOf[t] : todo' = [todo EXCEPT ![t] = Paths[call]] BY <1>1 DEF Begin
  <2>3. Paths[call] \in Seq(Place) BY <2>2, ServiceAssumption, AllPaths
  <2>4. todo' \in [Threads -> Seq(Place)] BY <2>2, <2>3
  <2>5. Typed' BY <2>1, <2>4
  <2>6. Exclusive'
    <3>1. ASSUME NEW u \in Threads, NEW lock \in Lock PROVE Holds(u, lock)' <=> Holds(u, lock)
      BY <2>1 DEF Holds
    <3> QED BY <3>1 DEF Exclusive
  <2> QED BY <2>5, <2>6 DEF Inv
<1>2. ASSUME NEW t \in Threads, Take(t) PROVE Inv'
  <2> DEFINE s == held[t]
             p == Head(todo[t])
  <2>1. /\ todo[t] # <<>> /\ IsStrictPrefix(s, p) /\ todo' = todo
        /\ held' = [held EXCEPT ![t] = Append(s, Wanted(t))] /\ Wanted(t) = p[Len(s) + 1]
        /\ \A u \in Threads : ~Waits(t, u)
    BY <1>2 DEF Take, Rises, Wanted
  <2>2. p \in Place /\ s \in Seq(Lock \cup Slow)
    BY <1>p, <2>1
  <2>3. Append(s, Wanted(t)) \in Place /\ Len(s) < Len(p) BY <2>1, <2>2, OnTheWay
  <2>4. Wanted(t) \in Lock \cup Slow BY <2>1, <2>2, <2>3 DEF Place
  <2>5. Typed' BY <2>1, <2>3
  <2>6. \A u \in Threads, lock \in Lock :
          Holds(u, lock)' => Holds(u, lock) \/ (u = t /\ lock = Wanted(t))
    <3> SUFFICES ASSUME NEW u \in Threads, NEW lock \in Lock, Holds(u, lock)'
                 PROVE  Holds(u, lock) \/ (u = t /\ lock = Wanted(t))
      OBVIOUS
    <3>1. CASE u # t BY <3>1, <2>1 DEF Holds
    <3>2. CASE u = t
      <4>1. PICK i \in DOMAIN Append(s, Wanted(t)) : Append(s, Wanted(t))[i] = lock
        BY <3>2, <2>1 DEF Holds
      <4>2. i \in 1..(Len(s) + 1) BY <2>2, <2>4, <4>1
      <4>3. CASE i = Len(s) + 1 BY <4>1, <4>3, <3>2, <2>2, <2>4
      <4>4. CASE i \in 1..Len(s) BY <4>1, <4>4, <3>2, <2>2, <2>4 DEF Holds
      <4> QED BY <4>2, <4>3, <4>4, <2>2
    <3> QED BY <3>1, <3>2
  <2>7. \A u \in Threads : Wanted(t) \in Lock /\ Holds(u, Wanted(t)) => u = t
    BY <1>2, <2>1 DEF Waits, Take
  <2>8. Exclusive' BY <2>6, <2>7 DEF Exclusive
  <2> QED BY <2>5, <2>8
<1>3. ASSUME NEW t \in Threads, Free(t) PROVE Inv'
  <2>1. /\ held[t] \in Place /\ held[t] # <<>> /\ todo' = todo
        /\ held' = [held EXCEPT ![t] = Front(held[t])]
    BY <1>3 DEF Free
  <2>2. Typed' BY <2>1, OnTheWayBack
  <2>3. \A u \in Threads, lock \in Lock : Holds(u, lock)' => Holds(u, lock)
    <3> SUFFICES ASSUME NEW u \in Threads, NEW lock \in Lock, Holds(u, lock)'
                 PROVE  Holds(u, lock)
      OBVIOUS
    <3>1. CASE u # t BY <3>1, <2>1 DEF Holds
    <3>2. CASE u = t
      <4>1. held'[u] = Front(held[t]) BY <3>2, <2>1
      <4>2. PICK i \in DOMAIN Front(held[t]) : Front(held[t])[i] = lock BY <4>1 DEF Holds
      <4>3. i \in DOMAIN held[t] /\ held[t][i] = lock BY <4>2, <2>1, OnTheWayBack
      <4> QED BY <4>3, <3>2 DEF Holds
    <3> QED BY <3>1, <3>2
  <2>4. Exclusive' BY <2>3 DEF Exclusive
  <2> QED BY <2>2, <2>4
<1>4. ASSUME NEW t \in Threads, Work(t) PROVE Inv'
  <2>1. /\ todo[t] # <<>> /\ held' = held
        /\ \E rest \in {Tail(todo[t]), <<>>} : todo' = [todo EXCEPT ![t] = rest]
    BY <1>4 DEF Work, There
  <2>2. Tail(todo[t]) \in Seq(Place) /\ <<>> \in Seq(Place) BY <2>1
  <2>3. Typed' BY <2>1, <2>2
  <2>4. Exclusive' BY <2>1 DEF Exclusive, Holds
  <2> QED BY <2>3, <2>4
<1>5. CASE UNCHANGED vars BY <1>5 DEF vars, Exclusive, Holds
<1> QED BY <1>1, <1>2, <1>3, <1>4, <1>5 DEF Next

-----------------------------------------------------------------------------
\* A thread that waits, waits for a lock above those it holds.
LEMMA WaitsAbove ==
  ASSUME Inv, NEW t \in Threads, NEW u \in Threads, NEW v \in Threads, Waits(t, u), Waits(u, v)
  PROVE  /\ Rank[Wanted(t)] \in 1..10 /\ Rank[Wanted(u)] \in 1..10
         /\ Rank[Wanted(t)] < Rank[Wanted(u)]
<1> DEFINE s == held[u]
           p == Head(todo[u])
           r == Append(s, Wanted(u))
<1>1. /\ Wanted(t) \in Lock /\ Wanted(u) \in Lock /\ todo[u] # <<>> /\ IsStrictPrefix(s, p)
      /\ Wanted(u) = p[Len(s) + 1]
  BY DEF Waits, Rises, Wanted
<1>2. s \in Seq(Lock \cup Slow) /\ p \in Place
  <2>1. s \in Place /\ todo[u] \in Seq(Place) BY DEF Inv, Typed
  <2>2. s \in Seq(Lock \cup Slow) BY <2>1 DEF Place
  <2>3. p \in Place BY <2>1, <1>1
  <2> QED BY <2>2, <2>3
<1>3. r \in Seq(Lock \cup Slow) /\ InOrder(r) BY <1>1, <1>2, OnTheWay DEF Place
<1>4. PICK i \in 1..Len(s) : s[i] = Wanted(t) BY <1>2 DEF Waits, Holds
<1>5. Len(r) = Len(s) + 1 /\ r[Len(r)] = Wanted(u) /\ \A k \in 1..Len(s) : r[k] = s[k]
  BY <1>1, <1>2
<1>6. ~(Wanted(u) \in Reentrant /\ \E k \in 1..Len(s) : s[k] = Wanted(u))
  <2>1. (\E k \in 1..Len(s) : s[k] = Wanted(u)) => Holds(u, Wanted(u)) BY <1>2 DEF Holds
  <2>2. Holds(v, Wanted(u)) /\ (u # v \/ Wanted(u) \notin Reentrant) BY DEF Waits
  <2> QED BY <2>1, <2>2, <1>1 DEF Inv, Exclusive
<1>7. \/ \A k \in 1..(Len(r) - 1) : Rank[r[k]] < Rank[r[Len(r)]]
      \/ r[Len(r)] \in Reentrant /\ \E k \in 1..(Len(r) - 1) : r[k] = r[Len(r)]
  <2> HIDE DEF r
  <2>1. Len(r) \in 1..Len(r) BY <1>2, <1>5
  <2> QED BY <2>1, <1>3 DEF InOrder
<1>8. Rank[Wanted(t)] < Rank[Wanted(u)]
  <2> HIDE DEF r, s
  <2>1. Len(s) \in Nat BY <1>2
  <2>2. Len(r) - 1 = Len(s) BY <1>5, <2>1
  <2>3. \A k \in 1..Len(s) : Rank[s[k]] < Rank[Wanted(u)] BY <1>5, <1>6, <1>7, <2>2
  <2> QED BY <2>3, <1>4
<1>9. \A lock \in Lock : Rank[lock] \in 1..10 BY Ranks DEF Lock, Reentrant
<1> QED BY <1>1, <1>8, <1>9

\* The service has no deadlock: no threads, however many, wait for each other in a circle,
\* and none waits for a lock it holds itself (models.py 337, runner.py 600, core.py 161).
THEOREM NoDeadlock == Spec => []NoWaitingCycle
<1>1. Init => Inv BY InitInv
<1>2. Inv /\ [Next]_vars => Inv' BY StepInv
<1>3. Inv => NoWaitingCycle
  <2> SUFFICES ASSUME Inv, NEW circle \in SUBSET Threads, circle # {},
                      \A t \in circle : \E u \in circle : Waits(t, u)
               PROVE  FALSE
    BY DEF NoWaitingCycle
  <2> DEFINE ranks == {Rank[Wanted(t)] : t \in circle}
  <2>1. \A t \in circle : /\ Rank[Wanted(t)] \in 1..10
                          /\ \E u \in circle : Rank[Wanted(t)] < Rank[Wanted(u)]
    BY WaitsAbove
  <2>2. \A m \in ranks : m \in 1..10 /\ \E n \in ranks : m < n BY <2>1
  <2>3. PICK t \in circle : TRUE OBVIOUS
  <2>4. Rank[Wanted(t)] \in ranks OBVIOUS
  <2> HIDE DEF ranks
  <2>5. \E n \in ranks : n >= 1 BY <2>2, <2>4
  <2>6. \E n \in ranks : n >= 2 BY <2>2, <2>5
  <2>7. \E n \in ranks : n >= 3 BY <2>2, <2>6
  <2>8. \E n \in ranks : n >= 4 BY <2>2, <2>7
  <2>9. \E n \in ranks : n >= 5 BY <2>2, <2>8
  <2>10. \E n \in ranks : n >= 6 BY <2>2, <2>9
  <2>11. \E n \in ranks : n >= 7 BY <2>2, <2>10
  <2>12. \E n \in ranks : n >= 8 BY <2>2, <2>11
  <2>13. \E n \in ranks : n >= 9 BY <2>2, <2>12
  <2>14. \E n \in ranks : n >= 10 BY <2>2, <2>13
  <2>15. \E n \in ranks : n >= 11 BY <2>2, <2>14
  <2> QED BY <2>2, <2>15
<1> QED BY <1>1, <1>2, <1>3, PTL DEF Spec
=============================================================================
