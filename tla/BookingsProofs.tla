--------------------------- MODULE BookingsProofs ---------------------------
(***************************************************************************)
(* Bookings and the journal, for any number of people, cards, threads and  *)
(* entries: what the change lock and the lock of the journal are there for.*)
(***************************************************************************)
EXTENDS Bookings, OperatorProofs

-----------------------------------------------------------------------------
\* Types and locks

LEMMA StartsTyped == Init => TypeOK
<1> SUFFICES ASSUME Init PROVE TypeOK OBVIOUS
<1> USE ConstantsAssumption DEF ConstantsAssumption, Init
<1>1. journal \in Seq(Entry) /\ Len(journal) <= KeepEntries BY EmptySeq
<1>2. seen \in [Threads -> Seq(Entry)] BY EmptySeq
<1> QED BY <1>1, <1>2 DEF TypeOK, Holds

\* kept has those of the entries that are young enough, at the places at, in their order, and
\* the last KeepEntries of these if there are more.
KeepsAt(at, kept, entries) ==
  /\ at \in [1..Len(kept) -> 1..Len(entries)]
  /\ \A k \in 1..Len(kept) : kept[k] = entries[at[k]] /\ entries[at[k]].ts >= now - KeepAge
  /\ \A k, l \in 1..Len(kept) : k < l => at[k] < at[l]
  /\ \A i \in 1..Len(entries) : entries[i].ts >= now - KeepAge =>
       \/ \E k \in 1..Len(kept) : at[k] = i
       \/ Len(kept) = KeepEntries /\ \A k \in 1..Len(kept) : i < at[k]

\* What _keep lets pass.
LEMMA KeepFacts ==
  ASSUME NEW entries \in Seq(Entry)
  PROVE  /\ Keep(entries) \in Seq(Entry) /\ Len(Keep(entries)) <= KeepEntries
         /\ \E at : KeepsAt(at, Keep(entries), entries)
<1> DEFINE I == {i \in 1..Len(entries) : entries[i].ts >= now - KeepAge}
           fresh == Selected(entries, I)
           n == Cardinality(I)
           up == Ascending(I)
<1>0. KeepEntries \in Nat /\ KeepEntries > 0 /\ Len(entries) \in Nat
  BY ConstantsAssumption, LenProperties DEF ConstantsAssumption
<1>1. /\ n \in Nat /\ fresh \in Seq(Entry) /\ Len(fresh) = n
      /\ \A k \in 1..n : up[k] \in I /\ fresh[k] = entries[up[k]]
      /\ \A x \in I : \E k \in 1..n : up[k] = x
      /\ \A i, j \in 1..n : i < j => up[i] < up[j]
  <2>1. I \in SUBSET (1..Len(entries)) OBVIOUS
  <2> HIDE DEF I
  <2> QED BY <2>1, SelectedFacts
<1>2. DOMAIN entries = 1..Len(entries) BY LenProperties
<1>3. Keep(entries) = IF n <= KeepEntries THEN fresh ELSE SubSeq(fresh, n - KeepEntries + 1, n)
  BY <1>1, <1>2 DEF Keep
<1>i. \A i \in I : i \in 1..Len(entries) /\ entries[i].ts >= now - KeepAge OBVIOUS
<1>j. \A i \in 1..Len(entries) : entries[i].ts >= now - KeepAge => i \in I OBVIOUS
<1> HIDE DEF I, fresh, n, up
<1>4. CASE n <= KeepEntries
  <2>1. Keep(entries) = fresh /\ Len(Keep(entries)) = n BY <1>1, <1>3, <1>4
  <2> DEFINE at == [k \in 1..n |-> up[k]]
  <2>2. at \in [1..n -> 1..Len(entries)] /\ \A k \in 1..n : at[k] = up[k] BY <1>1, <1>i
  <2> HIDE DEF at
  <2>3. \A k \in 1..n : fresh[k] = entries[at[k]] /\ entries[at[k]].ts >= now - KeepAge
    BY <1>1, <1>i, <2>2
  <2>4. \A k, l \in 1..n : k < l => at[k] < at[l] BY <1>1, <2>2
  <2>5. \A i \in 1..Len(entries) : entries[i].ts >= now - KeepAge => \E k \in 1..n : at[k] = i
    BY <1>1, <1>j, <2>2
  <2>6. KeepsAt(at, fresh, entries) BY <1>1, <2>2, <2>3, <2>4, <2>5 DEF KeepsAt
  <2> QED BY <1>1, <1>4, <2>1, <2>6
<1>5. CASE ~(n <= KeepEntries)
  <2> DEFINE m == n - KeepEntries
  <2>0. m \in Nat /\ n = m + KeepEntries /\ m + 1 \in Int /\ m + 1 <= n BY <1>0, <1>1, <1>5
  <2> HIDE DEF m
  <2>1. Keep(entries) = SubSeq(fresh, m + 1, n) BY <1>3, <1>5 DEF m
  <2>2. \A i \in (m + 1)..n : fresh[i] \in Entry
    <3>1. \A i \in (m + 1)..n : i \in 1..n BY <2>0
    <3> QED BY <1>1, <3>1, ElementOfSeq
  <2>3. /\ Keep(entries) \in Seq(Entry)
        /\ Len(Keep(entries)) = IF m + 1 <= n THEN n - (m + 1) + 1 ELSE 0
        /\ \A k \in 1..(n - (m + 1) + 1) : Keep(entries)[k] = fresh[m + 1 + k - 1]
    BY <1>1, <2>0, <2>1, <2>2, SubSeqProperties
  <2>4. Len(Keep(entries)) = KeepEntries BY <1>0, <2>0, <2>3
  <2>5. \A k \in 1..KeepEntries : Keep(entries)[k] = fresh[m + k] /\ m + k \in 1..n
    BY <1>0, <2>0, <2>3
  <2> DEFINE at == [k \in 1..KeepEntries |-> up[m + k]]
  <2>6. at \in [1..KeepEntries -> 1..Len(entries)] /\ \A k \in 1..KeepEntries : at[k] = up[m + k]
    BY <1>1, <1>i, <2>5
  <2> HIDE DEF at
  <2>7. \A k \in 1..KeepEntries : /\ Keep(entries)[k] = entries[at[k]]
                                  /\ entries[at[k]].ts >= now - KeepAge
    BY <1>1, <1>i, <2>5, <2>6
  <2>8. ASSUME NEW k \in 1..KeepEntries, NEW l \in 1..KeepEntries, k < l PROVE at[k] < at[l]
    <3>1. m + k < m + l BY <2>0, <2>8
    <3> QED BY <1>1, <2>5, <2>6, <3>1
  <2>9. ASSUME NEW i \in 1..Len(entries), entries[i].ts >= now - KeepAge
        PROVE  \/ \E k \in 1..KeepEntries : at[k] = i
               \/ \A k \in 1..KeepEntries : i < at[k]
    <3>1. PICK k \in 1..n : up[k] = i BY <1>1, <1>j, <2>9
    <3>2. CASE k > m
      <4>1. k - m \in 1..KeepEntries /\ m + (k - m) = k BY <1>0, <2>0, <3>2
      <4> QED BY <2>6, <3>1, <4>1
    <3>3. CASE ~(k > m)
      <4>1. \A l \in 1..KeepEntries : k < m + l BY <1>0, <2>0, <3>3
      <4> QED BY <1>1, <2>5, <2>6, <3>1, <4>1
    <3> QED BY <3>2, <3>3
  <2>10. KeepsAt(at, Keep(entries), entries) BY <2>4, <2>6, <2>7, <2>8, <2>9 DEF KeepsAt
  <2> QED BY <1>0, <2>3, <2>4, <2>10
<1> QED BY <1>4, <1>5

LEMMA StaysTyped == TypeOK /\ [Next]_vars => TypeOK'
<1> SUFFICES ASSUME TypeOK, [Next]_vars PROVE TypeOK' OBVIOUS
<1> USE ConstantsAssumption DEF ConstantsAssumption, TypeOK
<1>0. \A t \in Threads : Holds(t) => job[t].gpu \in Cards BY DEF Holds, Entry
<1>1. ASSUME NEW t \in Threads, NEW b \in [Cards -> Booking \cup {NoOne}], NEW entry \in Entry,
             entry.gpu # NoCard, Change(t, b, entry)
      PROVE  TypeOK'
  BY <1>1 DEF Change, Goto, Call, Holds
<1>2. ASSUME NEW t \in Threads, Reserve(t) PROVE TypeOK'
  <2>1. PICK g \in Cards, u \in Users, term \in Terms :
          LET held == book[g] # NoOne
          IN  /\ held => book[g].user = u
              /\ Change(t,
                   [book EXCEPT ![g] = [user |-> u, term |-> term,
                                        since |-> IF held THEN book[g].since ELSE now]],
                   [ts |-> now, user |-> u, gpu |-> g, term |-> term,
                    action |-> IF held THEN "reserve_update" ELSE "reserve"])
    BY <1>2 DEF Reserve
  <2>2. [user |-> u, term |-> term, since |-> IF book[g] # NoOne THEN book[g].since ELSE now] \in Booking
    BY DEF Booking
  <2>3. [ts |-> now, user |-> u, gpu |-> g, term |-> term,
         action |-> IF book[g] # NoOne THEN "reserve_update" ELSE "reserve"] \in Entry
    BY DEF Entry, Action
  <2> QED BY <1>1, <2>1, <2>2, <2>3
<1>3. ASSUME NEW t \in Threads, Release(t) PROVE TypeOK'
  <2>1. PICK g \in Cards, u \in Users :
          Change(t, [book EXCEPT ![g] = NoOne],
                 [ts |-> now, user |-> u, gpu |-> g, term |-> NoOne,
                  action |-> IF book[g].user = u THEN "release" ELSE "release_forced"])
    BY <1>3 DEF Release
  <2>2. [ts |-> now, user |-> u, gpu |-> g, term |-> NoOne,
         action |-> IF book[g].user = u THEN "release" ELSE "release_forced"] \in Entry
    BY DEF Entry, Action
  <2> QED BY <1>1, <2>1, <2>2
<1>4. ASSUME NEW t \in Threads, Other(t) PROVE TypeOK'
  <2>1. PICK u \in Users : job' = [job EXCEPT ![t] = [ts |-> now, user |-> u, gpu |-> NoCard,
                                                     term |-> NoOne, action |-> "other"]]
    BY <1>4 DEF Other
  <2> DEFINE e == [ts |-> now, user |-> u, gpu |-> NoCard, term |-> NoOne, action |-> "other"]
  <2>2. e \in Entry /\ e.gpu = NoCard BY DEF Entry, Action
  <2>3. job' = [job EXCEPT ![t] = e] BY <2>1
  <2> HIDE DEF e
  <2>4. \A v \in Threads : Holds(v)' => Holds(v) BY <1>4, <2>2, <2>3 DEF Other, Goto, Holds
  <2> QED BY <1>4, <2>2, <2>3, <2>4 DEF Other, Goto, Call
<1>5. ASSUME NEW t \in Threads, Stamp(t) PROVE TypeOK'
  <2>1. job[t] \in Entry /\ [job[t] EXCEPT !.ts = now] \in Entry BY <1>5 DEF Stamp, Entry
  <2>2. job' = [job EXCEPT ![t] = [job[t] EXCEPT !.ts = now]] BY <1>5 DEF Stamp
  <2>3. [job[t] EXCEPT !.ts = now].gpu = job[t].gpu BY <2>1 DEF Entry
  <2> DEFINE e == [job[t] EXCEPT !.ts = now]
  <2>4. e \in Entry /\ e.gpu = job[t].gpu /\ job' = [job EXCEPT ![t] = e] BY <2>1, <2>2, <2>3
  <2> HIDE DEF e
  <2>5. \A v \in Threads : Holds(v)' => Holds(v) BY <1>5, <2>4 DEF Stamp, Goto, Holds
  <2> QED BY <1>5, <2>4, <2>5 DEF Stamp, Goto
<1>6. ASSUME NEW t \in Threads, Read(t) PROVE TypeOK'
  BY <1>6 DEF Read, Goto, Holds
<1>7. ASSUME NEW t \in Threads, Done(t), UNCHANGED <<book, saved, now, calls, crashes>>,
             untold' \subseteq Cards, journal' \in Seq(Entry), Len(journal') <= KeepEntries
      PROVE  TypeOK'
  BY <1>7, EmptySeq DEF Done, Goto, Holds
<1>8. ASSUME NEW t \in Threads, Record(t) PROVE TypeOK'
  <2>1. Append(seen[t], job[t]) \in Seq(Entry) BY <1>8, AppendProperties DEF Record
  <2> QED BY <1>7, <1>8, <2>1, KeepFacts DEF Record
<1>9. ASSUME NEW t \in Threads, RecordFails(t) PROVE TypeOK'
  <2>1. job[t].gpu \in Cards \cup {NoCard} BY <1>9 DEF RecordFails, Entry
  <2> QED BY <1>7, <1>9, <2>1 DEF RecordFails
<1>10. CASE Tick BY <1>10 DEF Tick, Holds
<1>11. CASE Crash BY <1>0, <1>11, EmptySeq DEF Crash, Holds
<1>12. CASE UNCHANGED vars BY <1>12 DEF vars, Holds
<1>13. ASSUME NEW t \in Threads, Refused(t) PROVE TypeOK'
  BY <1>13 DEF Refused, vars, Holds
<1> QED
  BY <1>2, <1>3, <1>4, <1>5, <1>6, <1>8, <1>9, <1>10, <1>11, <1>12, <1>13 DEF Next, Request, Work

\* The types hold in every reachable state, and each lock has at most one holder.
THEOREM BookingsTyped == Spec => []TypeOK
BY StartsTyped, StaysTyped, PTL DEF Spec

-----------------------------------------------------------------------------
(***************************************************************************)
(* The journal explains the cards.  The change lock keeps the entries      *)
(* about one card in the order of its changes and of their time stamps, so *)
(* that an entry never outlives a later one about the same card.           *)
(***************************************************************************)
SeenIsJournal == \A t \in Threads : pc[t] = "read" => seen[t] = journal

Past ==
  /\ \A i \in 1..Len(journal) : journal[i].ts <= now
  /\ \A t \in Threads : pc[t] # "idle" => job[t].ts <= now
  /\ \A g \in Cards : book[g] # NoOne => book[g].since <= now

InOrder == \A i, j \in 1..Len(journal) :
  i < j /\ journal[i].gpu = journal[j].gpu /\ journal[i].gpu # NoCard => journal[i].ts <= journal[j].ts

HolderIsLast == \A t \in Threads, i \in 1..Len(journal) :
  Holds(t) /\ journal[i].gpu = job[t].gpu => journal[i].ts <= job[t].ts

HolderExplains == \A t \in Threads : Holds(t) => Explains(job[t], job[t].gpu)

BookInv == /\ TypeOK /\ saved = book /\ SeenIsJournal /\ Past /\ InOrder /\ HolderIsLast
           /\ HolderExplains /\ JournalExplains

\* A change of card g that its entry explains.
LEMMA ChangeExplained ==
  ASSUME BookInv, TypeOK', NEW t \in Threads, NEW g \in Cards, NEW new \in Booking \cup {NoOne},
         NEW entry \in Entry, entry.gpu = g, entry.ts = now,
         Change(t, [book EXCEPT ![g] = new], entry),
         IF entry.action \in {"release", "release_forced"} THEN new = NoOne
         ELSE new # NoOne /\ new.user = entry.user /\ new.term = entry.term /\ new.since <= now
  PROVE  BookInv'
<1> USE DEF BookInv
<1>0. /\ DOMAIN journal = 1..Len(journal) /\ journal' = journal /\ now' = now /\ untold' = untold /\ seen' = seen
      /\ book \in [Cards -> Booking \cup {NoOne}] /\ pc \in [Threads -> {"idle", "changed", "stamped", "read"}]
      /\ job \in [Threads -> Entry \cup {NoJob}]
  BY LenProperties DEF TypeOK, Change
<1>1. /\ pc[t] = "idle" /\ pc'[t] = "changed" /\ job'[t] = entry
      /\ \A u \in Threads : u # t => pc'[u] = pc[u] /\ job'[u] = job[u]
      /\ \A u \in Threads : ~Holds(u)
      /\ book' = [book EXCEPT ![g] = new] /\ saved' = book'
  BY <1>0 DEF Change, Goto
<1>2. book'[g] = new /\ \A h \in Cards : h # g => book'[h] = book[h] BY <1>0, <1>1
<1>3. \A u \in Threads : Holds(u)' => u = t BY <1>1 DEF Holds
<1>4. SeenIsJournal' BY <1>0, <1>1 DEF SeenIsJournal
<1>5. Past'
  <2>0. now \in Nat
    <3>1. now \in 0..MaxTime BY DEF TypeOK
    <3> QED BY <3>1
  <2>1. ASSUME NEW u \in Threads, pc'[u] # "idle" PROVE job'[u].ts <= now
    <3>1. CASE u = t
      <4>1. job'[u] = entry BY <1>1, <3>1
      <4>2. entry.ts <= now BY <2>0
      <4> QED BY <4>1, <4>2
    <3>2. CASE u # t
      <4>1. pc[u] # "idle" /\ job'[u] = job[u] BY <1>1, <2>1, <3>2
      <4>2. job[u].ts <= now BY <4>1 DEF Past
      <4> QED BY <4>1, <4>2
    <3> QED BY <3>1, <3>2
  <2>2. new # NoOne => new.since <= now
    <3>1. now \in 0..MaxTime BY DEF TypeOK
    <3> QED BY <3>1
  <2>3. \A h \in Cards : book'[h] # NoOne => book'[h].since <= now BY <1>2, <2>2 DEF Past
  <2> QED BY <1>0, <2>1, <2>3 DEF Past
<1>6. InOrder' BY <1>0 DEF InOrder
<1>7. HolderIsLast' BY <1>0, <1>1, <1>3 DEF HolderIsLast, Past
<1>8. HolderExplains' BY <1>1, <1>2, <1>3 DEF HolderExplains, Explains
<1>9. JournalExplains'
  <2> SUFFICES ASSUME NEW h \in Cards, NEW i \in 1..Len(journal), h \notin untold,
                      \A u \in Threads : Holds(u)' => job'[u].gpu # h, LastAbout(i, h)
               PROVE  Explains(journal[i], h)'
    BY <1>0 DEF JournalExplains, LastAbout
  <2>1. h # g
    <3>1. g # NoCard BY ConstantsAssumption DEF ConstantsAssumption
    <3> QED BY <1>1, <3>1 DEF Holds
  <2>2. Explains(journal[i], h) BY <1>0, <1>1 DEF JournalExplains
  <2> QED BY <1>0, <1>2, <2>1, <2>2 DEF Explains
<1> QED BY <1>1, <1>4, <1>5, <1>6, <1>7, <1>8, <1>9

\* The record comes to the journal.
LEMMA RecordExplained ==
  ASSUME BookInv, TypeOK', NEW t \in Threads, Record(t)
  PROVE  BookInv'
<1> USE DEF BookInv
<1> DEFINE L == Len(journal)
           entries == Append(journal, job[t])
<1>0. /\ journal \in Seq(Entry) /\ L \in Nat /\ job[t] \in Entry /\ now \in Int
      /\ DOMAIN journal = 1..L /\ DOMAIN journal' = 1..Len(journal') /\ Len(journal') \in Nat
  <2>1. journal \in Seq(Entry) /\ journal' \in Seq(Entry) /\ job[t] \in Entry BY DEF TypeOK, Record
  <2>2. now \in Int BY DEF TypeOK
  <2> QED BY <2>1, <2>2, LenProperties
<1>1. /\ pc[t] = "read" /\ pc'[t] = "idle"
      /\ \A u \in Threads : u # t => pc'[u] = pc[u] /\ job'[u] = job[u] /\ seen'[u] = seen[u]
      /\ journal' = Keep(entries) /\ untold' = untold \ {job[t].gpu}
      /\ book' = book /\ saved' = saved /\ now' = now
  BY DEF Record, Done, Goto, TypeOK, SeenIsJournal
<1>2. /\ entries \in Seq(Entry) /\ Len(entries) = L + 1
      /\ \A i \in 1..L : entries[i] = journal[i]
      /\ entries[L + 1] = job[t]
  BY <1>0, AppendProperties
<1>3. \A e \in Entry : e.ts \in Int BY DEF Entry
<1>4. \A i \in 1..(L + 1) : entries[i] \in Entry /\ entries[i].ts \in Int
  BY <1>2, <1>3, ElementOfSeq
<1>5. PICK at : KeepsAt(at, journal', entries) BY <1>1, <1>2, KeepFacts
<1> HIDE DEF entries, L
<1>6. /\ \A k \in 1..Len(journal') : /\ at[k] \in 1..(L + 1) /\ journal'[k] = entries[at[k]]
                                     /\ entries[at[k]].ts >= now - KeepAge
      /\ \A k, l \in 1..Len(journal') : k < l => at[k] < at[l]
      /\ \A i \in 1..(L + 1) : entries[i].ts >= now - KeepAge =>
           \/ \E k \in 1..Len(journal') : at[k] = i
           \/ \A k \in 1..Len(journal') : i < at[k]
  BY <1>2, <1>5 DEF KeepsAt
<1>7. job[t].gpu # NoCard => Holds(t) BY <1>1 DEF Holds
<1>8. ASSUME NEW i \in 1..(L + 1), NEW j \in 1..(L + 1), i < j, entries[i].gpu = entries[j].gpu,
             entries[i].gpu # NoCard
      PROVE  entries[i].ts <= entries[j].ts
  <2>1. i \in 1..L /\ entries[i] = journal[i] BY <1>0, <1>2, <1>8
  <2>2. CASE j = L + 1
    BY <1>2, <1>7, <1>8, <2>1, <2>2 DEF HolderIsLast, L
  <2>3. CASE j # L + 1
    <3>1. j \in 1..L BY <1>0, <2>3
    <3> QED BY <1>2, <1>8, <2>1, <3>1 DEF InOrder, L
  <2> QED BY <2>2, <2>3
<1>9. \A u \in Threads : Holds(u)' => Holds(u) /\ u # t /\ job'[u] = job[u] BY <1>1 DEF Holds
<1>10. SeenIsJournal'
  <2>1. \A u \in Threads : u # t => pc'[u] # "read" BY <1>1 DEF TypeOK
  <2> QED BY <1>1, <2>1 DEF SeenIsJournal
<1>11. Past'
  <2>1. \A i \in 1..(L + 1) : entries[i].ts <= now BY <1>0, <1>1, <1>2 DEF Past, L
  <2>2. \A u \in Threads : pc'[u] # "idle" => job'[u].ts <= now BY <1>1 DEF Past
  <2> QED BY <1>1, <1>6, <2>1, <2>2 DEF Past
<1>12. InOrder' BY <1>6, <1>8 DEF InOrder
<1>13. HolderIsLast'
  <2> SUFFICES ASSUME NEW u \in Threads, NEW k \in 1..Len(journal'), Holds(u)',
                      journal'[k].gpu = job'[u].gpu
               PROVE  journal'[k].ts <= job'[u].ts
    BY DEF HolderIsLast
  <2>1. Holds(u) /\ u # t /\ job'[u] = job[u] BY <1>9
  <2>2. at[k] # L + 1
    <3>1. ~Holds(t) BY <2>1 DEF TypeOK
    <3>2. job[t].gpu # job[u].gpu BY <1>7, <2>1, <3>1 DEF Holds
    <3> QED BY <1>2, <1>6, <2>1, <3>2
  <2>3. at[k] \in 1..L /\ entries[at[k]] = journal[at[k]] BY <1>0, <1>2, <1>6, <2>2
  <2> QED BY <1>6, <2>1, <2>3 DEF HolderIsLast, L
<1>14. HolderExplains' BY <1>1, <1>9 DEF HolderExplains, Explains
<1>15. JournalExplains'
  <2> SUFFICES ASSUME NEW g \in Cards, NEW k \in 1..Len(journal'), g \notin untold',
                      \A u \in Threads : Holds(u)' => job'[u].gpu # g,
                      journal'[k].gpu = g, \A l \in 1..Len(journal') : k < l => journal'[l].gpu # g
               PROVE  Explains(journal'[k], g)
    BY <1>0, <1>1 DEF JournalExplains, LastAbout, Explains
  <2> DEFINE i == at[k]
  <2>0. i \in 1..(L + 1) /\ journal'[k] = entries[i] /\ entries[i].gpu = g /\ g # NoCard
        /\ entries[i].ts >= now - KeepAge
    BY <1>6, ConstantsAssumption DEF ConstantsAssumption
  <2>1. CASE i = L + 1
    BY <1>2, <1>7, <2>0, <2>1 DEF HolderExplains
  <2>2. CASE i # L + 1
    <3>1. i \in 1..L /\ entries[i] = journal[i] BY <1>0, <1>2, <2>0, <2>2
    <3>2. ASSUME NEW j \in 1..(L + 1), i < j, entries[j].gpu = g PROVE FALSE
      <4>1. entries[i].ts <= entries[j].ts BY <1>8, <2>0, <3>2
      <4>2. entries[j].ts >= now - KeepAge
        BY <1>0, <1>4, <2>0, <4>1, ConstantsAssumption DEF ConstantsAssumption
      <4>3. ~(j < at[k]) BY <3>2, <2>0
      <4>4. PICK l \in 1..Len(journal') : at[l] = j BY <1>6, <4>2, <4>3
      <4>5. k < l
        <5>1. ~(l < k) BY <1>6, <2>0, <3>2, <4>4
        <5> QED BY <1>0, <3>2, <4>4, <5>1
      <4> QED BY <1>6, <3>2, <4>4, <4>5
    <3>3. job[t].gpu # g
      <4>1. L + 1 \in 1..(L + 1) /\ i < L + 1 BY <1>0, <3>1
      <4> QED BY <1>2, <3>2, <4>1
    <3>4. g \notin untold BY <1>1, <3>3
    <3>5. \A u \in Threads : Holds(u) => job[u].gpu # g BY <1>1, <3>3 DEF Holds
    <3>6. LastAbout(i, g)
      <4>1. ASSUME NEW j \in 1..L, i < j PROVE journal[j].gpu # g
        <5>1. j \in 1..(L + 1) /\ entries[j] = journal[j] BY <1>0, <1>2
        <5> QED BY <3>2, <4>1, <5>1
      <4> QED BY <1>0, <2>0, <3>1, <4>1 DEF LastAbout
    <3> QED BY <1>0, <2>0, <3>1, <3>4, <3>5, <3>6 DEF JournalExplains
  <2> QED BY <2>1, <2>2
<1> QED BY <1>1, <1>10, <1>11, <1>12, <1>13, <1>14, <1>15

LEMMA BookStarts == Init => BookInv
<1> SUFFICES ASSUME Init PROVE BookInv OBVIOUS
<1>1. TypeOK BY StartsTyped
<1>2. Len(journal) = 0 /\ DOMAIN journal = {} BY EmptySeq DEF Init
<1> QED BY <1>1, <1>2 DEF Init, BookInv, SeenIsJournal, Past, InOrder, HolderIsLast, HolderExplains,
                          JournalExplains, Holds

LEMMA BookKept == BookInv /\ [Next]_vars => BookInv'
<1> SUFFICES ASSUME BookInv, [Next]_vars PROVE BookInv' OBVIOUS
<1> USE DEF BookInv
<1>0. /\ TypeOK' /\ now \in Int
      /\ pc \in [Threads -> {"idle", "changed", "stamped", "read"}]
      /\ job \in [Threads -> Entry \cup {NoJob}]
      /\ \A t \in Threads : pc[t] # "idle" => job[t] \in Entry
      /\ \A e \in Entry : e.ts \in Int
      /\ \A g \in Cards : book[g] # NoOne => book[g].since \in Int
  <2>1. TypeOK' BY StaysTyped
  <2>2. /\ now \in Int /\ pc \in [Threads -> {"idle", "changed", "stamped", "read"}]
        /\ job \in [Threads -> Entry \cup {NoJob}]
        /\ \A t \in Threads : pc[t] # "idle" => job[t] \in Entry
        /\ book \in [Cards -> Booking \cup {NoOne}]
    BY DEF TypeOK
  <2>3. \A e \in Entry : e.ts \in Int BY DEF Entry
  <2>4. \A b \in Booking : b.since \in Int BY DEF Booking
  <2> QED BY <2>1, <2>2, <2>3, <2>4
<1>1. ASSUME NEW t \in Threads, Reserve(t) PROVE BookInv'
  <2>1. PICK g \in Cards, u \in Users, term \in Terms :
          LET held == book[g] # NoOne
          IN  /\ held => book[g].user = u
              /\ Change(t,
                   [book EXCEPT ![g] = [user |-> u, term |-> term,
                                        since |-> IF held THEN book[g].since ELSE now]],
                   [ts |-> now, user |-> u, gpu |-> g, term |-> term,
                    action |-> IF held THEN "reserve_update" ELSE "reserve"])
    BY <1>1 DEF Reserve
  <2> DEFINE new == [user |-> u, term |-> term, since |-> IF book[g] # NoOne THEN book[g].since ELSE now]
             entry == [ts |-> now, user |-> u, gpu |-> g, term |-> term,
                       action |-> IF book[g] # NoOne THEN "reserve_update" ELSE "reserve"]
  <2>2. new \in Booking /\ new # NoOne
    BY ConstantsAssumption DEF ConstantsAssumption, Booking, TypeOK
  <2>3. entry \in Entry BY DEF Entry, Action, TypeOK
  <2>4. new.since <= now BY <1>0 DEF Past
  <2>5. /\ entry.gpu = g /\ entry.ts = now /\ entry.action \notin {"release", "release_forced"}
        /\ new.user = entry.user /\ new.term = entry.term
    OBVIOUS
  <2>6. Change(t, [book EXCEPT ![g] = new], entry) BY <2>1
  <2> HIDE DEF new, entry
  <2> QED BY <1>0, <2>2, <2>3, <2>4, <2>5, <2>6, ChangeExplained
<1>2. ASSUME NEW t \in Threads, Release(t) PROVE BookInv'
  <2>1. PICK g \in Cards, u \in Users :
          Change(t, [book EXCEPT ![g] = NoOne],
                 [ts |-> now, user |-> u, gpu |-> g, term |-> NoOne,
                  action |-> IF book[g].user = u THEN "release" ELSE "release_forced"])
    BY <1>2 DEF Release
  <2> DEFINE entry == [ts |-> now, user |-> u, gpu |-> g, term |-> NoOne,
                       action |-> IF book[g].user = u THEN "release" ELSE "release_forced"]
  <2>2. entry \in Entry BY DEF Entry, Action, TypeOK
  <2>3. entry.gpu = g /\ entry.ts = now /\ entry.action \in {"release", "release_forced"} OBVIOUS
  <2>4. Change(t, [book EXCEPT ![g] = NoOne], entry) BY <2>1
  <2> HIDE DEF entry
  <2> QED BY <1>0, <2>2, <2>3, <2>4, ChangeExplained
\* A step that leaves journal and book alone and makes nobody hold a card, or hold it earlier.
<1>3. ASSUME UNCHANGED <<journal, book, saved, now, untold>>,
             \A u \in Threads : /\ pc'[u] # "idle" => job'[u].ts <= now
                                /\ Holds(u)' <=> Holds(u)
                                /\ Holds(u) => /\ job'[u].gpu = job[u].gpu /\ job'[u].action = job[u].action
                                               /\ job'[u].user = job[u].user /\ job'[u].term = job[u].term
                                               /\ job'[u].ts = job[u].ts \/ job'[u].ts = now
                                /\ pc'[u] = "read" => seen'[u] = journal
      PROVE  BookInv'
  <2>0. DOMAIN journal = 1..Len(journal) BY LenProperties DEF TypeOK
  <2>1. SeenIsJournal' /\ Past' /\ InOrder' BY <1>3 DEF SeenIsJournal, Past, InOrder
  <2>2. HolderIsLast' BY <1>3 DEF HolderIsLast, Past
  <2>3. ASSUME NEW u \in Threads, Holds(u)' PROVE Explains(job[u], job[u].gpu)'
    <3>1. Explains(job[u], job[u].gpu) /\ job[u].gpu \in Cards
      BY <1>3, <2>3 DEF HolderExplains, Holds, TypeOK, Entry
    <3>2. book[job[u].gpu] # NoOne => book[job[u].gpu].since <= now BY <3>1 DEF Past
    <3> QED BY <1>3, <2>3, <3>1, <3>2 DEF Explains
  <2>4. HolderExplains' BY <2>3 DEF HolderExplains
  <2>5. JournalExplains' BY <1>3 DEF JournalExplains, LastAbout, Explains
  <2> QED BY <1>0, <1>3, <2>1, <2>2, <2>4, <2>5
<1>4. ASSUME NEW t \in Threads, Other(t) PROVE BookInv'
  <2>1. PICK w \in Users : job' = [job EXCEPT ![t] = [ts |-> now, user |-> w, gpu |-> NoCard,
                                                     term |-> NoOne, action |-> "other"]]
    BY <1>4 DEF Other
  <2>2. /\ job'[t].ts = now /\ job'[t].gpu = NoCard /\ pc[t] = "idle" /\ pc'[t] = "changed" /\ seen' = seen
        /\ \A u \in Threads : u # t => pc'[u] = pc[u] /\ job'[u] = job[u]
    BY <1>0, <1>4, <2>1 DEF Other, Goto
  <2>3. \A u \in Threads : Holds(u)' <=> Holds(u) BY <2>2 DEF Holds
  <2>4. \A u \in Threads : Holds(u) => u # t BY <2>2 DEF Holds
  <2> QED BY <1>0, <1>3, <1>4, <2>2, <2>3, <2>4 DEF Other, Past, SeenIsJournal
<1>5. ASSUME NEW t \in Threads, Stamp(t) PROVE BookInv'
  <2>1. job[t] \in Entry /\ pc[t] = "changed" /\ seen' = seen BY <1>0, <1>5 DEF Stamp
  <2>2. /\ job'[t].ts = now /\ job'[t].gpu = job[t].gpu /\ job'[t].action = job[t].action
        /\ job'[t].user = job[t].user /\ job'[t].term = job[t].term /\ pc'[t] = "stamped"
        /\ \A u \in Threads : u # t => pc'[u] = pc[u] /\ job'[u] = job[u]
    BY <1>0, <1>5, <2>1 DEF Stamp, Goto, Entry
  <2>3. \A u \in Threads : Holds(u)' <=> Holds(u) BY <2>1, <2>2 DEF Holds
  <2> QED BY <1>0, <1>3, <1>5, <2>1, <2>2, <2>3 DEF Stamp, Past, SeenIsJournal
<1>6. ASSUME NEW t \in Threads, Read(t) PROVE BookInv'
  <2>1. /\ pc[t] = "stamped" /\ pc'[t] = "read" /\ job' = job /\ seen'[t] = journal
        /\ \A u \in Threads : u # t => pc'[u] = pc[u] /\ seen'[u] = seen[u]
    BY <1>0, <1>6 DEF Read, Goto, TypeOK
  <2>2. \A u \in Threads : Holds(u)' <=> Holds(u) BY <2>1 DEF Holds
  <2> QED BY <1>0, <1>3, <1>6, <2>1, <2>2 DEF Read, Past, SeenIsJournal
<1>7. ASSUME NEW t \in Threads, Record(t) PROVE BookInv' BY <1>0, <1>7, RecordExplained
\* A step after which fewer threads hold a card, and the cards they held are untold.
<1>8. ASSUME UNCHANGED <<journal, book, now>>, saved' = book', untold \subseteq untold' \cup {NoCard},
             \A u \in Threads : /\ pc'[u] # "idle" => pc'[u] = pc[u] /\ job'[u] = job[u] /\ seen'[u] = seen[u]
                                /\ Holds(u) /\ ~Holds(u)' => job[u].gpu \in untold'
      PROVE  BookInv'
  <2>0. DOMAIN journal = 1..Len(journal) /\ NoCard \notin Cards
    BY LenProperties, ConstantsAssumption DEF TypeOK, ConstantsAssumption
  <2>1. SeenIsJournal' /\ Past' /\ InOrder' BY <1>8 DEF SeenIsJournal, Past, InOrder
  <2>2. \A u \in Threads : Holds(u)' => Holds(u) /\ job'[u] = job[u] BY <1>8 DEF Holds
  <2>3. HolderIsLast' /\ HolderExplains' BY <1>8, <2>2 DEF HolderIsLast, HolderExplains, Explains
  <2>4. JournalExplains'
    <3> SUFFICES ASSUME NEW g \in Cards, NEW i \in 1..Len(journal), g \notin untold',
                        \A u \in Threads : Holds(u)' => job'[u].gpu # g, LastAbout(i, g)
                 PROVE  Explains(journal[i], g)
      BY <1>8, <2>0 DEF JournalExplains, LastAbout, Explains
    <3>1. g \notin untold BY <1>8, <2>0
    <3>2. \A u \in Threads : Holds(u) => job[u].gpu # g BY <1>8, <2>2
    <3> QED BY <2>0, <3>1, <3>2 DEF JournalExplains
  <2> QED BY <1>0, <1>8, <2>1, <2>3, <2>4
<1>9. ASSUME NEW t \in Threads, RecordFails(t) PROVE BookInv'
  <2>1. /\ pc'[t] = "idle" /\ UNCHANGED <<journal, book, now, saved>>
        /\ \A u \in Threads : u # t => pc'[u] = pc[u] /\ job'[u] = job[u] /\ seen'[u] = seen[u]
        /\ untold' = (untold \cup {job[t].gpu}) \ {NoCard}
    BY <1>0, <1>9 DEF RecordFails, Done, Goto, TypeOK
  <2>2. \A u \in Threads : Holds(u) /\ ~Holds(u)' => u = t BY <2>1 DEF Holds
  <2>3. Holds(t) => job[t].gpu \in untold' BY <2>1 DEF Holds
  <2> QED BY <1>8, <2>1, <2>2, <2>3
<1>10. CASE Crash
  <2>1. /\ UNCHANGED <<journal, now>> /\ book' = book /\ saved' = book
        /\ \A u \in Threads : pc'[u] = "idle"
        /\ untold' = untold \cup {job[u].gpu : u \in {v \in Threads : Holds(v)}}
    BY <1>10 DEF Crash
  <2>2. \A u \in Threads : Holds(u) => job[u].gpu \in untold' BY <2>1
  <2> QED BY <1>8, <2>1, <2>2
<1>11. CASE Tick
  <2>1. now' = now + 1 /\ UNCHANGED <<book, saved, journal, pc, job, seen, untold>> BY <1>11 DEF Tick
  <2>2. Past'
    <3>1. \A i \in 1..Len(journal) : journal[i].ts \in Int
      BY <1>0, ElementOfSeq DEF TypeOK
    <3> QED BY <1>0, <2>1, <3>1 DEF Past
  <2>3. SeenIsJournal' /\ InOrder' /\ HolderIsLast' /\ HolderExplains'
    BY <2>1 DEF SeenIsJournal, InOrder, HolderIsLast, HolderExplains, Holds, Explains
  <2>4. JournalExplains' BY <2>1 DEF JournalExplains, LastAbout, Holds, Explains
  <2> QED BY <1>0, <2>1, <2>2, <2>3, <2>4
<1>12. ASSUME (\E t \in Threads : Refused(t)) \/ UNCHANGED vars PROVE BookInv'
  <2>1. UNCHANGED vars BY <1>12 DEF Refused
  <2> QED BY <1>0, <2>1 DEF vars, SeenIsJournal, Past, InOrder, HolderIsLast, HolderExplains, Holds,
                           JournalExplains, LastAbout, Explains
<1> QED
  BY <1>1, <1>2, <1>4, <1>5, <1>6, <1>7, <1>9, <1>10, <1>11, <1>12 DEF Next, Request, Work

\* The last entry about a card names its holder and the term, whoever changes what, whatever else
\* is written to the journal and dropped from it, and whenever the manager restarts.
THEOREM JournalTellsTheHolder == Spec => []JournalExplains
<1>1. BookInv => JournalExplains BY DEF BookInv
<1> QED BY <1>1, BookStarts, BookKept, PTL DEF Spec

-----------------------------------------------------------------------------
\* An entry that leaves the journal is too old, or KeepEntries others follow it.
LEMMA EntriesPass ==
  ASSUME BookInv, [Next]_vars, NEW i \in DOMAIN journal
  PROVE  \/ \E j \in DOMAIN journal' : journal'[j] = journal[i]
         \/ journal[i].ts < now - KeepAge
         \/ Len(journal) - i + 1 >= KeepEntries
<1>1. CASE UNCHANGED journal BY <1>1
<1>2. ASSUME NEW t \in Threads, Record(t)
      PROVE  \/ \E j \in DOMAIN journal' : journal'[j] = journal[i]
             \/ journal[i].ts < now - KeepAge
             \/ Len(journal) - i + 1 >= KeepEntries
  <2> DEFINE L == Len(journal)
             entries == Append(journal, job[t])
  <2>1. journal' = Keep(entries) /\ job[t] \in Entry /\ journal \in Seq(Entry)
    BY <1>2 DEF Record, BookInv, SeenIsJournal, TypeOK
  <2>2. /\ entries \in Seq(Entry) /\ Len(entries) = L + 1 /\ L \in Nat /\ DOMAIN journal = 1..L
        /\ \A k \in 1..L : entries[k] = journal[k]
    BY <2>1, AppendProperties, LenProperties
  <2>3. i \in 1..L /\ i \in 1..(L + 1) /\ entries[i] = journal[i] BY <2>2
  <2>4. journal[i].ts \in Int /\ now \in Int /\ KeepAge \in Nat /\ KeepEntries \in Nat
    <3>1. journal[i] \in Entry BY <2>1, <2>3, ElementOfSeq
    <3>2. journal[i].ts \in Int BY <3>1 DEF Entry
    <3>3. now \in Int BY DEF BookInv, TypeOK
    <3> QED BY <3>2, <3>3, ConstantsAssumption DEF ConstantsAssumption
  <2>5. PICK at : KeepsAt(at, journal', entries) /\ DOMAIN journal' = 1..Len(journal')
    BY <2>1, <2>2, KeepFacts, LenProperties
  <2> HIDE DEF entries, L
  <2>6. CASE ~(journal[i].ts >= now - KeepAge) BY <2>4, <2>6
  <2>7. CASE \E k \in 1..Len(journal') : at[k] = i
    BY <2>3, <2>5, <2>7 DEF KeepsAt
  <2>8. CASE Len(journal') = KeepEntries /\ \A k \in 1..Len(journal') : i < at[k]
    <3> DEFINE lo == i + 1
               hi == L + 1
               A == 1..KeepEntries
               B == lo..hi
    <3>1. at \in [A -> 1..(L + 1)] /\ \A k, l \in A : k < l => at[k] < at[l]
      BY <2>2, <2>5, <2>8 DEF KeepsAt
    <3>2. \A k \in A : at[k] \in B BY <2>2, <2>3, <2>8, <3>1
    <3>3. \A k, l \in A : at[k] = at[l] => k = l
      <4> SUFFICES ASSUME NEW k \in A, NEW l \in A, at[k] = at[l] PROVE k = l OBVIOUS
      <4>1. k \in Int /\ l \in Int /\ at[k] \in Int BY <3>1
      <4> QED BY <3>1, <4>1
    <3>4. at \in Injection(A, B) BY <3>1, <3>2, <3>3 DEF Injection, IsInjective
    <3>5. IsFiniteSet(B) /\ Cardinality(B) = IF lo > hi THEN 0 ELSE hi - lo + 1
      <4>1. lo \in Int /\ hi \in Int BY <2>2, <2>3
      <4> HIDE DEF lo, hi
      <4> QED BY <4>1, FS_Interval
    <3>6. Cardinality(A) = IF 1 > KeepEntries THEN 0 ELSE KeepEntries - 1 + 1 BY <2>4, FS_Interval
    <3>7. Cardinality(A) <= Cardinality(B) BY <3>4, <3>5, FS_Injection
    <3> QED BY <2>2, <2>3, <2>4, <3>5, <3>6, <3>7 DEF L
  <2> QED BY <2>3, <2>5, <2>6, <2>7, <2>8, <2>2 DEF KeepsAt
<1> QED
  <2>1. CASE \E t \in Threads : Request(t)
    BY <1>1, <2>1 DEF Request, Reserve, Release, Change, Refused, vars, Other
  <2>2. CASE \E t \in Threads : Work(t) BY <1>1, <1>2, <2>2 DEF Work, Stamp, Read, RecordFails
  <2>3. CASE Tick \/ Crash \/ UNCHANGED vars BY <1>1, <2>3 DEF Tick, Crash, vars
  <2> QED BY <2>1, <2>2, <2>3 DEF Next

\* No entry leaves the journal before its time, whoever writes at the same moment.
THEOREM NoEntryIsLost == Spec => EntriesAreKept
<1>1. BookInv /\ [Next]_vars =>
        [\A i \in DOMAIN journal :
           \/ \E j \in DOMAIN journal' : journal'[j] = journal[i]
           \/ journal[i].ts < now - KeepAge
           \/ Len(journal) - i + 1 >= KeepEntries]_vars
  BY EntriesPass
<1> QED BY <1>1, BookStarts, BookKept, PTL DEF Spec, EntriesAreKept
=============================================================================
