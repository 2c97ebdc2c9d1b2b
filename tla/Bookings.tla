------------------------------ MODULE Bookings ------------------------------
(***************************************************************************)
(* GpuManager.reserve and release (core.py) with the ReservationBook       *)
(* (reservations.py) and the Journal (journal.py): who holds which card,   *)
(* and the record of who changed what.                                     *)
(*                                                                         *)
(* The change of a booking and its record are kept together by the change  *)
(* lock, but they are two files: the change is one step (StateFile shows   *)
(* that a write of state.json is atomic), the record takes its time stamp, *)
(* then reads the journal and rewrites it under the journal's lock.  The   *)
(* other components write to the same journal.                             *)
(***************************************************************************)
EXTENDS Selections

CONSTANTS
  Users, Cards, Threads,
  Terms,         \* the terms a booking may have: until when, or for good
  KeepEntries,   \* journal.keep_entries
  KeepAge,       \* journal.keep_days
  MaxTime,       \* bound: the clock
  MaxCalls,      \* bound: requests in a behaviour
  MaxCrashes,    \* bound: restarts of the manager in a behaviour
  NoOne, NoCard, NoJob

VARIABLES
  book,      \* ReservationBook._items
  saved,     \* the "reservations" section of state.json
  journal,   \* the entries of journal.jsonl, oldest first
  pc, job,   \* where each thread is, and the entry it has to write
  seen,      \* the journal as a thread read it
  untold,    \* history: cards whose last change never came to the journal
  now, calls, crashes

vars == <<book, saved, journal, pc, job, seen, untold, now, calls, crashes>>

Booking == [user : Users, term : Terms, since : 0..MaxTime]

Action == {"reserve", "reserve_update", "release", "release_forced", "other"}

Entry == [ts : 0..MaxTime, user : Users, action : Action, gpu : Cards \cup {NoCard},
          term : Terms \cup {NoOne}]

ASSUME ConstantsAssumption ==
  /\ NoCard \notin Cards /\ NoOne \notin Booking
  /\ KeepEntries \in Nat \ {0} /\ KeepAge \in Nat
  /\ MaxTime \in Nat /\ MaxCalls \in Nat /\ MaxCrashes \in Nat

Goto(t, label) == pc' = [pc EXCEPT ![t] = label]

Call == calls < MaxCalls /\ calls' = calls + 1

\* A thread between its change and its record holds the change lock.
Holds(t) == pc[t] # "idle" /\ job[t].gpu # NoCard

\* Mutant: the change and its record are not kept together.
ChangeUnlocked(t, b, entry) ==
  /\ pc[t] = "idle" /\ Call
  /\ book' = b /\ saved' = b
  /\ Goto(t, "changed") /\ job' = [job EXCEPT ![t] = entry]
  /\ UNCHANGED <<journal, seen, untold, now, crashes>>

\* The change lock is taken, the book changes, the record is still to come.
Change(t, b, entry) ==
  /\ pc[t] = "idle" /\ Call
  /\ \A u \in Threads : ~Holds(u)
  /\ book' = b /\ saved' = b
  /\ Goto(t, "changed") /\ job' = [job EXCEPT ![t] = entry]
  /\ UNCHANGED <<journal, seen, untold, now, crashes>>

-----------------------------------------------------------------------------
\* A card that is free or one's own; since stays, the term is the new one.
Reserve(t) ==
  \E g \in Cards, u \in Users, term \in Terms :
    LET held == book[g] # NoOne
    IN  /\ held => book[g].user = u
        /\ Change(t,
             [book EXCEPT ![g] = [user |-> u, term |-> term,
                                  since |-> IF held THEN book[g].since ELSE now]],
             [ts |-> now, user |-> u, gpu |-> g, term |-> term,
              action |-> IF held THEN "reserve_update" ELSE "reserve"])

\* A booking of one's own, or anyone's with force.
Release(t) ==
  \E g \in Cards, u \in Users, force \in BOOLEAN :
    /\ book[g] # NoOne
    /\ book[g].user = u \/ force
    /\ Change(t,
         [book EXCEPT ![g] = NoOne],
         [ts |-> now, user |-> u, gpu |-> g, term |-> NoOne,
          action |-> IF book[g].user = u THEN "release" ELSE "release_forced"])

\* reserved_by_other, release_needs_force, nothing to release, or state.json
\* cannot be written: nothing changes, and nothing is recorded.
Refused(t) ==
  /\ pc[t] = "idle"
  /\ UNCHANGED vars

\* Models, downloads and prompts record what they did, without that lock.
Other(t) ==
  /\ pc[t] = "idle" /\ Call
  /\ \E u \in Users :
       job' = [job EXCEPT ![t] = [ts |-> now, user |-> u, gpu |-> NoCard, term |-> NoOne,
                                  action |-> "other"]]
  /\ Goto(t, "changed")
  /\ UNCHANGED <<book, saved, journal, seen, untold, now, crashes>>

-----------------------------------------------------------------------------
\* record(): the time stamp first, then the file under the journal's lock.

Stamp(t) ==
  /\ pc[t] = "changed"
  /\ job' = [job EXCEPT ![t].ts = now]
  /\ Goto(t, "stamped")
  /\ UNCHANGED <<book, saved, journal, seen, untold, now, calls, crashes>>

\* Mutant: the journal is read outside its lock.
ReadUnlocked(t) ==
  /\ pc[t] = "stamped"
  /\ seen' = [seen EXCEPT ![t] = journal]
  /\ Goto(t, "read")
  /\ UNCHANGED <<book, saved, journal, job, untold, now, calls, crashes>>

Read(t) ==
  /\ pc[t] = "stamped"
  /\ \A u \in Threads : pc[u] # "read"
  /\ seen' = [seen EXCEPT ![t] = journal]
  /\ Goto(t, "read")
  /\ UNCHANGED <<book, saved, journal, job, untold, now, calls, crashes>>

\* The entries of the last days, and of these the last ones.
Keep(entries) ==
  LET fresh == Selected(entries, {i \in DOMAIN entries : entries[i].ts >= now - KeepAge})
  IN  IF Len(fresh) <= KeepEntries THEN fresh
      ELSE SubSeq(fresh, Len(fresh) - KeepEntries + 1, Len(fresh))

Done(t) ==
  /\ Goto(t, "idle")
  /\ job' = [job EXCEPT ![t] = NoJob]
  /\ seen' = [seen EXCEPT ![t] = <<>>]

\* The journal is rewritten as a whole, atomically.
Record(t) ==
  /\ pc[t] = "read"
  /\ journal' = Keep(Append(seen[t], job[t]))
  /\ untold' = untold \ {job[t].gpu}
  /\ Done(t)
  /\ UNCHANGED <<book, saved, now, calls, crashes>>

\* The journal cannot be written: the caller gets the error, the change stays.
RecordFails(t) ==
  /\ pc[t] = "read"
  /\ untold' = (untold \cup {job[t].gpu}) \ {NoCard}
  /\ Done(t)
  /\ UNCHANGED <<book, saved, journal, now, calls, crashes>>

-----------------------------------------------------------------------------
Tick ==
  /\ now < MaxTime /\ now' = now + 1
  /\ UNCHANGED <<book, saved, journal, pc, job, seen, untold, calls, crashes>>

Crash ==
  /\ crashes < MaxCrashes /\ crashes' = crashes + 1
  /\ book' = saved
  /\ untold' = untold \cup {job[t].gpu : t \in {u \in Threads : Holds(u)}}
  /\ pc' = [t \in Threads |-> "idle"]
  /\ job' = [t \in Threads |-> NoJob]
  /\ seen' = [t \in Threads |-> <<>>]
  /\ UNCHANGED <<saved, journal, now, calls>>

Init ==
  /\ book = [g \in Cards |-> NoOne] /\ saved = book
  /\ journal = <<>>
  /\ pc = [t \in Threads |-> "idle"] /\ job = [t \in Threads |-> NoJob]
  /\ seen = [t \in Threads |-> <<>>]
  /\ untold = {} /\ now = 0 /\ calls = 0 /\ crashes = 0

Work(t) == Stamp(t) \/ Read(t) \/ Record(t) \/ RecordFails(t)

Request(t) == Reserve(t) \/ Release(t) \/ Refused(t) \/ Other(t)

Next == (\E t \in Threads : Request(t) \/ Work(t)) \/ Tick \/ Crash

Spec == Init /\ [][Next]_vars

-----------------------------------------------------------------------------
\* Properties

\* Every variable keeps its type; each lock has at most one holder.
TypeOK ==
  /\ book \in [Cards -> Booking \cup {NoOne}] /\ saved \in [Cards -> Booking \cup {NoOne}]
  /\ journal \in Seq(Entry) /\ Len(journal) <= KeepEntries
  /\ pc \in [Threads -> {"idle", "changed", "stamped", "read"}]
  /\ job \in [Threads -> Entry \cup {NoJob}]
  /\ \A t \in Threads : pc[t] # "idle" => job[t] \in Entry
  /\ \A t, u \in Threads : t # u => /\ ~(Holds(t) /\ Holds(u))
                                   /\ ~(pc[t] = "read" /\ pc[u] = "read")
  /\ seen \in [Threads -> Seq(Entry)]
  /\ untold \subseteq Cards
  /\ now \in 0..MaxTime /\ calls \in Nat /\ crashes \in Nat

\* An entry of the last change of card g tells who holds it now.
Explains(e, g) ==
  IF e.action \in {"release", "release_forced"} THEN book[g] = NoOne
  ELSE /\ book[g] # NoOne
       /\ book[g].user = e.user /\ book[g].term = e.term
       /\ book[g].since <= e.ts

LastAbout(i, g) ==
  journal[i].gpu = g /\ \A j \in DOMAIN journal : i < j => journal[j].gpu # g

\* The journal explains the cards: unless the record of a card's last change is
\* still to come or was lost, its last entry names the holder and the term
\* (core.py, _change_lock; SPEC-GPU-001: the entries follow the changes).
JournalExplains ==
  \A g \in Cards, i \in DOMAIN journal :
    g \notin untold /\ (\A t \in Threads : Holds(t) => job[t].gpu # g) /\ LastAbout(i, g)
      => Explains(journal[i], g)

\* No entry leaves the journal before its time: it is too old, or KeepEntries
\* others follow it, whoever writes at the same moment (journal.py, record).
EntriesAreKept ==
  [][\A i \in DOMAIN journal :
       \/ \E j \in DOMAIN journal' : journal'[j] = journal[i]
       \/ journal[i].ts < now - KeepAge
       \/ Len(journal) - i + 1 >= KeepEntries]_vars
=============================================================================
