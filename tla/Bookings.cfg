\* Two requests at a time about two cards, the journal at its limits.
CONSTANTS
  Users = {u, v}
  Cards = {g, h}
  Threads = {t1, t2}
  Terms = {short, long}
  KeepEntries = 2
  KeepAge = 1
  MaxTime = 2
  MaxCalls = 4
  MaxCrashes = 1
  NoOne = NoOne
  NoCard = NoCard
  NoJob = NoJob
SPECIFICATION Spec
SYMMETRY Symmetry
INVARIANTS TypeOK JournalExplains
PROPERTIES EntriesAreKept
