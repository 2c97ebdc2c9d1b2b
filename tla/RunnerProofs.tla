---------------------------- MODULE RunnerProofs ----------------------------
(***************************************************************************)
(* Theorems about ModelRunner (Runner.tla), for every set of names, cards, *)
(* ports and threads and every bound.                                      *)
(***************************************************************************)
EXTENDS Runner, OperatorProofs

\* The state of types that the steps preserve: the types, and that restore()
\* is alone, without which it could launch a model that is no longer there.
TypeInv == TypeOK /\ RestoreAlone

-----------------------------------------------------------------------------
\* Lemmas about the helpers

\* The sum of shares of a card is a number.
LEMMA UsedShareType ==
  ASSUME NEW its \in [Names -> Server \cup {NoServer}], NEW g, NEW except
  PROVE  UsedShare(its, g, except) \in Nat
<1> DEFINE shares == [m \in Names |-> IF m # except /\ Wanted(its, m)
                                      THEN IF its[m].gpu = g THEN its[m].frac ELSE 0
                                      ELSE 0]
<1>1. shares \in [Names -> 0..Full]
  <2>1. SUFFICES ASSUME NEW m \in Names
                 PROVE  shares[m] \in 0..Full
    OBVIOUS
  <2>2. CASE Wanted(its, m)
    <3>1. its[m] \in Server
      BY <2>2 DEF Wanted
    <3>2. its[m].frac \in 0..Full
      BY <3>1 DEF Server, Full
    <3>3. QED  BY <3>2 DEF Full
  <2>3. CASE ~Wanted(its, m)
    BY <2>3 DEF Full
  <2>4. QED  BY <2>2, <2>3
<1>2. Total(shares) \in Nat
  <2> HIDE DEF shares
  <2>1. IsFiniteSet(Names)
    BY ConstantsAssumption DEF ConstantsAssumption
  <2>2. QED  BY <1>1, <2>1, HundredthsFinite
<1>3. QED  BY <1>2 DEF UsedShare

\* A granted share is a share.
LEMMA GrantedIsShare ==
  ASSUME TypeOK, NEW g \in Cards, NEW ask \in 0..Full, NEW f \in GrantedShares(g, ask)
  PROVE  f \in 1..Full
<1> DEFINE used == UsedShare(items, g, NoServer)
<1>1. used \in Nat
  BY UsedShareType DEF TypeOK
<1>2. CASE ask = NoShare
  <2>1. PICK c \in Ceilings, m \in MemFree :
          f = Lesser(c, FreeShare(m, used, DefaultFraction)) /\ f >= MinFraction
    BY <1>2 DEF GrantedShares
  <2>2. m \in 0..Full /\ c \in 1..Full /\ DefaultFraction \in 0..Full
    BY ConstantsAssumption DEF ConstantsAssumption, Full
  <2>3. FreeShare(m, used, DefaultFraction) \in 0..Full
    BY <1>1, <2>2, FreeShareBounds
  <2>4. QED  BY <2>1, <2>2, <2>3 DEF Lesser, MinFraction, Full
<1>3. CASE ask # NoShare
  BY <1>3 DEF GrantedShares, NoShare, Full
<1>4. QED  BY <1>2, <1>3

\* A fixed share is a share, and attempts are left.
LEMMA FixedIsShare ==
  ASSUME TypeOK, NEW n \in WantedNames(items), NEW error, NEW f \in FixedShares(n, error)
  PROVE  f \in 1..Full /\ items[n].attempts < MaxAttempts
<1> DEFINE old == items[n].frac
           free(m) == FreeShare(m, UsedShare(items, items[n].gpu, n), DefaultFraction)
<1>1. items[n] \in Server
  BY DEF TypeOK, WantedNames, Wanted
<1>2. old \in 1..Full /\ items[n].attempts \in 1..MaxAttempts
  BY <1>1 DEF Server
<1>4. items[n].attempts < MaxAttempts /\ f # NoShare
  BY DEF FixedShares
<1>5. \/ f = LowerFraction(old)
      \/ f = old
      \/ \E m \in MemFree : f = BiggerFraction(old, free(m))
  BY DEF FixedShares
<1>6. ASSUME NEW m \in MemFree
      PROVE  BiggerFraction(old, free(m)) \in 0..Full
  <2>1. m \in 0..Full /\ DefaultFraction \in 0..Full
    BY ConstantsAssumption DEF ConstantsAssumption, Full
  <2>2. UsedShare(items, items[n].gpu, n) \in Nat
    BY UsedShareType DEF TypeOK
  <2>3. free(m) \in 0..Full
    BY <2>1, <2>2, FreeShareBounds
  <2>4. QED  BY <1>2, <2>3, BiggerBounds
<1>7. f \in 1..Full
  BY <1>2, <1>4, <1>5, <1>6, LowerIsShare DEF NoShare, Full
<1>8. QED  BY <1>4, <1>7
-----------------------------------------------------------------------------
\* Type correctness

\* A start that is recorded keeps the types.
LEMMA RecordStartTypes ==
  ASSUME TypeInv, mode = "serving",
         NEW t \in Threads, NEW n \in Names, NEW spot \in Spot, NEW ask \in 0..Full,
         NEW leg \in {"call", "go", "back"}, NEW from \in Spot \cup {NoPlace},
         leg # "call" => from \in Spot,
         RecordStart(t, n, spot, ask, leg, from),
         UNCHANGED <<unit, bootVars, pollVars, stopped>>, calls' \in Nat
  PROVE  TypeInv'
<1>1. PICK f \in GrantedShares(spot.gpu, ask) :
        items' = [items EXCEPT ![n] =
                    [id |-> clock, started |-> clock, gpu |-> spot.gpu, port |-> spot.port,
                     frac |-> f, explicit |-> ask # NoShare, status |-> "starting",
                     want |-> TRUE, attempts |-> 1]]
  BY DEF RecordStart
<1>2. spot.gpu \in Cards /\ spot.port \in Ports
  BY DEF Spot
<1>3. f \in 1..Full
  BY <1>1, <1>2, GrantedIsShare DEF TypeInv
<1>4. clock \in Nat \ {0} /\ 1 \in 1..MaxAttempts
  BY ConstantsAssumption DEF ConstantsAssumption, TypeInv, TypeOK
<1>5. items' \in [Names -> Server \cup {NoServer}]
  BY <1>1, <1>2, <1>3, <1>4 DEF TypeInv, TypeOK, Server, Status, Live
<1>6. saved' = items' /\ clock' = clock + 1
      /\ pc' = [pc EXCEPT ![t] = "launch"]
      /\ job' = [job EXCEPT ![t] = [name |-> n, id |-> clock, to |-> spot, from |-> from,
                                    ask |-> ask, leg |-> leg, dismiss |-> FALSE]]
  BY DEF RecordStart, Stamp
<1>7. [name |-> n, id |-> clock, to |-> spot, from |-> from,
       ask |-> ask, leg |-> leg, dismiss |-> FALSE] \in Job
  BY <1>4 DEF Job
<1>8. TypeOK'
  <2>1. job' \in [Threads -> Job \cup {NoJob}] /\ pc' \in [Threads -> ThreadLabels]
    BY <1>6, <1>7 DEF TypeInv, TypeOK, ThreadLabels
  <2>2. \A u \in Threads :
          /\ pc'[u] # "idle" => job'[u] \in Job
          /\ pc'[u] = "launch" => job'[u].to \in Spot
          /\ pc'[u] \in {"moveCheck", "moveStop", "moveGo", "moveBack"} => job'[u].leg = "go"
          /\ pc'[u] # "idle" /\ job'[u].leg # "call" => job'[u].to \in Spot /\ job'[u].from \in Spot
    BY <1>6, <1>7 DEF TypeInv, TypeOK
  <2>3. clock' \in Nat \ {0}
    BY <1>4, <1>6
  <2>4. QED  BY <1>5, <1>6, <2>1, <2>2, <2>3 DEF TypeInv, TypeOK, bootVars, pollVars
<1>9. QED  BY <1>8 DEF TypeInv, RestoreAlone, bootVars

\* So does a stop that is recorded.
LEMMA RecordStopTypes ==
  ASSUME TypeInv, mode = "serving",
         NEW t \in Threads, NEW n \in Names, NEW to \in Spot \cup {NoPlace},
         NEW from \in Spot \cup {NoPlace}, NEW ask \in 0..Full, NEW leg \in {"call", "go"},
         leg # "call" => to \in Spot /\ from \in Spot,
         RecordStop(t, n, to, from, ask, leg),
         UNCHANGED <<unit, bootVars, pollVars, clock, stopped>>, calls' \in Nat
  PROVE  TypeInv'
<1>1. items[n] \in Server
  BY DEF RecordStop, Stoppable, TypeInv, TypeOK
<1>2. items' \in [Names -> Server \cup {NoServer}]
  BY <1>1 DEF RecordStop, TypeInv, TypeOK, Server, Status, Live
<1>3. [name |-> n, id |-> items[n].id, to |-> to, from |-> from,
       ask |-> ask, leg |-> leg, dismiss |-> ~items[n].want] \in Job
  BY <1>1 DEF Job, Server
<1>4. TypeOK'
  BY <1>2, <1>3 DEF RecordStop, TypeInv, TypeOK, bootVars, pollVars, ThreadLabels
<1>5. QED  BY <1>4 DEF TypeInv, RestoreAlone, bootVars

\* The initial states are of their types.
LEMMA InitTypes == Init => TypeInv
<1>1. SUFFICES ASSUME Init PROVE TypeInv
  OBVIOUS
<1>2. saved \in [Names -> Server \cup {NoServer}]
  BY <1>1, FilesAssumption DEF FilesAssumption, Init, LegalFile
<1>3. unit \in [Names -> Unit \cup {NoUnit}]
  BY <1>1 DEF Init, Unit
<1>4. QED
  BY <1>1, <1>2, <1>3 DEF Init, TypeInv, TypeOK, RestoreAlone, ThreadLabels, PollLabels, WantedNames

\* Every step keeps the types.
LEMMA StepTypes == TypeInv /\ [Next]_vars => TypeInv'
<1> SUFFICES ASSUME TypeInv, [Next]_vars PROVE TypeInv'
  OBVIOUS
<1> USE DEF TypeInv, TypeOK, RestoreAlone
<1>1. ASSUME NEW t \in Threads, BeginStart(t)
      PROVE  TypeInv'
  <2>1. PICK n \in Names, spot \in Spot, ask \in Asks :
          RecordStart(t, n, spot, ask, "call", NoPlace)
    BY <1>1 DEF BeginStart
  <2>2. ask \in 0..Full
    BY ConstantsAssumption DEF ConstantsAssumption
  <2>3. mode = "serving" /\ calls' \in Nat /\ UNCHANGED <<unit, bootVars, pollVars, stopped>>
    BY <1>1 DEF BeginStart, Call
  <2> HIDE DEF TypeInv, TypeOK, RestoreAlone
  <2>4. QED  BY <2>1, <2>2, <2>3, RecordStartTypes
<1>2. ASSUME NEW t \in Threads, Launch(t)
      PROVE  TypeInv'
  <2>1. job[t] \in Job /\ job[t].name \in Names /\ job[t].to.port \in Ports
    BY <1>2 DEF Launch, Job, Spot
  <2>2. unit' \in [Names -> Unit \cup {NoUnit}]
    <3>1. \/ UNCHANGED unit
          \/ unit' = [unit EXCEPT ![job[t].name] = [port |-> job[t].to.port, up |-> FALSE]]
      BY <1>2 DEF Launch
    <3>2. [port |-> job[t].to.port, up |-> FALSE] \in Unit
      BY <2>1 DEF Unit
    <3>3. QED  BY <2>1, <3>1, <3>2
  <2>3. pc' = [pc EXCEPT ![t] = "check"] \/ pc' = [pc EXCEPT ![t] = "undo"]
    BY <1>2 DEF Launch, Goto
  <2>4. QED  BY <1>2, <2>1, <2>2, <2>3 DEF Launch, Goto, ThreadLabels, bootVars, pollVars
<1>3. ASSUME NEW t \in Threads, Undo(t)
      PROVE  TypeInv'
  BY <1>3 DEF Undo, Goto, Return, ThreadLabels, bootVars, pollVars, threadVars
<1>4. ASSUME NEW t \in Threads, CheckWanted(t)
      PROVE  TypeInv'
  BY <1>4 DEF CheckWanted, Goto, Return, ThreadLabels, bootVars, pollVars, threadVars
<1>5. ASSUME NEW t \in Threads, Kill(t)
      PROVE  TypeInv'
  BY <1>5 DEF Kill, KillUnit, Return, ThreadLabels, bootVars, pollVars, threadVars
<1>6. ASSUME NEW t \in Threads, BeginStop(t)
      PROVE  TypeInv'
  <2>1. PICK n \in Names : RecordStop(t, n, NoPlace, NoPlace, NoShare, "call")
    BY <1>6 DEF BeginStop
  <2>2. mode = "serving" /\ calls' \in Nat /\ UNCHANGED <<unit, bootVars, pollVars, clock, stopped>>
    BY <1>6 DEF BeginStop, Call
  <2>3. NoShare \in 0..Full
    BY DEF NoShare, Full
  <2> HIDE DEF TypeInv, TypeOK, RestoreAlone
  <2>4. QED  BY <2>1, <2>2, <2>3, RecordStopTypes
<1>7. ASSUME NEW t \in Threads, StopUnit(t)
      PROVE  TypeInv'
  BY <1>7 DEF StopUnit, Stopped, Goto, Return, Job, ThreadLabels, bootVars, pollVars, threadVars
<1>8. ASSUME NEW t \in Threads, StopUnitFails(t)
      PROVE  TypeInv'
  BY <1>8 DEF StopUnitFails, Stopped, Goto, Return, Job, ThreadLabels, bootVars, pollVars, threadVars
<1>9. ASSUME NEW t \in Threads, Revive(t)
      PROVE  TypeInv'
  <2>1. job[t] \in Job /\ job[t].name \in Names
    BY <1>9 DEF Revive, Job
  <2>2. items' \in [Names -> Server \cup {NoServer}]
    <3>1. CASE items' = items
      BY <3>1
    <3>2. CASE items' # items
      <4>1. /\ items[job[t].name] # NoServer
            /\ items' = [items EXCEPT ![job[t].name].want = TRUE, ![job[t].name].status = "starting"]
        BY <1>9, <3>2 DEF Revive
      <4>2. items[job[t].name] \in Server
        BY <2>1, <4>1
      <4>3. QED  BY <2>1, <4>1, <4>2 DEF Server, Status, Live
    <3>3. QED  BY <3>1, <3>2
  <2>3. QED  BY <1>9, <2>2 DEF Revive, Return, ThreadLabels, bootVars, pollVars
<1>10. ASSUME NEW t \in Threads, BeginMove(t)
      PROVE  TypeInv'
  BY <1>10 DEF BeginMove, Call, WantedNames, Wanted, Server, Job, Spot, ThreadLabels, Full, NoShare, bootVars, pollVars, threadVars
<1>11. ASSUME NEW t \in Threads, MoveCheck(t)
      PROVE  TypeInv'
  BY <1>11 DEF MoveCheck, Goto, Return, ThreadLabels, bootVars, pollVars, threadVars
<1>12. ASSUME NEW t \in Threads, MoveStop(t)
      PROVE  TypeInv'
  <2>1. job[t] \in Job /\ job[t].leg = "go" /\ job[t].to \in Spot /\ job[t].from \in Spot
    BY <1>12 DEF MoveStop
  <2>2. job[t].name \in Names /\ job[t].ask \in 0..Full
    BY <2>1 DEF Job
  <2>3. /\ mode = "serving" /\ calls' \in Nat
        /\ RecordStop(t, job[t].name, job[t].to, job[t].from, job[t].ask, "go")
        /\ UNCHANGED <<unit, bootVars, pollVars, clock, stopped>>
    BY <1>12 DEF MoveStop
  <2> HIDE DEF TypeInv, TypeOK, RestoreAlone
  <2>4. QED  BY <2>1, <2>2, <2>3, RecordStopTypes
<1>13. ASSUME NEW t \in Threads, MoveStopRefused(t)
      PROVE  TypeInv'
  BY <1>13 DEF MoveStopRefused, Return, ThreadLabels, bootVars, pollVars, threadVars
<1>14. ASSUME NEW t \in Threads, MoveGo(t)
      PROVE  TypeInv'
  <2>1. job[t] \in Job /\ job[t].leg = "go" /\ job[t].to \in Spot /\ job[t].from \in Spot
    BY <1>14 DEF MoveGo
  <2>2. job[t].name \in Names /\ job[t].ask \in 0..Full
    BY <2>1 DEF Job
  <2>3. /\ mode = "serving" /\ calls' \in Nat
        /\ RecordStart(t, job[t].name, job[t].to, job[t].ask, "go", job[t].from)
        /\ UNCHANGED <<unit, bootVars, pollVars, stopped>>
    BY <1>14 DEF MoveGo
  <2> HIDE DEF TypeInv, TypeOK, RestoreAlone
  <2>4. QED  BY <2>1, <2>2, <2>3, RecordStartTypes
<1>15. ASSUME NEW t \in Threads, MoveBack(t)
      PROVE  TypeInv'
  <2>1. job[t] \in Job /\ job[t].leg = "go" /\ job[t].to \in Spot /\ job[t].from \in Spot
    BY <1>15 DEF MoveBack
  <2>2. job[t].name \in Names /\ job[t].ask \in 0..Full
    BY <2>1 DEF Job
  <2>3. /\ mode = "serving" /\ calls' \in Nat
        /\ RecordStart(t, job[t].name, job[t].from, job[t].ask, "back", job[t].from)
        /\ UNCHANGED <<unit, bootVars, pollVars, stopped>>
    BY <1>15 DEF MoveBack
  <2> HIDE DEF TypeInv, TypeOK, RestoreAlone
  <2>4. QED  BY <2>1, <2>2, <2>3, RecordStartTypes
<1>16. ASSUME NEW t \in Threads, MoveStartRefused(t)
      PROVE  TypeInv'
  BY <1>16 DEF MoveStartRefused, Goto, Return, ThreadLabels, bootVars, pollVars, threadVars
<1>17. ASSUME PollSnapshot
      PROVE  TypeInv'
  BY <1>17 DEF PollSnapshot, WantedNames, Wanted, Server, Watch, PollLabels, bootVars, pollVars, threadVars
<1>18. ASSUME PollUnknown
      PROVE  TypeInv'
  BY <1>18 DEF PollUnknown, PollLabels, bootVars, pollVars, threadVars
<1>19. ASSUME NEW n \in Names, PollActive(n)
      PROVE  TypeInv'
  BY <1>19 DEF PollActive, PollLabels, Watch, bootVars, pollVars, threadVars
<1>20. ASSUME PollDrop
      PROVE  TypeInv'
  BY <1>20 DEF PollDrop, PollDone, PollLabels, bootVars, pollVars, threadVars
<1>21. ASSUME PollGiveUp
      PROVE  TypeInv'
  BY <1>21 DEF PollGiveUp, PollDone, Current, Wanted, Watch, Server, Status, Live, PollLabels, bootVars, pollVars, threadVars
<1>22. ASSUME PollRetry
      PROVE  TypeInv'
  <2>1. cur \in Watch /\ cur.name \in WantedNames(items)
    BY <1>22 DEF PollRetry, Current, Watch, WantedNames
  <2>2. PICK error \in Errors : \E f \in FixedShares(cur.name, error) :
          items' = [items EXCEPT ![cur.name].frac = f, ![cur.name].status = "starting",
                                 ![cur.name].started = clock, ![cur.name].attempts = @ + 1]
    BY <1>22 DEF PollRetry
  <2>3. PICK f \in FixedShares(cur.name, error) :
          items' = [items EXCEPT ![cur.name].frac = f, ![cur.name].status = "starting",
                                 ![cur.name].started = clock, ![cur.name].attempts = @ + 1]
    BY <2>2
  <2>4. f \in 1..Full /\ items[cur.name].attempts < MaxAttempts
    <3> HIDE DEF TypeOK
    <3>1. QED  BY <2>1, FixedIsShare
  <2>5. items[cur.name] \in Server /\ items[cur.name].attempts + 1 \in 1..MaxAttempts
    BY <2>1, <2>4, ConstantsAssumption DEF WantedNames, Wanted, Server, ConstantsAssumption
  <2>6. items' \in [Names -> Server \cup {NoServer}]
    BY <2>1, <2>3, <2>4, <2>5 DEF WantedNames, Server, Status, Live
  <2>7. cur' \in Watch /\ ppc' = "relaunch" /\ clock' = clock + 1
    BY <1>22, <2>1 DEF PollRetry, Watch, Stamp
  <2>8. QED  BY <1>22, <2>6, <2>7 DEF PollRetry, threadVars, bootVars, PollLabels
<1>23. ASSUME PollRelaunch
      PROVE  TypeInv'
  <2>1. cur \in Watch /\ cur.name \in Names /\ cur.port \in Ports
    BY <1>23 DEF PollRelaunch, Watch
  <2>2. unit' \in [Names -> Unit \cup {NoUnit}]
    <3>1. \/ UNCHANGED unit
          \/ unit' = [unit EXCEPT ![cur.name] = [port |-> cur.port, up |-> FALSE]]
      BY <1>23 DEF PollRelaunch
    <3>2. [port |-> cur.port, up |-> FALSE] \in Unit
      BY <2>1 DEF Unit
    <3>3. QED  BY <2>1, <3>1, <3>2
  <2>3. QED  BY <1>23, <2>1, <2>2 DEF PollRelaunch, PollLabels, threadVars, bootVars
<1>24. ASSUME PollRelaunchFailed
      PROVE  TypeInv'
  BY <1>24 DEF PollRelaunchFailed, PollDone, Current, Wanted, Watch, Server, Status, Live, PollLabels, bootVars, pollVars, threadVars
<1>25. ASSUME PollRecheck
      PROVE  TypeInv'
  BY <1>25 DEF PollRecheck, PollDone, PollLabels, bootVars, pollVars, threadVars
<1>26. ASSUME PollKill
      PROVE  TypeInv'
  BY <1>26 DEF PollKill, PollDone, KillUnit, PollLabels, bootVars, pollVars, threadVars
<1>27. ASSUME PollProbe
      PROVE  TypeInv'
  BY <1>27 DEF PollProbe, PollLabels, bootVars, pollVars, threadVars
<1>28. ASSUME PollHealthy
      PROVE  TypeInv'
  BY <1>28 DEF PollHealthy, PollDone, Current, Wanted, Watch, Server, Status, Live, PollLabels, bootVars, pollVars, threadVars
<1>29. ASSUME PollUnhealthy
      PROVE  TypeInv'
  BY <1>29 DEF PollUnhealthy, PollDone, PollLabels, bootVars, pollVars, threadVars
<1>30. ASSUME NEW n \in Names, PollTimeout(n)
      PROVE  TypeInv'
  BY <1>30 DEF PollTimeout, Current, Wanted, Server, Status, Live, PollLabels, bootVars, pollVars, threadVars
<1>31. ASSUME NEW n \in Names, RestoreOne(n)
      PROVE  TypeInv'
  <2>1. mode = "restore" /\ Wanted(items, n) /\ items[n] \in Server
    BY <1>31 DEF RestoreOne, WantedNames, Wanted
  <2>2. /\ items' \in [Names -> Server \cup {NoServer}]
        /\ \A m \in Names \ {n} : items'[m] = items[m]
    BY <1>31, <2>1 DEF RestoreOne, Server, Status, Live
  <2>3. unit' \in [Names -> Unit \cup {NoUnit}] /\ clock' \in Nat \ {0}
    <3>1. \/ UNCHANGED unit
          \/ unit' = [unit EXCEPT ![n] = [port |-> items[n].port, up |-> FALSE]]
      BY <1>31 DEF RestoreOne
    <3>2. [port |-> items[n].port, up |-> FALSE] \in Unit
      BY <2>1 DEF Unit, Server
    <3>3. clock' \in Nat \ {0}
      BY <1>31 DEF RestoreOne, Stamp
    <3>4. QED  BY <3>1, <3>2, <3>3
  <2>4. waiting' \subseteq WantedNames(items)'
    BY <1>31, <2>1, <2>2 DEF RestoreOne, WantedNames, Wanted
  <2>5. QED  BY <1>31, <2>2, <2>3, <2>4 DEF RestoreOne, threadVars, pollVars
<1>32. ASSUME RestoreEnd
      PROVE  TypeInv'
  BY <1>32 DEF RestoreEnd, WantedNames, bootVars, pollVars, threadVars
<1>33. ASSUME NEW n \in Names, UnitUp(n)
      PROVE  TypeInv'
  BY <1>33 DEF UnitUp, Unit, bootVars, pollVars, threadVars
<1>34. ASSUME NEW n \in Names, UnitDies(n)
      PROVE  TypeInv'
  BY <1>34 DEF UnitDies, bootVars, pollVars, threadVars
<1>35. ASSUME Crash
      PROVE  TypeInv'
  BY <1>35 DEF Crash, WantedNames, Wanted, ThreadLabels, PollLabels, bootVars, pollVars, threadVars
<1>36. CASE UNCHANGED vars
  BY <1>36 DEF vars, WantedNames, Wanted
<1>37. QED
  <2>1. SUFFICES ASSUME Next PROVE TypeInv'
    BY <1>36
  <2>2. CASE \E t \in Threads : Request(t) \/ Work(t)
    BY <1>1, <1>2, <1>3, <1>4, <1>5, <1>6, <1>7, <1>8, <1>9, <1>10, <1>11, <1>12, <1>13, <1>14,
       <1>15, <1>16, <2>2 DEF Request, Work
  <2>3. CASE Poll
    BY <1>17, <1>18, <1>19, <1>20, <1>21, <1>22, <1>23, <1>24, <1>25, <1>26, <1>27, <1>28, <1>29,
       <1>30, <2>3 DEF Poll
  <2>4. CASE Restore \/ World
    BY <1>31, <1>32, <1>33, <1>34, <1>35, <2>4 DEF Restore, World
  <2>5. QED  BY <2>1, <2>2, <2>3, <2>4 DEF Next
\* Every variable of ModelRunner keeps its type in every reachable state.
THEOREM TypeCorrect == Spec => []TypeOK
<1>1. Init => TypeInv
  BY InitTypes
<1>2. TypeInv /\ [Next]_vars => TypeInv'
  BY StepTypes
<1>3. TypeInv => TypeOK
  BY DEF TypeInv
<1>4. QED  BY <1>1, <1>2, <1>3, PTL DEF Spec

\* In every reachable state a restore is alone.
THEOREM RestoreIsAlone == Spec => []TypeInv
  BY InitTypes, StepTypes, PTL DEF Spec

-----------------------------------------------------------------------------
\* What a step does to the records

\* A new record takes a free name, a free port and a granted share.
Taken(n) ==
  /\ ~Wanted(items, n)
  /\ \E r \in Server, ask \in 0..Full :
       /\ r.want /\ r.status \in Live
       /\ r.id = clock /\ r.started = clock /\ clock' = clock + 1
       /\ r.port \notin TakenPorts
       /\ r.frac \in GrantedShares(r.gpu, ask)
       /\ \E t \in Threads : pc'[t] = "launch" /\ job'[t].name = n /\ job'[t].to.port = r.port
       /\ items' = [items EXCEPT ![n] = r]

\* An active record stays active at its place, with its share.
Kept(n) ==
  /\ Wanted(items, n)
  /\ \E r \in Server :
       /\ r.want /\ r.status \in Live /\ r.id = items[n].id
       /\ r.started = items[n].started \/ (r.started = clock /\ clock' = clock + 1)
       /\ r.gpu = items[n].gpu /\ r.port = items[n].port /\ r.frac = items[n].frac
       /\ items' = [items EXCEPT ![n] = r]

\* It stays active at its place with a share fixed for a retry.
Resized(n) ==
  /\ Wanted(items, n)
  /\ \E r \in Server, error \in Errors :
       /\ r.want /\ r.status \in Live /\ r.id = items[n].id
       /\ r.started = clock /\ clock' = clock + 1
       /\ r.gpu = items[n].gpu /\ r.port = items[n].port
       /\ r.frac \in FixedShares(n, error)
       /\ items' = [items EXCEPT ![n] = r]

\* A record is dropped or is active no more.
Given(n) ==
  \/ items' = [items EXCEPT ![n] = NoServer]
  \/ /\ Wanted(items, n)
     /\ \E r \in Server : /\ ~r.want /\ r.status \notin Live /\ r.id = items[n].id
                          /\ r.started = items[n].started \/ (r.started = clock /\ clock' = clock + 1)
                          /\ items' = [items EXCEPT ![n] = r]

\* A record whose stop failed is active again.
Revived(n) ==
  /\ items[n] # NoServer
  /\ \E t \in Threads : /\ pc[t] = "revive" /\ job[t].name = n /\ job[t].id = items[n].id
                        /\ pc' = [pc EXCEPT ![t] = "idle"] /\ clock' = clock
  /\ items' = [items EXCEPT ![n].want = TRUE, ![n].status = "starting"]

RecordsStep ==
  \/ UNCHANGED items
  \/ crashes < MaxCrashes /\ items' = saved /\ mode' = "restore"
  \/ \E n \in Names : Taken(n) \/ Kept(n) \/ Resized(n) \/ Given(n) \/ Revived(n)

\* state.json follows the memory in the same step while requests are served,
\* and once more at the end of restore(), which keeps or gives up records; after
\* a crash the memory follows state.json.
FileStep ==
  \/ mode = "serving" /\ mode' = "serving" /\ (saved' = items' \/ UNCHANGED <<items, saved>>)
  \/ /\ mode = "restore" /\ mode' = "restore" /\ UNCHANGED saved
     /\ UNCHANGED items \/ \E n \in Names : Kept(n) \/ Given(n)
  \/ mode = "restore" /\ mode' = "serving" /\ UNCHANGED items /\ saved' = items
  \/ crashes < MaxCrashes /\ mode' = "restore" /\ UNCHANGED saved /\ items' = saved

RecordStep == RecordsStep /\ FileStep

\* The part of a start under the lock takes a place.
LEMMA RecordStartTakes ==
  ASSUME TypeInv, NEW t \in Threads, NEW n \in Names, NEW spot \in Spot, NEW ask \in 0..Full,
         NEW leg, NEW from, RecordStart(t, n, spot, ask, leg, from)
  PROVE  Taken(n) /\ saved' = items'
<1>1. PICK f \in GrantedShares(spot.gpu, ask) :
        items' = [items EXCEPT ![n] =
                    [id |-> clock, started |-> clock, gpu |-> spot.gpu, port |-> spot.port,
                     frac |-> f, explicit |-> ask # NoShare, status |-> "starting",
                     want |-> TRUE, attempts |-> 1]]
  BY DEF RecordStart
<1> DEFINE r == [id |-> clock, started |-> clock, gpu |-> spot.gpu, port |-> spot.port,
                 frac |-> f, explicit |-> ask # NoShare, status |-> "starting",
                 want |-> TRUE, attempts |-> 1]
<1>2. spot.gpu \in Cards /\ spot.port \in Ports
  BY DEF Spot
<1>3. f \in 1..Full
  BY <1>1, <1>2, GrantedIsShare DEF TypeInv
<1>4. r \in Server
  BY <1>2, <1>3, ConstantsAssumption DEF Server, Status, Live, ConstantsAssumption, TypeInv, TypeOK
<1>5. /\ r.want /\ r.status \in Live /\ r.id = clock /\ r.started = clock
      /\ r.port = spot.port /\ r.gpu = spot.gpu /\ r.frac = f
      /\ items' = [items EXCEPT ![n] = r]
  BY <1>1 DEF Live
<1>6. /\ ~Wanted(items, n) /\ spot.port \notin TakenPorts
      /\ clock' = clock + 1 /\ saved' = items'
  BY DEF RecordStart, Stamp
<1>7. pc'[t] = "launch" /\ job'[t].name = n /\ job'[t].to.port = spot.port
  BY DEF RecordStart, TypeInv, TypeOK
<1> HIDE DEF r
<1>8. \E u \in Threads : pc'[u] = "launch" /\ job'[u].name = n /\ job'[u].to.port = r.port
  BY <1>5, <1>7
<1>9. r.frac \in GrantedShares(r.gpu, ask) /\ r.port \notin TakenPorts
  BY <1>1, <1>5, <1>6
<1>10. QED  BY <1>4, <1>5, <1>6, <1>8, <1>9 DEF Taken

\* The part of a stop under the lock gives the place back.
LEMMA RecordStopGives ==
  ASSUME TypeInv, NEW t \in Threads, NEW n \in Names, NEW to, NEW from, NEW ask, NEW leg,
         RecordStop(t, n, to, from, ask, leg)
  PROVE  Given(n) /\ saved' = items'
<1>1. items[n] \in Server /\ saved' = items'
  BY DEF RecordStop, Stoppable, TypeInv, TypeOK
<1>2. CASE items[n].want
  <2> DEFINE r == [items[n] EXCEPT !.want = FALSE, !.status = "stopped"]
  <2>1. /\ r \in Server /\ ~r.want /\ r.status \notin Live /\ r.id = items[n].id
        /\ r.started = items[n].started
    BY <1>1 DEF Server, Status, Live
  <2>2. items' = [items EXCEPT ![n] = r]
    BY <1>1, <1>2 DEF RecordStop, TypeInv, TypeOK
  <2>3. QED  BY <1>1, <1>2, <2>1, <2>2 DEF Given, Wanted, RecordStop, Stoppable
<1>3. CASE ~items[n].want
  BY <1>1, <1>3 DEF RecordStop, Given
<1>4. QED  BY <1>2, <1>3

\* A verdict of the poll loop changes the status of the record it looked at.
LEMMA StatusKept ==
  ASSUME TypeInv, NEW n \in WantedNames(items), NEW status \in Live,
         items' = [items EXCEPT ![n].status = status]
  PROVE  Kept(n)
<1> DEFINE r == [items[n] EXCEPT !.status = status]
<1>1. items[n] \in Server /\ n \in Names /\ items[n].want
  BY DEF WantedNames, Wanted, TypeInv, TypeOK
<1>2. /\ r \in Server /\ r.want /\ r.status \in Live /\ r.id = items[n].id
      /\ r.started = items[n].started
      /\ r.gpu = items[n].gpu /\ r.port = items[n].port /\ r.frac = items[n].frac
  BY <1>1 DEF Server, Status
<1>3. items' = [items EXCEPT ![n] = r]
  BY <1>1 DEF TypeInv, TypeOK
<1> HIDE DEF r
<1>4. QED  BY <1>2, <1>3 DEF Kept, WantedNames

LEMMA FailureGives ==
  ASSUME TypeInv, NEW n \in WantedNames(items),
         items' = [items EXCEPT ![n].status = "failed", ![n].want = FALSE]
  PROVE  Given(n)
<1> DEFINE r == [items[n] EXCEPT !.status = "failed", !.want = FALSE]
<1>1. items[n] \in Server /\ n \in Names /\ Wanted(items, n)
  BY DEF WantedNames, Wanted, TypeInv, TypeOK
<1>2. /\ r \in Server /\ ~r.want /\ r.status \notin Live /\ r.id = items[n].id
      /\ r.started = items[n].started
  BY <1>1 DEF Server, Status, Live
<1>3. items' = [items EXCEPT ![n] = r]
  BY <1>1 DEF TypeInv, TypeOK
<1> HIDE DEF r
<1>4. QED  BY <1>1, <1>2, <1>3 DEF Given

\* Every step changes the records in one of these ways, and the file with them.
LEMMA StepRecords == TypeInv /\ [Next]_vars => RecordStep
<1> SUFFICES ASSUME TypeInv, [Next]_vars PROVE RecordStep
  OBVIOUS
<1>1. ASSUME NEW t \in Threads, pc[t] # "idle"
      PROVE  mode = "serving"
  BY <1>1 DEF TypeInv, TypeOK, RestoreAlone
<1>2. ASSUME ppc # "pick"
      PROVE  mode = "serving" /\ cur \in Watch /\ cur.name \in Names
  BY <1>2 DEF TypeInv, TypeOK, RestoreAlone, Watch
<1>3. ASSUME NEW t \in Threads, BeginStart(t)
      PROVE  RecordStep
  <2>1. PICK n \in Names, spot \in Spot, ask \in Asks : RecordStart(t, n, spot, ask, "call", NoPlace)
    BY <1>3 DEF BeginStart
  <2>2. ask \in 0..Full
    BY ConstantsAssumption DEF ConstantsAssumption
  <2>3. Taken(n) /\ saved' = items'
    BY <2>1, <2>2, RecordStartTakes
  <2>4. QED  BY <1>3, <2>3 DEF BeginStart, Call, bootVars, RecordStep, RecordsStep, FileStep
<1>4. ASSUME NEW t \in Threads,
             \/ Launch(t) \/ CheckWanted(t) \/ Kill(t) \/ StopUnit(t) \/ StopUnitFails(t)
             \/ MoveCheck(t) \/ MoveStopRefused(t) \/ MoveStartRefused(t) \/ BeginMove(t)
      PROVE  RecordStep
  <2>1. mode = "serving" /\ mode' = "serving" /\ UNCHANGED <<items, saved>>
    BY <1>1, <1>4 DEF Launch, CheckWanted, Kill, StopUnit, StopUnitFails, MoveCheck, MoveStopRefused,
       MoveStartRefused, BeginMove, Call, bootVars
  <2>2. QED  BY <2>1 DEF RecordStep, RecordsStep, FileStep
<1>5. ASSUME NEW t \in Threads, Undo(t)
      PROVE  RecordStep
  <2>1. job[t].name \in Names
    BY <1>5 DEF Undo, TypeInv, TypeOK, Job
  <2>2. mode = "serving" /\ mode' = "serving"
    BY <1>1, <1>5 DEF Undo, bootVars
  <2>3. Given(job[t].name) /\ saved' = items'
    BY <1>5 DEF Undo, Given
  <2>4. QED  BY <2>1, <2>2, <2>3 DEF RecordStep, RecordsStep, FileStep
<1>6. ASSUME NEW t \in Threads, BeginStop(t)
      PROVE  RecordStep
  <2>1. PICK n \in Names : RecordStop(t, n, NoPlace, NoPlace, NoShare, "call")
    BY <1>6 DEF BeginStop
  <2>2. Given(n) /\ saved' = items'
    BY <2>1, RecordStopGives
  <2>3. QED  BY <1>6, <2>2 DEF BeginStop, Call, bootVars, RecordStep, RecordsStep, FileStep
<1>7. ASSUME NEW t \in Threads, MoveStop(t)
      PROVE  RecordStep
  <2>1. job[t].name \in Names
    BY <1>7 DEF MoveStop, TypeInv, TypeOK, Job
  <2>2. Given(job[t].name) /\ saved' = items'
    BY <1>7, <2>1, RecordStopGives DEF MoveStop
  <2>3. mode = "serving" /\ mode' = "serving"
    BY <1>1, <1>7 DEF MoveStop, bootVars
  <2>4. QED  BY <2>1, <2>2, <2>3 DEF RecordStep, RecordsStep, FileStep
<1>8. ASSUME NEW t \in Threads, MoveGo(t) \/ MoveBack(t)
      PROVE  RecordStep
  <2>1. /\ job[t].name \in Names /\ job[t].ask \in 0..Full
        /\ job[t].to \in Spot /\ job[t].from \in Spot
    BY <1>8 DEF MoveGo, MoveBack, TypeInv, TypeOK, Job
  <2>2. \E spot \in Spot, leg \in {"go", "back"} :
          RecordStart(t, job[t].name, spot, job[t].ask, leg, job[t].from)
    BY <1>8, <2>1 DEF MoveGo, MoveBack
  <2>3. Taken(job[t].name) /\ saved' = items'
    BY <2>1, <2>2, RecordStartTakes
  <2>4. mode = "serving" /\ mode' = "serving"
    BY <1>1, <1>8 DEF MoveGo, MoveBack, bootVars
  <2>5. QED  BY <2>1, <2>3, <2>4 DEF RecordStep, RecordsStep, FileStep
<1>9. ASSUME NEW t \in Threads, Revive(t)
      PROVE  RecordStep
  <2>1. job[t].name \in Names /\ mode = "serving" /\ mode' = "serving" /\ saved' = items'
    BY <1>1, <1>9 DEF Revive, bootVars, TypeInv, TypeOK, Job
  <2>2. UNCHANGED items \/ Revived(job[t].name)
    BY <1>9 DEF Revive, Revived, Return
  <2>3. QED  BY <2>1, <2>2 DEF RecordStep, RecordsStep, FileStep
<1>10. ASSUME \/ PollSnapshot \/ PollUnknown \/ PollDrop \/ PollRelaunch \/ PollRecheck \/ PollKill
              \/ PollProbe \/ PollUnhealthy \/ \E n \in Names : PollActive(n)
       PROVE  RecordStep
  <2>1. mode = "serving" /\ mode' = "serving" /\ UNCHANGED <<items, saved>>
    BY <1>2, <1>10 DEF PollSnapshot, PollUnknown, PollDrop, PollRelaunch, PollRecheck, PollKill,
       PollProbe, PollUnhealthy, PollActive, bootVars
  <2>2. QED  BY <2>1 DEF RecordStep, RecordsStep, FileStep
<1>11. ASSUME PollGiveUp
       PROVE  RecordStep
  <2>1. cur.name \in WantedNames(items) /\ mode = "serving" /\ mode' = "serving" /\ saved' = items'
    BY <1>2, <1>11 DEF PollGiveUp, Current, WantedNames, bootVars
  <2>2. Given(cur.name)
    BY <1>11, <2>1, FailureGives DEF PollGiveUp
  <2>3. QED  BY <2>1, <2>2 DEF RecordStep, RecordsStep, FileStep, WantedNames
<1>12. ASSUME PollRetry
       PROVE  RecordStep
  <2>1. /\ cur.name \in WantedNames(items) /\ mode = "serving" /\ mode' = "serving"
        /\ saved' = items'
    BY <1>2, <1>12 DEF PollRetry, Current, WantedNames, bootVars
  <2>a. PICK error \in Errors : \E f \in FixedShares(cur.name, error) :
          items' = [items EXCEPT ![cur.name].frac = f, ![cur.name].status = "starting",
                                 ![cur.name].started = clock, ![cur.name].attempts = @ + 1]
    BY <1>12 DEF PollRetry
  <2>2. PICK f \in FixedShares(cur.name, error) :
          items' = [items EXCEPT ![cur.name].frac = f, ![cur.name].status = "starting",
                                 ![cur.name].started = clock, ![cur.name].attempts = @ + 1]
    BY <2>a
  <2> DEFINE old == items[cur.name]
             r == [old EXCEPT !.frac = f, !.status = "starting", !.started = clock, !.attempts = @ + 1]
  <2>b. clock' = clock + 1 BY <1>12 DEF PollRetry, Stamp
  <2>3. f \in 1..Full /\ old.attempts < MaxAttempts
    BY <2>1, FixedIsShare DEF TypeInv
  <2>4. old \in Server /\ old.want /\ cur.name \in Names
    BY <2>1 DEF WantedNames, Wanted, TypeInv, TypeOK
  <2>5. old.attempts + 1 \in 1..MaxAttempts /\ clock \in Nat
    BY <2>3, <2>4, ConstantsAssumption DEF Server, ConstantsAssumption, TypeInv, TypeOK
  <2>6. /\ r \in Server /\ r.want /\ r.status \in Live /\ r.id = old.id /\ r.started = clock
        /\ r.gpu = old.gpu /\ r.port = old.port /\ r.frac = f
    BY <2>3, <2>4, <2>5 DEF Server, Status, Live
  <2>7. items' = [items EXCEPT ![cur.name] = r]
    BY <2>2, <2>4 DEF TypeInv, TypeOK
  <2>8. Resized(cur.name)
    <3> HIDE DEF r
    <3>1. QED  BY <2>1, <2>2, <2>6, <2>7, <2>b DEF Resized, WantedNames
  <2>9. QED  BY <2>1, <2>4, <2>8 DEF RecordStep, RecordsStep, FileStep
<1>13. ASSUME PollRelaunchFailed
       PROVE  RecordStep
  <2>1. mode = "serving" /\ mode' = "serving"
    BY <1>2, <1>13 DEF PollRelaunchFailed, bootVars
  <2>2. CASE Current(cur.name, cur.started)
    <3>1. cur.name \in WantedNames(items) /\ saved' = items'
      BY <1>2, <1>13, <2>2 DEF PollRelaunchFailed, Current, WantedNames
    <3>2. Given(cur.name)
      BY <1>13, <2>2, <3>1, FailureGives DEF PollRelaunchFailed
    <3>3. QED  BY <2>1, <3>1, <3>2 DEF RecordStep, RecordsStep, FileStep, WantedNames
  <2>3. CASE ~Current(cur.name, cur.started)
    BY <1>13, <2>1, <2>3 DEF PollRelaunchFailed, RecordStep, RecordsStep, FileStep
  <2>4. QED  BY <2>2, <2>3
<1>14. ASSUME PollHealthy
       PROVE  RecordStep
  <2>1. mode = "serving" /\ mode' = "serving"
    BY <1>2, <1>14 DEF PollHealthy, bootVars
  <2>2. CASE Current(cur.name, cur.started) /\ items[cur.name].status # "running"
    <3>1. cur.name \in WantedNames(items) /\ saved' = items'
      BY <1>2, <1>14, <2>2 DEF PollHealthy, Current, WantedNames
    <3>2. Kept(cur.name)
      BY <1>14, <2>2, <3>1, StatusKept DEF PollHealthy, Live
    <3>3. QED  BY <2>1, <3>1, <3>2 DEF RecordStep, RecordsStep, FileStep, WantedNames
  <2>3. CASE ~(Current(cur.name, cur.started) /\ items[cur.name].status # "running")
    BY <1>14, <2>1, <2>3 DEF PollHealthy, RecordStep, RecordsStep, FileStep
  <2>4. QED  BY <2>2, <2>3
<1>15. ASSUME NEW n \in Names, PollTimeout(n)
       PROVE  RecordStep
  <2>1. n \in WantedNames(items) /\ mode = "serving" /\ mode' = "serving" /\ saved' = items'
    BY <1>2, <1>15 DEF PollTimeout, Current, WantedNames, bootVars
  <2>2. Given(n)
    BY <1>15, <2>1, FailureGives DEF PollTimeout
  <2>3. QED  BY <2>1, <2>2 DEF RecordStep, RecordsStep, FileStep, WantedNames
<1>16. ASSUME NEW n \in Names, RestoreOne(n)
       PROVE  RecordStep
  <2>1. mode = "restore" /\ mode' = "restore" /\ UNCHANGED saved
    BY <1>16 DEF RestoreOne
  <2>2. /\ n \in WantedNames(items) /\ items[n] \in Server /\ items[n].want
        /\ items[n] # NoServer /\ clock \in Nat
    BY <1>16 DEF Stamp, RestoreOne, TypeInv, TypeOK, RestoreAlone, WantedNames, Wanted
  <2>3. CASE UNCHANGED items
    BY <2>1, <2>3 DEF RecordStep, RecordsStep, FileStep
  <2>4. CASE clock' = clock + 1 /\ items' = [items EXCEPT ![n].status = "starting", ![n].started = clock]
    <3> DEFINE r == [items[n] EXCEPT !.status = "starting", !.started = clock]
    <3>1. /\ r \in Server /\ r.want /\ r.status \in Live /\ r.id = items[n].id /\ r.started = clock
          /\ r.gpu = items[n].gpu /\ r.port = items[n].port /\ r.frac = items[n].frac
      BY <2>2 DEF Server, Status, Live
    <3>2. items' = [items EXCEPT ![n] = r]
      BY <2>4 DEF TypeInv, TypeOK
    <3> HIDE DEF r
    <3>3. Kept(n)
      BY <2>2, <2>4, <3>1, <3>2 DEF Kept, WantedNames
    <3>4. QED  BY <2>1, <3>3 DEF RecordStep, RecordsStep, FileStep
  <2>5. CASE /\ clock' = clock + 1
             /\ items' = [items EXCEPT ![n].status = "failed", ![n].want = FALSE,
                                       ![n].started = clock]
    <3> DEFINE r == [items[n] EXCEPT !.status = "failed", !.want = FALSE, !.started = clock]
    <3>1. /\ r \in Server /\ ~r.want /\ r.status \notin Live /\ r.id = items[n].id
          /\ r.started = clock
      BY <2>2 DEF Server, Status, Live
    <3>2. items' = [items EXCEPT ![n] = r]
      BY <2>5 DEF TypeInv, TypeOK
    <3> HIDE DEF r
    <3>3. Given(n)
      BY <2>2, <2>5, <3>1, <3>2 DEF Given, WantedNames
    <3>4. QED  BY <2>1, <3>3 DEF RecordStep, RecordsStep, FileStep
  <2>6. QED  BY <1>16, <2>3, <2>4, <2>5 DEF RestoreOne, Stamp
<1>17. ASSUME RestoreEnd
       PROVE  RecordStep
  BY <1>17 DEF RestoreEnd, RecordStep, RecordsStep, FileStep
<1>18. ASSUME NEW n \in Names, UnitUp(n) \/ UnitDies(n)
       PROVE  RecordStep
  <2>1. mode' = mode /\ UNCHANGED <<items, saved>>
    BY <1>18 DEF UnitUp, UnitDies, bootVars
  <2>2. QED  BY <2>1 DEF RecordStep, RecordsStep, FileStep, TypeInv, TypeOK
<1>19. ASSUME Crash
       PROVE  RecordStep
  BY <1>19 DEF Crash, RecordStep, RecordsStep, FileStep
<1>20. CASE UNCHANGED vars
  BY <1>20 DEF vars, RecordStep, RecordsStep, FileStep, TypeInv, TypeOK
<1>21. QED
  <2>1. SUFFICES ASSUME Next PROVE RecordStep
    BY <1>20
  <2>2. CASE \E t \in Threads : Request(t) \/ Work(t)
    BY <1>3, <1>4, <1>5, <1>6, <1>7, <1>8, <1>9, <2>2 DEF Request, Work
  <2>3. CASE Poll
    BY <1>10, <1>11, <1>12, <1>13, <1>14, <1>15, <2>3 DEF Poll
  <2>4. CASE Restore \/ World
    BY <1>16, <1>17, <1>18, <1>19, <2>4 DEF Restore, World
  <2>5. QED  BY <2>1, <2>2, <2>3, <2>4 DEF Next

-----------------------------------------------------------------------------
\* The file is never behind the memory while requests are served: a crash
\* loses nothing that was answered.
THEOREM FileIsCurrent == Spec => []SavedIsCurrent
<1>1. Init => SavedIsCurrent
  BY DEF Init, SavedIsCurrent
<1>2. ASSUME TypeInv, SavedIsCurrent, [Next]_vars
      PROVE  SavedIsCurrent'
  <2>1. FileStep
    BY <1>2, StepRecords DEF RecordStep
  <2>2. QED  BY <1>2, <2>1 DEF FileStep, SavedIsCurrent
<1>3. QED  BY <1>1, <1>2, RestoreIsAlone, PTL DEF Spec

-----------------------------------------------------------------------------
\* The poll loop touches only the launch it looked at.
LEMMA StepJudges ==
  ASSUME TypeInv, SavedIsCurrent, [Next]_vars
  PROVE  \A n \in Names : ppc' # ppc /\ items'[n] # items[n]
           => n = cur.name /\ Wanted(items, n) /\ items[n].started = cur.started
<1> SUFFICES ASSUME NEW n \in Names, ppc' # ppc, items'[n] # items[n]
             PROVE  n = cur.name /\ Wanted(items, n) /\ items[n].started = cur.started
  OBVIOUS
<1>1. Next
  BY DEF vars
<1>2. ~\E t \in Threads : Request(t) \/ Work(t)
  <2>1. SUFFICES ASSUME NEW t \in Threads, Request(t) \/ Work(t) PROVE ppc' = ppc
    OBVIOUS
  <2>2. CASE Request(t)
    BY <2>2 DEF Request, BeginStart, BeginStop, BeginMove, pollVars
  <2>3. CASE Work(t)
    BY <2>3 DEF Work, Launch, Undo, CheckWanted, Kill, StopUnit, StopUnitFails, Revive, MoveCheck,
       MoveStop, MoveStopRefused, MoveGo, MoveBack, MoveStartRefused, pollVars
  <2>4. QED  BY <2>1, <2>2, <2>3
<1>3. ~Restore /\ ~\E m \in Names : UnitUp(m) \/ UnitDies(m)
  BY DEF Restore, RestoreOne, RestoreEnd, UnitUp, UnitDies, pollVars
<1>4. ~Crash
  <2>1. SUFFICES ASSUME Crash PROVE FALSE
    OBVIOUS
  <2>2. CASE mode = "serving"
    BY <2>1, <2>2 DEF Crash, SavedIsCurrent
  <2>3. CASE mode = "restore"
    BY <2>1, <2>3 DEF Crash, TypeInv, RestoreAlone
  <2>4. QED  BY <2>2, <2>3 DEF TypeInv, TypeOK
<1>5. Poll
  BY <1>1, <1>2, <1>3, <1>4 DEF Next, World
<1>6. \/ PollGiveUp \/ PollRetry \/ PollRelaunchFailed \/ PollHealthy
      \/ \E m \in Names : PollTimeout(m)
  BY <1>5 DEF Poll, PollSnapshot, PollActive, PollUnknown, PollDrop, PollRelaunch, PollRecheck,
     PollKill, PollProbe, PollUnhealthy
<1>7. Current(cur.name, cur.started) /\ n = cur.name
  BY <1>6 DEF PollGiveUp, PollRetry, PollRelaunchFailed, PollHealthy, PollTimeout, TypeInv, TypeOK
<1>8. QED  BY <1>7 DEF Current

\* No verdict of the poll loop lands on a record that was stopped, moved or
\* started anew since the loop looked at it.
THEOREM PollJudgesRight == Spec => PollJudgesItsLaunch
<1>1. ASSUME TypeInv, SavedIsCurrent, [Next]_vars
      PROVE  [\A n \in Names : ppc' # ppc /\ items'[n] # items[n]
                => n = cur.name /\ Wanted(items, n) /\ items[n].started = cur.started]_vars
  BY <1>1, StepJudges
<1>2. QED  BY <1>1, RestoreIsAlone, FileIsCurrent, PTL DEF Spec, PollJudgesItsLaunch

-----------------------------------------------------------------------------
\* Ports

Apart(its) == \A m, n \in WantedNames(its) : m # n => its[m].port # its[n].port

\* Without a stop that fails no request brings a record back.
NobodyRevives == \A t \in Threads : pc[t] # "revive"

LEMMA StepRevivesNobody ==
  ASSUME ~StopMayFail, TypeInv, NobodyRevives, [Next]_vars
  PROVE  NobodyRevives'
<1>1. CASE UNCHANGED pc
  BY <1>1 DEF NobodyRevives
<1>2. ASSUME NEW t \in Threads, Request(t)
      PROVE  NobodyRevives'
  BY <1>2 DEF Request, BeginStart, BeginStop, BeginMove, RecordStart, RecordStop, NobodyRevives,
     TypeInv, TypeOK
<1>3. ASSUME NEW t \in Threads, Work(t)
      PROVE  NobodyRevives'
  BY <1>3 DEF Work, Launch, Undo, CheckWanted, Kill, StopUnit, StopUnitFails, Revive, MoveCheck,
     MoveStop, MoveStopRefused, MoveGo, MoveBack, MoveStartRefused, RecordStart, RecordStop, Stopped,
     Goto, Return, NobodyRevives, TypeInv, TypeOK
<1>4. CASE Poll \/ Restore
  <2>1. UNCHANGED pc
    BY <1>4 DEF Poll, Restore, PollSnapshot, PollActive, PollUnknown, PollDrop, PollGiveUp, PollRetry,
       PollRelaunch, PollRelaunchFailed, PollRecheck, PollKill, PollProbe, PollHealthy, PollUnhealthy,
       PollTimeout, RestoreOne, RestoreEnd, threadVars
  <2>2. QED  BY <2>1, <1>1
<1>5. CASE World
  <2>1. CASE Crash
    BY <2>1 DEF Crash, NobodyRevives
  <2>2. CASE \E n \in Names : UnitUp(n) \/ UnitDies(n)
    <3>1. UNCHANGED pc
      BY <2>2 DEF UnitUp, UnitDies, threadVars
    <3>2. QED  BY <3>1, <1>1
  <2>3. QED  BY <1>5, <2>1, <2>2 DEF World
<1>6. QED  BY <1>1, <1>2, <1>3, <1>4, <1>5 DEF Next, vars

\* A step keeps the ports of the active records apart.
LEMMA StepApart ==
  ASSUME TypeInv, NobodyRevives, Apart(items), Apart(saved), RecordStep
  PROVE  Apart(items') /\ Apart(saved')
<1>1. Apart(items')
  <2>1. CASE UNCHANGED items \/ items' = saved
    BY <2>1
  <2>2. ASSUME NEW n \in Names, Taken(n)
        PROVE  Apart(items')
    BY <2>2 DEF Taken, Apart, TakenPorts, WantedNames, Wanted, TypeInv, TypeOK
  <2>3. ASSUME NEW n \in Names, Kept(n) \/ Resized(n)
        PROVE  Apart(items')
    BY <2>3 DEF Kept, Resized, Apart, WantedNames, Wanted, TypeInv, TypeOK
  <2>4. ASSUME NEW n \in Names, Given(n)
        PROVE  Apart(items')
    BY <2>4 DEF Given, Apart, WantedNames, Wanted, TypeInv, TypeOK
  <2>5. ASSUME NEW n \in Names
        PROVE  ~Revived(n)
    BY DEF Revived, NobodyRevives
  <2>6. QED  BY <2>1, <2>2, <2>3, <2>4, <2>5 DEF RecordStep, RecordsStep
<1>2. saved' = items' \/ UNCHANGED saved \/ saved' = items
  BY DEF RecordStep, FileStep
<1>3. QED  BY <1>1, <1>2

PortsInv == TypeInv /\ NobodyRevives /\ Apart(items) /\ Apart(saved)

LEMMA StepPorts == ~StopMayFail /\ PortsInv /\ [Next]_vars => PortsInv'
<1> SUFFICES ASSUME ~StopMayFail, PortsInv, [Next]_vars PROVE PortsInv'
  OBVIOUS
<1>1. TypeInv' /\ NobodyRevives' /\ RecordStep
  BY StepTypes, StepRevivesNobody, StepRecords DEF PortsInv
<1>2. Apart(items') /\ Apart(saved')
  BY <1>1, StepApart DEF PortsInv
<1>3. QED  BY <1>1, <1>2 DEF PortsInv, Apart, WantedNames, Wanted

LEMMA InitPorts == Init => PortsInv
<1> SUFFICES ASSUME Init PROVE PortsInv
  OBVIOUS
<1>1. Apart(saved) /\ items = saved
  BY FilesAssumption DEF FilesAssumption, Init, LegalFile, Apart
<1>2. QED  BY <1>1, InitTypes DEF PortsInv, Init, NobodyRevives

LEMMA PortsAlways == ASSUME ~StopMayFail PROVE Spec => []PortsInv
<1>1. PortsInv /\ [Next]_vars => PortsInv'
  BY StepPorts
<1>2. QED  BY <1>1, InitPorts, PTL DEF Spec

\* Where systemctl stop does not fail, two active models never share a port,
\* for any number of models, threads, retries, moves and restarts.
THEOREM PortsAreDistinct == ASSUME ~StopMayFail PROVE Spec => []DistinctPorts
<1>1. PortsInv => DistinctPorts
  BY DEF PortsInv, Apart, DistinctPorts
<1>2. QED  BY <1>1, PortsAlways, PTL

-----------------------------------------------------------------------------
\* Shares

\* What each model holds on card g.
SharesOn(its, g, except) ==
  [m \in Names |-> IF m # except /\ Wanted(its, m)
                   THEN IF its[m].gpu = g THEN its[m].frac ELSE 0
                   ELSE 0]

Records == [Names -> Server \cup {NoServer}]

LEMMA SharesOnType ==
  ASSUME NEW its \in Records, NEW g, NEW except
  PROVE  /\ SharesOn(its, g, except) \in [Names -> 0..Full]
         /\ UsedShare(its, g, except) = Total(SharesOn(its, g, except))
         /\ UsedShare(its, g, except) \in Nat
<1>1. SharesOn(its, g, except) \in [Names -> 0..Full]
  <2>1. SUFFICES ASSUME NEW m \in Names
                 PROVE  SharesOn(its, g, except)[m] \in 0..Full
    BY DEF SharesOn
  <2>2. CASE Wanted(its, m)
    <3>1. its[m].frac \in 0..Full
      BY <2>2 DEF Wanted, Records, Server, Full
    <3>2. QED  BY <3>1 DEF SharesOn, Full
  <2>3. CASE ~Wanted(its, m)
    BY <2>3 DEF SharesOn, Full
  <2>4. QED  BY <2>2, <2>3
<1>2. UsedShare(its, g, except) \in Nat
  BY UsedShareType DEF Records
<1>3. QED  BY <1>1, <1>2 DEF UsedShare, SharesOn

\* Records whose models hold no more hold no more together.
LEMMA UsedShareMonotone ==
  ASSUME NEW less \in Records, NEW more \in Records, NEW g, NEW e1, NEW e2,
         \A m \in Names : SharesOn(less, g, e1)[m] <= SharesOn(more, g, e2)[m]
  PROVE  UsedShare(less, g, e1) <= UsedShare(more, g, e2)
<1>1. IsFiniteSet(Names)
  BY ConstantsAssumption DEF ConstantsAssumption
<1>2. QED  BY <1>1, SharesOnType, TotalMonotone

\* A record that is active on card g adds its share to what the others hold.
LEMMA UsedShareOfOne ==
  ASSUME NEW its \in Records, NEW n \in WantedNames(its)
  PROVE  UsedShare(its, its[n].gpu, NoServer) = UsedShare(its, its[n].gpu, n) + its[n].frac
<1> DEFINE g == its[n].gpu
           others == SharesOn(its, g, n)
<1>1. n \in Names /\ its[n] \in Server /\ its[n].frac \in 0..Full /\ n # NoServer
  BY ConstantsAssumption DEF ConstantsAssumption, WantedNames, Wanted, Records, Server, Full
<1>2. others \in [Names -> 0..Full] /\ others[n] = 0
  <2>1. others \in [Names -> 0..Full]
    BY SharesOnType
  <2>2. others[n] = 0
    BY <1>1 DEF SharesOn
  <2>3. QED  BY <2>1, <2>2
<1>3. /\ SharesOn(its, g, NoServer)[n] = its[n].frac
      /\ \A m \in Names \ {n} : SharesOn(its, g, NoServer)[m] = others[m]
  BY <1>1, ConstantsAssumption DEF ConstantsAssumption, SharesOn, WantedNames
<1>4. IsFiniteSet(Names) /\ SharesOn(its, g, NoServer) \in [Names -> 0..Full]
  BY SharesOnType, ConstantsAssumption DEF ConstantsAssumption
<1>5. Total(SharesOn(its, g, NoServer)) = Total(others) + its[n].frac
  <2> HIDE DEF others
  <2>1. QED  BY <1>1, <1>2, <1>3, <1>4, TotalOfOneMore
<1>6. QED  BY <1>5, SharesOnType

\* A granted share fits beside what is held already.
LEMMA GrantedFits ==
  ASSUME TypeInv, NEW g \in Cards, NEW ask \in 0..Full, NEW f \in GrantedShares(g, ask)
  PROVE  f + UsedShare(items, g, NoServer) <= Full
<1> DEFINE used == UsedShare(items, g, NoServer)
<1>1. used \in Nat
  BY UsedShareType DEF TypeInv, TypeOK
<1>2. f \in 1..Full
  BY GrantedIsShare DEF TypeInv
<1>3. CASE ask = NoShare
  <2>1. PICK c \in Ceilings, m \in MemFree :
          f = Lesser(c, FreeShare(m, used, DefaultFraction)) /\ f >= MinFraction
    BY <1>3 DEF GrantedShares
  <2>2. m \in 0..Full /\ c \in 1..Full /\ DefaultFraction \in 0..Full
    BY ConstantsAssumption DEF ConstantsAssumption, Full
  <2>3. /\ FreeShare(m, used, DefaultFraction) \in 0..Full
        /\ FreeShare(m, used, DefaultFraction) > 0 => FreeShare(m, used, DefaultFraction) + used <= Full
    BY <1>1, <2>2, FreeShareBounds
  <2>4. f <= FreeShare(m, used, DefaultFraction)
    BY <2>1, <2>2, <2>3 DEF Lesser, Full
  <2>5. QED  BY <1>1, <1>2, <2>3, <2>4 DEF Full
<1>4. CASE ask # NoShare
  <2>1. PICK m \in MemFree : f <= FreeShare(m, used, Full)
    BY <1>4 DEF GrantedShares
  <2>2. m \in 0..Full /\ Full \in 0..Full
    BY ConstantsAssumption DEF ConstantsAssumption, Full
  <2>3. /\ FreeShare(m, used, Full) \in 0..Full
        /\ FreeShare(m, used, Full) > 0 => FreeShare(m, used, Full) + used <= Full
    BY <1>1, <2>2, FreeShareBounds
  <2>4. QED  BY <1>1, <1>2, <2>1, <2>3 DEF Full
<1>5. QED  BY <1>3, <1>4

\* A share fixed for a retry is no bigger than before or fits beside the others.
LEMMA FixedFits ==
  ASSUME TypeInv, NEW n \in WantedNames(items), NEW error, NEW f \in FixedShares(n, error)
  PROVE  \/ f <= items[n].frac
         \/ f + UsedShare(items, items[n].gpu, n) <= Full
<1> DEFINE old == items[n].frac
           used == UsedShare(items, items[n].gpu, n)
<1>1. used \in Nat
  BY UsedShareType DEF TypeInv, TypeOK
<1>2. old \in 1..Full
  BY DEF TypeInv, TypeOK, WantedNames, Wanted, Server
<1>3. f \in 1..Full /\ f # NoShare
  BY FixedIsShare DEF TypeInv, FixedShares
<1>4. CASE f = LowerFraction(old)
  BY <1>2, <1>3, <1>4, LowerIsLower DEF Full
<1>5. CASE f = old
  BY <1>2, <1>5 DEF Full
<1>6. ASSUME NEW m \in MemFree, f = BiggerFraction(old, FreeShare(m, used, DefaultFraction))
      PROVE  f + used <= Full
  <2>1. m \in 0..Full /\ DefaultFraction \in 0..Full
    BY ConstantsAssumption DEF ConstantsAssumption, Full
  <2>2. /\ FreeShare(m, used, DefaultFraction) \in 0..Full
        /\ FreeShare(m, used, DefaultFraction) > 0 => FreeShare(m, used, DefaultFraction) + used <= Full
    BY <1>1, <2>1, FreeShareBounds
  <2>3. f <= FreeShare(m, used, DefaultFraction)
    BY <1>2, <1>3, <1>6, <2>2, BiggerBounds
  <2>4. QED  BY <1>1, <1>3, <2>2, <2>3 DEF Full
<1>7. \/ f = LowerFraction(old) \/ f = old
      \/ \E m \in MemFree : f = BiggerFraction(old, FreeShare(m, used, DefaultFraction))
  BY DEF FixedShares
<1>8. QED  BY <1>4, <1>5, <1>6, <1>7

FitsIn(its) == \A g \in Cards : UsedShare(its, g, NoServer) <= Full

\* A record replaced by one that holds no more than it on each card.
LEMMA LessStillFits ==
  ASSUME NEW its \in Records, NEW n \in Names, NEW r \in Server \cup {NoServer},
         NEW g \in Cards,
         \/ r = NoServer \/ ~r.want \/ r.gpu # g
         \/ Wanted(its, n) /\ its[n].gpu = r.gpu /\ r.frac <= its[n].frac
  PROVE  UsedShare([its EXCEPT ![n] = r], g, NoServer) <= UsedShare(its, g, NoServer)
<1> DEFINE new == [its EXCEPT ![n] = r]
<1>1. new \in Records
  BY DEF Records
<1>2. ASSUME NEW m \in Names
      PROVE  SharesOn(new, g, NoServer)[m] <= SharesOn(its, g, NoServer)[m]
  <2>1. SharesOn(its, g, NoServer)[m] \in 0..Full
    BY SharesOnType
  <2>2. CASE m # n
    <3>1. SharesOn(new, g, NoServer)[m] = SharesOn(its, g, NoServer)[m]
      BY <2>2 DEF SharesOn, Wanted, Records
    <3>2. QED  BY <2>1, <3>1 DEF Full
  <2>3. CASE m = n
    <3>1. new[m] = r
      BY <2>3 DEF Records
    <3>2. CASE ~Wanted(new, m) \/ r.gpu # g
      <4>1. SharesOn(new, g, NoServer)[m] = 0
        BY <3>1, <3>2 DEF SharesOn
      <4>2. QED  BY <2>1, <4>1 DEF Full
    <3>3. CASE Wanted(new, m) /\ r.gpu = g
      <4>1. r # NoServer /\ r.want /\ Wanted(its, n) /\ its[n].gpu = g /\ r.frac <= its[n].frac
        BY <3>1, <3>3 DEF Wanted
      <4>2. m # NoServer
        BY ConstantsAssumption DEF ConstantsAssumption
      <4>3. SharesOn(new, g, NoServer)[m] = r.frac /\ SharesOn(its, g, NoServer)[m] = its[n].frac
        BY <2>3, <3>1, <3>3, <4>1, <4>2 DEF SharesOn
      <4>4. QED  BY <4>1, <4>3
    <3>4. QED  BY <3>2, <3>3
  <2>4. QED  BY <2>2, <2>3
<1> HIDE DEF new
<1>3. UsedShare(new, g, NoServer) <= UsedShare(its, g, NoServer)
  BY <1>1, <1>2, UsedShareMonotone
<1>4. QED  BY <1>3 DEF new

\* A record replaced by an active one that fits beside the others.
LEMMA OneMoreFits ==
  ASSUME NEW its \in Records, NEW n \in Names, NEW r \in Server, r.want,
         r.frac + UsedShare(its, r.gpu, n) <= Full
  PROVE  UsedShare([its EXCEPT ![n] = r], r.gpu, NoServer) <= Full
<1> DEFINE new == [its EXCEPT ![n] = r]
           g == r.gpu
<1>1. new \in Records /\ new[n] = r
  BY DEF Records
<1>2. n \in WantedNames(new)
  BY <1>1, ConstantsAssumption DEF ConstantsAssumption, WantedNames, Wanted
<1>3. UsedShare(new, g, NoServer) = UsedShare(new, g, n) + r.frac
  <2> HIDE DEF new
  <2>1. QED  BY <1>1, <1>2, UsedShareOfOne
<1>4. UsedShare(new, g, n) <= UsedShare(its, g, n)
  <2>1. ASSUME NEW m \in Names
        PROVE  SharesOn(new, g, n)[m] <= SharesOn(its, g, n)[m]
    <3>1. SharesOn(new, g, n)[m] = SharesOn(its, g, n)[m]
      BY DEF SharesOn, Wanted, Records
    <3>2. SharesOn(its, g, n)[m] \in 0..Full
      BY SharesOnType
    <3>3. QED  BY <3>1, <3>2 DEF Full
  <2> HIDE DEF new, g
  <2>2. QED  BY <1>1, <2>1, UsedShareMonotone
<1>5. /\ UsedShare(new, g, n) \in Nat /\ UsedShare(its, g, n) \in Nat
      /\ r.frac \in 1..Full
  BY <1>1, SharesOnType DEF Server
<1>6. QED  BY <1>3, <1>4, <1>5 DEF Full

\* Left out or not there, a name that holds nothing does not count.
LEMMA IdleNameCountsNothing ==
  ASSUME NEW its \in Records, NEW n \in Names, NEW g, ~Wanted(its, n)
  PROVE  UsedShare(its, g, n) = UsedShare(its, g, NoServer)
<1>1. n # NoServer /\ NoServer \notin Names
  BY ConstantsAssumption DEF ConstantsAssumption
<1>2. SharesOn(its, g, n) = SharesOn(its, g, NoServer)
  BY <1>1 DEF SharesOn
<1>3. QED  BY <1>2, SharesOnType

\* A step keeps the shares of each card within the card.
LEMMA StepFits ==
  ASSUME TypeInv, NobodyRevives, FitsIn(items), FitsIn(saved), RecordStep
  PROVE  FitsIn(items') /\ FitsIn(saved')
<1>1. items \in Records
  BY DEF TypeInv, TypeOK, Records
<1>2. FitsIn(items')
  <2>1. CASE UNCHANGED items \/ items' = saved
    BY <2>1
  <2>2. ASSUME NEW n \in Names, Taken(n)
        PROVE  FitsIn(items')
    <3>1. PICK r \in Server, ask \in 0..Full :
            /\ r.want /\ r.frac \in GrantedShares(r.gpu, ask) /\ items' = [items EXCEPT ![n] = r]
      BY <2>2 DEF Taken
    <3>2. r.gpu \in Cards
      BY DEF Server
    <3>3. r.frac + UsedShare(items, r.gpu, NoServer) <= Full
      BY <3>1, <3>2, GrantedFits
    <3>4. r.frac + UsedShare(items, r.gpu, n) <= Full
      BY <1>1, <2>2, <3>3, IdleNameCountsNothing DEF Taken
    <3>5. ASSUME NEW g \in Cards
          PROVE  UsedShare(items', g, NoServer) <= Full
      <4>1. CASE g = r.gpu
        BY <1>1, <3>1, <3>4, <4>1, OneMoreFits
      <4>2. CASE g # r.gpu
        <5>1. UsedShare(items', g, NoServer) <= UsedShare(items, g, NoServer)
          BY <1>1, <3>1, <4>2, LessStillFits
        <5>2. items' \in Records
          BY <1>1, <3>1 DEF Records
        <5>3. UsedShare(items', g, NoServer) \in Nat /\ UsedShare(items, g, NoServer) \in Nat
          BY <1>1, <5>2, SharesOnType
        <5>4. QED  BY <5>1, <5>3 DEF FitsIn, Full
      <4>3. QED  BY <4>1, <4>2
    <3>6. QED  BY <3>5 DEF FitsIn
  <2>3. ASSUME NEW n \in Names, NEW r \in Server \cup {NoServer}, items' = [items EXCEPT ![n] = r],
               \/ r = NoServer \/ ~r.want
               \/ Wanted(items, n) /\ items[n].gpu = r.gpu /\ r.frac <= items[n].frac
        PROVE  FitsIn(items')
    <3>1. ASSUME NEW g \in Cards
          PROVE  UsedShare(items', g, NoServer) <= Full
      <4>1. UsedShare(items', g, NoServer) <= UsedShare(items, g, NoServer)
        BY <1>1, <2>3, LessStillFits
      <4>2. items' \in Records
        BY <1>1, <2>3 DEF Records
      <4>3. UsedShare(items', g, NoServer) \in Nat /\ UsedShare(items, g, NoServer) \in Nat
        BY <1>1, <4>2, SharesOnType
      <4>4. QED  BY <4>1, <4>3 DEF FitsIn, Full
    <3>2. QED  BY <3>1 DEF FitsIn
  <2>4. ASSUME NEW n \in Names, Kept(n)
        PROVE  FitsIn(items')
    <3>1. PICK r \in Server : /\ r.gpu = items[n].gpu /\ r.frac = items[n].frac
                              /\ items' = [items EXCEPT ![n] = r]
      BY <2>4 DEF Kept
    <3>2. r.frac <= items[n].frac
      BY <3>1 DEF Server, Full
    <3>3. QED  BY <2>3, <2>4, <3>1, <3>2 DEF Kept
  <2>5. ASSUME NEW n \in Names, Given(n)
        PROVE  FitsIn(items')
    BY <2>3, <2>5 DEF Given
  <2>6. ASSUME NEW n \in Names, Resized(n)
        PROVE  FitsIn(items')
    <3>1. PICK r \in Server, error \in Errors :
            /\ r.want /\ r.gpu = items[n].gpu /\ r.frac \in FixedShares(n, error)
            /\ items' = [items EXCEPT ![n] = r]
      BY <2>6 DEF Resized
    <3>2. n \in WantedNames(items) /\ Wanted(items, n)
      BY <2>6 DEF Resized, WantedNames
    <3>3. CASE r.frac <= items[n].frac
      BY <2>3, <3>1, <3>2, <3>3
    <3>4. CASE r.frac + UsedShare(items, r.gpu, n) <= Full
      <4>1. ASSUME NEW g \in Cards
            PROVE  UsedShare(items', g, NoServer) <= Full
        <5>1. CASE g = r.gpu
          BY <1>1, <3>1, <3>4, <5>1, OneMoreFits
        <5>2. CASE g # r.gpu
          <6>1. UsedShare(items', g, NoServer) <= UsedShare(items, g, NoServer)
            BY <1>1, <3>1, <5>2, LessStillFits
          <6>2. items' \in Records
            BY <1>1, <3>1 DEF Records
          <6>3. UsedShare(items', g, NoServer) \in Nat /\ UsedShare(items, g, NoServer) \in Nat
            BY <1>1, <6>2, SharesOnType
          <6>4. QED  BY <6>1, <6>3 DEF FitsIn, Full
        <5>3. QED  BY <5>1, <5>2
      <4>2. QED  BY <4>1 DEF FitsIn
    <3>5. QED  BY <3>1, <3>2, <3>3, <3>4, FixedFits
  <2>7. ASSUME NEW n \in Names
        PROVE  ~Revived(n)
    BY DEF Revived, NobodyRevives
  <2>8. QED  BY <2>1, <2>2, <2>4, <2>5, <2>6, <2>7 DEF RecordStep, RecordsStep
<1>3. saved' = items' \/ UNCHANGED saved \/ saved' = items
  BY DEF RecordStep, FileStep
<1>4. QED  BY <1>2, <1>3

FitInv == TypeInv /\ NobodyRevives /\ FitsIn(items) /\ FitsIn(saved)

LEMMA FitAlways == ASSUME ~StopMayFail PROVE Spec => []FitInv
<1>1. Init => FitInv
  <2>1. SUFFICES ASSUME Init PROVE FitInv
    OBVIOUS
  <2>2. FitsIn(saved) /\ items = saved
    BY <2>1, FilesAssumption DEF FilesAssumption, Init, LegalFile, FitsIn
  <2>3. QED  BY <2>1, <2>2, InitTypes DEF FitInv, Init, NobodyRevives
<1>2. FitInv /\ [Next]_vars => FitInv'
  <2>1. SUFFICES ASSUME FitInv, [Next]_vars PROVE FitInv'
    OBVIOUS
  <2>2. TypeInv' /\ NobodyRevives' /\ RecordStep
    BY <2>1, StepTypes, StepRevivesNobody, StepRecords DEF FitInv
  <2>3. FitsIn(items') /\ FitsIn(saved')
    BY <2>1, <2>2, StepFits DEF FitInv
  <2>4. FitsIn(items)' /\ FitsIn(saved)'
    BY <2>3 DEF FitsIn, UsedShare, Wanted
  <2>5. QED  BY <2>2, <2>4 DEF FitInv
<1>3. QED  BY <1>1, <1>2, PTL DEF Spec

\* Where systemctl stop does not fail, the shares of the active models of a card
\* never add up to more than the card, for any number of models and cards.
THEOREM SharesAlwaysFit == ASSUME ~StopMayFail PROVE Spec => []SharesFit
<1>1. FitInv => SharesFit
  BY DEF FitInv, FitsIn, SharesFit
<1>2. QED  BY <1>1, FitAlways, PTL

-----------------------------------------------------------------------------
\* state.json implements the abstract places

PlaceOf(r) == [gpu |-> r.gpu, port |-> r.port, frac |-> r.frac]

\* An active record holds a place, another none.
LEMMA PlaceHeld ==
  ASSUME NEW its \in Records, NEW n \in Names
  PROVE  /\ Wanted(its, n) => /\ its[n] \in Server
                              /\ PlacesOf(its)[n] = PlaceOf(its[n])
                              /\ PlacesOf(its)[n] \in P!Place /\ PlacesOf(its)[n] # NoPlace
         /\ ~Wanted(its, n) => PlacesOf(its)[n] = NoPlace
         /\ PlacesOf(its) \in [Names -> P!Place \cup {NoPlace}]
<1>1. ASSUME NEW m \in Names, Wanted(its, m)
      PROVE  /\ its[m] \in Server /\ PlacesOf(its)[m] = PlaceOf(its[m])
             /\ PlacesOf(its)[m] \in P!Place /\ PlacesOf(its)[m] # NoPlace
  <2>1. its[m] \in Server
    BY <1>1 DEF Records, Wanted
  <2>2. PlaceOf(its[m]) \in [gpu : Cards, port : Ports, frac : 1..Full]
    BY <2>1 DEF PlaceOf, Server
  <2>3. PlacesOf(its)[m] = PlaceOf(its[m])
    BY <1>1 DEF PlacesOf, PlaceOf
  <2>4. QED  BY <2>1, <2>2, <2>3, PlacesAssumption DEF PlacesAssumption, P!Place, P!Full, Full
<1>2. ASSUME NEW m \in Names, ~Wanted(its, m)
      PROVE  PlacesOf(its)[m] = NoPlace
  BY <1>2 DEF PlacesOf
<1>3. PlacesOf(its) \in [Names -> P!Place \cup {NoPlace}]
  <2>1. PlacesOf(its) = [m \in Names |-> PlacesOf(its)[m]]
    BY DEF PlacesOf
  <2>2. ASSUME NEW m \in Names PROVE PlacesOf(its)[m] \in P!Place \cup {NoPlace}
    BY <1>1, <1>2
  <2>3. QED  BY <2>1, <2>2
<1>4. QED  BY <1>1, <1>2, <1>3

\* Places and records are counted alike.
LEMMA SameTotal == ASSUME NEW shares PROVE P!Total(shares) = Total(shares)
<1>1. ASSUME NEW S PROVE P!Cardinality(S) = Cardinality(S)
  BY Zenon DEF P!Cardinality, Cardinality
<1>2. P!Hundredths(shares) = Hundredths(shares)
  BY DEF P!Hundredths, Hundredths
<1>3. QED  BY <1>1, <1>2 DEF P!Total, Total

\* What the others hold is the same, counted by places or by records.
LEMMA BesideIsUsed ==
  ASSUME NEW its \in Records, NEW n \in Names, NEW g
  PROVE  P!UsedBeside(PlacesOf(its), g, n) = UsedShare(its, g, n)
<1> DEFINE beside == [m \in Names |->
                        IF m # n /\ PlacesOf(its)[m] # NoPlace
                        THEN IF PlacesOf(its)[m].gpu = g THEN PlacesOf(its)[m].frac ELSE 0
                        ELSE 0]
           used == [m \in Names |-> IF m # n /\ Wanted(its, m)
                                    THEN IF its[m].gpu = g THEN its[m].frac ELSE 0
                                    ELSE 0]
<1>1. ASSUME NEW m \in Names
      PROVE  beside[m] = used[m]
  <2>1. CASE Wanted(its, m)
    <3>1. PlacesOf(its)[m] = PlaceOf(its[m]) /\ PlacesOf(its)[m] # NoPlace
      BY <2>1, PlaceHeld
    <3>2. PlacesOf(its)[m].gpu = its[m].gpu /\ PlacesOf(its)[m].frac = its[m].frac
      BY <3>1 DEF PlaceOf
    <3>3. QED  BY <2>1, <3>1, <3>2
  <2>2. CASE ~Wanted(its, m)
    BY <2>2, PlaceHeld
  <2>3. QED  BY <2>1, <2>2
<1>2. beside = used
  BY <1>1
<1>3. P!Total(beside) = Total(used)
  BY <1>2, SameTotal
<1>4. QED  BY <1>3 DEF P!UsedBeside, UsedShare

\* A record that is replaced changes the place of its name.
LEMMA PlaceReplaced ==
  ASSUME NEW its \in Records, NEW n \in Names, NEW r \in Server \cup {NoServer}
  PROVE  PlacesOf([its EXCEPT ![n] = r])
           = [PlacesOf(its) EXCEPT ![n] = IF r # NoServer /\ r.want THEN PlaceOf(r) ELSE NoPlace]
<1> DEFINE new == [its EXCEPT ![n] = r]
           p == IF r # NoServer /\ r.want THEN PlaceOf(r) ELSE NoPlace
<1>1. new[n] = r /\ \A m \in Names \ {n} : new[m] = its[m]
  BY DEF Records
<1>2. ASSUME NEW m \in Names
      PROVE  PlacesOf(new)[m] = [PlacesOf(its) EXCEPT ![n] = p][m]
  <2>1. CASE m = n
    BY <1>1, <2>1 DEF PlacesOf, PlaceOf, Wanted
  <2>2. CASE m # n
    BY <1>1, <2>2 DEF PlacesOf, Wanted
  <2>3. QED  BY <2>1, <2>2
<1> HIDE DEF new, p
<1>3. PlacesOf(new) = [PlacesOf(its) EXCEPT ![n] = p]
  BY <1>2 DEF PlacesOf
<1>4. QED  BY <1>3 DEF new, p

\* A record that gives its place back gives the place of its name back.
LEMMA GivenGives ==
  ASSUME TypeInv, NEW n \in Names, Given(n)
  PROVE  PlacesOf(items') = [PlacesOf(items) EXCEPT ![n] = NoPlace]
<1>1. items \in Records
  BY DEF TypeInv, TypeOK, Records
<1>2. PICK r \in Server \cup {NoServer} :
        (r = NoServer \/ ~r.want) /\ items' = [items EXCEPT ![n] = r]
  BY DEF Given
<1>3. QED  BY <1>1, <1>2, PlaceReplaced

\* A record that keeps its place keeps the place of its name.
LEMMA KeptKeeps ==
  ASSUME TypeInv, NEW n \in Names, Kept(n)
  PROVE  PlacesOf(items') = PlacesOf(items)
<1>1. items \in Records
  BY DEF TypeInv, TypeOK, Records
<1>2. PICK r \in Server :
        /\ r.want /\ r.gpu = items[n].gpu /\ r.port = items[n].port /\ r.frac = items[n].frac
        /\ items' = [items EXCEPT ![n] = r]
  BY DEF Kept
<1>3. r # NoServer /\ PlaceOf(r) = PlacesOf(items)[n]
  BY <1>1, <1>2, PlaceHeld, ConstantsAssumption DEF ConstantsAssumption, PlaceOf, Kept
<1>4. PlacesOf(items') = [PlacesOf(items) EXCEPT ![n] = PlaceOf(r)]
  BY <1>1, <1>2, <1>3, PlaceReplaced
<1>5. QED  BY <1>3, <1>4 DEF PlacesOf

\* While restore runs, the memory differs from the file only by places that were
\* given back; while requests are served, the memory is the file.
GivesBack ==
  /\ mode = "serving" => saved = items
  /\ mode = "restore" => \A n \in Names : PlacesOf(items)[n] \in {PlacesOf(saved)[n], NoPlace}

LEMMA StepGivesBack ==
  ASSUME TypeInv, GivesBack, RecordStep
  PROVE  GivesBack'
<1> DEFINE Within(its, file) == \A n \in Names : PlacesOf(its)[n] \in {PlacesOf(file)[n], NoPlace}
<1>1. CASE mode = "serving" /\ mode' = "serving" /\ (saved' = items' \/ UNCHANGED <<items, saved>>)
  BY <1>1 DEF GivesBack
<1>2. CASE /\ mode = "restore" /\ mode' = "restore" /\ UNCHANGED saved
           /\ UNCHANGED items \/ \E n \in Names : Kept(n) \/ Given(n)
  <2>1. Within(items, saved)
    BY <1>2 DEF GivesBack
  <2>2. CASE UNCHANGED items \/ \E n \in Names : Kept(n)
    <3>1. PlacesOf(items') = PlacesOf(items)
      BY <2>2, KeptKeeps
    <3>2. Within(items', saved)
      BY <2>1, <3>1
    <3>3. QED  BY <1>2, <3>2 DEF GivesBack
  <2>3. ASSUME NEW n \in Names, Given(n)
        PROVE  GivesBack'
    <3>1. PlacesOf(items') = [PlacesOf(items) EXCEPT ![n] = NoPlace]
      BY <2>3, GivenGives
    <3>2. PlacesOf(items) = [m \in Names |-> PlacesOf(items)[m]]
      BY DEF PlacesOf
    <3>3. Within(items', saved)
      BY <2>1, <3>1, <3>2
    <3>4. QED  BY <1>2, <3>3 DEF GivesBack
  <2>4. QED  BY <1>2, <2>2, <2>3
<1>3. CASE mode = "restore" /\ mode' = "serving" /\ UNCHANGED items /\ saved' = items
  BY <1>3 DEF GivesBack
<1>4. CASE mode' = "restore" /\ UNCHANGED saved /\ items' = saved
  <2>1. Within(items', saved')
    BY <1>4
  <2>2. QED  BY <1>4, <2>1 DEF GivesBack
<1>5. QED  BY <1>1, <1>2, <1>3, <1>4 DEF RecordStep, FileStep

LEMMA InitPlaces ==
  ASSUME Init
  PROVE  P!Init /\ GivesBack
<1>1. saved \in Records /\ items = saved /\ Apart(saved) /\ mode = "restore"
  BY FilesAssumption DEF FilesAssumption, Init, LegalFile, Apart, Records
<1>2. PlacesOf(saved) \in [Names -> P!Place \cup {NoPlace}]
  BY <1>1, PlaceHeld, ConstantsAssumption DEF ConstantsAssumption
<1>3. P!DistinctPlaces(PlacesOf(saved))
  <2>1. ASSUME NEW m \in Names, PlacesOf(saved)[m] # NoPlace
        PROVE  m \in WantedNames(saved) /\ PlacesOf(saved)[m].port = saved[m].port
    <3>1. Wanted(saved, m) /\ PlacesOf(saved)[m] = PlaceOf(saved[m])
      BY <1>1, <2>1, PlaceHeld
    <3>2. QED  BY <3>1 DEF WantedNames, PlaceOf
  <2>2. QED  BY <1>1, <2>1 DEF P!DistinctPlaces, P!Holders, Apart
<1>4. GivesBack
  BY <1>1 DEF GivesBack
<1>5. QED  BY <1>2, <1>3, <1>4 DEF P!Init

\* A start takes a place that is free.
LEMMA TakenTakes ==
  ASSUME TypeInv, saved = items, NEW n \in Names, Taken(n), saved' = items'
  PROVE  P!Take(n)
<1>1. items \in Records
  BY DEF TypeInv, TypeOK, Records
<1>2. PICK r \in Server, ask \in 0..Full :
        /\ r.want /\ r.port \notin TakenPorts /\ r.frac \in GrantedShares(r.gpu, ask)
        /\ items' = [items EXCEPT ![n] = r]
  BY DEF Taken
<1> DEFINE old == PlacesOf(items)
           p == PlaceOf(r)
<1>3. r.gpu \in Cards /\ r # NoServer /\ p \in P!Place
  BY ConstantsAssumption DEF ConstantsAssumption, Server, PlaceOf, P!Place, P!Full, Full
<1>4. p.gpu = r.gpu /\ p.port = r.port /\ p.frac = r.frac
  BY DEF PlaceOf
<1>5. old[n] = NoPlace /\ old \in [Names -> P!Place \cup {NoPlace}]
  BY <1>1, PlaceHeld DEF Taken
<1>6. PlacesOf(items') = [old EXCEPT ![n] = p]
  BY <1>1, <1>2, <1>3, PlaceReplaced
<1>7. ASSUME NEW m \in Names, old[m] # NoPlace
      PROVE  old[m].port # p.port
  <2>1. Wanted(items, m) /\ old[m].port = items[m].port
    <3>1. Wanted(items, m) /\ PlacesOf(items)[m] = PlaceOf(items[m])
      BY <1>1, <1>7, PlaceHeld
    <3>2. QED  BY <3>1 DEF PlaceOf
  <2>2. QED  BY <1>2, <1>4, <2>1 DEF TakenPorts, WantedNames
<1>8. p.frac + P!UsedBeside(old, p.gpu, n) <= P!Full
  <2>1. r.frac + UsedShare(items, r.gpu, NoServer) <= Full
    BY <1>2, <1>3, GrantedFits
  <2>2. r.frac + UsedShare(items, r.gpu, n) <= Full
    BY <1>1, <2>1, IdleNameCountsNothing DEF Taken
  <2>3. P!UsedBeside(old, r.gpu, n) = UsedShare(items, r.gpu, n)
    BY <1>1, BesideIsUsed
  <2>4. QED  BY <1>4, <2>2, <2>3 DEF P!Full, Full
<1>9. PlacesOf(saved)' = PlacesOf(items') /\ PlacesOf(saved) = old
  BY DEF PlacesOf, Wanted
<1> HIDE DEF p
<1>10. PlacesOf(saved)'[n] = p
  BY <1>5, <1>6, <1>9
<1> HIDE DEF old
<1>11. QED  BY <1>3, <1>5, <1>6, <1>7, <1>8, <1>9, <1>10 DEF P!Take, P!Holders

\* A retry changes the share within what the others leave.
LEMMA ResizedResizes ==
  ASSUME TypeInv, saved = items, NEW n \in Names, Resized(n), saved' = items'
  PROVE  P!Resize(n)
<1>1. items \in Records /\ Wanted(items, n) /\ n \in WantedNames(items)
  BY DEF TypeInv, TypeOK, Records, Resized, WantedNames
<1>2. PICK r \in Server, error \in Errors :
        /\ r.want /\ r.gpu = items[n].gpu /\ r.port = items[n].port
        /\ r.frac \in FixedShares(n, error)
        /\ items' = [items EXCEPT ![n] = r]
  BY DEF Resized
<1> DEFINE old == PlacesOf(items)
           p == PlaceOf(r)
<1>3. r # NoServer /\ p \in P!Place
  BY ConstantsAssumption DEF ConstantsAssumption, Server, PlaceOf, P!Place, P!Full, Full
<1>4. p.gpu = r.gpu /\ p.port = r.port /\ p.frac = r.frac
  BY DEF PlaceOf
<1>5. /\ old[n] # NoPlace /\ old \in [Names -> P!Place \cup {NoPlace}]
      /\ old[n].gpu = items[n].gpu /\ old[n].port = items[n].port /\ old[n].frac = items[n].frac
  <2>1. /\ old[n] # NoPlace /\ old[n] = PlaceOf(items[n])
        /\ old \in [Names -> P!Place \cup {NoPlace}]
    BY <1>1, PlaceHeld
  <2>2. QED  BY <2>1 DEF PlaceOf
<1>6. PlacesOf(items') = [old EXCEPT ![n] = p]
  BY <1>1, <1>2, <1>3, PlaceReplaced
<1>7. p.frac <= old[n].frac \/ p.frac + P!UsedBeside(old, p.gpu, n) <= P!Full
  <2>1. r.frac <= items[n].frac \/ r.frac + UsedShare(items, r.gpu, n) <= Full
    BY <1>1, <1>2, FixedFits
  <2>2. P!UsedBeside(old, r.gpu, n) = UsedShare(items, r.gpu, n)
    BY <1>1, BesideIsUsed
  <2>3. QED  BY <1>4, <1>5, <2>1, <2>2 DEF P!Full, Full
<1>8. PlacesOf(saved)' = PlacesOf(items') /\ PlacesOf(saved) = old
  BY DEF PlacesOf, Wanted
<1> HIDE DEF p
<1>9. PlacesOf(saved)'[n] = p
  BY <1>5, <1>6, <1>8
<1> HIDE DEF old
<1>10. QED  BY <1>2, <1>3, <1>4, <1>5, <1>6, <1>7, <1>8, <1>9 DEF P!Resize

\* Every step is a step of the places or leaves them.
LEMMA StepPlaces ==
  ASSUME TypeInv, NobodyRevives, GivesBack, RecordStep
  PROVE  P!Next \/ PlacesOf(saved)' = PlacesOf(saved)
<1>1. items \in Records /\ saved \in Records
  BY DEF TypeInv, TypeOK, Records
<1>2. CASE UNCHANGED saved
  BY <1>2 DEF PlacesOf, Wanted
<1>3. CASE mode = "serving" /\ saved' = items'
  <2>1. saved = items
    BY <1>3 DEF GivesBack
  <2>2. PlacesOf(saved)' = PlacesOf(items') /\ PlacesOf(saved) = PlacesOf(items)
    BY <1>3, <2>1 DEF PlacesOf, Wanted
  <2>3. CASE UNCHANGED items \/ items' = saved
    BY <2>1, <2>2, <2>3
  <2>4. ASSUME NEW n \in Names, Taken(n)
        PROVE  P!Next
    BY <1>3, <2>1, <2>4, TakenTakes DEF P!Next
  <2>5. ASSUME NEW n \in Names, Kept(n)
        PROVE  PlacesOf(saved)' = PlacesOf(saved)
    BY <2>2, <2>5, KeptKeeps
  <2>6. ASSUME NEW n \in Names, Resized(n)
        PROVE  P!Next
    BY <1>3, <2>1, <2>6, ResizedResizes DEF P!Next
  <2>7. ASSUME NEW n \in Names, Given(n)
        PROVE  P!Next
    <3>1. PlacesOf(items') = [PlacesOf(items) EXCEPT ![n] = NoPlace]
      BY <2>7, GivenGives
    <3>2. PlacesOf(items) = [m \in Names |-> PlacesOf(items)[m]]
      BY DEF PlacesOf
    <3>3. PlacesOf(items') = [m \in Names |-> IF m \in {n} THEN NoPlace ELSE PlacesOf(items)[m]]
      BY <3>1, <3>2
    <3>4. P!Give({n})
      BY <2>2, <3>3 DEF P!Give
    <3>5. QED  BY <3>4 DEF P!Next
  <2>8. ASSUME NEW n \in Names
        PROVE  ~Revived(n)
    BY DEF Revived, NobodyRevives
  <2>9. QED  BY <2>3, <2>4, <2>5, <2>6, <2>7, <2>8 DEF RecordStep, RecordsStep
<1>4. CASE mode = "restore" /\ saved' = items
  <2> DEFINE S == {n \in Names : PlacesOf(items)[n] = NoPlace}
  <2>1. ASSUME NEW n \in Names
        PROVE  PlacesOf(items)[n] = IF n \in S THEN NoPlace ELSE PlacesOf(saved)[n]
    BY <1>4 DEF GivesBack
  <2>2. PlacesOf(items) = [n \in Names |-> PlacesOf(items)[n]]
    BY DEF PlacesOf
  <2> HIDE DEF S
  <2>3. PlacesOf(items) = [n \in Names |-> IF n \in S THEN NoPlace ELSE PlacesOf(saved)[n]]
    BY <2>1, <2>2
  <2>4. PlacesOf(saved)' = PlacesOf(items)
    BY <1>4 DEF PlacesOf, Wanted
  <2>5. P!Give(S)
    BY <2>3, <2>4 DEF P!Give
  <2>6. S \in SUBSET Names
    BY DEF S
  <2>7. QED  BY <2>5, <2>6 DEF P!Next
<1>5. QED  BY <1>2, <1>3, <1>4 DEF RecordStep, FileStep

\* Where systemctl stop does not fail, state.json implements the abstract places, for any
\* number of models, cards and threads: starts take places that are free, retries stay
\* within what the others leave, and crashes and restarts only give places back.
THEOREM PlacesAreImplemented == ASSUME ~StopMayFail PROVE Spec => ImplementsPlaces
<1>1. Init => P!Init /\ GivesBack
  BY InitPlaces
<1>2. PortsInv /\ GivesBack /\ [Next]_vars => GivesBack'
  <2>1. SUFFICES ASSUME PortsInv, GivesBack, [Next]_vars PROVE GivesBack'
    OBVIOUS
  <2>2. QED  BY <2>1, StepRecords, StepGivesBack DEF PortsInv
<1>3. PortsInv /\ GivesBack /\ [Next]_vars => [P!Next]_(PlacesOf(saved))
  <2>1. SUFFICES ASSUME PortsInv, GivesBack, [Next]_vars PROVE [P!Next]_(PlacesOf(saved))
    OBVIOUS
  <2>2. QED  BY <2>1, StepRecords, StepPlaces DEF PortsInv
<1>4. QED  BY <1>1, <1>2, <1>3, PortsAlways, PTL DEF Spec, ImplementsPlaces, P!Spec

-----------------------------------------------------------------------------
(***************************************************************************)
(* A stop that was answered is final.  A record is known by its name and   *)
(* its id, which is a time stamp no other record of that name has; only    *)
(* the thread that stops a record can bring it back, and no two threads    *)
(* stop the same one at a time.                                            *)
(***************************************************************************)

\* Thread t has marked an active record stopped and stops its unit.
Stopping(t) == pc[t] \in {"stopping", "revive"} /\ ~job[t].dismiss

IdsBelow(its) == \A n \in Names : its[n] # NoServer => its[n].id < clock

StopIds ==
  /\ \A t \in Threads : Stopping(t) => job[t].id < clock
  /\ \A s \in stopped : s[2] < clock

BeingStopped == \A t \in Threads : Stopping(t) =>
  /\ <<job[t].name, job[t].id>> \notin stopped
  /\ items[job[t].name] # NoServer /\ items[job[t].name].id = job[t].id
       => ~items[job[t].name].want /\ items[job[t].name].status = "stopped"
  /\ \A u \in Threads : Stopping(u) /\ job[u].name = job[t].name /\ job[u].id = job[t].id => u = t

ReviveGoesOn == \A t \in Threads : pc[t] = "revive" => ~job[t].dismiss

StopInv == /\ TypeInv /\ SavedIsCurrent /\ IdsBelow(items) /\ IdsBelow(saved) /\ StopIds
           /\ ReviveGoesOn /\ BeingStopped /\ StoppedStaysStopped

\* What may have become of a record that is there after a step.
Renewed(n) == /\ items'[n].id = clock /\ items'[n].started = clock /\ clock' = clock + 1
              /\ items'[n].want /\ items'[n].port \notin TakenPorts

Watched(n) == Wanted(items, n) /\ items'[n].id = items[n].id

RevivedBy(n, t) ==
  /\ items[n] # NoServer /\ items'[n].id = items[n].id
  /\ pc[t] = "revive" /\ job[t].name = n /\ job[t].id = items[n].id
  /\ pc' = [pc EXCEPT ![t] = "idle"]

LEMMA RecordChanges ==
  ASSUME TypeInv, RecordsStep, NEW n \in Names, items'[n] # NoServer
  PROVE  \/ items'[n] = items[n]
         \/ crashes < MaxCrashes /\ mode' = "restore" /\ items'[n] = saved[n]
         \/ Renewed(n) \/ Watched(n) \/ \E t \in Threads : RevivedBy(n, t)
<1>0. items \in [Names -> Server \cup {NoServer}] BY DEF TypeInv, TypeOK
<1>1. CASE UNCHANGED items BY <1>1
<1>2. CASE crashes < MaxCrashes /\ items' = saved /\ mode' = "restore" BY <1>2
<1>3. ASSUME NEW m \in Names, Taken(m) \/ Kept(m) \/ Resized(m) \/ Given(m) \/ Revived(m), m # n
      PROVE  items'[n] = items[n]
  BY <1>0, <1>3 DEF Taken, Kept, Resized, Given, Revived
<1>4. CASE Taken(n) BY <1>0, <1>4 DEF Taken, Renewed
<1>5. CASE Kept(n) \/ Resized(n) BY <1>0, <1>5 DEF Kept, Resized, Watched
<1>6. CASE Given(n) BY <1>0, <1>6 DEF Given, Watched
<1>7. CASE Revived(n)
  <2>1. PICK t \in Threads : /\ pc[t] = "revive" /\ job[t].name = n /\ job[t].id = items[n].id
                             /\ pc' = [pc EXCEPT ![t] = "idle"]
    BY <1>7 DEF Revived
  <2>2. items[n] # NoServer /\ items[n] \in Server BY <1>0, <1>7 DEF Revived
  <2>3. items'[n] = [items[n] EXCEPT !.want = TRUE, !.status = "starting"]
    BY <1>0, <1>7 DEF Revived
  <2>4. items'[n].id = items[n].id BY <2>2, <2>3 DEF Server
  <2> QED BY <2>1, <2>2, <2>4 DEF RevivedBy
<1> QED BY <1>1, <1>2, <1>3, <1>4, <1>5, <1>6, <1>7 DEF RecordsStep

\* Thread t marks the active record it will stop.
Marks(t) ==
  LET n == job'[t].name
  IN  /\ n \in Names /\ Wanted(items, n) /\ job'[t].id = items[n].id
      /\ items'[n].id = items[n].id /\ ~items'[n].want /\ items'[n].status = "stopped"
      /\ \A m \in Names : m # n => items'[m] = items[m]
      /\ \A u \in Threads : u # t => pc'[u] = pc[u] /\ job'[u] = job[u]
      /\ pc'[t] = "stopping" /\ saved' = items' /\ clock' = clock /\ stopped' = stopped

\* Thread t has its stop answered.
Answers(t) ==
  /\ Stopping(t) /\ pc'[t] \notin {"stopping", "revive"}
  /\ \A u \in Threads : u # t => pc'[u] = pc[u] /\ job'[u] = job[u]
  /\ stopped' = stopped \cup {<<job[t].name, job[t].id>>}
  /\ UNCHANGED <<items, saved, mode, clock>>

\* No stop is begun or answered.
GoesOn ==
  /\ stopped' = stopped
  /\ \A t \in Threads : /\ Stopping(t)' => Stopping(t) /\ job'[t] = job[t]
                        /\ pc'[t] = "revive" => ~job'[t].dismiss

LEMMA MarkStep ==
  ASSUME TypeInv, ReviveGoesOn, NEW t \in Threads, NEW n \in Names, NEW to, NEW from, NEW ask, NEW leg,
         RecordStop(t, n, to, from, ask, leg), clock' = clock, stopped' = stopped
  PROVE  Marks(t) \/ GoesOn
<1>0. items \in [Names -> Server \cup {NoServer}] /\ pc \in [Threads -> ThreadLabels]
  BY DEF TypeInv, TypeOK
<1>1. /\ pc' = [pc EXCEPT ![t] = "stopping"]
      /\ job' = [job EXCEPT ![t] = [name |-> n, id |-> items[n].id, to |-> to, from |-> from,
                               ask |-> ask, leg |-> leg, dismiss |-> ~items[n].want]]
      /\ items[n] # NoServer /\ saved' = items'
  BY DEF RecordStop, Stoppable
<1>2. /\ pc'[t] = "stopping" /\ job'[t].name = n /\ job'[t].id = items[n].id
      /\ job'[t].dismiss = ~items[n].want
      /\ \A u \in Threads : u # t => pc'[u] = pc[u] /\ job'[u] = job[u]
  BY <1>0, <1>1 DEF TypeInv, TypeOK
<1>3. CASE items[n].want
  <2>1. items' = [items EXCEPT ![n] = [items[n] EXCEPT !.want = FALSE, !.status = "stopped"]]
    BY <1>0, <1>3 DEF RecordStop
  <2>2. /\ items'[n].id = items[n].id /\ ~items'[n].want /\ items'[n].status = "stopped"
        /\ \A m \in Names : m # n => items'[m] = items[m]
    BY <1>0, <1>1, <2>1 DEF Server
  <2> QED BY <1>1, <1>2, <1>3, <2>2 DEF Marks, Wanted
<1>4. CASE ~items[n].want
  BY <1>2, <1>4 DEF GoesOn, Stopping, ReviveGoesOn
<1> QED BY <1>3, <1>4

LEMMA StopSteps ==
  ASSUME TypeInv, ReviveGoesOn, [Next]_vars
  PROVE  /\ (\E t \in Threads : Marks(t) \/ Answers(t)) \/ GoesOn
         /\ clock' \in Nat /\ clock <= clock'
<1> USE DEF ReviveGoesOn
<1>0. /\ pc \in [Threads -> ThreadLabels] /\ job \in [Threads -> Job \cup {NoJob}] /\ clock \in Nat
  BY DEF TypeInv, TypeOK
<1>1. ASSUME NEW t \in Threads, \/ Launch(t) \/ Undo(t) \/ CheckWanted(t) \/ Kill(t)
                                \/ MoveCheck(t) \/ MoveStopRefused(t) \/ MoveStartRefused(t)
                                \/ Revive(t)
      PROVE  GoesOn /\ clock' = clock
  BY <1>0, <1>1 DEF Launch, Undo, CheckWanted, Kill, MoveCheck, MoveStopRefused, MoveStartRefused,
       Revive, Goto, Return, GoesOn, Stopping
<1>2. ASSUME NEW t \in Threads, BeginStart(t) \/ MoveGo(t) \/ MoveBack(t)
      PROVE  GoesOn /\ clock' = clock + 1
  BY <1>0, <1>2 DEF BeginStart, MoveGo, MoveBack, RecordStart, Stamp, GoesOn, Stopping
<1>3. ASSUME NEW t \in Threads, BeginMove(t) PROVE GoesOn /\ clock' = clock
  BY <1>0, <1>3 DEF BeginMove, GoesOn, Stopping
<1>4. ASSUME NEW t \in Threads, BeginStop(t)
      PROVE  (Marks(t) \/ GoesOn) /\ clock' = clock
  <2>1. clock' = clock /\ stopped' = stopped BY <1>4 DEF BeginStop
  <2> QED BY <1>4, <2>1, MarkStep DEF BeginStop
<1>5. ASSUME NEW t \in Threads, MoveStop(t)
      PROVE  (Marks(t) \/ GoesOn) /\ clock' = clock
  <2>1. clock' = clock /\ stopped' = stopped BY <1>5 DEF MoveStop
  <2>2. job[t].name \in Names BY <1>5 DEF MoveStop, TypeInv, TypeOK, Job
  <2> QED BY <1>5, <2>1, <2>2, MarkStep DEF MoveStop
<1>6. ASSUME NEW t \in Threads, StopUnit(t) \/ StopUnitFails(t)
      PROVE  (Answers(t) \/ GoesOn) /\ clock' = clock
  <2>1. clock' = clock /\ UNCHANGED <<items, saved, mode>> /\ pc[t] = "stopping"
    BY <1>6 DEF StopUnit, StopUnitFails, bootVars
  <2>2. CASE Stopped(t) /\ job[t].dismiss
    BY <1>0, <2>1, <2>2 DEF Stopped, Goto, Return, GoesOn, Stopping
  <2>3. CASE Stopped(t) /\ ~job[t].dismiss
    BY <1>0, <2>1, <2>3 DEF Stopped, Goto, Return, Answers, Stopping
  <2>4. CASE ~job[t].dismiss /\ Goto(t, "revive") /\ UNCHANGED stopped
    BY <1>0, <2>1, <2>4 DEF Goto, GoesOn, Stopping
  <2> QED BY <1>6, <2>1, <2>2, <2>3, <2>4 DEF StopUnit, StopUnitFails
<1>7. ASSUME Poll PROVE GoesOn /\ (clock' = clock \/ clock' = clock + 1)
  <2>1. UNCHANGED <<threadVars, stopped>> /\ (clock' = clock \/ clock' = clock + 1)
    BY <1>7 DEF Poll, PollSnapshot, PollUnknown, PollActive, PollDrop, PollGiveUp, PollRetry, PollRelaunch,
       PollRelaunchFailed, PollRecheck, PollKill, PollProbe, PollHealthy, PollUnhealthy, PollTimeout, Stamp
  <2> QED BY <2>1 DEF threadVars, GoesOn, Stopping
<1>8. ASSUME Restore PROVE GoesOn /\ (clock' = clock \/ clock' = clock + 1)
  <2>1. UNCHANGED <<threadVars, stopped>> /\ (clock' = clock \/ clock' = clock + 1)
    BY <1>8 DEF Restore, RestoreOne, RestoreEnd, Stamp
  <2> QED BY <2>1 DEF threadVars, GoesOn, Stopping
<1>9. ASSUME NEW n \in Names, UnitUp(n) \/ UnitDies(n) PROVE GoesOn /\ clock' = clock
  BY <1>9 DEF UnitUp, UnitDies, threadVars, GoesOn, Stopping
<1>10. ASSUME Crash PROVE GoesOn /\ clock' = clock
  BY <1>10 DEF Crash, GoesOn, Stopping
<1>11. CASE UNCHANGED vars
  BY <1>0, <1>11 DEF vars, GoesOn, Stopping
<1> QED
  <2>1. SUFFICES ASSUME Next PROVE ((\E t \in Threads : Marks(t) \/ Answers(t)) \/ GoesOn)
                                   /\ (clock' = clock \/ clock' = clock + 1)
    BY <1>0, <1>11 DEF vars
  <2>2. CASE \E t \in Threads : Request(t) \/ Work(t)
    BY <1>1, <1>2, <1>3, <1>4, <1>5, <1>6, <2>2 DEF Request, Work
  <2>3. CASE Poll BY <1>7, <2>3
  <2>4. CASE Restore \/ World
    BY <1>8, <1>9, <1>10, <2>4 DEF World
  <2>5. QED  BY <2>1, <2>2, <2>3, <2>4 DEF Next

LEMMA IdsStayBelow ==
  ASSUME StopInv, TypeInv', RecordStep, clock' \in Nat, clock <= clock'
  PROVE  IdsBelow(items)' /\ IdsBelow(saved)'
<1>0. /\ clock \in Nat
      /\ \A n \in Names : items[n] # NoServer => items[n].id \in Nat
      /\ \A n \in Names : saved[n] # NoServer => saved[n].id \in Nat
  BY DEF StopInv, TypeInv, TypeOK, Server
<1>b. ASSUME NEW n \in Names
      PROVE  /\ items[n] # NoServer => items[n].id < clock'
             /\ saved[n] # NoServer => saved[n].id < clock'
  <2>1. /\ items[n] # NoServer => items[n].id < clock
        /\ saved[n] # NoServer => saved[n].id < clock
    BY DEF StopInv, IdsBelow
  <2> QED BY <1>0, <2>1
<1>1. ASSUME NEW n \in Names, items'[n] # NoServer PROVE items'[n].id < clock'
  <2>1. CASE Renewed(n) BY <1>0, <2>1 DEF Renewed
  <2>2. CASE items'[n] = items[n] \/ items'[n] = saved[n]
    BY <1>1, <1>b, <2>2
  <2>3. CASE Watched(n) \/ \E t \in Threads : RevivedBy(n, t)
    BY <1>b, <2>3 DEF Watched, RevivedBy, Wanted
  <2> QED BY <1>1, <2>1, <2>2, <2>3, RecordChanges DEF RecordStep, StopInv
<1>2. ASSUME NEW n \in Names, saved'[n] # NoServer PROVE saved'[n].id < clock'
  <2>1. saved' = saved \/ saved' = items' \/ saved' = items BY DEF RecordStep, FileStep
  <2>2. CASE saved' = saved BY <1>2, <1>b, <2>2
  <2>3. CASE saved' = items' BY <1>1, <1>2, <2>3
  <2>4. CASE saved' = items BY <1>2, <1>b, <2>4
  <2> QED BY <2>1, <2>2, <2>3, <2>4
<1> QED BY <1>1, <1>2 DEF IdsBelow

\* While nothing is marked or answered no stopped record comes back.
LEMMA GoesOnKeeps ==
  ASSUME StopInv, TypeInv', RecordStep, GoesOn, clock' \in Nat, clock <= clock'
  PROVE  StopIds' /\ ReviveGoesOn' /\ BeingStopped' /\ StoppedStaysStopped'
<1>0. clock \in Nat /\ \A t \in Threads : pc[t] # "idle" => job[t] \in Job
  BY DEF StopInv, TypeInv, TypeOK
<1>a. \A n \in Names : items[n] # NoServer => items[n].id \in Nat
  BY DEF StopInv, TypeInv, TypeOK, Server
<1>b. \A t \in Threads : Stopping(t) => job[t].id \in Nat /\ job[t].name \in Names /\ job[t].id < clock
  BY <1>0 DEF Stopping, Job, StopInv, StopIds
<1>c. stopped' = stopped /\ \A s \in stopped : s[2] \in Nat /\ s[2] < clock
  BY DEF GoesOn, StopInv, StopIds, TypeInv, TypeOK
<1>1. StopIds' BY <1>0, <1>b, <1>c DEF StopIds, GoesOn
<1>2. ReviveGoesOn' BY DEF ReviveGoesOn, GoesOn
<1>3. ASSUME NEW n \in Names, NEW t \in Threads, RevivedBy(n, t)
      PROVE  Stopping(t) /\ ~Stopping(t)'
  BY <1>3 DEF RevivedBy, Stopping, StopInv, ReviveGoesOn, TypeInv, TypeOK
<1>4. BeingStopped'
  <2>1. SUFFICES ASSUME NEW t \in Threads, Stopping(t)'
                 PROVE  /\ <<job'[t].name, job'[t].id>> \notin stopped'
                        /\ items'[job'[t].name] # NoServer /\ items'[job'[t].name].id = job'[t].id
                             => ~items'[job'[t].name].want /\ items'[job'[t].name].status = "stopped"
                        /\ \A u \in Threads : Stopping(u)' /\ job'[u].name = job'[t].name
                                                /\ job'[u].id = job'[t].id => u = t
    BY DEF BeingStopped
  <2>2. Stopping(t) /\ job'[t] = job[t] /\ \A u \in Threads : Stopping(u)' => Stopping(u) /\ job'[u] = job[u]
    BY <2>1 DEF GoesOn
  <2> DEFINE n == job[t].name
  <2>3. n \in Names /\ job[t].id \in Nat /\ job[t].id < clock BY <1>b, <2>2
  <2>4. ASSUME items'[n] # NoServer, items'[n].id = job[t].id
        PROVE  ~items'[n].want /\ items'[n].status = "stopped"
    <3>1. CASE items'[n] = items[n] BY <2>2, <2>4, <3>1 DEF StopInv, BeingStopped
    <3>2. CASE mode' = "restore"
      BY <2>1, <3>2 DEF TypeInv, RestoreAlone, Stopping
    <3>3. CASE Renewed(n) BY <1>0, <2>3, <2>4, <3>3 DEF Renewed
    <3>4. CASE Watched(n) BY <2>2, <2>4, <3>4 DEF Watched, Wanted, StopInv, BeingStopped
    <3>5. ASSUME NEW u \in Threads, RevivedBy(n, u) PROVE FALSE
      <4>1. Stopping(u) /\ ~Stopping(u)' BY <1>3, <2>3, <3>5
      <4>2. job[u].name = n /\ job[u].id = job[t].id BY <2>4, <3>5 DEF RevivedBy
      <4>3. u = t BY <2>2, <4>1, <4>2 DEF StopInv, BeingStopped
      <4> QED BY <2>1, <4>1, <4>3
    <3> QED BY <2>3, <2>4, <3>1, <3>2, <3>3, <3>4, <3>5, RecordChanges DEF RecordStep, StopInv
  <2> QED BY <1>c, <2>2, <2>4 DEF StopInv, BeingStopped
<1>5. ASSUME NEW n \in Names, Wanted(items', n) PROVE <<n, items'[n].id>> \notin stopped
  <2>0. items'[n] # NoServer BY <1>5 DEF Wanted
  <2>1. CASE items'[n] = items[n]
    BY <1>5, <2>1 DEF Wanted, StopInv, StoppedStaysStopped
  <2>2. CASE items'[n] = saved[n]
    BY <1>5, <2>2 DEF Wanted, StopInv, StoppedStaysStopped
  <2>3. CASE Renewed(n)
    <3>1. items'[n].id = clock BY <2>3 DEF Renewed
    <3>2. SUFFICES ASSUME <<n, clock>> \in stopped PROVE FALSE BY <3>1
    <3>3. <<n, clock>>[2] < clock BY <1>c, <3>2
    <3> QED BY <1>0, <3>3
  <2>4. CASE Watched(n) BY <2>4 DEF Watched, StopInv, StoppedStaysStopped
  <2>5. ASSUME NEW t \in Threads, RevivedBy(n, t) PROVE <<n, items'[n].id>> \notin stopped
    <3>1. Stopping(t) BY <1>3, <2>5
    <3> QED BY <2>5, <3>1 DEF RevivedBy, StopInv, BeingStopped
  <2> QED BY <2>0, <2>1, <2>2, <2>3, <2>4, <2>5, RecordChanges DEF RecordStep, StopInv
<1>6. ASSUME NEW n \in Names, Wanted(saved', n) PROVE <<n, saved'[n].id>> \notin stopped
  <2>1. saved' = saved \/ saved' = items' \/ saved' = items BY DEF RecordStep, FileStep
  <2>2. CASE saved' = saved BY <1>6, <2>2 DEF StopInv, StoppedStaysStopped
  <2>3. CASE saved' = items' BY <1>5, <1>6, <2>3
  <2>4. CASE saved' = items BY <1>6, <2>4 DEF StopInv, StoppedStaysStopped
  <2> QED BY <2>1, <2>2, <2>3, <2>4
<1>7. StoppedStaysStopped' BY <1>c, <1>5, <1>6 DEF StoppedStaysStopped, Wanted
<1> QED BY <1>1, <1>2, <1>4, <1>7

LEMMA MarksKeeps ==
  ASSUME StopInv, TypeInv', NEW t \in Threads, Marks(t)
  PROVE  StopIds' /\ ReviveGoesOn' /\ BeingStopped' /\ StoppedStaysStopped'
<1> DEFINE n == job'[t].name
<1>1. /\ n \in Names /\ Wanted(items, n) /\ job'[t].id = items[n].id
      /\ items'[n].id = items[n].id /\ ~items'[n].want /\ items'[n].status = "stopped"
      /\ \A m \in Names : m # n => items'[m] = items[m]
      /\ \A u \in Threads : u # t => pc'[u] = pc[u] /\ job'[u] = job[u]
      /\ pc'[t] = "stopping" /\ saved' = items' /\ clock' = clock /\ stopped' = stopped
  BY DEF Marks
<1>2. \A u \in Threads : u # t => (Stopping(u)' <=> Stopping(u)) BY <1>1 DEF Stopping
<1>3. \A u \in Threads : Stopping(u) => ~(job[u].name = n /\ job[u].id = items[n].id)
  <2> HIDE DEF n
  <2> SUFFICES ASSUME NEW u \in Threads, Stopping(u), job[u].name = n, job[u].id = items[n].id
               PROVE  FALSE
    OBVIOUS
  <2>1. items[n] # NoServer /\ items[n].id = job[u].id => ~items[n].want
    BY DEF StopInv, BeingStopped
  <2> QED BY <1>1, <2>1 DEF Wanted
<1>4. <<n, items[n].id>> \notin stopped BY <1>1 DEF StopInv, StoppedStaysStopped
<1>b. \A u \in Threads : Stopping(u) => job[u].name \in Names
  BY DEF Stopping, Job, StopInv, TypeInv, TypeOK
<1> HIDE DEF n
<1>5. StopIds' 
  BY <1>1, <1>2 DEF n, StopIds, StopInv, IdsBelow, Wanted
<1>6. ReviveGoesOn' BY <1>1 DEF ReviveGoesOn, StopInv
<1>7. BeingStopped'
  <2>1. ASSUME NEW u \in Threads, Stopping(u)', u # t
        PROVE  /\ <<job'[u].name, job'[u].id>> \notin stopped'
               /\ items'[job'[u].name] # NoServer /\ items'[job'[u].name].id = job'[u].id
                    => ~items'[job'[u].name].want /\ items'[job'[u].name].status = "stopped"
               /\ \A w \in Threads : Stopping(w)' /\ job'[w].name = job'[u].name
                                       /\ job'[w].id = job'[u].id => w = u
    <3>1. Stopping(u) /\ job'[u] = job[u] /\ job[u].name \in Names BY <1>1, <1>2, <1>b, <2>1
    <3>2. <<job'[u].name, job'[u].id>> \notin stopped' BY <1>1, <3>1 DEF StopInv, BeingStopped
    <3>3. items'[job'[u].name] # NoServer /\ items'[job'[u].name].id = job'[u].id
             => ~items'[job'[u].name].want /\ items'[job'[u].name].status = "stopped"
      <4>1. CASE job[u].name = n BY <1>1, <3>1, <4>1
      <4>2. CASE job[u].name # n
        <5>1. items'[job[u].name] = items[job[u].name] BY <1>1, <3>1, <4>2
        <5> QED BY <3>1, <5>1 DEF StopInv, BeingStopped
      <4> QED BY <4>1, <4>2
    <3>4. ASSUME NEW w \in Threads, Stopping(w)', job'[w].name = job'[u].name, job'[w].id = job'[u].id
          PROVE  w = u
      <4>1. CASE w = t BY <1>1, <1>3, <3>1, <3>4, <4>1 DEF n
      <4>2. CASE w # t
        <5>1. Stopping(w) /\ job'[w] = job[w] BY <1>1, <1>2, <3>4, <4>2
        <5> QED BY <3>1, <3>4, <5>1 DEF StopInv, BeingStopped
      <4> QED BY <4>1, <4>2
    <3> QED BY <3>2, <3>3, <3>4
  <2>2. /\ <<job'[t].name, job'[t].id>> \notin stopped'
        /\ items'[job'[t].name] # NoServer /\ items'[job'[t].name].id = job'[t].id
             => ~items'[job'[t].name].want /\ items'[job'[t].name].status = "stopped"
    BY <1>1, <1>4 DEF n
  <2>3. ASSUME NEW w \in Threads, Stopping(w)', job'[w].name = job'[t].name, job'[w].id = job'[t].id
        PROVE  w = t
    BY <1>1, <1>2, <1>3, <2>3 DEF n
  <2> QED BY <2>1, <2>2, <2>3 DEF BeingStopped
<1>8. StoppedStaysStopped'
  <2>1. ASSUME NEW m \in Names, Wanted(items', m) PROVE <<m, items'[m].id>> \notin stopped
    <3>1. m # n BY <1>1, <2>1 DEF Wanted
    <3> QED BY <1>1, <2>1, <3>1 DEF Wanted, StopInv, StoppedStaysStopped
  <2> QED BY <1>1, <2>1 DEF StoppedStaysStopped, Wanted
<1> QED BY <1>5, <1>6, <1>7, <1>8

LEMMA AnswersKeeps ==
  ASSUME StopInv, TypeInv', NEW t \in Threads, Answers(t)
  PROVE  StopIds' /\ ReviveGoesOn' /\ BeingStopped' /\ StoppedStaysStopped'
<1> DEFINE n == job[t].name
           i == job[t].id
<1>1. /\ Stopping(t) /\ pc'[t] \notin {"stopping", "revive"}
      /\ \A u \in Threads : u # t => pc'[u] = pc[u] /\ job'[u] = job[u]
      /\ stopped' = stopped \cup {<<n, i>>}
      /\ UNCHANGED <<items, saved, mode, clock>>
  BY DEF Answers
<1>2. \A u \in Threads : Stopping(u)' => u # t /\ Stopping(u) /\ job'[u] = job[u]
  BY <1>1 DEF Stopping
<1>3. \A u \in Threads : Stopping(u) /\ job[u].name = n /\ job[u].id = i => u = t
  BY <1>1 DEF StopInv, BeingStopped
<1>4. i < clock BY <1>1 DEF StopInv, StopIds
<1>5. items[n] # NoServer /\ items[n].id = i => ~items[n].want BY <1>1 DEF StopInv, BeingStopped
<1>6. saved = items
  BY <1>1 DEF Stopping, StopInv, SavedIsCurrent, TypeInv, TypeOK, RestoreAlone
<1>7. StopIds'
  BY <1>1, <1>2, <1>4 DEF StopInv, StopIds
<1>8. ReviveGoesOn' BY <1>1 DEF ReviveGoesOn, StopInv
<1>9. BeingStopped'
  <2>1. ASSUME NEW u \in Threads, Stopping(u)'
        PROVE  <<job'[u].name, job'[u].id>> \notin stopped'
    <3>1. Stopping(u) /\ job'[u] = job[u] /\ u # t BY <1>2, <2>1
    <3>2. <<job[u].name, job[u].id>> # <<n, i>> BY <1>3, <3>1
    <3> QED BY <1>1, <3>1, <3>2 DEF StopInv, BeingStopped
  <2> QED BY <1>1, <1>2, <2>1 DEF StopInv, BeingStopped
<1>10. StoppedStaysStopped'
  <2>1. ASSUME NEW m \in Names, Wanted(items, m) PROVE <<m, items[m].id>> \notin stopped'
    <3>1. <<m, items[m].id>> # <<n, i>> BY <1>5, <2>1 DEF Wanted
    <3> QED BY <1>1, <2>1, <3>1 DEF StopInv, StoppedStaysStopped
  <2> QED BY <1>1, <1>6, <2>1 DEF StoppedStaysStopped, Wanted
<1> QED BY <1>7, <1>8, <1>9, <1>10

LEMMA StopAlways == Spec => []StopInv
<1>1. Init => StopInv
  <2> SUFFICES ASSUME Init PROVE StopInv OBVIOUS
  <2>1. TypeInv BY InitTypes
  <2>2. IdsBelow(items) /\ IdsBelow(saved)
    BY FilesAssumption DEF Init, IdsBelow, FilesAssumption, LegalFile
  <2> QED BY <2>1, <2>2 DEF Init, StopInv, SavedIsCurrent, StopIds, ReviveGoesOn, BeingStopped,
                            StoppedStaysStopped, Stopping
<1>2. StopInv /\ [Next]_vars => StopInv'
  <2> SUFFICES ASSUME StopInv, [Next]_vars PROVE StopInv' OBVIOUS
  <2>1. TypeInv' BY StepTypes DEF StopInv
  <2>2. RecordStep BY StepRecords DEF StopInv
  <2>3. /\ (\E t \in Threads : Marks(t) \/ Answers(t)) \/ GoesOn
        /\ clock' \in Nat /\ clock <= clock'
    BY StopSteps DEF StopInv
  <2>4. IdsBelow(items)' /\ IdsBelow(saved)' BY <2>1, <2>2, <2>3, IdsStayBelow
  <2>5. SavedIsCurrent' BY <2>2 DEF StopInv, RecordStep, FileStep, SavedIsCurrent
  <2>6. StopIds' /\ ReviveGoesOn' /\ BeingStopped' /\ StoppedStaysStopped'
    BY <2>1, <2>2, <2>3, GoesOnKeeps, MarksKeeps, AnswersKeeps
  <2> QED BY <2>1, <2>4, <2>5, <2>6 DEF StopInv
<1> QED BY <1>1, <1>2, PTL DEF Spec

\* A record whose stop was answered is never active again, in memory or in the file, with
\* any number of requests, retries, failed stops and restarts.
THEOREM StopIsFinal == Spec => []StoppedStaysStopped
<1>1. StopInv => StoppedStaysStopped BY DEF StopInv
<1> QED BY <1>1, StopAlways, PTL

-----------------------------------------------------------------------------
(***************************************************************************)
(* A stopped record has no unit, unless somebody is about to stop it.      *)
(***************************************************************************)
\* Whoever may have launched a unit of n looks again, or stops it.
Handled(n) ==
  \/ \E t \in Threads : pc[t] \in {"stopping", "check", "kill"} /\ job[t].name = n
  \/ ppc \in {"recheck", "kill"} /\ cur.name = n

StatusInv(its) == \A n \in Names : its[n] # NoServer => (its[n].want <=> its[n].status \in Live)

DownInv == \A n \in Names :
  items[n] # NoServer /\ items[n].status = "stopped" /\ unit[n] # NoUnit => Handled(n)


LivesInv == TypeInv /\ NobodyRevives /\ StatusInv(items) /\ DownInv

\* A record is active exactly while it is starting or running.
LEMMA StepStatus ==
  ASSUME MaxCrashes = 0, TypeInv, NobodyRevives, StatusInv(items), RecordStep
  PROVE  StatusInv(items)'
<1>1. crashes \in Nat /\ ~(crashes < MaxCrashes) BY DEF TypeInv, TypeOK
<1>2. items \in [Names -> Server \cup {NoServer}] BY DEF TypeInv, TypeOK
<1>3. CASE UNCHANGED items BY <1>3 DEF StatusInv
<1>4. ASSUME NEW n \in Names, Taken(n) \/ Kept(n) \/ Resized(n) PROVE StatusInv(items)'
  <2>1. PICK r \in Server : r.want /\ r.status \in Live /\ items' = [items EXCEPT ![n] = r]
    BY <1>4 DEF Taken, Kept, Resized
  <2> QED BY <1>2, <2>1 DEF StatusInv
<1>5. ASSUME NEW n \in Names, Given(n) PROVE StatusInv(items)'
  <2>1. CASE items' = [items EXCEPT ![n] = NoServer] BY <1>2, <2>1 DEF StatusInv
  <2>2. CASE \E r \in Server : ~r.want /\ r.status \notin Live /\ items' = [items EXCEPT ![n] = r]
    BY <1>2, <2>2 DEF StatusInv
  <2> QED BY <1>5, <2>1, <2>2 DEF Given
<1>6. ASSUME NEW n \in Names, Revived(n) PROVE FALSE BY <1>6 DEF Revived, NobodyRevives
<1> QED BY <1>1, <1>3, <1>4, <1>5, <1>6 DEF RecordStep, RecordsStep

\* A thread that handles no unit may go anywhere while the rest stays as it is.
LEMMA HandlersStay ==
  ASSUME TypeInv, NEW n \in Names, Handled(n), ppc' = ppc, cur' = cur, NEW t \in Threads,
         pc[t] \notin {"stopping", "check", "kill"} \/ job[t].name # n,
         \A u \in Threads : u # t => pc'[u] = pc[u] /\ job'[u] = job[u]
  PROVE  Handled(n)'
BY DEF Handled

\* Nobody leaves a unit behind whose record says stopped.
LEMMA StepDown ==
  ASSUME ~StopMayFail, MaxCrashes = 0, LivesInv, [Next]_vars
  PROVE  DownInv'
<1> DEFINE IsDown(n) == items[n] # NoServer /\ items[n].status = "stopped" /\ unit[n] # NoUnit
<1> SUFFICES ASSUME NEW n \in Names, items'[n] # NoServer, items'[n].status = "stopped",
                    unit'[n] # NoUnit
             PROVE  Handled(n)'
  BY DEF DownInv
<1>0. /\ items \in [Names -> Server \cup {NoServer}] /\ unit \in [Names -> Unit \cup {NoUnit}]
      /\ pc \in [Threads -> ThreadLabels] /\ job \in [Threads -> Job \cup {NoJob}]
      /\ crashes \in Nat
      /\ \A t \in Threads : pc[t] # "idle" => job[t] \in Job /\ job[t].name \in Names
      /\ ppc # "pick" => cur \in Watch /\ cur.name \in Names
      /\ \A m \in Names : items[m] # NoServer => (items[m].want <=> items[m].status \in Live)
  BY DEF LivesInv, TypeInv, TypeOK, StatusInv, Job, Watch
<1>1. TypeInv /\ (IsDown(n) => Handled(n)) BY DEF LivesInv, DownInv
<1>2. ASSUME NEW t \in Threads, NEW m \in Names, NEW spot \in Spot, NEW ask, NEW leg, NEW from,
             RecordStart(t, m, spot, ask, leg, from), UNCHANGED <<unit, ppc, cur>>,
             pc[t] \notin {"stopping", "check", "kill"}
      PROVE  Handled(n)'
  <2>1. n # m /\ items'[n] = items[n] BY <1>0, <1>2 DEF RecordStart
  <2>2. IsDown(n) BY <1>2, <2>1
  <2>3. \A u \in Threads : u # t => pc'[u] = pc[u] /\ job'[u] = job[u]
    BY <1>0, <1>2 DEF RecordStart
  <2> QED BY <1>1, <1>2, <2>2, <2>3, HandlersStay
<1>3. ASSUME NEW t \in Threads, NEW m \in Names, NEW ask, NEW leg, NEW from, NEW to,
             RecordStop(t, m, to, from, ask, leg), UNCHANGED <<unit, ppc, cur>>,
             pc[t] \notin {"stopping", "check", "kill"}
      PROVE  Handled(n)'
  <2>1. CASE n = m
    BY <1>0, <1>3, <2>1 DEF RecordStop, Handled
  <2>2. CASE n # m
    <3>1. IsDown(n) BY <1>0, <1>3, <2>2 DEF RecordStop
    <3>2. \A u \in Threads : u # t => pc'[u] = pc[u] /\ job'[u] = job[u]
      BY <1>0, <1>3 DEF RecordStop
    <3> QED BY <1>1, <1>3, <3>1, <3>2, HandlersStay
  <2> QED BY <2>1, <2>2
<1>4. ASSUME NEW t \in Threads, UNCHANGED <<items, unit, ppc, cur>>,
             pc[t] \notin {"stopping", "check", "kill"} \/ job[t].name # n,
             \A u \in Threads : u # t => pc'[u] = pc[u] /\ job'[u] = job[u]
      PROVE  Handled(n)'
  BY <1>1, <1>4, HandlersStay
<1>5. ASSUME NEW t \in Threads, BeginStart(t) PROVE Handled(n)'
  <2>1. PICK m \in Names, spot \in Spot, ask \in Asks : RecordStart(t, m, spot, ask, "call", NoPlace)
    BY <1>5 DEF BeginStart
  <2> QED BY <1>2, <1>5, <2>1 DEF BeginStart, Call, pollVars
<1>6. ASSUME NEW t \in Threads, BeginStop(t) PROVE Handled(n)'
  BY <1>3, <1>6 DEF BeginStop, Call, pollVars
<1>7. ASSUME NEW t \in Threads, BeginMove(t) PROVE Handled(n)'
  BY <1>0, <1>4, <1>7 DEF BeginMove, Call, pollVars
<1>8. ASSUME NEW t \in Threads, Launch(t) PROVE Handled(n)'
  <2>0. job[t].name \in Names /\ \A u \in Threads : u # t => pc'[u] = pc[u] /\ job'[u] = job[u]
    BY <1>0, <1>8 DEF Launch, Goto
  <2>1. CASE UNCHANGED unit BY <1>4, <1>8, <2>0, <2>1 DEF Launch, pollVars
  <2>2. CASE /\ unit' = [unit EXCEPT ![job[t].name] = [port |-> job[t].to.port, up |-> FALSE]]
             /\ Goto(t, "check")
    <3>1. CASE n = job[t].name BY <1>0, <2>2, <3>1 DEF Goto, Handled
    <3>2. CASE n # job[t].name
      <4>1. IsDown(n) BY <1>0, <1>8, <2>0, <2>2, <3>2 DEF Launch
      <4> QED BY <1>1, <1>8, <2>0, <4>1, HandlersStay DEF Launch, pollVars
    <3> QED BY <3>1, <3>2
  <2> QED BY <1>8, <2>1, <2>2 DEF Launch
<1>9. ASSUME NEW t \in Threads, Undo(t) PROVE Handled(n)'
  <2>1. IsDown(n) BY <1>0, <1>9 DEF Undo
  <2>2. \A u \in Threads : u # t => pc'[u] = pc[u] /\ job'[u] = job[u]
    BY <1>0, <1>9 DEF Undo, Goto, Return
  <2> QED BY <1>1, <1>9, <2>1, <2>2, HandlersStay DEF Undo, pollVars
<1>10. ASSUME NEW t \in Threads, CheckWanted(t) PROVE Handled(n)'
  <2>1. UNCHANGED <<items, unit, ppc, cur>> /\ \A u \in Threads : u # t => pc'[u] = pc[u] /\ job'[u] = job[u]
    BY <1>0, <1>10 DEF CheckWanted, Goto, Return, pollVars
  <2>2. CASE n # job[t].name BY <1>4, <2>1, <2>2
  <2>3. CASE n = job[t].name /\ Wanted(items, n) BY <1>0, <2>1, <2>3 DEF Wanted, Live
  <2>4. CASE n = job[t].name /\ ~Wanted(items, n) BY <1>0, <1>10, <2>4 DEF CheckWanted, Goto, Handled
  <2> QED BY <2>2, <2>3, <2>4
<1>11. ASSUME NEW t \in Threads, Kill(t) \/ StopUnit(t) PROVE Handled(n)'
  <2>1. /\ UNCHANGED <<items, ppc, cur>> /\ unit' = [unit EXCEPT ![job[t].name] = NoUnit]
        /\ job[t].name \in Names
        /\ \A u \in Threads : u # t => pc'[u] = pc[u] /\ job'[u] = job[u]
    BY <1>0, <1>11 DEF Kill, KillUnit, StopUnit, Stopped, Goto, Return, pollVars
  <2>2. n # job[t].name /\ IsDown(n) BY <1>0, <2>1
  <2> QED BY <1>1, <2>1, <2>2, HandlersStay
<1>12. ASSUME NEW t \in Threads, StopUnitFails(t) \/ Revive(t) PROVE FALSE
  BY <1>12 DEF StopUnitFails, Revive, LivesInv, NobodyRevives
<1>13. ASSUME NEW t \in Threads, MoveCheck(t) \/ MoveStopRefused(t) \/ MoveStartRefused(t)
       PROVE  Handled(n)'
  BY <1>0, <1>4, <1>13 DEF MoveCheck, MoveStopRefused, MoveStartRefused, Goto, Return, pollVars
<1>14. ASSUME NEW t \in Threads, MoveStop(t) PROVE Handled(n)'
  BY <1>0, <1>3, <1>14 DEF MoveStop, pollVars
<1>15. ASSUME NEW t \in Threads, MoveGo(t) \/ MoveBack(t) PROVE Handled(n)'
  <2>1. job[t].name \in Names /\ job[t].to \in Spot /\ job[t].from \in Spot
        /\ pc[t] \notin {"stopping", "check", "kill"}
    BY <1>0, <1>15 DEF MoveGo, MoveBack, LivesInv, TypeInv, TypeOK
  <2> QED BY <1>2, <1>15, <2>1 DEF MoveGo, MoveBack, pollVars
<1>16. ASSUME UNCHANGED <<items, unit, pc, job>>, ppc \notin {"recheck", "kill"} \/ cur.name # n
       PROVE  Handled(n)'
  BY <1>1, <1>16 DEF Handled
<1>17. ASSUME PollSnapshot \/ PollUnknown \/ PollDrop \/ PollProbe \/ PollUnhealthy
               \/ \E m \in Names : PollActive(m)
       PROVE  Handled(n)'
  BY <1>16, <1>17 DEF PollSnapshot, PollUnknown, PollDrop, PollProbe, PollUnhealthy, PollActive, threadVars
<1>18. ASSUME PollGiveUp \/ PollRetry \/ PollRelaunchFailed \/ PollHealthy
               \/ \E m \in Names : PollTimeout(m)
       PROVE  Handled(n)'
  <2>1. UNCHANGED <<unit, pc, job>> /\ ppc \notin {"recheck", "kill"}
    BY <1>18 DEF PollGiveUp, PollRetry, PollRelaunchFailed, PollHealthy, PollTimeout, threadVars
  <2> DEFINE Other(m) == items'[m].status # "stopped" /\ \A k \in Names : k # m => items'[k] = items[k]
  <2>2. CASE UNCHANGED items BY <1>1, <2>1, <2>2 DEF Handled
  <2>3. ASSUME NEW m \in Names, NEW status \in {"failed", "running"}, items[m] \in Server,
               \/ items' = [items EXCEPT ![m].status = status]
               \/ items' = [items EXCEPT ![m].status = status, ![m].want = FALSE]
        PROVE  Other(m)
    BY <1>0, <2>3 DEF Server
  <2>4. ASSUME PollRetry PROVE \E m \in Names : Other(m)
    <3>1. cur.name \in Names /\ items[cur.name] \in Server
      BY <1>0, <2>4 DEF PollRetry, Current, Wanted
    <3>2. PICK f : items' = [items EXCEPT ![cur.name].frac = f, ![cur.name].status = "starting",
                              ![cur.name].started = clock, ![cur.name].attempts = @ + 1]
      BY <2>4 DEF PollRetry
    <3> QED BY <1>0, <3>1, <3>2 DEF Server
  <2>5. ASSUME PollGiveUp \/ PollRelaunchFailed \/ PollHealthy, ~UNCHANGED items
        PROVE  \E m \in Names : Other(m)
    <3>1. cur.name \in Names /\ items[cur.name] \in Server
      BY <1>0, <2>5 DEF PollGiveUp, PollRelaunchFailed, PollHealthy, Current, Wanted
    <3>2. \/ items' = [items EXCEPT ![cur.name].status = "failed", ![cur.name].want = FALSE]
          \/ items' = [items EXCEPT ![cur.name].status = "running"]
      BY <2>5 DEF PollGiveUp, PollRelaunchFailed, PollHealthy
    <3>3. Other(cur.name) BY <2>3, <3>1, <3>2
    <3> QED BY <3>1, <3>3
  <2>6. ASSUME NEW m \in Names, PollTimeout(m) PROVE Other(m)
    <3>1. items[m] \in Server BY <1>0, <2>6 DEF PollTimeout, Current, Wanted
    <3> QED BY <2>3, <2>6, <3>1 DEF PollTimeout
  <2>7. UNCHANGED items \/ \E m \in Names : Other(m)
    BY <1>18, <2>4, <2>5, <2>6 
  <2>8. UNCHANGED items \/ items'[n] = items[n] BY <2>7
  <2> QED BY <1>1, <2>1, <2>2, <2>8 DEF Handled
<1>19. ASSUME PollRelaunch PROVE Handled(n)'
  <2>1. UNCHANGED <<items, pc, job, cur>> /\ ppc = "relaunch" BY <1>19 DEF PollRelaunch, threadVars
  <2>2. CASE UNCHANGED unit BY <1>16, <2>1, <2>2
  <2>3. CASE ppc' = "recheck" /\ unit' = [unit EXCEPT ![cur.name] = [port |-> cur.port, up |-> FALSE]]
    <3>1. CASE n = cur.name BY <2>1, <2>3, <3>1 DEF Handled
    <3>2. CASE n # cur.name
      <4>1. IsDown(n) BY <1>0, <2>1, <2>3, <3>2
      <4> QED BY <1>1, <2>1, <4>1 DEF Handled
    <3> QED BY <3>1, <3>2
  <2> QED BY <1>19, <2>2, <2>3 DEF PollRelaunch
<1>20. ASSUME PollRecheck PROVE Handled(n)'
  <2>1. UNCHANGED <<items, unit, pc, job>> /\ ppc = "recheck" BY <1>20 DEF PollRecheck, threadVars
  <2>2. CASE n # cur.name BY <1>16, <2>1, <2>2
  <2>3. CASE n = cur.name /\ Current(cur.name, cur.started)
    BY <1>0, <2>1, <2>3 DEF Wanted, Live, Current
  <2>4. CASE n = cur.name /\ ~Current(cur.name, cur.started)
    BY <1>20, <2>4 DEF PollRecheck, Handled
  <2> QED BY <2>2, <2>3, <2>4
<1>21. ASSUME PollKill PROVE Handled(n)'
  <2>1. /\ UNCHANGED <<items, pc, job>> /\ ppc = "kill" /\ cur.name \in Names
        /\ unit' = [unit EXCEPT ![cur.name] = NoUnit]
    BY <1>0, <1>21 DEF PollKill, KillUnit, threadVars
  <2>2. n # cur.name /\ IsDown(n) BY <1>0, <2>1
  <2> QED BY <1>1, <2>1, <2>2 DEF Handled
<1>22. ASSUME NEW m \in Names, RestoreOne(m) PROVE Handled(n)'
  <2>1. UNCHANGED <<pc, job, ppc, cur>> BY <1>22 DEF RestoreOne, threadVars, pollVars
  <2>2. items[m] \in Server BY <1>0, <1>22 DEF RestoreOne, LivesInv, TypeInv, RestoreAlone, WantedNames, Wanted
  <2>3. IsDown(n) BY <1>0, <1>22, <2>2 DEF RestoreOne, Server
  <2> QED BY <1>1, <2>1, <2>3 DEF Handled
<1>23. ASSUME RestoreEnd \/ UNCHANGED vars PROVE Handled(n)'
  BY <1>1, <1>23 DEF RestoreEnd, vars, threadVars, pollVars, Handled
<1>24. ASSUME NEW m \in Names, UnitUp(m) \/ UnitDies(m) PROVE Handled(n)'
  <2>1. UNCHANGED <<items, pc, job, ppc, cur>> BY <1>24 DEF UnitUp, UnitDies, threadVars, pollVars
  <2>2. IsDown(n) BY <1>0, <1>24, <2>1 DEF UnitUp, UnitDies
  <2> QED BY <1>1, <2>1, <2>2 DEF Handled
<1>25. ~Crash BY <1>0 DEF Crash
<1> HIDE DEF IsDown
<1> QED
  <2>1. CASE \E t \in Threads : Request(t) \/ Work(t)
    BY <1>5, <1>6, <1>7, <1>8, <1>9, <1>10, <1>11, <1>12, <1>13, <1>14, <1>15, <2>1 DEF Request, Work
  <2>2. CASE Poll BY <1>17, <1>18, <1>19, <1>20, <1>21, <2>2 DEF Poll
  <2>3. CASE Restore \/ World BY <1>22, <1>23, <1>24, <1>25, <2>3 DEF Restore, World
  <2> QED BY <1>23, <2>1, <2>2, <2>3 DEF Next

LEMMA LivesAlways == ASSUME ~StopMayFail, MaxCrashes = 0 PROVE Spec => []LivesInv
<1>1. Init => LivesInv
  <2> SUFFICES ASSUME Init PROVE LivesInv OBVIOUS
  <2>1. TypeInv /\ LegalFile(saved) /\ items = saved BY InitTypes, FilesAssumption DEF Init, FilesAssumption
  <2>2. StatusInv(items) BY <2>1 DEF LegalFile, StatusInv
  <2>3. DownInv BY <2>1, <2>2 DEF Init, DownInv, Wanted, StatusInv, Live
  <2> QED BY <2>1, <2>2, <2>3 DEF Init, LivesInv, NobodyRevives
<1>2. LivesInv /\ [Next]_vars => LivesInv'
  <2> SUFFICES ASSUME LivesInv, [Next]_vars PROVE LivesInv' OBVIOUS
  <2>1. TypeInv' /\ RecordStep BY StepTypes, StepRecords DEF LivesInv
  <2>2. NobodyRevives' BY StepRevivesNobody DEF LivesInv
  <2>3. StatusInv(items)' BY <2>1, StepStatus DEF LivesInv
  <2> QED BY <2>1, <2>2, <2>3, StepDown DEF LivesInv
<1> QED BY <1>1, <1>2, PTL DEF Spec

\* Once all is quiet a model whose record says stopped has no unit, however many requests,
\* launches and retries overlapped with the stop; a stop that fails or a crash between the
\* saved stop and the call of systemctl can leave one.
THEOREM StoppedHasNoUnit ==
  ASSUME ~StopMayFail, MaxCrashes = 0 PROVE Spec => []StoppedIsDown
<1>1. LivesInv => StoppedIsDown
  BY DEF LivesInv, DownInv, StoppedIsDown, Quiescent, Handled
<1> QED BY <1>1, LivesAlways, PTL

-----------------------------------------------------------------------------
(***************************************************************************)
(* The unit of an active model listens where its record says.              *)
(***************************************************************************)
StampsBelow ==
  /\ \A n \in Names : items[n] # NoServer => items[n].started < clock
  /\ \A w \in todo : w.started < clock
  /\ cur # NoWatch => cur.started < clock

WatchesPort(w) == Current(w.name, w.started) => items[w.name].port = w.port

WatchInv == (\A w \in todo : WatchesPort(w)) /\ (cur # NoWatch => WatchesPort(cur))

LaunchPort == \A t \in Threads : pc[t] = "launch" /\ Wanted(items, job[t].name)
                => items[job[t].name].port = job[t].to.port

\* The unit of n is stopped, or the record it does not fit is dropped.
Mended(n) ==
  \/ \E t \in Threads : pc[t] \in {"launch", "undo"} /\ job[t].name = n
  \/ ppc \in {"recheck", "kill"} /\ cur.name = n /\ ~Current(n, cur.started)

ServeInv == \A n \in WantedNames(items) :
  unit[n] # NoUnit /\ unit[n].port # items[n].port => Mended(n)

ServesInv == TypeInv /\ NobodyRevives /\ StampsBelow /\ WatchInv /\ LaunchPort /\ ServeInv

\* A record that was there goes on at its port; a launch gets the next time stamp.
GoesOnAt(n) ==
  /\ items[n] # NoServer
  /\ items'[n].started = items[n].started \/ (items'[n].started = clock /\ clock' = clock + 1)
  /\ items'[n].want => Wanted(items, n) /\ items'[n].port = items[n].port

\* A thread is about to launch a new record.
LaunchedBy(n, t) ==
  /\ ~Wanted(items, n) /\ items'[n].started = clock /\ clock' = clock + 1
  /\ pc'[t] = "launch" /\ job'[t].name = n /\ job'[t].to.port = items'[n].port

LEMMA LaunchChanges ==
  ASSUME MaxCrashes = 0, TypeInv, NobodyRevives, RecordStep, NEW n \in Names, items'[n] # NoServer
  PROVE  GoesOnAt(n) \/ \E t \in Threads : LaunchedBy(n, t)
<1>0. items \in [Names -> Server \cup {NoServer}] /\ crashes \in Nat /\ ~(crashes < MaxCrashes)
  BY DEF TypeInv, TypeOK
<1>1. CASE items'[n] = items[n] BY <1>1 DEF GoesOnAt, Wanted
<1>2. ASSUME NEW m \in Names, Taken(m) \/ Kept(m) \/ Resized(m) \/ Given(m), m # n
      PROVE  items'[n] = items[n]
  BY <1>0, <1>2 DEF Taken, Kept, Resized, Given
<1>3. CASE Taken(n) BY <1>0, <1>3 DEF Taken, LaunchedBy
<1>4. CASE Kept(n) \/ Resized(n) BY <1>0, <1>4 DEF Kept, Resized, GoesOnAt, Wanted
<1>5. CASE Given(n) BY <1>0, <1>5 DEF Given, GoesOnAt, Wanted
<1>6. ASSUME NEW m \in Names, Revived(m) PROVE FALSE BY <1>6 DEF Revived, NobodyRevives
<1> QED BY <1>0, <1>1, <1>2, <1>3, <1>4, <1>5, <1>6 DEF RecordStep, RecordsStep

\* What the poll loop carries is what it carried, or what it just saw, or the launch it just made.
WatchStep ==
  /\ \A w \in todo' : w \in todo \/ (Wanted(items, w.name) /\ w.started = items[w.name].started
                                     /\ w.port = items[w.name].port /\ UNCHANGED <<items, clock>>)
  /\ \/ cur' = cur \/ cur' = NoWatch \/ cur' \in todo
     \/ /\ Current(cur.name, cur.started) /\ cur \in Watch /\ clock' = clock + 1
        /\ cur' = [cur EXCEPT !.started = clock]
        /\ items'[cur.name].started = clock /\ items'[cur.name].port = items[cur.name].port

LEMMA StepWatches == ASSUME TypeInv, [Next]_vars PROVE WatchStep
<1>0. /\ items \in [Names -> Server \cup {NoServer}] /\ todo \subseteq Watch /\ cur \in Watch \cup {NoWatch}
      /\ ppc # "pick" => cur \in Watch /\ cur.name \in Names
  BY DEF TypeInv, TypeOK, Watch
<1>1. CASE UNCHANGED <<todo, cur>> BY <1>1 DEF WatchStep
<1>2. ASSUME NEW t \in Threads, Request(t) \/ Work(t) PROVE UNCHANGED <<todo, cur>>
  BY <1>2 DEF Request, BeginStart, BeginStop, BeginMove, Work, Launch, Undo, CheckWanted, Kill, StopUnit,
     StopUnitFails, Revive, MoveCheck, MoveStop, MoveStopRefused, MoveGo, MoveBack, MoveStartRefused, pollVars
<1>3. ASSUME Restore \/ (\E n \in Names : UnitUp(n) \/ UnitDies(n)) \/ UNCHANGED vars
      PROVE  UNCHANGED <<todo, cur>>
  BY <1>3 DEF Restore, RestoreOne, RestoreEnd, UnitUp, UnitDies, vars, pollVars
<1>4. CASE Crash BY <1>4 DEF Crash, WatchStep
<1>5. CASE PollSnapshot
  BY <1>0, <1>5 DEF PollSnapshot, WatchStep, WantedNames
<1>6. CASE PollUnknown \/ \E n \in Names : PollActive(n)
  BY <1>6 DEF PollUnknown, PollActive, WatchStep
<1>7. CASE PollRetry
  <2>1. /\ Current(cur.name, cur.started) /\ cur \in Watch /\ cur.name \in Names
        /\ clock' = clock + 1 /\ cur' = [cur EXCEPT !.started = clock] /\ todo' = todo
        /\ items[cur.name] \in Server
    BY <1>0, <1>7 DEF PollRetry, Stamp, Current, Wanted
  <2>2. PICK f : items' = [items EXCEPT ![cur.name].frac = f, ![cur.name].status = "starting",
                              ![cur.name].started = clock, ![cur.name].attempts = @ + 1]
    BY <1>7 DEF PollRetry
  <2>3. items'[cur.name].started = clock /\ items'[cur.name].port = items[cur.name].port
    BY <1>0, <2>1, <2>2 DEF Server
  <2> QED BY <2>1, <2>3 DEF WatchStep
<1>8. CASE PollDrop \/ PollGiveUp \/ PollRelaunch \/ PollRelaunchFailed \/ PollRecheck \/ PollKill
             \/ PollProbe \/ PollHealthy \/ PollUnhealthy \/ \E n \in Names : PollTimeout(n)
  BY <1>8 DEF PollDrop, PollGiveUp, PollRelaunch, PollRelaunchFailed, PollRecheck, PollKill,
     PollProbe, PollHealthy, PollUnhealthy, PollTimeout, PollDone, WatchStep
<1> QED
  <2>1. CASE Poll BY <1>5, <1>6, <1>7, <1>8, <2>1 DEF Poll
  <2> QED BY <1>1, <1>2, <1>3, <1>4, <2>1 DEF Next, World

LEMMA StepStamps ==
  ASSUME MaxCrashes = 0, TypeInv, TypeInv', NobodyRevives, StampsBelow, WatchInv, RecordStep, WatchStep,
         clock <= clock'
  PROVE  StampsBelow' /\ WatchInv'
<1>0. /\ clock \in Nat /\ clock' \in Nat /\ items \in [Names -> Server \cup {NoServer}]
      /\ todo \subseteq Watch /\ cur \in Watch \cup {NoWatch}
      /\ \A w \in Watch : w.name \in Names /\ w.started \in Nat
      /\ \A n \in Names : items[n] # NoServer => items[n].started \in Nat
  BY DEF TypeInv, TypeOK, Server, Watch
<1>1. ASSUME NEW n \in Names, items'[n] # NoServer PROVE items'[n].started < clock'
  <2>1. CASE GoesOnAt(n) BY <1>0, <2>1 DEF GoesOnAt, StampsBelow
  <2>2. CASE \E t \in Threads : LaunchedBy(n, t) BY <1>0, <2>2 DEF LaunchedBy
  <2> QED BY <1>1, <2>1, <2>2, LaunchChanges
<1>2. ASSUME NEW w \in Watch, w.started < clock, WatchesPort(w)
      PROVE  w.started < clock' /\ WatchesPort(w)'
  <2>1. w.started < clock' BY <1>0, <1>2
  <2>2. ASSUME Current(w.name, w.started)' PROVE items'[w.name].port = w.port
    <3>1. w.name \in Names /\ items'[w.name] # NoServer /\ items'[w.name].want
          /\ items'[w.name].started = w.started
      BY <1>0, <2>2 DEF Current, Wanted
    <3>2. items'[w.name].started # clock BY <1>0, <1>2, <3>1
    <3>3. GoesOnAt(w.name) BY <3>1, <3>2, LaunchChanges DEF LaunchedBy
    <3>4. Current(w.name, w.started) BY <3>1, <3>2, <3>3 DEF GoesOnAt, Current, Wanted
    <3> QED BY <1>2, <3>1, <3>3, <3>4 DEF GoesOnAt, WatchesPort
  <2> QED BY <2>1, <2>2 DEF WatchesPort
<1>3. ASSUME NEW w \in todo' PROVE w.started < clock' /\ WatchesPort(w)'
  <2>1. CASE w \in todo BY <1>0, <1>2, <2>1 DEF StampsBelow, WatchInv
  <2>2. CASE /\ Wanted(items, w.name) /\ w.started = items[w.name].started
             /\ w.port = items[w.name].port /\ UNCHANGED <<items, clock>>
    <3>1. w.name \in Names BY <1>0 DEF TypeInv, TypeOK, Watch
    <3> QED BY <1>0, <2>2, <3>1 DEF StampsBelow, WatchesPort, Current, Wanted
  <2> QED BY <2>1, <2>2 DEF WatchStep
<1>4. ASSUME cur' # NoWatch PROVE cur'.started < clock' /\ WatchesPort(cur)'
  <2>1. CASE cur' = cur BY <1>0, <1>2, <1>4, <2>1 DEF StampsBelow, WatchInv
  <2>2. CASE cur' \in todo BY <1>0, <1>2, <2>2 DEF StampsBelow, WatchInv
  <2>3. CASE /\ Current(cur.name, cur.started) /\ cur \in Watch /\ clock' = clock + 1
             /\ cur' = [cur EXCEPT !.started = clock]
             /\ items'[cur.name].started = clock /\ items'[cur.name].port = items[cur.name].port
    <3>1. cur' \in Watch /\ cur'.started = clock /\ cur'.name = cur.name /\ cur'.port = cur.port
      BY <1>0, <2>3 DEF Watch
    <3>2. cur # NoWatch BY <2>3, ConstantsAssumption DEF ConstantsAssumption
    <3>3. items[cur.name].port = cur.port BY <2>3, <3>2 DEF WatchInv, WatchesPort
    <3> QED BY <1>0, <2>3, <3>1, <3>3 DEF WatchesPort
  <2> QED BY <1>4, <2>1, <2>2, <2>3 DEF WatchStep
<1> QED BY <1>1, <1>3, <1>4 DEF StampsBelow, WatchInv

\* A thread comes to its launch only by making the record it launches.
LEMMA StepLaunches ==
  ASSUME TypeInv, [Next]_vars, NEW t \in Threads, pc'[t] = "launch"
  PROVE  (pc[t] = "launch" /\ job'[t] = job[t]) \/ items'[job'[t].name].port = job'[t].to.port
<1>0. /\ items \in [Names -> Server \cup {NoServer}] /\ pc \in [Threads -> ThreadLabels]
      /\ job \in [Threads -> Job \cup {NoJob}]
      /\ \A u \in Threads : pc[u] # "idle" => job[u].name \in Names
  BY DEF TypeInv, TypeOK, Job
<1>1. ASSUME NEW u \in Threads, NEW n \in Names, NEW spot, NEW ask, NEW leg, NEW from,
             RecordStart(u, n, spot, ask, leg, from), u = t
      PROVE  items'[job'[t].name].port = job'[t].to.port
  <2>1. job'[t].name = n /\ job'[t].to = spot BY <1>0, <1>1 DEF RecordStart
  <2>2. PICK f : items' = [items EXCEPT ![n] =
                   [id |-> clock, started |-> clock, gpu |-> spot.gpu, port |-> spot.port,
                    frac |-> f, explicit |-> ask # NoShare, status |-> "starting",
                    want |-> TRUE, attempts |-> 1]]
    BY <1>1 DEF RecordStart
  <2> QED BY <1>0, <2>1, <2>2
<1>2. ASSUME NEW u \in Threads, Request(u) \/ Work(u), u # t
      PROVE  pc[t] = "launch" /\ job'[t] = job[t]
  BY <1>0, <1>2 DEF Request, BeginStart, BeginStop, BeginMove, Work, Launch, Undo, CheckWanted, Kill, StopUnit,
     StopUnitFails, Revive, MoveCheck, MoveStop, MoveStopRefused, MoveGo, MoveBack, MoveStartRefused,
     RecordStart, RecordStop, Goto, Return, Stopped
<1>3. CASE BeginStart(t) BY <1>1, <1>3 DEF BeginStart
<1>4. CASE MoveGo(t) \/ MoveBack(t) BY <1>0, <1>1, <1>4 DEF MoveGo, MoveBack
<1>5. CASE \/ BeginStop(t) \/ BeginMove(t) \/ Launch(t) \/ Undo(t) \/ CheckWanted(t) \/ Kill(t)
           \/ StopUnit(t) \/ StopUnitFails(t) \/ Revive(t) \/ MoveCheck(t) \/ MoveStop(t)
           \/ MoveStopRefused(t) \/ MoveStartRefused(t)
  BY <1>0, <1>5 DEF BeginStop, BeginMove, Launch, Undo, CheckWanted, Kill, StopUnit, StopUnitFails, Revive,
     MoveCheck, MoveStop, MoveStopRefused, MoveStartRefused, RecordStop, Goto, Return, Stopped
<1>6. CASE Poll \/ Restore \/ (\E n \in Names : UnitUp(n) \/ UnitDies(n)) \/ UNCHANGED vars
  <2>1. UNCHANGED <<pc, job>>
    BY <1>6 DEF Poll, PollSnapshot, PollUnknown, PollActive, PollDrop, PollGiveUp, PollRetry, PollRelaunch,
       PollRelaunchFailed, PollRecheck, PollKill, PollProbe, PollHealthy, PollUnhealthy, PollTimeout, Restore,
       RestoreOne, RestoreEnd, UnitUp, UnitDies, vars, threadVars
  <2> QED BY <2>1
<1>7. CASE Crash BY <1>7 DEF Crash
<1> QED
  <2>1. CASE \E u \in Threads : Request(u) \/ Work(u)
    BY <1>2, <1>3, <1>4, <1>5, <2>1 DEF Request, Work
  <2> QED BY <1>6, <1>7, <2>1 DEF Next, World

LEMMA StepLaunchPort ==
  ASSUME MaxCrashes = 0, \A t, u \in Threads : t = u, TypeInv, TypeInv', NobodyRevives, LaunchPort, RecordStep,
         [Next]_vars
  PROVE  LaunchPort'
<1> SUFFICES ASSUME NEW t \in Threads, pc'[t] = "launch", Wanted(items', job'[t].name)
             PROVE  items'[job'[t].name].port = job'[t].to.port
  BY DEF LaunchPort, Wanted
<1> DEFINE n == job'[t].name
<1>1. n \in Names /\ items'[n] # NoServer BY DEF TypeInv, TypeOK, Job, Wanted
<1>2. CASE pc[t] = "launch" /\ job'[t] = job[t]
  <2>1. CASE GoesOnAt(n) BY <1>2, <2>1 DEF GoesOnAt, LaunchPort, Wanted
  <2>2. ASSUME NEW u \in Threads, LaunchedBy(n, u) PROVE items'[n].port = job'[t].to.port
    BY <2>2 DEF LaunchedBy
  <2> QED BY <1>1, <2>1, <2>2, LaunchChanges
<1> QED BY <1>2, StepLaunches

\* What does not touch n keeps whoever mends it.
LEMMA MendersStay ==
  ASSUME TypeInv, NEW n \in Names, Mended(n), ppc' = ppc, cur' = cur, items'[n] = items[n],
         NEW t \in Threads, pc[t] \notin {"launch", "undo"} \/ job[t].name # n,
         \A u \in Threads : u # t => pc'[u] = pc[u] /\ job'[u] = job[u]
  PROVE  Mended(n)'
<1>1. CASE \E u \in Threads : pc[u] \in {"launch", "undo"} /\ job[u].name = n BY <1>1 DEF Mended
<1>2. CASE ppc \in {"recheck", "kill"} /\ cur.name = n /\ ~Current(n, cur.started)
  BY <1>2 DEF Mended, Current, Wanted
<1> QED BY <1>1, <1>2 DEF Mended

\* The unit of an active model listens elsewhere only while somebody is about to mend that.
LEMMA StepServes ==
  ASSUME ~StopMayFail, MaxCrashes = 0, \A t, u \in Threads : t = u, ServesInv, [Next]_vars
  PROVE  ServeInv'
<1> DEFINE Astray(n) == Wanted(items, n) /\ unit[n] # NoUnit /\ unit[n].port # items[n].port
<1> SUFFICES ASSUME NEW n \in Names, items'[n] # NoServer, items'[n].want,
                    unit'[n] # NoUnit, unit'[n].port # items'[n].port
             PROVE  Mended(n)'
  BY DEF ServeInv, WantedNames, Wanted
<1>0. /\ items \in [Names -> Server \cup {NoServer}] /\ unit \in [Names -> Unit \cup {NoUnit}]
      /\ pc \in [Threads -> ThreadLabels] /\ job \in [Threads -> Job \cup {NoJob}]
      /\ crashes \in Nat
      /\ \A t \in Threads : pc[t] # "idle" => job[t] \in Job /\ job[t].name \in Names
      /\ ppc # "pick" => cur \in Watch /\ cur.name \in Names
  BY DEF ServesInv, TypeInv, TypeOK, Job, Watch
<1>1. TypeInv /\ (Astray(n) => Mended(n)) BY DEF ServesInv, ServeInv, WantedNames
<1>2. ASSUME NEW t \in Threads, NEW m \in Names, NEW spot \in Spot, NEW ask, NEW leg, NEW from,
             RecordStart(t, m, spot, ask, leg, from), UNCHANGED <<unit, ppc, cur>>,
             pc[t] \notin {"launch", "undo"}
      PROVE  Mended(n)'
  <2>1. CASE n = m BY <1>0, <1>2, <2>1 DEF RecordStart, Mended
  <2>2. CASE n # m
    <3>1. items'[n] = items[n] BY <1>0, <1>2, <2>2 DEF RecordStart
    <3>2. Astray(n) BY <1>2, <3>1 DEF Wanted
    <3>3. \A u \in Threads : u # t => pc'[u] = pc[u] /\ job'[u] = job[u]
      BY <1>0, <1>2 DEF RecordStart
    <3> QED BY <1>1, <1>2, <3>1, <3>2, <3>3, MendersStay
  <2> QED BY <2>1, <2>2
<1>3. ASSUME NEW t \in Threads, NEW m \in Names, NEW ask, NEW leg, NEW from, NEW to,
             RecordStop(t, m, to, from, ask, leg), UNCHANGED <<unit, ppc, cur>>,
             pc[t] \notin {"launch", "undo"}
      PROVE  Mended(n)'
  <2>0. items[m] \in Server BY <1>0, <1>3 DEF RecordStop, Stoppable
  <2>1. n # m BY <1>0, <1>3, <2>0 DEF RecordStop, Server
  <2>2. items'[n] = items[n] BY <1>0, <1>3, <2>1 DEF RecordStop
  <2>3. Astray(n) BY <1>3, <2>2 DEF Wanted
  <2>4. \A u \in Threads : u # t => pc'[u] = pc[u] /\ job'[u] = job[u]
    BY <1>0, <1>3 DEF RecordStop
  <2> QED BY <1>1, <1>3, <2>2, <2>3, <2>4, MendersStay
<1>4. ASSUME NEW t \in Threads, UNCHANGED <<items, ppc, cur>>, unit'[n] = unit[n],
             pc[t] \notin {"launch", "undo"} \/ job[t].name # n,
             \A u \in Threads : u # t => pc'[u] = pc[u] /\ job'[u] = job[u]
      PROVE  Mended(n)'
  <2>1. Astray(n) BY <1>4 DEF Wanted
  <2> QED BY <1>1, <1>4, <2>1, MendersStay
<1>5. ASSUME NEW t \in Threads, BeginStart(t) PROVE Mended(n)'
  <2>1. PICK m \in Names, spot \in Spot, ask \in Asks : RecordStart(t, m, spot, ask, "call", NoPlace)
    BY <1>5 DEF BeginStart
  <2> QED BY <1>2, <1>5, <2>1 DEF BeginStart, Call, pollVars
<1>6. ASSUME NEW t \in Threads, BeginStop(t) PROVE Mended(n)'
  BY <1>3, <1>6 DEF BeginStop, Call, pollVars
<1>7. ASSUME NEW t \in Threads, BeginMove(t) PROVE Mended(n)'
  BY <1>0, <1>4, <1>7 DEF BeginMove, Call, pollVars
<1>8. ASSUME NEW t \in Threads, Launch(t) PROVE Mended(n)'
  <2>0. /\ job[t].name \in Names /\ UNCHANGED <<items, job, ppc, cur>>
        /\ \A u \in Threads : u # t => pc'[u] = pc[u] /\ job'[u] = job[u]
    BY <1>0, <1>8 DEF Launch, Goto, pollVars
  <2>1. CASE n # job[t].name
    <3>1. unit'[n] = unit[n] BY <1>0, <1>8, <2>1 DEF Launch
    <3> QED BY <1>4, <2>0, <2>1, <3>1
  <2>2. CASE n = job[t].name /\ Goto(t, "undo") BY <1>0, <2>2 DEF Goto, Mended
  <2>3. CASE /\ n = job[t].name
             /\ unit' = [unit EXCEPT ![job[t].name] = [port |-> job[t].to.port, up |-> FALSE]]
    <3>1. unit'[n].port = job[t].to.port BY <1>0, <2>3
    <3>2. items[n].port = job[t].to.port
      BY <1>8, <2>0, <2>3 DEF Launch, ServesInv, LaunchPort, Wanted
    <3> QED BY <2>0, <3>1, <3>2
  <2> QED BY <1>8, <2>1, <2>2, <2>3 DEF Launch
<1>9. ASSUME NEW t \in Threads, Undo(t) PROVE Mended(n)'
  <2>1. n # job[t].name /\ items'[n] = items[n] BY <1>0, <1>9 DEF Undo
  <2>2. Astray(n) BY <1>9, <2>1 DEF Undo, Wanted
  <2>3. \A u \in Threads : u # t => pc'[u] = pc[u] /\ job'[u] = job[u]
    BY <1>0, <1>9 DEF Undo, Goto, Return
  <2> QED BY <1>1, <1>9, <2>1, <2>2, <2>3, MendersStay DEF Undo, pollVars
<1>10. ASSUME NEW t \in Threads, CheckWanted(t) PROVE Mended(n)'
  BY <1>0, <1>4, <1>10 DEF CheckWanted, Goto, Return, pollVars
<1>11. ASSUME NEW t \in Threads, Kill(t) \/ StopUnit(t) PROVE Mended(n)'
  <2>1. /\ UNCHANGED <<items, ppc, cur>> /\ unit' = [unit EXCEPT ![job[t].name] = NoUnit]
        /\ job[t].name \in Names /\ pc[t] \notin {"launch", "undo"}
        /\ \A u \in Threads : u # t => pc'[u] = pc[u] /\ job'[u] = job[u]
    BY <1>0, <1>11 DEF Kill, KillUnit, StopUnit, Stopped, Goto, Return, pollVars
  <2>2. unit'[n] = unit[n] BY <1>0, <2>1
  <2> QED BY <1>4, <2>1, <2>2
<1>12. ASSUME NEW t \in Threads, StopUnitFails(t) \/ Revive(t) PROVE FALSE
  BY <1>12 DEF StopUnitFails, Revive, ServesInv, NobodyRevives
<1>13. ASSUME NEW t \in Threads, MoveCheck(t) \/ MoveStopRefused(t) \/ MoveStartRefused(t)
       PROVE  Mended(n)'
  BY <1>0, <1>4, <1>13 DEF MoveCheck, MoveStopRefused, MoveStartRefused, Goto, Return, pollVars
<1>14. ASSUME NEW t \in Threads, MoveStop(t) PROVE Mended(n)'
  BY <1>0, <1>3, <1>14 DEF MoveStop, pollVars
<1>15. ASSUME NEW t \in Threads, MoveGo(t) \/ MoveBack(t) PROVE Mended(n)'
  <2>1. job[t].name \in Names /\ job[t].to \in Spot /\ job[t].from \in Spot
        /\ pc[t] \notin {"launch", "undo"}
    BY <1>0, <1>15 DEF MoveGo, MoveBack, ServesInv, TypeInv, TypeOK
  <2> QED BY <1>2, <1>15, <2>1 DEF MoveGo, MoveBack, pollVars
\* Before a poll or restore step that does not end what it does to n, a thread mends n.
<1>16. ASSUME UNCHANGED <<pc, job>>, ppc \notin {"recheck", "kill"} \/ cur.name # n,
              unit'[n] = unit[n], Wanted(items, n), items'[n].port = items[n].port
       PROVE  Mended(n)'
  <2>1. Astray(n) BY <1>16
  <2> QED BY <1>1, <1>16, <2>1 DEF Mended
<1>17. ASSUME PollSnapshot \/ PollUnknown \/ PollDrop \/ PollProbe \/ PollUnhealthy
               \/ \E m \in Names : PollActive(m)
       PROVE  Mended(n)'
  <2>1. UNCHANGED <<items, unit, pc, job>> /\ ppc \notin {"recheck", "kill"}
    BY <1>17 DEF PollSnapshot, PollUnknown, PollDrop, PollProbe, PollUnhealthy, PollActive, threadVars
  <2> QED BY <1>16, <2>1 DEF Wanted
<1>18. ASSUME PollGiveUp \/ PollRetry \/ PollRelaunchFailed \/ PollHealthy
               \/ \E m \in Names : PollTimeout(m)
       PROVE  Mended(n)'
  <2>1. UNCHANGED <<unit, pc, job>> /\ ppc \notin {"recheck", "kill"}
    BY <1>18 DEF PollGiveUp, PollRetry, PollRelaunchFailed, PollHealthy, PollTimeout, threadVars
  <2>2. Wanted(items, n) /\ items'[n].port = items[n].port
    <3>1. RecordStep BY <1>1, StepRecords
    <3>2. GoesOnAt(n) \/ \E t \in Threads : LaunchedBy(n, t)
      BY <1>1, <3>1, LaunchChanges DEF ServesInv
    <3>3. CASE GoesOnAt(n) BY <3>3 DEF GoesOnAt
    <3>4. ASSUME NEW t \in Threads, LaunchedBy(n, t) PROVE FALSE
      <4>1. ~Wanted(items, n) BY <3>4 DEF LaunchedBy
      <4>2. items'[n] = items[n]
        BY <1>0, <1>18, <4>1 DEF PollGiveUp, PollRetry, PollRelaunchFailed, PollHealthy, PollTimeout, Current
      <4> QED BY <4>1, <4>2 DEF Wanted
    <3> QED BY <3>2, <3>3, <3>4
  <2> QED BY <1>16, <2>1, <2>2
<1>19. ASSUME PollRelaunch PROVE Mended(n)'
  <2>1. UNCHANGED <<items, pc, job, cur>> /\ ppc = "relaunch" /\ cur \in Watch /\ cur.name \in Names
    BY <1>0, <1>19 DEF PollRelaunch, threadVars
  <2>2. CASE unit'[n] = unit[n] BY <1>16, <2>1, <2>2 DEF Wanted
  <2>3. CASE ppc' = "recheck" /\ unit' = [unit EXCEPT ![cur.name] = [port |-> cur.port, up |-> FALSE]]
    <3>1. CASE n # cur.name BY <1>0, <2>2, <2>3, <3>1
    <3>2. CASE n = cur.name /\ Current(n, cur.started)
      <4>1. items[n].port = cur.port
        BY <2>1, <3>2, ConstantsAssumption DEF ConstantsAssumption, ServesInv, WatchInv, WatchesPort
      <4> QED BY <1>0, <2>1, <2>3, <3>2, <4>1
    <3>3. CASE n = cur.name /\ ~Current(n, cur.started)
      BY <2>1, <2>3, <3>3 DEF Mended, Current, Wanted
    <3> QED BY <3>1, <3>2, <3>3
  <2> QED BY <1>19, <2>2, <2>3 DEF PollRelaunch
<1>20. ASSUME PollRecheck PROVE Mended(n)'
  <2>1. UNCHANGED <<items, unit, pc, job>> /\ ppc = "recheck" BY <1>20 DEF PollRecheck, threadVars
  <2>2. Astray(n) BY <2>1 DEF Wanted
  <2>3. CASE \E t \in Threads : pc[t] \in {"launch", "undo"} /\ job[t].name = n
    BY <2>1, <2>3 DEF Mended
  <2>4. CASE cur.name = n /\ ~Current(n, cur.started)
    BY <1>20, <2>4 DEF PollRecheck, Mended, Current, Wanted
  <2> QED BY <1>1, <2>2, <2>3, <2>4 DEF Mended
<1>21. ASSUME PollKill PROVE Mended(n)'
  <2>1. /\ UNCHANGED <<items, pc, job>> /\ ppc = "kill" /\ cur.name \in Names
        /\ unit' = [unit EXCEPT ![cur.name] = NoUnit]
    BY <1>0, <1>21 DEF PollKill, KillUnit, threadVars
  <2>2. n # cur.name /\ unit'[n] = unit[n] BY <1>0, <2>1
  <2> QED BY <1>16, <2>1, <2>2 DEF Wanted
<1>22. ASSUME NEW m \in Names, RestoreOne(m) PROVE Mended(n)'
  <2>1. UNCHANGED <<pc, job, ppc, cur>> /\ ppc = "pick"
    BY <1>22 DEF RestoreOne, threadVars, pollVars, ServesInv, TypeInv, RestoreAlone
  <2>2. items[m] \in Server /\ items[m].want
    BY <1>0, <1>22 DEF RestoreOne, ServesInv, TypeInv, RestoreAlone, WantedNames, Wanted
  <2>3. Wanted(items, n) /\ items'[n].port = items[n].port
    BY <1>0, <1>22, <2>2 DEF RestoreOne, Server, Wanted
  <2>4. unit'[n] = unit[n] \/ unit'[n].port = items[n].port BY <1>0, <1>22 DEF RestoreOne
  <2> QED BY <1>16, <2>1, <2>3, <2>4
<1>23. ASSUME RestoreEnd \/ UNCHANGED vars PROVE Mended(n)'
  <2>1. UNCHANGED <<items, unit, pc, job, ppc, cur>>
    BY <1>23 DEF RestoreEnd, vars, threadVars, pollVars
  <2>2. Astray(n) BY <2>1 DEF Wanted
  <2> QED BY <1>1, <2>1, <2>2 DEF Mended, Current, Wanted
<1>24. ASSUME NEW m \in Names, UnitUp(m) \/ UnitDies(m) PROVE Mended(n)'
  <2>1. UNCHANGED <<items, pc, job, ppc, cur>> BY <1>24 DEF UnitUp, UnitDies, threadVars, pollVars
  <2>2. unit[n] # NoUnit /\ unit'[n].port = unit[n].port BY <1>0, <1>24 DEF UnitUp, UnitDies, Unit
  <2>3. Astray(n) BY <2>1, <2>2 DEF Wanted
  <2> QED BY <1>1, <2>1, <2>3 DEF Mended, Current, Wanted
<1>25. ~Crash BY <1>0 DEF Crash
<1> HIDE DEF Astray
<1> QED
  <2>1. CASE \E t \in Threads : Request(t) \/ Work(t)
    BY <1>5, <1>6, <1>7, <1>8, <1>9, <1>10, <1>11, <1>12, <1>13, <1>14, <1>15, <2>1 DEF Request, Work
  <2>2. CASE Poll BY <1>17, <1>18, <1>19, <1>20, <1>21, <2>2 DEF Poll
  <2>3. CASE Restore \/ World BY <1>22, <1>23, <1>24, <1>25, <2>3 DEF Restore, World
  <2> QED BY <1>23, <2>1, <2>2, <2>3 DEF Next

LEMMA ServesAlways ==
  ASSUME ~StopMayFail, MaxCrashes = 0, \A t, u \in Threads : t = u PROVE Spec => []ServesInv
<1>1. Init => ServesInv
  <2> SUFFICES ASSUME Init PROVE ServesInv OBVIOUS
  <2>1. TypeInv /\ LegalFile(saved) /\ items = saved BY InitTypes, FilesAssumption DEF Init, FilesAssumption
  <2>2. StampsBelow BY <2>1 DEF Init, StampsBelow, LegalFile
  <2>3. WatchInv /\ LaunchPort BY DEF Init, WatchInv, LaunchPort
  <2>4. ServeInv BY <2>1 DEF Init, ServeInv, WantedNames, Wanted
  <2> QED BY <2>1, <2>2, <2>3, <2>4 DEF Init, ServesInv, NobodyRevives
<1>2. ServesInv /\ [Next]_vars => ServesInv'
  <2> SUFFICES ASSUME ServesInv, [Next]_vars PROVE ServesInv' OBVIOUS
  <2>1. TypeInv' /\ RecordStep BY StepTypes, StepRecords DEF ServesInv
  <2>2. NobodyRevives' BY StepRevivesNobody DEF ServesInv
  <2>3. WatchStep BY StepWatches DEF ServesInv
  <2>4. clock <= clock' BY StopSteps DEF ServesInv, ReviveGoesOn, NobodyRevives
  <2>5. StampsBelow' /\ WatchInv' BY <2>1, <2>3, <2>4, StepStamps DEF ServesInv
  <2>6. LaunchPort' BY <2>1, StepLaunchPort DEF ServesInv
  <2>7. ServeInv' BY StepServes
  <2> QED BY <2>1, <2>2, <2>5, <2>6, <2>7 DEF ServesInv
<1> QED BY <1>1, <1>2, PTL DEF Spec

\* Where requests come one after the other, the unit of an active model serves the port its
\* record names once all is quiet, whatever the poll loop retried meanwhile.
THEOREM UnitsServeTheirPorts ==
  ASSUME ~StopMayFail, MaxCrashes = 0, \A t, u \in Threads : t = u
  PROVE  Spec => []UnitServesItsPort
<1>1. ServesInv => UnitServesItsPort
  BY DEF ServesInv, ServeInv, UnitServesItsPort, Quiescent, Mended
<1> QED BY <1>1, ServesAlways, PTL

=============================================================================
