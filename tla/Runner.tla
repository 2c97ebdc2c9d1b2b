------------------------------- MODULE Runner -------------------------------
(***************************************************************************)
(* ModelRunner (runner.py): starts, stops and moves vLLM models as systemd *)
(* units, watches them from one poll loop and brings them back after a     *)
(* restart of the manager.                                                 *)
(*                                                                         *)
(* A step is what happens between two releases of the runner's lock, or    *)
(* one call of the launcher or the probe, which are made outside it.  The  *)
(* requests run in worker threads, the poll loop in one more thread, and   *)
(* the systemd units live on their own: they come up, die, and outlive a   *)
(* crash of the manager.                                                   *)
(***************************************************************************)
EXTENDS Shares

CONSTANTS
  Names,          \* names a model can be served under
  Cards,          \* GPU numbers
  Ports,          \* vllm.port_range
  Threads,        \* worker threads that carry requests
  Requests,       \* which of "start", "stop", "move" the clients send
  Asks,           \* explicit shares in requests; NoShare: let the manager choose
  Ceilings,       \* ceilings of a derived share: vllm.default_fraction, profiles
  DefaultFraction,\* vllm.default_fraction
  MemFree,        \* shares of a card telemetry may report free
  MaxAttempts,    \* _MAX_ATTEMPTS
  Files,          \* contents of state.json the manager may start from
  LaunchMayFail,  \* systemd-run may fail though the unit's name is free
  StopMayFail,    \* systemctl stop may fail and leave the unit alive
  MaxCalls,       \* bound: requests in a behaviour
  MaxLaunches,    \* bound: launches, retries and restores included, in a behaviour
  MaxCrashes,     \* bound: restarts of the manager in a behaviour
  NoServer, NoUnit, NoJob, NoWatch, NoPlace   \* null values

VARIABLES
  items,     \* ModelRunner._items
  saved,     \* the "servers" section of state.json
  unit,      \* the systemd unit of each name
  pc, job,   \* where each request thread is, and what it carries
  mode,      \* "restore" until restore() is done, then "serving"
  waiting,   \* names restore() has still to look at
  ppc, todo, cur,  \* where the poll loop is, its snapshot, the item at hand
  clock,     \* time stamps, one per launch
  calls, crashes,  \* counters of the bounds
  stopped    \* history: the records whose stop has been answered

vars == <<items, saved, unit, pc, job, mode, waiting, ppc, todo, cur,
          clock, calls, crashes, stopped>>

threadVars == <<pc, job>>
pollVars == <<ppc, todo, cur>>
bootVars == <<mode, waiting, crashes>>

-----------------------------------------------------------------------------
Live == {"starting", "running"}

Status == Live \cup {"failed", "stopped"}

\* id is the identity of the record (a start makes a new one, a retry keeps
\* it); started changes with every launch.
Server == [id : Nat, started : Nat, gpu : Cards, port : Ports, frac : 1..Full,
           explicit : BOOLEAN, status : Status, want : BOOLEAN,
           attempts : 1..MaxAttempts]

Unit == [port : Ports, up : BOOLEAN]

Spot == [gpu : Cards, port : Ports]

\* leg: a plain "call", or the way a move is on: to the new place ("go") or
\* back to the old one ("back").
Job == [name : Names, id : Nat, to : Spot \cup {NoPlace}, from : Spot \cup {NoPlace},
        ask : 0..Full, leg : {"call", "go", "back"}, dismiss : BOOLEAN]

Watch == [name : Names, port : Ports, started : Nat]

Wanted(its, n) == its[n] # NoServer /\ its[n].want

WantedNames(its) == {n \in Names : Wanted(its, n)}

\* Mutant: a model that is still starting does not hold its port.
TakenPortsRunning == {items[n].port : n \in {m \in WantedNames(items) : items[m].status = "running"}}

TakenPorts == {items[n].port : n \in WantedNames(items)}

\* The shares active models hold on card g, the model `except` left out.
UsedShare(its, g, except) ==
  Total([m \in Names |-> IF m # except /\ Wanted(its, m)
                         THEN IF its[m].gpu = g THEN its[m].frac ELSE 0
                         ELSE 0])

\* port_is_free: nothing listens there yet.
Listening(p) == \E n \in Names : unit[n] # NoUnit /\ unit[n].port = p /\ unit[n].up

\* A time stamp for one more launch.
Stamp == clock <= MaxLaunches /\ clock' = clock + 1

\* Mutant: any active record of the name passes for the launch.
CurrentByName(n, started) == Wanted(items, n)

\* The record of the launch the poll loop looked at, if it still is that one.
Current(n, started) == Wanted(items, n) /\ items[n].started = started

LegalFile(f) ==
  /\ f \in [Names -> Server \cup {NoServer}]
  /\ \A m, n \in WantedNames(f) : m # n => f[m].port # f[n].port
  /\ \A n \in Names : f[n] # NoServer =>
       f[n].id = 0 /\ f[n].started = 0 /\ (f[n].want <=> f[n].status \in Live)
  /\ \A g \in Cards : UsedShare(f, g, NoServer) <= Full

ASSUME ConstantsAssumption ==
  /\ IsFiniteSet(Names) /\ Names # {}
  /\ Asks \subseteq 0..Full /\ Ceilings \subseteq 1..Full /\ DefaultFraction \in 1..Full
  /\ MemFree \subseteq 0..Full
  /\ MaxAttempts \in Nat \ {0} /\ MaxCalls \in Nat /\ MaxLaunches \in Nat /\ MaxCrashes \in Nat
  /\ LaunchMayFail \in BOOLEAN /\ StopMayFail \in BOOLEAN
  /\ NoServer \notin Server /\ NoServer \notin Names
  /\ NoUnit \notin Unit /\ NoJob \notin Job /\ NoWatch \notin Watch /\ NoPlace \notin Spot

ASSUME FilesAssumption == \A f \in Files : LegalFile(f)

-----------------------------------------------------------------------------
\* start() and stop(): the parts under the lock, shared by the plain requests
\* and by move.

\* Mutant: only telemetry counts, not the models that have yet to take memory.
GrantedSharesByMemory(g, ask) ==
  IF ask = NoShare THEN {Lesser(c, m) : c \in Ceilings, m \in MemFree}
  ELSE {f \in {ask} : \E m \in MemFree : f <= m}

\* The shares a start may be granted on card g; none when memory is short.
GrantedShares(g, ask) ==
  LET used == UsedShare(items, g, NoServer)
  IN  IF ask = NoShare
      THEN {f \in {Lesser(c, FreeShare(m, used, DefaultFraction)) : c \in Ceilings, m \in MemFree} :
              f >= MinFraction}
      ELSE {f \in {ask} : \E m \in MemFree : f <= FreeShare(m, used, Full)}

\* Name, port and share are checked and the record is saved in one critical
\* section, so that the place is held before systemd-run.
RecordStart(t, n, spot, ask, leg, from) ==
  /\ ~Wanted(items, n)
  /\ spot.port \notin TakenPorts
  /\ ~Listening(spot.port)
  /\ \E f \in GrantedShares(spot.gpu, ask) :
       items' = [items EXCEPT ![n] =
                   [id |-> clock, started |-> clock, gpu |-> spot.gpu, port |-> spot.port,
                    frac |-> f, explicit |-> ask # NoShare, status |-> "starting",
                    want |-> TRUE, attempts |-> 1]]
  /\ saved' = items'
  /\ Stamp
  /\ pc' = [pc EXCEPT ![t] = "launch"]
  /\ job' = [job EXCEPT ![t] = [name |-> n, id |-> clock, to |-> spot, from |-> from,
                               ask |-> ask, leg |-> leg, dismiss |-> FALSE]]

Stoppable(n) == items[n] # NoServer /\ (items[n].want \/ items[n].status = "failed")

\* An active record is marked stopped, a failed one is dismissed.
RecordStop(t, n, to, from, ask, leg) ==
  /\ Stoppable(n)
  /\ items' = IF items[n].want
              THEN [items EXCEPT ![n].want = FALSE, ![n].status = "stopped"]
              ELSE [items EXCEPT ![n] = NoServer]
  /\ saved' = items'
  /\ pc' = [pc EXCEPT ![t] = "stopping"]
  /\ job' = [job EXCEPT ![t] = [name |-> n, id |-> items[n].id, to |-> to, from |-> from,
                               ask |-> ask, leg |-> leg, dismiss |-> ~items[n].want]]

Goto(t, label) == pc' = [pc EXCEPT ![t] = label] /\ UNCHANGED job

Return(t) == /\ pc' = [pc EXCEPT ![t] = "idle"]
             /\ job' = [job EXCEPT ![t] = NoJob]

Call(t, request) ==
  /\ mode = "serving" /\ pc[t] = "idle"
  /\ request \in Requests
  /\ calls < MaxCalls
  /\ calls' = calls + 1

-----------------------------------------------------------------------------
\* Requests

BeginStart(t) ==
  /\ Call(t, "start")
  /\ \E n \in Names, spot \in Spot, ask \in Asks :
       RecordStart(t, n, spot, ask, "call", NoPlace)
  /\ UNCHANGED <<unit, bootVars, pollVars, stopped>>

\* systemd-run refuses a unit name that is in use.
Launch(t) ==
  /\ pc[t] = "launch"
  /\ \/ /\ unit[job[t].name] = NoUnit
        /\ unit' = [unit EXCEPT ![job[t].name] = [port |-> job[t].to.port, up |-> FALSE]]
        /\ Goto(t, "check")
     \/ /\ LaunchMayFail \/ unit[job[t].name] # NoUnit
        /\ Goto(t, "undo")
        /\ UNCHANGED unit
  /\ UNCHANGED <<items, saved, bootVars, pollVars, clock, calls, stopped>>

\* Mutant: the record stays when its launch failed.
UndoKeepsRecord(t) ==
  /\ pc[t] = "undo"
  /\ IF job[t].leg = "go" THEN Goto(t, "moveBack") ELSE Return(t)
  /\ UNCHANGED <<items, saved, unit, bootVars, pollVars, clock, calls, stopped>>

\* The launch failed: the record of that name is dropped, whosever it is now.
Undo(t) ==
  /\ pc[t] = "undo"
  /\ items' = [items EXCEPT ![job[t].name] = NoServer]
  /\ saved' = items'
  /\ IF job[t].leg = "go" THEN Goto(t, "moveBack") ELSE Return(t)
  /\ UNCHANGED <<unit, bootVars, pollVars, clock, calls, stopped>>

\* _stop_if_unwanted(name) after a first start: was it stopped meanwhile?
CheckWanted(t) ==
  /\ pc[t] = "check"
  /\ IF Wanted(items, job[t].name) THEN Return(t) ELSE Goto(t, "kill")
  /\ UNCHANGED <<items, saved, unit, bootVars, pollVars, clock, calls, stopped>>

\* launcher.stop whose answer nobody reads.
KillUnit(n) == \/ unit' = [unit EXCEPT ![n] = NoUnit]
               \/ StopMayFail /\ UNCHANGED unit

Kill(t) ==
  /\ pc[t] = "kill"
  /\ KillUnit(job[t].name)
  /\ Return(t)
  /\ UNCHANGED <<items, saved, bootVars, pollVars, clock, calls, stopped>>

BeginStop(t) ==
  /\ Call(t, "stop")
  /\ \E n \in Names : RecordStop(t, n, NoPlace, NoPlace, NoShare, "call")
  /\ UNCHANGED <<unit, bootVars, pollVars, clock, stopped>>

\* The stop is answered; a move goes on from here.
Stopped(t) ==
  /\ stopped' = IF job[t].dismiss THEN stopped ELSE stopped \cup {<<job[t].name, job[t].id>>}
  /\ IF job[t].leg = "go" THEN Goto(t, "moveGo") ELSE Return(t)

StopUnit(t) ==
  /\ pc[t] = "stopping"
  /\ unit' = [unit EXCEPT ![job[t].name] = NoUnit]
  /\ Stopped(t)
  /\ UNCHANGED <<items, saved, bootVars, pollVars, clock, calls>>

StopUnitFails(t) ==
  /\ StopMayFail /\ pc[t] = "stopping"
  /\ IF job[t].dismiss THEN Stopped(t) ELSE Goto(t, "revive") /\ UNCHANGED stopped
  /\ UNCHANGED <<items, saved, unit, bootVars, pollVars, clock, calls>>

\* Mutant: whatever record the name has now is revived.
ReviveByName(t) ==
  /\ pc[t] = "revive"
  /\ LET n == job[t].name
     IN  items' = IF items[n] # NoServer
                  THEN [items EXCEPT ![n].want = TRUE, ![n].status = "starting"]
                  ELSE items
  /\ saved' = items'
  /\ Return(t)
  /\ UNCHANGED <<unit, bootVars, pollVars, clock, calls, stopped>>

\* stop_failed: the record object goes back under watch.  If the name has got
\* another record by now, only the forgotten object changes.
Revive(t) ==
  /\ pc[t] = "revive"
  /\ LET n == job[t].name
     IN  items' = IF items[n] # NoServer /\ items[n].id = job[t].id
                  THEN [items EXCEPT ![n].want = TRUE, ![n].status = "starting"]
                  ELSE items
  /\ saved' = items'
  /\ Return(t)
  /\ UNCHANGED <<unit, bootVars, pollVars, clock, calls, stopped>>

-----------------------------------------------------------------------------
\* move: stop, then start under the same name elsewhere, else go back

BeginMove(t) ==
  /\ Call(t, "move")
  /\ \E n \in WantedNames(items), to \in Spot :
       LET old == items[n]
           from == [gpu |-> old.gpu, port |-> old.port]
       IN  /\ to # from
           /\ job' = [job EXCEPT ![t] =
                        [name |-> n, id |-> old.id, to |-> to, from |-> from,
                         ask |-> IF old.explicit THEN old.frac ELSE NoShare,
                         leg |-> "go", dismiss |-> FALSE]]
  /\ pc' = [pc EXCEPT ![t] = "moveCheck"]
  /\ UNCHANGED <<items, saved, unit, bootVars, pollVars, clock, stopped>>

\* The memory of another card is checked before the model is stopped.
MoveCheck(t) ==
  /\ pc[t] = "moveCheck"
  /\ LET to == job[t].to
         need == IF job[t].ask # NoShare THEN job[t].ask ELSE MinFraction
         limit == IF job[t].ask # NoShare THEN Full ELSE DefaultFraction
         fits(m) == need <= FreeShare(m, UsedShare(items, to.gpu, NoServer), limit)
     IN  \/ /\ to.gpu = job[t].from.gpu \/ \E m \in MemFree : fits(m)
            /\ Goto(t, "moveStop")
         \/ /\ to.gpu # job[t].from.gpu /\ \E m \in MemFree : ~fits(m)
            /\ Return(t)
  /\ UNCHANGED <<items, saved, unit, bootVars, pollVars, clock, calls, stopped>>

MoveStop(t) ==
  /\ pc[t] = "moveStop"
  /\ RecordStop(t, job[t].name, job[t].to, job[t].from, job[t].ask, "go")
  /\ UNCHANGED <<unit, bootVars, pollVars, clock, calls, stopped>>

\* server_not_found: the model was stopped since the move looked at it.
MoveStopRefused(t) ==
  /\ pc[t] = "moveStop"
  /\ ~Stoppable(job[t].name)
  /\ Return(t)
  /\ UNCHANGED <<items, saved, unit, bootVars, pollVars, clock, calls, stopped>>

MoveGo(t) ==
  /\ pc[t] = "moveGo"
  /\ RecordStart(t, job[t].name, job[t].to, job[t].ask, "go", job[t].from)
  /\ UNCHANGED <<unit, bootVars, pollVars, calls, stopped>>

MoveBack(t) ==
  /\ pc[t] = "moveBack"
  /\ RecordStart(t, job[t].name, job[t].from, job[t].ask, "back", job[t].from)
  /\ UNCHANGED <<unit, bootVars, pollVars, calls, stopped>>

\* start() refuses inside a move.  Besides name, port and share, a card
\* reserved by someone, model files gone, or a port held by another program
\* refuse it, so a refusal is possible at any time.
MoveStartRefused(t) ==
  /\ \/ pc[t] = "moveGo" /\ Goto(t, "moveBack")
     \/ pc[t] = "moveBack" /\ Return(t)
  /\ UNCHANGED <<items, saved, unit, bootVars, pollVars, clock, calls, stopped>>

-----------------------------------------------------------------------------
\* The poll loop

PollSnapshot ==
  /\ mode = "serving" /\ ppc = "pick" /\ todo = {}
  /\ todo' = {[name |-> n, port |-> items[n].port, started |-> items[n].started] :
                 n \in WantedNames(items)}
  /\ UNCHANGED <<items, saved, unit, threadVars, bootVars, ppc, cur, clock, calls, stopped>>

\* launcher.active: live, dead, or unknown, which passes the model by.
PollActive(n) ==
  /\ mode = "serving" /\ ppc = "pick"
  /\ \E w \in todo :
       /\ w.name = n
       /\ todo' = todo \ {w}
       /\ cur' = w
       /\ ppc' = IF unit[n] = NoUnit THEN "dead" ELSE "probe"
  /\ UNCHANGED <<items, saved, unit, threadVars, bootVars, clock, calls, stopped>>

PollUnknown ==
  /\ mode = "serving" /\ ppc = "pick"
  /\ \E w \in todo : todo' = todo \ {w}
  /\ UNCHANGED <<items, saved, unit, threadVars, bootVars, ppc, cur, clock, calls, stopped>>

\* Mutant: one attempt too many.
FixedSharesOnceMore(n, error) == IF items[n].attempts > MaxAttempts THEN {} ELSE {items[n].frac}

\* Mutant: a share is doubled without a look at what the others leave.
FixedSharesDoubled(n, error) ==
  IF items[n].attempts >= MaxAttempts THEN {} ELSE {Lesser(2 * items[n].frac, DefaultFraction)}

\* _plan_fix: what the share of n becomes by the kind of error its last log
\* shows; none when the attempts are used up or nothing helps.  "args" stands
\* for the fixes of the context and the extra arguments, "taken" for memory
\* held by others, "oom" for running out of it (on the lowest rung the context
\* shrinks instead; where it cannot, the error counts as "other").
FixedShares(n, error) ==
  LET old == items[n].frac
      lower == LowerFraction(old)
      bigger == {BiggerFraction(old, FreeShare(m, UsedShare(items, items[n].gpu, n), DefaultFraction)) :
                   m \in MemFree}
  IN  {f \in {old, lower} \cup bigger :
         /\ items[n].attempts < MaxAttempts
         /\ f # NoShare
         /\ \/ error \in {"taken", "oom"} /\ f = lower
            \/ error = "args" /\ f = old
            \/ error = "oom" /\ lower = NoShare /\ f = old
            \/ error = "no_kv" /\ f \in bigger}

Errors == {"args", "taken", "oom", "no_kv", "other"}

\* On to the next item of the snapshot.
PollDone == ppc' = "pick" /\ cur' = NoWatch /\ UNCHANGED todo

\* The unit is dead: the launch the poll looked at is given up or retried
\* with other parameters; a record that is no longer that launch is left alone.
PollDrop ==
  /\ ppc = "dead" /\ ~Current(cur.name, cur.started)
  /\ PollDone
  /\ UNCHANGED <<items, saved, unit, threadVars, bootVars, clock, calls, stopped>>

PollGiveUp ==
  /\ ppc = "dead" /\ Current(cur.name, cur.started)
  /\ \E error \in Errors : FixedShares(cur.name, error) = {}
  /\ items' = [items EXCEPT ![cur.name].status = "failed", ![cur.name].want = FALSE]
  /\ saved' = items'
  /\ PollDone
  /\ UNCHANGED <<unit, threadVars, bootVars, clock, calls, stopped>>

PollRetry ==
  /\ ppc = "dead" /\ Current(cur.name, cur.started)
  /\ \E error \in Errors : \E f \in FixedShares(cur.name, error) :
       items' = [items EXCEPT ![cur.name].frac = f, ![cur.name].status = "starting",
                              ![cur.name].started = clock, ![cur.name].attempts = @ + 1]
  /\ saved' = items'
  /\ Stamp
  /\ cur' = [cur EXCEPT !.started = clock]
  /\ ppc' = "relaunch"
  /\ UNCHANGED <<unit, threadVars, bootVars, todo, calls, stopped>>

PollRelaunch ==
  /\ ppc = "relaunch"
  /\ \/ /\ unit[cur.name] = NoUnit
        /\ unit' = [unit EXCEPT ![cur.name] = [port |-> cur.port, up |-> FALSE]]
        /\ ppc' = "recheck"
     \/ /\ LaunchMayFail \/ unit[cur.name] # NoUnit
        /\ ppc' = "unlaunched"
        /\ UNCHANGED unit
  /\ UNCHANGED <<items, saved, threadVars, bootVars, todo, cur, clock, calls, stopped>>

PollRelaunchFailed ==
  /\ ppc = "unlaunched"
  /\ IF Current(cur.name, cur.started)
     THEN /\ items' = [items EXCEPT ![cur.name].status = "failed", ![cur.name].want = FALSE]
          /\ saved' = items'
     ELSE UNCHANGED <<items, saved>>
  /\ PollDone
  /\ UNCHANGED <<unit, threadVars, bootVars, clock, calls, stopped>>

\* Mutant: the relaunched unit is left running unseen.
PollRecheckNever ==
  /\ ppc = "recheck"
  /\ PollDone
  /\ UNCHANGED <<items, saved, unit, threadVars, bootVars, clock, calls, stopped>>

\* _stop_if_unwanted(name, started) after a relaunch.
PollRecheck ==
  /\ ppc = "recheck"
  /\ IF Current(cur.name, cur.started)
     THEN PollDone
     ELSE ppc' = "kill" /\ UNCHANGED <<todo, cur>>
  /\ UNCHANGED <<items, saved, unit, threadVars, bootVars, clock, calls, stopped>>

\* launcher.stop after a relaunch nobody wants, or after a start timeout.
PollKill ==
  /\ ppc = "kill"
  /\ KillUnit(cur.name)
  /\ PollDone
  /\ UNCHANGED <<items, saved, threadVars, bootVars, clock, calls, stopped>>

\* /health on the port of the snapshot, answered by whoever listens there.
\* No answer within the probe's second is possible at any time, so that case
\* has no step of its own.
PollProbe ==
  /\ ppc = "probe"
  /\ Listening(cur.port)
  /\ ppc' = "healthy"
  /\ UNCHANGED <<items, saved, unit, threadVars, bootVars, todo, cur, clock, calls, stopped>>

PollHealthy ==
  /\ ppc = "healthy"
  /\ IF Current(cur.name, cur.started) /\ items[cur.name].status # "running"
     THEN /\ items' = [items EXCEPT ![cur.name].status = "running"]
          /\ saved' = items'
     ELSE UNCHANGED <<items, saved>>
  /\ PollDone
  /\ UNCHANGED <<unit, threadVars, bootVars, clock, calls, stopped>>

PollUnhealthy ==
  /\ ppc = "probe"
  /\ PollDone
  /\ UNCHANGED <<items, saved, unit, threadVars, bootVars, clock, calls, stopped>>

\* Mutant: the timeout is asked of running models.
PollTimeoutRunning(n) ==
  /\ ppc = "probe" /\ cur.name = n
  /\ Current(n, cur.started) /\ items[n].status = "running"
  /\ items' = [items EXCEPT ![n].status = "failed", ![n].want = FALSE]
  /\ saved' = items'
  /\ ppc' = "kill"
  /\ UNCHANGED <<unit, threadVars, bootVars, todo, cur, clock, calls, stopped>>

\* Still starting after vllm.start_timeout_s.
PollTimeout(n) ==
  /\ ppc = "probe" /\ cur.name = n
  /\ Current(n, cur.started) /\ items[n].status = "starting"
  /\ items' = [items EXCEPT ![n].status = "failed", ![n].want = FALSE]
  /\ saved' = items'
  /\ ppc' = "kill"
  /\ UNCHANGED <<unit, threadVars, bootVars, todo, cur, clock, calls, stopped>>

-----------------------------------------------------------------------------
\* restore() after a restart of the manager; nothing else runs meanwhile

\* A live (or unknown) unit is adopted as it is; a dead one is launched again.
\* The changes reach state.json only when restore is done.
RestoreOne(n) ==
  /\ mode = "restore" /\ n \in waiting
  /\ waiting' = waiting \ {n}
  /\ \/ UNCHANGED <<items, unit, clock>>    \* live or unknown
     \/ /\ unit[n] = NoUnit
        /\ Stamp
        /\ \/ /\ items' = [items EXCEPT ![n].status = "starting", ![n].started = clock]
              /\ unit' = [unit EXCEPT ![n] = [port |-> items[n].port, up |-> FALSE]]
           \/ /\ LaunchMayFail
              /\ items' = [items EXCEPT ![n].status = "failed", ![n].want = FALSE,
                                        ![n].started = clock]
              /\ UNCHANGED unit
  /\ UNCHANGED <<saved, threadVars, mode, crashes, pollVars, calls, stopped>>

\* Mutant: what restore changed is not saved.
RestoreEndUnsaved ==
  /\ mode = "restore" /\ waiting = {}
  /\ mode' = "serving"
  /\ UNCHANGED <<items, saved, unit, threadVars, waiting, crashes, pollVars, clock, calls, stopped>>

RestoreEnd ==
  /\ mode = "restore" /\ waiting = {}
  /\ saved' = items
  /\ mode' = "serving"
  /\ UNCHANGED <<items, unit, threadVars, waiting, crashes, pollVars, clock, calls, stopped>>

-----------------------------------------------------------------------------
\* The world outside

UnitUp(n) ==
  /\ unit[n] # NoUnit /\ ~unit[n].up
  /\ ~Listening(unit[n].port)
  /\ unit' = [unit EXCEPT ![n].up = TRUE]
  /\ UNCHANGED <<items, saved, threadVars, bootVars, pollVars, clock, calls, stopped>>

UnitDies(n) ==
  /\ unit[n] # NoUnit
  /\ unit' = [unit EXCEPT ![n] = NoUnit]
  /\ UNCHANGED <<items, saved, threadVars, bootVars, pollVars, clock, calls, stopped>>

\* The manager dies at any point and starts again from state.json; the units
\* live on, unless the machine went down with it.
Crash ==
  /\ crashes < MaxCrashes
  /\ crashes' = crashes + 1
  /\ items' = saved
  /\ mode' = "restore"
  /\ waiting' = WantedNames(saved)
  /\ pc' = [t \in Threads |-> "idle"]
  /\ job' = [t \in Threads |-> NoJob]
  /\ ppc' = "pick" /\ todo' = {} /\ cur' = NoWatch
  /\ \/ UNCHANGED unit
     \/ unit' = [n \in Names |-> NoUnit]
  /\ UNCHANGED <<saved, clock, calls, stopped>>

-----------------------------------------------------------------------------
\* At first the manager starts from some state.json, after a reboot or beside
\* the units of the models it lists.
Init ==
  /\ saved \in Files
  /\ items = saved
  /\ unit \in [Names -> {NoUnit} \cup [port : Ports, up : {TRUE}]]
  /\ \A n \in Names : unit[n] # NoUnit => Wanted(saved, n) /\ unit[n].port = saved[n].port
  /\ pc = [t \in Threads |-> "idle"]
  /\ job = [t \in Threads |-> NoJob]
  /\ mode = "restore" /\ waiting = WantedNames(saved)
  /\ ppc = "pick" /\ todo = {} /\ cur = NoWatch
  /\ clock = 1 /\ calls = 0 /\ crashes = 0
  /\ stopped = {}

\* What thread t does once its request is under way.
Work(t) ==
  \/ Launch(t) \/ Undo(t) \/ CheckWanted(t) \/ Kill(t)
  \/ StopUnit(t) \/ StopUnitFails(t) \/ Revive(t)
  \/ MoveCheck(t) \/ MoveStop(t) \/ MoveStopRefused(t)
  \/ MoveGo(t) \/ MoveBack(t) \/ MoveStartRefused(t)

Request(t) == BeginStart(t) \/ BeginStop(t) \/ BeginMove(t)

Poll ==
  \/ PollSnapshot \/ PollUnknown \/ (\E n \in Names : PollActive(n))
  \/ PollDrop \/ PollGiveUp \/ PollRetry
  \/ PollRelaunch \/ PollRelaunchFailed \/ PollRecheck \/ PollKill
  \/ PollProbe \/ PollHealthy \/ PollUnhealthy \/ (\E n \in Names : PollTimeout(n))

Restore == (\E n \in Names : RestoreOne(n)) \/ RestoreEnd

World == Crash \/ (\E n \in Names : UnitUp(n) \/ UnitDies(n))

Next == (\E t \in Threads : Request(t) \/ Work(t)) \/ Poll \/ Restore \/ World

Spec == Init /\ [][Next]_vars

\* The threads keep running, the loop keeps polling (app.py, _poll_forever),
\* restore goes on; systemctl does not fail to answer for ever, and time
\* passes, so a model that stays "starting" is polled after its timeout.
Fairness ==
  /\ \A t \in Threads : WF_vars(Work(t))
  /\ WF_vars(Poll) /\ WF_vars(Restore)
  /\ \A n \in Names : SF_vars(PollActive(n)) /\ SF_vars(PollTimeout(n))

FairSpec == Spec /\ Fairness

-----------------------------------------------------------------------------
\* Properties

ThreadLabels == {"idle", "launch", "undo", "check", "kill", "stopping", "revive",
                 "moveCheck", "moveStop", "moveGo", "moveBack"}

PollLabels == {"pick", "dead", "relaunch", "unlaunched", "recheck", "kill",
               "probe", "healthy"}

\* Every variable keeps its type; a thread carries a job exactly while it works.
TypeOK ==
  /\ items \in [Names -> Server \cup {NoServer}]
  /\ saved \in [Names -> Server \cup {NoServer}]
  /\ unit \in [Names -> Unit \cup {NoUnit}]
  /\ pc \in [Threads -> ThreadLabels]
  /\ job \in [Threads -> Job \cup {NoJob}]
  /\ \A t \in Threads : pc[t] # "idle" => job[t] \in Job
  /\ \A t \in Threads : pc[t] = "launch" => job[t].to \in Spot
  /\ \A t \in Threads : pc[t] \in {"moveCheck", "moveStop", "moveGo", "moveBack"}
                          => job[t].leg = "go"
  /\ \A t \in Threads : pc[t] # "idle" /\ job[t].leg # "call"
                          => job[t].to \in Spot /\ job[t].from \in Spot
  /\ mode \in {"restore", "serving"} /\ waiting \subseteq Names
  /\ ppc \in PollLabels /\ todo \subseteq Watch
  /\ cur \in Watch \cup {NoWatch} /\ (ppc # "pick" => cur \in Watch)
  /\ clock \in Nat \ {0} /\ calls \in Nat /\ crashes \in Nat
  /\ stopped \subseteq Names \X Nat

\* While restore() runs nothing else does, and what it has still to look at is
\* active (app.py, lifespan: the loop and the requests start after it).
RestoreAlone ==
  mode = "restore" =>
    /\ \A t \in Threads : pc[t] = "idle"
    /\ ppc = "pick" /\ todo = {}
    /\ waiting \subseteq WantedNames(items)

\* Two active models never hold the same port, whatever requests, retries and
\* restarts overlap (runner.py _free_port under the lock of start).
DistinctPorts ==
  \A m, n \in WantedNames(items) : m # n => items[m].port # items[n].port

\* The shares of the active models of a card never exceed the card, grown and
\* lowered by retries included (_free_share, _bigger_fraction).
SharesFit == \A g \in Cards : UsedShare(items, g, NoServer) <= Full

\* state.json is never behind the memory while requests are served, so that a
\* crash between any two steps loses no start, stop or verdict (_save).
SavedIsCurrent == mode = "serving" => saved = items

\* A record whose stop has been answered is never active again: no retry, no
\* verdict, no stop_failed of another request and no restart brings it back.
StoppedStaysStopped ==
  \A n \in Names :
    /\ Wanted(items, n) => <<n, items[n].id>> \notin stopped
    /\ Wanted(saved, n) => <<n, saved[n].id>> \notin stopped

\* Nobody is in the middle of anything.
Quiescent ==
  /\ mode = "serving" /\ ppc = "pick" /\ todo = {}
  /\ \A t \in Threads : pc[t] = "idle"

\* When all is quiet no unit runs that the manager does not watch
\* (_stop_if_unwanted: no vLLM the manager does not see).
NoOrphanUnit == Quiescent => \A n \in Names : unit[n] # NoUnit => Wanted(items, n)

\* When all is quiet a model whose record says stopped has no unit: neither a
\* launch nor a retry that was on its way when the stop came leaves one behind.
StoppedIsDown ==
  Quiescent => \A n \in Names :
    items[n] # NoServer /\ items[n].status = "stopped" => unit[n] = NoUnit

\* When all is quiet the unit of an active model serves the port its record
\* names, which is where the gateway sends its clients.
UnitServesItsPort ==
  Quiescent => \A n \in WantedNames(items) : unit[n] # NoUnit => unit[n].port = items[n].port

\* The poll loop judges only the launch it looked at: a record that was stopped,
\* moved or started anew since the snapshot is not touched (_current).
PollJudgesItsLaunch ==
  [][\A n \in Names : ppc' # ppc /\ items'[n] # items[n]
       => n = cur.name /\ Wanted(items, n) /\ items[n].started = cur.started]_vars

\* A model that is starting comes to an end of that: it runs, or it is given up
\* (retries are limited and a start that hangs is timed out), or it is stopped.
Starting(n) == Wanted(items, n) /\ items[n].status = "starting"
StartSettles == \A n \in Names : Starting(n) ~> ~Starting(n)

\* state.json seen as places: what the runner promises about ports and shares.
PlacesOf(its) ==
  [n \in Names |-> IF Wanted(its, n)
                   THEN [gpu |-> its[n].gpu, port |-> its[n].port, frac |-> its[n].frac]
                   ELSE NoPlace]

ASSUME PlacesAssumption == NoPlace \notin [gpu : Cards, port : Ports, frac : 1..Full]

P == INSTANCE Places WITH place <- PlacesOf(saved)

\* Every change of state.json is a grant, a resize or a return of a place.
ImplementsPlaces == P!Spec

=============================================================================
