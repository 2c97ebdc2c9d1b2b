# Verification of gpu_llm_manager

gpu_llm_manager is a service for one machine with a few GPU cards. It shows who uses which
card, lets people book cards, downloads models from HuggingFace, runs them as vLLM servers
in systemd units and forwards OpenAI requests to them. This directory holds TLA+ models of
the parts that keep state, TLC configurations that check them on small instances, and
proofs for TLAPS of what holds for every size.

Paths below are relative to `src/` of the repository; `runner.py` and the like are in
`src/gpu_manager/`. To run: `tlc -config RunnerCrash.cfg RunnerMC.tla`,
`tlapm RunnerProofs.tla`. The run of `Telemetry` takes the module itself, the others
their `...MC` module.

## 1. Inventory

| Component | State | Operations | Talks to |
|---|---|---|---|
| `ModelRunner` (runner.py) | `_items` (one `Server` per name), section `servers` of state.json, units `gm-model-<name>` | `start`, `stop`, `move` (requests), `poll` (one background loop), `restore` (once at start) | systemd through `SystemdLauncher`, `/health` of each model, `ModelStore.local`, `ReservationBook.get`, telemetry, `StateStore`, `Journal` |
| `ModelStore` (models.py) | `_items` (one `Download` per repository), `_procs`, section `downloads`, the HF cache | `download`, `cancel`, `delete`, `poll` (background loop and at the end of `download`), `stop_all` | worker processes, HuggingFace, `ModelRunner.in_use`, `StateStore`, `Journal` |
| download worker (download_worker.py) | files in the HF cache | one download, then exit | huggingface_hub |
| `ReservationBook` and `GpuManager` (reservations.py, core.py) | bookings, section `reservations` | `reserve`, `release` under the change lock; `tick` and `overview` read telemetry | `StateStore`, `Journal` |
| `Journal` (journal.py) | journal.jsonl | `record` (append, prune, rewrite), `tail` | called by every component |
| `StateStore` (store.py) | state.json, `_data` | `read`, `write` of one section | called by every component |
| `PromptStore` (prompts.py) | prompts, section `prompts` | `save`, `delete`, `get` | `StateStore`, `Journal` |
| `History` (history.py) | ring buffer, flush window, SQLite file | `add` (with the flush), `query` | `GpuManager.tick` |
| gateway (gateway.py), `llm_ask` (mcp_agents.py) | requests under way | find the model's port, read the prompt, send, pass the answer on, cut it when the client goes | `ModelRunner`, `PromptStore`, the models |
| fit estimate (hub.py) | none | choice of files, cost of a token, estimate per card | `ModelStore.info` and `download` |
| profiles and retries (runner.py) | model_profiles.json, the log of the last launch | parameters of a start, `_hint`, `_plan_fix`, `_save_profile` | vLLM by its log, `start`, `poll` |
| hub client, inbox, PDF conversion | none or caches | reads | HuggingFace, file system |
| web pages, JSON API, MCP tools | none | one component call per request | all components |
| service (app.py, `__main__.py`, gpu-manager.service) | background loops, worker threads, the event loop, the locks of all components | start, restore, poll for ever, stop | all components |

Requests run in worker threads, so any two may overlap; the loops of `app.py` run beside
them. The pages about cards and bookings (web.py 90-112, web_servers.py 23) and the lookup of
the gateway (gateway.py 100) are the exception: they run on the event loop itself. Each
component has a lock of its own. Calls that take long (systemd, HuggingFace, a
look at the disk, `/health`) are made without it, and that is where the hard behaviour is.

What is hard, component by component, and what makes each correct:

- **ModelRunner.** `start` saves its record, then launches; `stop` saves, then stops the
  unit and may have to take the stop back; the poll loop takes a snapshot and judges it
  later; a retry changes the launch a record stands for; `move` is a stop and one or two
  starts with nothing held between them; the manager may die anywhere while the units live
  on. Correct: active models have ports of their own and shares that fit the card; the file
  is never behind; a verdict meets only the launch it was made about; an answered stop
  stays; no unit runs unseen; every start ends.
- **ModelStore.** The check for an active download and its record are two critical
  sections; the queue is run by requests and the loop alike; workers end at any time and
  die with the manager; a pass can be cut short by an exception. Correct: what is offered is complete
  on the disk; a ready model it has a record of stays ready; the queue survives a restart, keeps its
  order and its limit, and every download ends.
- **StateStore.** A crash or power loss at any step of the rewrite, writers of several
  sections, steps that fail. Correct: the file is always whole, an answered write is found
  again, sections do not disturb one another, memory follows the file.
- **Bookings and Journal.** Two files change for one booking, the time stamp is taken
  outside the lock, every component rewrites the journal. Correct: the journal's last word
  about a card is what the book says; no entry is lost before its time.
- **Telemetry and History.** The background loop and every move take samples; a sample begun
  before a stop must not be stored after the fresh one, and SQLite may fail or the service
  restart within a window. Correct: a move sees its own stop; no peak is lost; an answer of
  `query` is ordered, short enough and shows the peak.
- **Prompts and gateway.** Memory changes before the file; between the lookup of a port, the
  reading of a prompt and the sending nothing is held; a text whose save was refused stays in memory
  and goes to the file with the next save of any prompt. Correct: who reads a prompt gets what the
  last answer about it left, or what a later refused save of it would have. That an answer comes
  from the model the request names is vLLM's doing, which refuses other names than the one it serves.
- **Estimate, profiles and retries.** Estimate and vLLM count the same memory in two ways; a
  retry reads one line of a log and changes one parameter, and the fixes of different errors
  pull against each other (a smaller share for the memory, a bigger one for the cache) within
  five attempts; a person edits the file of profiles. Correct: what the estimate lets through
  comes to run, what runs would have been let through, what ran once runs again at the first
  attempt, and no profile of another model is lost.
- **Service.** Ten locks, calls from one component into another with a lock held, and an
  event loop that waits for some of them. Correct: no threads wait for each other in a circle,
  and the event loop never waits for something outside the service.
- **Pages, inbox, hub client.** Rendering, files, mapping of errors.

## 2. Modules

| Module | Models | Kind |
|---|---|---|
| `Shares` | arithmetic of shares: `_free_share`, ladder, doubling | operators |
| `Places` | what state.json promises about ports and shares | abstract specification |
| `Runner` | `ModelRunner` with units, requests, poll loop, restore, restarts | state machine, extends `Shares`, refines `Places` |
| `Downloads` | `ModelStore` with worker processes, the HF cache, restarts | state machine |
| `StateFile` | `StateStore.write` and what crashes and power losses leave | state machine |
| `Gateway` | requests to models, `PromptStore`, with state.json below them | state machine, extends `StateFile` |
| `Bookings` | `reserve`/`release` with book, change lock and journal | state machine, extends `Selections` |
| `Telemetry` | `GpuManager.tick`, `History`, the fresh sample of a move | state machine, extends `Selections` |
| `Selections` | a list comprehension and a sort, as journal.py and history.py use them | operators |
| `Fit` | choice of files, weights, cost of a token, estimate of hub.py | operators |
| `Launches` | parameters of a launch, what a retry changes in them, profiles | state machine, extends `Fit` and `Shares` |
| `Service` | the locks of all components and what every call does under them | state machine |
| `RunnerMC`, `DownloadsMC`, `GatewayMC`, `BookingsMC`, `LaunchesMC`, `ServiceMC` | instances for TLC: starting files, models, calls, symmetry | |
| `OperatorProofs` | lemmas about `Selections` and `Shares` | proofs |
| `RunnerProofs`, `DownloadsProofs`, `GatewayProofs` (with `StateFile`), `BookingsProofs`, `TelemetryProofs`, `LaunchesProofs`, `ServiceProofs` | theorems, each about the module of its name | proofs |

Operators whose comment begins with "Mutant:" are plausible wrong versions of the
operator below them. They are not used by the specifications; with one of them in place of
the right one, the property named for it in `PROJECT.json` fails.

### Runner

A step is what happens between two releases of the runner's lock, or one call of the
launcher or the probe, which the code makes without it.

| State | Code |
|---|---|
| `items` | `ModelRunner._items`; a `Server` keeps id (the object's identity), start time, card, port, share, whether the share was asked for, status, `want`, attempts |
| `saved` | section `servers` of state.json |
| `unit` | per name, the systemd unit: absent, or its port and whether it listens |
| `pc`, `job` | where each request thread is; what it carries (`move` keeps the old place) |
| `ppc`, `todo`, `cur` | the poll loop, the rest of its snapshot, the item at hand |
| `mode`, `waiting` | `restore` still under way, and the names it has still to look at |
| `clock` | start times: one more with every launch, so that `started` identifies a launch |
| `stopped` | history: records whose stop has been answered |

`start` is `BeginStart` (262-300, one critical section), `Launch` (302), then `Undo`
(303-307) or `CheckWanted` and `Kill` (309, 489-501). `stop` is `BeginStop`, `StopUnit` or
`StopUnitFails` and `Revive` (312-333). `move` is `BeginMove`, `MoveCheck`, then the stop
and start steps with `MoveGo`, `MoveBack` and the refusals between them (335-367). A poll
is `PollSnapshot`, per item `PollActive` or `PollUnknown`, then for a dead unit `PollDrop`,
`PollGiveUp` or `PollRetry`, `PollRelaunch`, `PollRecheck`, `PollKill`, and for a live one
`PollProbe`, `PollHealthy`, `PollUnhealthy`, `PollTimeout` (391-457). `restore` is
`RestoreOne` per model and `RestoreEnd`, which saves (372-389). `UnitUp`, `UnitDies` and
`Crash` are the world; `Crash` keeps the units or, for a reboot, loses them.

Abstractions. Shares are whole percent, which is the grain the code rounds to. Telemetry
gives any value of `MemFree` at any time. The pattern a log shows is any of five kinds
(`Errors`); the context and extra arguments a retry may change are kept in `Launches`. Start times
are unique: two launches of one name within a clock tick do not occur since a stop and a
launch of systemd lie between. Refusals for reasons outside (unknown model, reserved card,
no rights) leave nothing behind, so a request that is refused is a request that is not
made, except inside a move, where refusals have steps of their own. Saves are taken to
succeed; what a failed one does is the subject of `StateFile` (see section 7). An exception
in the look at one model ends only that look (397-400); the ones the launcher raises are
`PollRelaunchFailed`, others (a log that cannot be read) are not modelled.

### Places

The abstract specification: a name takes a place (card, port, share) that is free, keeps
card and port while it holds it, may have its share changed within what the others
leave, and gives it back. `ImplementsPlaces` maps each active record of state.json to its place.

### Downloads

`items`, `saved`, `procs` are those of `ModelStore`; `present` and `complete` say which
revisions the HF cache shows and which of them are whole. `download` is `BeginDownload`
(the check under the lock), `Refused` or `Look` (HuggingFace and the disk, without it),
`RecordDone` or `RecordQueued` (the record under it), `DownloadPoll`. One pass of `poll` is
one critical section: `Pass`, in which `Verdicts` deals with ended processes, `Takes` says
which downloads of the queue are started or fail for space, and `Strays` ends the pass with
the exception the code raises for a process without a record; `PollSpawnFails` is the pass
that ends in a failed `Popen`. `cancel` waits for the process under the lock, `delete`
removes record and files. Workers make `Progress`, `Succeed` or `Fail`. `Crash` takes the workers
along (gpu-manager.service: one control group) and loads the file as `__init__`
does. `LocalReady` and `Picks` are what `local()` offers and which revision it names.

### StateFile

The steps of one write: `Begin` (lock, merge), `WriteTmp`, `SyncTmp`, `Replace`, `SyncDir`,
`Answer`, and `Fail` at the first three. `file` is what the kernel shows, `disk` the set of
versions a power loss may leave: a rename adds one, a sync of the directory or `Writeback`
leaves one. A rename of a temporary file that was not synced may leave `Torn`. `shaky` says
that the last sync of the directory failed, which the code only logs. `allowed` is a
history variable: what a client that remembers the answers may find in each section.
`refused` is another: the sections whose last write was refused.
`FileFirst` are the components that change their memory after the file; the others
(prompts) change it before. A writer with nothing to write has `NoContent` in `new`. What a section
may hold is a constant of each (`Values`).

### Gateway

`PromptStore` is a writer of `StateFile` whose section holds a text for each of `PromptNames`
(`NoText` where none is saved). `SavePrompt(q)` and `DeletePrompt(q)` change the one name in the
memory (`Change`) and begin the write of all of it, refused texts of other names included;
`PromptWrite` is the write and its answer or refusal; `OtherWrite` is any other component. `saving`
is the name whose write is under way; `expected` is a history variable: per name, what a client may
find from the answers about that name alone. An answer leaves one text, a refusal adds the refused
one, a write cut off by a crash adds the text it may have left; a power loss after a directory sync
that failed sets it to what is found. A request is `Find` (the port, under the runner's lock),
`NoPrompt` or `ReadPrompt` (under the lock of `PromptStore`, which a writer holds until its
write has ended), `Send`, `Headers`, `Stream`; `Cut` is a client that goes before the headers,
`Asked` the plain post of `llm_ask`. Refusals leave nothing behind and are not steps of their
own unless they end a request. `Serve`, `Withdraw` and `UnitEnds` are the models as the
runner's theorems promise them; `Accepts` is vLLM, which answers only to the name it serves. Of the
ports and stages of a request nothing is claimed beyond their types. What the model generates and
how bodies are put together is left out.

### Telemetry

`Begin` (tick lock, time), `Measure` or `MeasureFails`, `Store` and one of `AddFirst`, `Add`,
`Flush`, `FlushFails` are a tick; `StopModel` and `StartModel` are the steps of a move around
its fresh sample. `sample` is what `GpuManager` stores, known by how many models had been
stopped when it was measured. `ring`, `window`, `pruned` are those of `History` for one card;
`db` are committed rows, `view` those the connection sees when a commit has failed. `Trimmed` is the
loop that drops points from the left until one is young enough (64-65). `taken`
is a history variable: the samples that SQLite has, or will have, a row for. One value with
its maximum stands for temperature and memory; means are left out. `Series`, `Bucket`,
`Aggregate`, `Downsample` are `query`. The clock does not go back.

### Bookings

`Change` is the critical section of `reserve`/`release` up to the saved booking; the change
lock is held until the record is written (`Holds`). `Stamp` takes the time outside the
journal's lock, `Read` takes that lock, `Record` rewrites the journal within both limits,
`RecordFails` is a journal that cannot be written. `Other` are entries of the other
components, which do not hold the change lock. `untold` is a history variable: cards whose
last change never came to the journal. The booking is one step in file and memory because
`ReservationBook` writes the file first under its lock; `StateFile` is about that write.

### Fit and Launches

`Fit` has the operators of hub.py: `SelectFiles`, `WeightBytes`, `KvBytesPerToken` with the
fields that may be absent, and `Estimate` for one card. Sizes keep their arithmetic (whole
division, the limit of the model, no cache when nothing is left); a file is what the patterns tell
apart. The card's size comes as a parameter; a list of several cards is several estimates.

`Launches` is one model on one card, one request at a time.

| State | Code |
|---|---|
| `need` | what the model and its vLLM are like: files, config, overhead, the share that lasts, Mamba blocks, whether its compiler works and whether it names the context it has room for |
| `used` | memory of the card other programs hold |
| `entries`, `readable` | model_profiles.json, and whether it can be read |
| `srv` | the record: share, context, extra arguments, whether the share was asked for, status, attempts |
| `unit`, `log` | vLLM with the parameters of its launch; the error it died of |
| `toSave` | a record of which `poll` has still to write the profile (452-453, without the lock) |
| `ran`, `origin` | history: parameters that came to run; what the start at hand began from |

`Start` takes share, context and arguments from the request, the profile or the defaults
(278-298). `Retry` and `GiveUp` are the look at a dead unit: `Advice` is `_hint`, `Fixes` is
`_plan_fix`. `Healthy` and `SaveProfile` are the two halves of a start that succeeds.
`VllmUp`, `VllmDies`, `VllmBreaks` are vLLM as the manager reads it: `Wrong` says which errors a
launch with these parameters can die of, and what number the message names. `EditProfiles` is a
person at the file.

### Service

A call is the sequence of places it works at; a place is the stack of locks held there, with a
slow work outside the service on top (systemd, HuggingFace, NVML, vLLM, a download worker).
`Paths` gives the sequence of each call, composed as the code composes them: `Move` is made of
`Stop`, `Tick` and `Start`. A thread frees (`Free`) and takes (`Take`) one lock at a time;
`Work` ends the work at a place or ends the call by an exception. `Reentrant` are the two
`RLock`s. Disk, state.json and SQLite are work inside the service and taken to end.

## 3. Runs

| Run | Instance | Shows |
|---|---|---|
| `overlap` | 1 name, 2 ports, 2 threads, any 3 requests, failing stops, 1 restart | the file is current, an answered stop is final, a verdict meets only its launch |
| `crash` | 2 names, 1 thread, 2 requests, 1 restart at any step, shares that grow and shrink | ports are distinct, shares fit, every change of the file is a step of `Places` |
| `live` | 1 name, 2 ports, 2 requests one after the other, failing launches, fairness | every start ends; at rest a stopped model has no unit and a running one serves the port of its record |
| `queue` | 2 models (one in 2 revisions, one whose requests overlap), 2 threads, 3 requests, workers that do not start, 1 restart, fairness | offers are complete, a recorded ready model stays ready, the queue survives and keeps its limit, no download runs while an earlier one waits, and every download ends |
| `gateway` | 2 sections (one file-first, one memory-first), 2 prompts with a text or none, 2 contents of the other section, 1 model, 1 port, 1 request at a time, at most 2 versions on the disk, no bound on steps | all properties of the file; no text is read but what the answers about that prompt allow |
| `bookings` | 2 people, 2 cards, 2 threads, 4 changes, journal of 2 entries and 1 day, 3 days | the journal explains the cards and keeps its entries |
| `telemetry` | 1 card, the loop and 1 mover, 5 moments, 2 values, any restarts | a move sees its stop, no peak is lost, answers of `query` are right |
| `launches` | 1 model of 23 kinds, 1 card, 2 starts, 3 kinds of requests, 1 profile written by hand, 1 change outside | what the estimate lets through runs, what runs fits, a replay needs no retry, profiles are kept |
| `service` | any call in one thread, `delete` and `reserve` in a second, `reserve` and the gateway's lookup on the event loop, one call each, fairness | no circle of waiting threads; the event loop goes on whatever hangs outside |
| `orphan` | 1 name, 1 start | violation, see section 5 |
| `stop_failed` | 2 names, 1 port, 2 requests | violation, see section 5 |
| `queue_overlap` | 1 model, 2 revisions, 2 requests | violation, see section 5 |

Bounds and why they are enough. Two threads and the poll loop give every pair of actors about one
model, and three requests allow stop, start and stop again of it. Two names beside a restart and the
poll loop are in `crash`; that starts of two names by two threads do not get the same place is
proved for any number of both (`PortsAreDistinct`, `SharesAlwaysFit`). `MaxLaunches` lets a model be
launched and retried at least once per run (`live`: 12, more than two requests with two attempts
each can use, so that the bound never stands in the way of a start that should end). One port in
`stop_failed` and two elsewhere make ports scarce. A share of 40 with 60 or 95 percent free lets
shares be doubled, cut down to what is left, and lowered on the ladder. One restart meets every step
before and after it. The journal is so short that both limits are reached by four entries.
`StateFile` and `Gateway` have no counters: their state space is finite as it stands. `gateway` is
cut by one constraint, `FewVersions`: a power loss finds one of at most two versions of the file,
the last one that was synced and one renamed since, which is what every property about the disk
compares; more than two arise only when nothing syncs the directory between two renames (the sync
failed, or a crash came before it). Two prompts are what it takes for the save of one to carry the
refused text of the other; with a text or none, what a refused save would have left differs from
what was saved. A second request would meet the first only through models and prompts.
`GatewayProofs` proves the properties without the constraint, for any prompts, texts, models and
requests. In `telemetry` the clock stops at 4: a window of 2, a ring that keeps 2 and rows that are
kept 1 are passed within it, so that a failing flush outlives the ring and pruning meets fresh rows.
In `launches` the card has 100,000 bytes, so that a percent is a thousand of them; the models are
chosen on both sides of every limit: weights that leave nothing, some hundred or many tokens, each
trouble of vLLM by itself and all of them, a limit of context below and above a request, configs
without the fields the estimate needs. Two starts are a first one and one by the profile it left. In
`service` a circle of waiting threads needs a lock held while another is taken; `delete` and
`reserve` are the calls of that kind beside the poll loop's retry, and the first thread makes every
call, so that each pair with one of them is met (`NoDeadlock` proves it for any threads and calls).
Names of the bounds are the constants marked "bound" in each module.

Symmetry is used in runs without liveness properties: names, threads and ports (people, cards,
terms; models, revisions) are only compared for equality, and the starting files are closed
under exchange or stand for one of their permutations. `CHOOSE` appears only in starting
files.

Deadlock checking is on everywhere but in `service`, whose calls all come to their end: elsewhere
the poll loop, the clock, a refusal or a restart always has a step. What a deadlock of the
service would be is said by `NoWaitingCycle`.

Fairness. `Runner.Fairness`: request threads and `restore` go on (thread pools, no step waits for
another actor except for locks, which are held for bounded work); the loop polls for ever (`app.py`
71-77: an exception is logged and the loop goes on). Strong fairness of `PollActive(n)`: systemctl
does not answer "unknown" for ever. Strong fairness of `PollTimeout(n)`: the clock passes
`vllm.start_timeout_s`, so a model that is polled again and again while starting is at last polled
after it. Nothing is assumed of units: they may never come up. `Downloads.Fairness`: the loop polls,
requests go on, a worker process ends one way or the other. Since a pass whose worker does not start
is an action of its own (`PollSpawnFails`), fairness of `Poll` also says that not every pass fails
to start its worker for ever: if it did, its download would stay queued, in the code as well.
`Service.FairSpec`: a thread that can go on does, except where it works at something outside the
service, of which nothing is said: it may hang for ever. With one call per thread no lock can be
taken away from a waiting thread again and again, so weak fairness suffices; whether Python's locks
could starve a thread under a stream of calls is not a question of this code.

## 4. Proofs

Each theorem holds for every value of the constants that the assumptions named at the end of
this section allow: any number of names, cards, ports, threads, people, samples, attempts and
restarts. Where a theorem needs more than that, it says so in an `ASSUME`, and the reason is below.

`OperatorProofs`. Sorting: finitely many elements have an order by their key (`OrderExists`), so
that `Ordered` gives one, and a selection keeps the order of its list, takes exactly the places it is
told and is as long as they are many (`SelectedFacts`). These are inductions over the size of a
set, made on a set of numbers (`Counting`, from the well-foundedness of `<` on `Nat`). Shares: the
bounds of `FreeShare`, `LowerFraction` and `BiggerFraction`, and, since a sum of shares is defined as the
number of hundredths held, that a sum is monotone and grows by at most the share of one more model.

`RunnerProofs`. `TypeInv == TypeOK /\ RestoreAlone` is inductive; `RestoreAlone` (nothing
else runs during `restore`, which looks only at active models) is needed because
`RestoreOne` writes a field of a record that must exist. One step per action. From it,
`StepRecords` classifies every step of the specification by what it does to the records:
nothing, a record started at a free place, records stopped, a stopped record revived, a
retry with a new share, a status changed, or the file loaded; the other theorems reason
about these few kinds instead of some thirty actions.

- `FileIsCurrent`: `SavedIsCurrent`; between two steps of the serving manager the file is
  the memory.
- `PollJudgesRight`: `PollJudgesItsLaunch`.
- `StopIsFinal`: `StoppedStaysStopped`, with failing stops and restarts. The invariant `StopInv` adds that
  all identities are below `clock` (a new record is none of the stopped ones), that a record
  being stopped is stopped in memory, that one thread at a time stops a record (`BeingStopped`: nobody
  else can revive what has been answered), and that a stop which only
  dismisses a failed record does not go on to revive it (`ReviveGoesOn`).
- `PortsAreDistinct`, assuming `~StopMayFail`: `DistinctPorts`. The invariant is that
  nobody is about to revive a record, and that active records are apart in memory and in file
  (the file matters because a restart loads it).
- `SharesAlwaysFit`, assuming `~StopMayFail`: `SharesFit`, in memory and in file, from the
  lemmas on sums and on what `GrantedShares` and `FixedShares` may give.
- `PlacesAreImplemented`, assuming `~StopMayFail`: `ImplementsPlaces`. Each kind of step is mapped to
  one of `Places`: a start to `Take`, a retry to `Resize`, a stop to `Give`, the end of
  a restore to the `Give` of all that was not restored, a crash and a status to a stutter. The
  invariant (`GivesBack`) is that the file is the memory while requests are served, and that
  during a restore the memory differs from the file only by places given back.
- `StoppedHasNoUnit`, assuming `~StopMayFail` and no restarts: `StoppedIsDown`, for any number of
  overlapping requests. The invariant `DownInv` names who still has the unit of a stopped record in
  hand (`Handled`): a thread that stops, or one that has launched and has its check still to come, or the
  poll loop after a relaunch. A launch after the stop is always followed by that check.
- `UnitsServeTheirPorts`, assuming also one request at a time: `UnitServesItsPort`. The invariant
  `ServeInv` says the same of every moment at which nobody is about to mend the difference (`Mended`); it
  rests on start times below `clock` and on the poll loop's snapshot being no younger than the record.

The hypotheses are needed. With failing stops `DistinctPorts` is false, as the run `stop_failed`
shows, and the same step can take a share back that was given away. A restart between the saved stop
and systemctl leaves a unit whose record is stopped (runner.py 324), and nothing looks for it. With two
threads a start may be overtaken between its record and its launch: a stop and a second start at another
port come in between, the unit of the second dies, and the late launch puts a unit up at the
old port; the check after it (309, 489-501) finds the name wanted and leaves it. Each
of these is a matter of the code, met by TLC before the theorem was stated.

`DownloadsProofs`. `QueueTypes` has the types and the limit on worker processes. `IInv` adds
`Truth`: files of a record that is done or ready are on the disk, in memory's records and the file's
(`FilesAreThere`); a process works for the active record of its model (`ProcsServe`); one request at
a time is between its check and its record, and what it saw of the disk still holds (`OneRecords`);
what a restart makes of the file it makes of the memory (`FileKeeps`). `DoneMeansComplete`,
`QueueSurvives`, `OfferedIsComplete`, and `ReadyIsKept` follow for the models whose requests do not
overlap (all of them as far as restarts are concerned). `ReadyIsKept` is about models the manager
has a record of: one that is ready from the HF cache alone (models.py 323) is not while a newer
revision is downloaded, since `download` has no ready revision to keep (146-149), as
docs/specs/SPEC-GPU-002-phase-2.md 106 has it. `NoneOvertakes` (`NoOvertaking`) holds for all
models: records carry the time they were accepted at (`Dated`: a new one is younger than all others,
in memory and file), a pass takes the queue from its head also when an exception cuts it short
(`PassInTurn`), and no other step sets a download going or makes one wait that is older than a
running one (`TurnKept`).

`GatewayProofs`. The properties of the file come from one invariant: what a write under way has
merged (`Merged`), what is known at each of its stages about temporary file and disk (`Stages`),
that the memory is the file while nobody is past the rename (`Settled`), and that a file-first
component shows what the store holds (`Shown`). `ShownIsSaved` also says of memory-first components
that memory and file differ only while they write or after a refused write. `GatewayUsesFile`: every
behaviour of the gateway is one of `StateFile`, so these theorems hold beside it.
`PromptsAreAnswered` (`PromptIsAnswered`) rests on `PromptInv`: in the memory of `PromptStore` every
name but the one being saved has a text that the answers about that name allow; so has every name in
each content of the section that a restart may find by the answers given (`allowed`); and while the
section is written, what is written is the memory. The theorems about the file then give the same
for what a crash or a power loss leaves. `GatewayTypes` has the types.

`BookingsProofs`. `BookingsTyped`; `JournalTellsTheHolder` (`JournalExplains`) from `BookInv`: the
file is the book, what a writer of the journal has read is the journal (`SeenIsJournal`, the
journal's lock), no entry is from the future (`Past`), the entry of the thread that holds the change
lock is no older than the others about its card (`HolderIsLast`) and explains the card already
(`HolderExplains`), so that it may become the last one. Time stamps may be out of order between
components; `InOrder` claims order only for what the change lock orders. That matters since the age
limit may drop an entry in the middle of the journal: a card's last entry is then never the one that
is dropped while an older one stays. `NoEntryIsLost` (`EntriesAreKept`) needs `SeenIsJournal` and
the lemmas on selections.

`TelemetryProofs`. `StopIsSeen` (`SeesItsStop`) from the lock of `tick`: what a caller inside has
measured is at least as new as what is stored (`Newer`), so a stored sample is never replaced by an
older one, and what a mover has read is later than its stop (`AfterStop`). `TelemetryTyped`,
`RingIsInOrder`, `PeaksAreKept` and `QueriesShowPeaks` from `HistoryInv` beside it: nothing is from
the future and nothing committed is from the window that goes on (`Past`), the sample being taken is
the latest (`LatestLast`), a sample of the window waits in the ring (`Waits`), one of an earlier
window has a row of its time that is as bad, among what the connection sees and what is committed
(`Flushed`), and a row that a failed commit left in the connection's view hides no peak of the
window (`NoBetter`). `QueriesShowPeaks` says of `query` what `ShownIsTheWorst` does, for any period
and number of points: buckets split the series without loss, each stands for a stretch of time, and
its maximum is the peak of it.

`LaunchesProofs`: `LaunchTypes`, `OthersAreKept`, `EstimateIsFair` and `ReplayNeedsNoRetry` for
models, cards, profiles and requests of any size. `EstimateIsFair` supposes that vLLM needs no less
overhead than the estimate allows for and that a token costs what the estimate says; where vLLM
needs less, the estimate may turn away a model that would run, and nothing is claimed of that. It
rests on what vLLM's parameters say of a launch that came up (no error was left, so there was memory
for the context) and on arithmetic: the weights vLLM loads are the weights of the files chosen,
since one of the two formats is never chosen. `ReplayNeedsNoRetry` needs that a launch that came up
has no error, that the parameters of a replay are such a launch's, and that nothing outside changed
since.

`WhatFitsRuns` (`FitRuns`) counts: `Left` is how many troubles may still lie ahead of a launch, two
for each rung of the ladder between its share and the share that lasts (out of memory, and then
perhaps a context to cut again), one each for the context, the Mamba cache and the compiler. Every
launch that dies is retried with one trouble less (`FixProgress`), and `FitInv` says that attempts
made and troubles left never exceed those the model had at the start; so a model that fails had as
many as there are attempts. It speaks of plain starts (no share, context, arguments or profile asked
for) of models the estimate is right about (`EstimateIsRight`), with the share of the estimate free,
and is silent where the troubles reach the attempts: with the defaults that is a model that lasts
only at 90 percent, two rungs down, which may use up its five attempts. It assumes that the
estimate's share (`models.fit_memory_fraction`) and the default share are rungs of the ladder, as
the defaults 0.9 and 0.95 are (config.py 19-24). Without it the property is false, which TLC shows
with a `FitShare` of 93: out of memory at 95, the ladder goes down to 92, below what the estimate
was made for; there is no room for the cache there, the share is raised to 95 again, and so on until
the attempts are used up. Whoever sets `fit_memory_fraction` between two rungs should know that. A
default share that is no rung is one launch more than `Troubles`, which counts rungs, allows for.

`ServiceProofs` proves `NoDeadlock`: every call takes locks in one order (`Rank`: tick, models, change, prompts,
runner, then cards, book, state.json, journal, history), except one it holds already and may take
twice; each path is checked against that order, and of threads that wait in a circle the one that
waits for the lowest lock would wait for one below its own.

The assumptions are those on the constants (`ConstantsAssumption`, `FilesAssumption`, `PlacesAssumption`,
`SectionsAssumption`, `TornAssumption`, `GatewayAssumption`, `AskAssumption`, `TelemetryAssumption`,
`FitAssumption`, `NullsAssumption`, `NeedsAssumption`, `ServiceAssumption`): finite sets of names, shares
within the card, null values that are no values, and starting files that the manager can have written.
`NeedsAssumption` also says that the sizes of any files of a repository add up to a number: the sum
is a fold over a set, and the induction such a fold takes is by a theorem with an operator as its parameter,
which the provers cannot instantiate. TLC evaluates the assumptions in every run.

Only model-checked: liveness (`StartSettles`, `DownloadsSettle`, `LoopNeverStuck`), since the prover does
not handle fairness, and the three properties that are violated. Every other property of the runs is stated by a
theorem.

## 5. Findings

- **A start that is given up while it launches** (`orphan`, `NoOrphanUnit`; runner.py 404).
  The record is saved (300) before systemd-run (302). A poll pass in between finds no unit
  and marks the start failed or retries it; `start` then launches, and its check (309) comes
  too early to see the verdict. The unit runs, and no active record names it. The docstring
  at 491 says the check is there so that no vLLM is left that the manager does not see. Against
  stops the check does its work (`StoppedIsDown` in the run `live`).
- **A failed stop takes back a place that was given away** (`stop_failed`, `DistinctPorts`;
  runner.py 328). The stop is saved before systemctl is asked, so the port is free meanwhile;
  if the stop fails, the record becomes active again without a look at who holds the port.
- **Two requests for one model at a time** (`queue_overlap`, `ActiveNotReplaced`; models.py
  150). The second replaces the active record of the first, though SPEC-GPU-002 line 73 says
  that no new record is made. The properties of the queue still hold (`queue`, where requests about
  one of the models overlap): an overtaken process ends the pass with an exception at most once.
  A worker that had finished then also gives its verdict to the record that replaced its own, so
  `done` may stand at a revision that is not complete: `DoneIsComplete` is checked with requests
  about one model kept apart (those outside `Overlap`).

Not a finding but worth knowing: the first sample of each run of the service is taken just before its
window begins (history.py 66-67) and is never in a row of SQLite.

## 6. Plan

Done in this order, the most important behaviour first: `Shares`, `Runner` with its runs,
`Places`, the proofs of the runner, `Downloads`, `StateFile` with its proofs, `Bookings`,
`Telemetry` and `Gateway` with proofs, `Fit` and `Launches` with proofs, `Service` with its proof,
the proof that state.json implements `Places`, the proofs of `Downloads`, `Bookings` and the
history, and those of the runner's units and of the retries. What would add most next:

1. Composition of `Runner` with bookings and downloads: `start` reads the booking and the model's
   files (268-272) before its lock, `delete` asks `in_use` under the lock of the store; which of the
   late acceptances can happen.
2. `Runner` with saves that fail, on top of `StateFile`.
3. Weaker hypotheses: which ports and shares stay apart when a stop fails and is taken back
   (`~StopMayFail` excludes the case), and what holds of units after a restart.

## 7. Not modelled

- Failed saves in the runner (section 6, item 2), reservations and model files as the runner sees them (item 1).
- Units of stopped records that a crash left alive between the saved stop and systemctl: nothing
  in the code looks for them, so `NoOrphanUnit` is checked without restarts.
- A health probe that is answered by another model's unit on the same port: `UnitServesItsPort` is checked
  for one name and proved for one request at a time and stops that do not fail, which leaves it out. The code
  is open to it when a start takes the port of a model whose stop is saved and whose unit is still there.
- Parameters that ran in a start which asked for a share of its own: `ReplayRuns` claims nothing of the
  profile they leave.
- Card status and processes: functions of one reading. Means in the history.
- Pages, API, MCP tools other than `llm_ask`, inbox, PDF conversion: they hold no state of their own;
  which of their calls run on the event loop is in `Service`. `HubClient` maps answers and errors.
- Which flags a request may not set (`check_extra_args`), and logs of an earlier launch that `_hint` might
  read: every launch of `Launches` begins a log of its own, as `_launch` marks it.
- The limit of the thread pool (40 calls that hang would hold up the background loops, too) and `stop_all`,
  which waits for download workers on the event loop when the service goes down.
- That a model stops generating once its client has gone is a step of `Gateway` (`Cut`), but that
  the step is taken is not checked. Journal entries of prompts, made after the lock, are left out.
- Configuration, credentials, names and messages: read once or wording.
- Torn lines of the journal (it is rewritten atomically), the warnings of `reserve` and of the estimate,
  usage metrics of the runner.
