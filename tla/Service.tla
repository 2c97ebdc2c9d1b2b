------------------------------ MODULE Service ------------------------------
(***************************************************************************)
(* The locks of the service and what is done while they are held.  Every   *)
(* component has a lock of its own and calls the others: with its lock or  *)
(* without it.  Requests, MCP tools and the background loops run in worker *)
(* threads; the pages about the cards, the bookings and the gateway's      *)
(* lookup run on the event loop itself, so that whatever that one thread   *)
(* waits for, the whole service waits for.                                 *)
(*                                                                         *)
(* A call is the sequence of the places it works at.  A place is the stack *)
(* of the locks held there, with the work on top when that work is outside *)
(* the service and may take any time: systemd, HuggingFace, NVML, vLLM, a  *)
(* download worker.  On the way from one place to the next a thread frees  *)
(* the locks the next one does not stand on and takes those it needs, one  *)
(* at a time.  What the calls do to the state is the matter of the other   *)
(* modules.                                                                *)
(***************************************************************************)
EXTENDS Integers, Sequences, SequencesExt

CONSTANTS
  Workers,      \* worker threads, those of the background loops included
  Loop,         \* the event loop
  CallsOf,      \* per thread: the calls it may make, names of Paths
  MaxCalls      \* bound: calls of one thread

Threads == Workers \cup {Loop}

VARIABLES
  held,   \* per thread: the locks it holds, the last taken at the end
  todo,   \* per thread: the places its call has still to come to
  calls   \* per thread: calls begun

vars == <<held, todo, calls>>

Reentrant == {"models", "runner"}   \* RLock
Lock == Reentrant \cup {"change", "tick", "gpus", "book", "journal", "store", "prompts", "history"}
Slow == {"systemd", "hub", "nvml", "vllm", "download"}

-----------------------------------------------------------------------------
\* The calls.  A place <<>> parts two uses of one lock.

\* A card with its booking and its models, read with the locks of `outer` held.
View(outer) == << Append(outer, "gpus"), Append(outer, "book"), Append(outer, "runner"), outer >>

ViewCard == View(<<>>)

\* reserve and release; the card is read again for the answer.
ChangeBooking ==
  << <<"change", "book">>, <<"change", "book", "store">>, <<"change", "journal">> >> \o ViewCard

Tick == << <<"tick", "nvml">>, <<"tick", "gpus">>, <<"tick", "history">> >>

Find == << <<"runner">>, <<"prompts">> >>

ChangePrompt == << <<"prompts">>, <<"prompts", "store">>, <<"journal">> >>

ReadLocal == << <<"models">>, <<>> >>

\* systemd-run, with the card's UUID.
Launch == ViewCard \o << <<"systemd">> >>

SaveServers == << <<"runner">>, <<"runner", "store">>, <<>> >>

\* Mutant: the models on the disk are looked up together with the place.
StartLooksLocked ==
  ViewCard \o << <<"runner">>, <<"runner", "models">>, <<"runner", "store">> >> \o Launch
  \o << <<"journal">>, <<"runner">>, <<"systemd">> >>

\* start: card and files first, then the record, the launch, the check after it.
Start ==
  ViewCard \o ReadLocal \o SaveServers \o Launch \o << <<"journal">>, <<"runner">>, <<"systemd">> >>

\* start with a launch that fails.
StartUndone == ViewCard \o ReadLocal \o SaveServers \o Launch \o SaveServers

\* Mutant: the unit is stopped under the lock.
StopLocked ==
  << <<"runner">>, <<"runner", "store">>, <<"runner", "systemd">>, <<"journal">> >>

Stop == SaveServers \o << <<"systemd">>, <<"journal">> >>

StopFails == SaveServers \o << <<"systemd">> >> \o SaveServers

\* move: the look at the new place, a stop, a fresh sample, a start there or back.
Move ==
  << <<"runner">>, <<>> >> \o ViewCard \o << <<"runner">>, <<>> >>
  \o Stop \o Tick \o Start \o << <<"journal">> >>

MoveBack ==
  << <<"runner">>, <<>> >> \o ViewCard \o << <<"runner">>, <<>> >>
  \o Stop \o Tick \o StartUndone \o Start

\* A look at one model: the unit is asked for, then it is restarted with other
\* parameters, given up, found healthy or stopped for its time.
LookAt == << <<"runner">>, <<>>, <<"systemd">> >>

PollRetry ==
  LookAt \o << <<"runner">> >> \o View(<<"runner">>) \o << <<"runner", "store">>, <<"journal">> >>
  \o Launch \o << <<"runner">>, <<"systemd">> >>

PollGiveUp == LookAt \o SaveServers \o << <<"journal">> >>

PollProbe == LookAt \o << <<"vllm">> >> \o SaveServers

PollTimeout == PollProbe \o << <<"systemd">>, <<"journal">> >>

Restore == LookAt \o << <<"runner">>, <<>> >> \o Launch \o SaveServers

\* The store's pass: ended workers, the disk's space, new workers.
QueuePoll ==
  << <<"models">>, <<"models", "journal">>, <<"models", "models">>, <<"models", "journal">>,
     <<"models", "download">>, <<"models", "store">>, <<>> >>

Download ==
  << <<"models">>, <<"hub">>, <<"models">>, <<>>, <<"models">>, <<"models", "store">>, <<"journal">> >>
  \o QueuePoll

Cancel == << <<"models">>, <<"models", "download">>, <<"models", "store">>, <<"journal">> >>

Delete == << <<"models">>, <<"models", "runner">>, <<"models", "store">>, <<"journal">> >>

Describe == << <<"hub">> >> \o ViewCard

Paths ==
  [view |-> ViewCard, booking |-> ChangeBooking, tick |-> Tick, find |-> Find,
   prompt |-> ChangePrompt, local |-> ReadLocal, start |-> Start, undone |-> StartUndone,
   stop |-> Stop, stop_fails |-> StopFails, move |-> Move, move_back |-> MoveBack,
   retry |-> PollRetry, give_up |-> PollGiveUp, probe |-> PollProbe, timeout |-> PollTimeout,
   restore |-> Restore, queue |-> QueuePoll, download |-> Download, cancel |-> Cancel,
   delete |-> Delete, describe |-> Describe,
   journal |-> << <<"journal">> >>, history |-> << <<"history">> >>]

ASSUME ServiceAssumption ==
  /\ Loop \notin Workers /\ MaxCalls \in Nat
  /\ CallsOf \in [Threads -> SUBSET DOMAIN Paths]

-----------------------------------------------------------------------------
\* What a thread does next

There(t) == todo[t] # <<>> /\ held[t] = Head(todo[t])

Rises(t) == todo[t] # <<>> /\ IsStrictPrefix(held[t], Head(todo[t]))

Wanted(t) == Head(todo[t])[Len(held[t]) + 1]   \* of a thread that rises

Holds(t, lock) == \E i \in DOMAIN held[t] : held[t][i] = lock

Waits(t, u) ==
  /\ Rises(t) /\ Wanted(t) \in Lock /\ Holds(u, Wanted(t))
  /\ t # u \/ Wanted(t) \notin Reentrant

AtSlow(t) == There(t) /\ held[t] # <<>> /\ Last(held[t]) \in Slow

Begin(t) ==
  /\ todo[t] = <<>> /\ held[t] = <<>>
  /\ calls[t] < MaxCalls /\ calls' = [calls EXCEPT ![t] = @ + 1]
  /\ \E call \in CallsOf[t] : todo' = [todo EXCEPT ![t] = Paths[call]]
  /\ UNCHANGED held

Take(t) ==
  /\ Rises(t) /\ \A u \in Threads : ~Waits(t, u)
  /\ held' = [held EXCEPT ![t] = Append(@, Wanted(t))]
  /\ UNCHANGED <<todo, calls>>

\* Out of a "with", at its end or by an exception.
Free(t) ==
  /\ held[t] # <<>> /\ ~There(t) /\ ~Rises(t)
  /\ held' = [held EXCEPT ![t] = Front(@)]
  /\ UNCHANGED <<todo, calls>>

\* The work of a place is done, or refused: the exception ends the call.
Work(t) ==
  /\ There(t)
  /\ \E rest \in {Tail(todo[t]), <<>>} : todo' = [todo EXCEPT ![t] = rest]
  /\ UNCHANGED <<held, calls>>

Goes(t) == Take(t) \/ Free(t) \/ (Work(t) /\ ~AtSlow(t))

Init ==
  /\ held = [t \in Threads |-> <<>>] /\ todo = [t \in Threads |-> <<>>]
  /\ calls = [t \in Threads |-> 0]

Next == \E t \in Threads : Begin(t) \/ Take(t) \/ Free(t) \/ Work(t)

Spec == Init /\ [][Next]_vars

\* Threads are scheduled and what they do inside the service ends; nothing is
\* said of the work outside it.
FairSpec == Spec /\ \A t \in Threads : WF_vars(Goes(t))

-----------------------------------------------------------------------------
\* Properties

\* No threads wait for each other in a circle, and none for itself: of any
\* threads one waits for none of them (delete takes the runner's lock under the
\* store's, models.py 337; a retry reads the cards under the runner's, runner.py
\* 600).
NoWaitingCycle ==
  ~\E circle \in (SUBSET Threads) \ {{}} : \A t \in circle : \E u \in circle : Waits(t, u)

\* A call on the event loop ends even if systemctl, HuggingFace, NVML, vLLM or a
\* worker process never answers the threads that asked it: none of them is asked
\* under a lock the loop may come to wait for, through however many threads.
LoopNeverStuck == todo[Loop] # <<>> ~> todo[Loop] = <<>> /\ held[Loop] = <<>>
=============================================================================
