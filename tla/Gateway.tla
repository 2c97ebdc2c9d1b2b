------------------------------ MODULE Gateway ------------------------------
(***************************************************************************)
(* The way of an agent's request (gateway.py, llm_ask of mcp_agents.py): a *)
(* running model is looked up by its name, the named prompt is read from   *)
(* PromptStore (prompts.py), and the request goes to the model's port.     *)
(* Nothing is held in between, so the model may stop, move and its port    *)
(* pass to another one, the prompt change, and the client go.  Prompts are *)
(* a section of state.json; StateFile is the life of that file.            *)
(***************************************************************************)
EXTENDS StateFile

CONSTANTS
  Prompts,   \* the section of PromptStore: the text of every named prompt
  PromptNames,
  Texts,
  NoText,    \* of a prompt that is not saved
  Agents,    \* requests under way
  Names,     \* models
  Ports,     \* ports of models
  NoPort, NoName, NoAsk   \* null values

VARIABLES
  servers,   \* ModelRunner.servers: the port of each running model
  unit,      \* which model's vLLM listens on each port
  ask,       \* each agent's request
  saving,    \* the prompt whose save or delete is under way
  expected   \* history: what a client may find under each name, from the answers about that name

gatewayVars == <<servers, unit, ask, saving, expected>>
allVars == <<vars, gatewayVars>>

ASSUME GatewayAssumption ==
  /\ Prompts \in Sections \ FileFirst /\ Values[Prompts] = [PromptNames -> Texts]
  /\ NoText \in Texts
  /\ NoPort \notin Ports /\ NoName \notin Names \cup PromptNames

\* A request: from "found" its port is fixed, from "ready" its body with the text of the prompt.
Ask == [name : Names, port : Ports, stage : {"found", "ready", "generating", "streaming"}]

ASSUME AskAssumption == NoAsk \notin Ask

At(a, stage) == ask[a] # NoAsk /\ ask[a].stage = stage

End(a) == ask' = [ask EXCEPT ![a] = NoAsk]

-----------------------------------------------------------------------------
(* PromptStore: its lock is held over the change of one name in its memory, which may still hold
   the refused text of another, and over the write of the whole memory. *)

Change(q, text) ==
  /\ Begin(Prompts)
  /\ new'[Prompts][Prompts] = [own[Prompts] EXCEPT ![q] = text]
  /\ saving' = q
  /\ UNCHANGED <<servers, unit, ask, expected>>

SavePrompt(q) == \E text \in Texts \ {NoText} : Change(q, text)

DeletePrompt(q) == own[Prompts][q] # NoText /\ Change(q, NoText)

\* The answer is about the one name; a refused change stays in memory, for every reader and for
\* the next write, whatever name that is of.
PromptWrite ==
  \/ /\ WriteTmp(Prompts) \/ SyncTmp(Prompts) \/ Replace(Prompts) \/ SyncDir(Prompts)
     /\ UNCHANGED gatewayVars
  \/ /\ Answer(Prompts)
     /\ expected' = [expected EXCEPT ![saving] = {own[Prompts][saving]}]
     /\ saving' = NoName /\ UNCHANGED <<servers, unit, ask>>
  \/ /\ Fail(Prompts)
     /\ expected' = [expected EXCEPT ![saving] = @ \cup {own[Prompts][saving]}]
     /\ saving' = NoName /\ UNCHANGED <<servers, unit, ask>>

OtherWrite == (\E s \in Sections \ {Prompts} : Write(s)) /\ UNCHANGED gatewayVars

-----------------------------------------------------------------------------
(* The models, as the runner keeps them: running models have ports of their own (PortsAreDistinct
   of RunnerProofs), a unit may end at any time, and a port is reused when nothing listens there. *)

Serve(n, p) ==
  /\ servers[n] = NoPort /\ \A m \in Names : servers[m] # p
  /\ unit[p] \in {NoName, n} /\ \A q \in Ports \ {p} : unit[q] # n
  /\ servers' = [servers EXCEPT ![n] = p]
  /\ unit' = [unit EXCEPT ![p] = n]
  /\ UNCHANGED <<vars, ask, saving, expected>>

Withdraw(n) ==
  /\ servers[n] # NoPort
  /\ servers' = [servers EXCEPT ![n] = NoPort]
  /\ UNCHANGED <<vars, unit, ask, saving, expected>>

\* Requests the unit was working on end with it.
UnitEnds(p) ==
  /\ unit[p] # NoName
  /\ unit' = [unit EXCEPT ![p] = NoName]
  /\ ask' = [a \in Agents |-> IF ask[a] # NoAsk /\ ask[a].port = p /\ ask[a].stage \in {"generating", "streaming"}
                         THEN NoAsk ELSE ask[a]]
  /\ UNCHANGED <<vars, servers, saving, expected>>

-----------------------------------------------------------------------------
(* A request. *)

\* Mutant: any record of the name will do, not only a running one.
FindNotRunning(a) ==
  /\ ask[a] = NoAsk
  /\ \E n \in Names :
       ask' = [ask EXCEPT ![a] = [name |-> n, port |-> servers[n], stage |-> "found"]]
  /\ UNCHANGED <<vars, servers, unit, saving, expected>>

\* resolve: the port of the running model of that name; without one the answer is model_not_running.
Find(a) ==
  /\ ask[a] = NoAsk
  /\ \E n \in Names :
       /\ servers[n] # NoPort
       /\ ask' = [ask EXCEPT ![a] = [name |-> n, port |-> servers[n], stage |-> "found"]]
  /\ UNCHANGED <<vars, servers, unit, saving, expected>>

\* resolve: the request names no prompt.
NoPrompt(a) ==
  /\ At(a, "found")
  /\ ask' = [ask EXCEPT ![a].stage = "ready"]
  /\ UNCHANGED <<vars, servers, unit, saving, expected>>

\* Mutant: the prompt is read while it is being saved.
ReadPromptUnlocked(a, q) ==
  /\ At(a, "found")
  /\ IF own[Prompts][q] = NoText THEN End(a)
     ELSE ask' = [ask EXCEPT ![a].stage = "ready"]
  /\ UNCHANGED <<vars, servers, unit, saving, expected>>

\* resolve: the text of the named prompt, under the lock of PromptStore; without one the answer is
\* prompt_not_found.
ReadPrompt(a, q) ==
  /\ At(a, "found") /\ ~Writing(Prompts)
  /\ IF own[Prompts][q] = NoText THEN End(a)
     ELSE ask' = [ask EXCEPT ![a].stage = "ready"]
  /\ UNCHANGED <<vars, servers, unit, saving, expected>>

\* vLLM answers only to the name it was started with (--served-model-name), and the body names
\* the model that was asked for.
Accepts(a) == unit[ask[a].port] = ask[a].name

\* The request goes to the port; if nobody listens there, or another model, it ends with an error.
Send(a) ==
  /\ At(a, "ready")
  /\ IF Accepts(a)
     THEN ask' = [ask EXCEPT ![a].stage = "generating"]
     ELSE End(a)
  /\ UNCHANGED <<vars, servers, unit, saving, expected>>

\* The headers of the answer have come; what follows is passed on as it comes.
Headers(a) ==
  /\ At(a, "generating")
  /\ ask' = [ask EXCEPT ![a].stage = "streaming"]
  /\ UNCHANGED <<vars, servers, unit, saving, expected>>

Stream(a) == At(a, "streaming") /\ End(a) /\ UNCHANGED <<vars, servers, unit, saving, expected>>

\* _send_unless_gone: the client goes before the headers have come; the connection to the model
\* is closed, and the model stops generating.
Cut(a) == At(a, "generating") /\ End(a) /\ UNCHANGED <<vars, servers, unit, saving, expected>>

\* llm_ask posts the request and waits for all of the answer, for an error of the model, or for
\* _ASK_TIMEOUT_S; its client is not watched.
Asked(a) == At(a, "generating") /\ End(a) /\ UNCHANGED <<vars, servers, unit, saving, expected>>

-----------------------------------------------------------------------------
\* What a write that was cut off may have left under a name.
CutOff(q) == IF q = saving THEN {content[q] : content \in InFlight(Prompts)} ELSE {}

\* The manager restarts: its connections are gone, the units are not; a model whose unit is found
\* dead is started again, and is not running until then.
Restart ==
  /\ Crash
  /\ ask' = [a \in Agents |-> NoAsk] /\ saving' = NoName
  /\ expected' = [q \in PromptNames |-> expected[q] \cup CutOff(q)]
  /\ servers' \in [Names -> Ports \cup {NoPort}]
  /\ \A n \in Names : servers'[n] \in {servers[n], NoPort}
  /\ UNCHANGED unit

\* If the directory could not be synced, what was answered before may be gone.
PowerGoes ==
  /\ PowerLoss
  /\ ask' = [a \in Agents |-> NoAsk] /\ saving' = NoName
  /\ expected' = [q \in PromptNames |->
                    IF shaky THEN {own'[Prompts][q]} ELSE expected[q] \cup CutOff(q)]
  /\ servers' = [n \in Names |-> NoPort] /\ unit' = [p \in Ports |-> NoName]

GatewayInit ==
  /\ Init
  /\ servers = [n \in Names |-> NoPort] /\ unit = [p \in Ports |-> NoName]
  /\ ask = [a \in Agents |-> NoAsk] /\ saving = NoName
  /\ expected = [q \in PromptNames |-> {own[Prompts][q]}]

Request(a) ==
  \/ Find(a) \/ NoPrompt(a) \/ (\E q \in PromptNames : ReadPrompt(a, q)) \/ Send(a) \/ Headers(a)
  \/ Stream(a) \/ Cut(a) \/ Asked(a)

GatewayNext ==
  \/ \E q \in PromptNames : SavePrompt(q) \/ DeletePrompt(q)
  \/ PromptWrite \/ OtherWrite
  \/ Writeback /\ UNCHANGED gatewayVars
  \/ \E n \in Names : \E p \in Ports : Serve(n, p)
  \/ \E n \in Names : Withdraw(n)
  \/ \E p \in Ports : UnitEnds(p)
  \/ \E a \in Agents : Request(a)
  \/ Restart \/ PowerGoes

GatewaySpec == GatewayInit /\ [][GatewayNext]_allVars

-----------------------------------------------------------------------------
\* Types of the gateway's state and of the file's, whose lock keeps writers apart; a prompt is
\* marked as being saved exactly while the section is written.
GatewayTypeOK ==
  /\ TypeOK
  /\ servers \in [Names -> Ports \cup {NoPort}] /\ unit \in [Ports -> Names \cup {NoName}]
  /\ ask \in [Agents -> Ask \cup {NoAsk}]
  /\ saving \in PromptNames \cup {NoName} /\ (saving # NoName <=> Writing(Prompts))
  /\ expected \in [PromptNames -> SUBSET Texts]

\* Whoever reads a prompt gets what the last answered save or delete of that prompt left, or what a
\* later refused one of it would have: the saves of other prompts, which carry a refused text to
\* the file, restarts and power losses bring no other text in (prompts.py 40-41, 50-51, 55-60).
PromptIsAnswered ==
  [][\A a \in Agents : \A q \in PromptNames : ReadPrompt(a, q) => own[Prompts][q] \in expected[q]]_allVars
=============================================================================
