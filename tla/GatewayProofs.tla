--------------------------- MODULE GatewayProofs ---------------------------
(***************************************************************************)
(* state.json is whole and keeps every answered write, for any sections,   *)
(* values, crashes and power losses.  The invariant follows the content of *)
(* the write under way through its stages: merged from the memory under    *)
(* the lock, synced before the rename, in the file from the rename on.     *)
(*                                                                         *)
(* The gateway and PromptStore use state.json only as StateFile says, so   *)
(* that holds for them too; PromptStore's memory holds under every name    *)
(* what the answers about that name allow.                                 *)
(***************************************************************************)
EXTENDS Gateway, TLAPS

\* What a writer has merged is still what the memory holds beside its section.
Merged == \A s \in Sections : Writing(s) => \A r \in Sections \ {s} : new[s][r] = data[r]

Stages ==
  \A s \in Sections :
    /\ pc[s] = "replace" => tmp[s] = "synced"
    /\ pc[s] \in {"syncDir", "answer"} => file = new[s]
    /\ pc[s] = "answer" /\ ~shaky => disk = {file}

\* Until a write has renamed its file the memory is what the file holds.
Settled == (\A s \in Sections : pc[s] \notin {"syncDir", "answer"}) => data = file

\* The memory of a component changes with the store's, or is what it wants to write, or wanted.
Shown == \A s \in Sections :
           \/ own[s] = data[s]
           \/ s \notin FileFirst /\ (s \in refused \/ Writing(s))

LEMMA ContentHas == ASSUME NEW c \in Content, NEW s \in Sections PROVE c[s] \in Values[s]
BY DEF Content

LEMMA ContentFun == ASSUME NEW c \in Content PROVE c = [s \in Sections |-> c[s]]
BY DEF Content

LEMMA ContentWith ==
  ASSUME NEW c \in Content, NEW s \in Sections, NEW v \in Values[s], NEW d, d = [c EXCEPT ![s] = v]
  PROVE  d \in Content
<1>1. v \in UNION {Values[r] : r \in Sections} OBVIOUS
<1>2. d \in [Sections -> UNION {Values[r] : r \in Sections}] BY <1>1 DEF Content
<1>3. \A r \in Sections : d[r] = IF r = s THEN v ELSE c[r] BY DEF Content
<1> QED BY <1>2, <1>3 DEF Content

Inv == /\ TypeOK /\ Readable /\ AnsweredSurvives /\ Shown
       /\ Merged /\ Stages /\ Settled

LEMMA InitInv == Init => Inv
<1> SUFFICES ASSUME Init PROVE Inv
  OBVIOUS
<1> USE TornAssumption DEF Init
<1>1. TypeOK
  BY ContentHas DEF TypeOK, Writing
<1>2. Readable /\ AnsweredSurvives /\ Shown
  BY SectionsAssumption DEF Readable, AnsweredSurvives, Shown, InFlight
<1>3. Merged /\ Stages /\ Settled
  BY DEF Merged, Stages, Settled, Writing
<1> QED
  BY <1>1, <1>2, <1>3 DEF Inv

\* A writer at work is the only one.
LEMMA Alone == ASSUME TypeOK, NEW s \in Sections, Writing(s), NEW r \in Sections, r # s
               PROVE  pc[r] = "idle"
BY DEF TypeOK, Writing

\* The steps of a write keep the invariant.
LEMMA WriteInv == ASSUME Inv, NEW s \in Sections, Write(s) PROVE Inv'
<1> USE TornAssumption, SectionsAssumption
<1>t. TypeOK /\ Readable /\ file \in Content /\ disk \subseteq Content
  BY DEF Inv, TypeOK, Readable
<1>1. CASE Begin(s)
  <2> USE <1>t, <1>1 DEF Begin, Goto
  <2>1. PICK v \in Values[s] :
          /\ new' = [new EXCEPT ![s] = [data EXCEPT ![s] = v]]
          /\ own' = IF s \in FileFirst THEN own ELSE [own EXCEPT ![s] = v]
    OBVIOUS
  <2> DEFINE c == [data EXCEPT ![s] = v]
  <2>b. new' = [new EXCEPT ![s] = c] BY <2>1
  <2>d. c = [data EXCEPT ![s] = v] /\ data \in Content BY DEF TypeOK
  <2> HIDE DEF c
  <2>a. c \in Content /\ \A r \in Sections : c[r] = IF r = s THEN v ELSE data[r]
    <3>1. c \in Content BY <2>d, ContentWith
    <3>2. \A r \in Sections : c[r] = IF r = s THEN v ELSE data[r] BY <2>d, ContentFun
    <3> QED BY <3>1, <3>2
  <2>c. own' \in Content /\ \A r \in Sections \ {s} : own'[r] = own[r]
    <3>1. own \in Content /\ (own' = own \/ own' = [own EXCEPT ![s] = v]) BY <2>1 DEF TypeOK
    <3>2. own' \in Content BY <3>1, ContentWith
    <3>3. ASSUME own' = [own EXCEPT ![s] = v] PROVE \A r \in Sections \ {s} : own'[r] = own[r]
      BY <3>1, <3>3, ContentFun
    <3> QED BY <3>1, <3>2, <3>3
  <2>2. TypeOK' /\ Readable'
    BY <2>a, <2>b, <2>c DEF TypeOK, Writing, Readable
  <2>3. AnsweredSurvives'
    BY <2>a, <2>b DEF Inv, AnsweredSurvives, InFlight, TypeOK, Writing
  <2>4. Shown'
    BY <2>1, <2>c DEF Inv, Shown, TypeOK, Writing
  <2>5. Merged' /\ Stages' /\ Settled'
    BY <2>a, <2>b DEF Inv, Merged, Stages, Settled, Writing, TypeOK
  <2> QED
    BY <2>2, <2>3, <2>4, <2>5 DEF Inv
<1>2. CASE WriteTmp(s) \/ SyncTmp(s)
  <2> USE <1>t, <1>2, Alone DEF WriteTmp, SyncTmp, Goto
  <2>1. Writing(s)
    BY DEF Writing
  <2>2. TypeOK' /\ Readable'
    BY <2>1 DEF TypeOK, Writing, Readable
  <2>3. AnsweredSurvives'
    BY <2>1 DEF Inv, AnsweredSurvives, InFlight, TypeOK
  <2>4. Shown'
    BY DEF Inv, Shown, Writing, TypeOK
  <2>5. Merged' /\ Stages' /\ Settled'
    BY <2>1 DEF Inv, Merged, Stages, Settled, Writing, TypeOK
  <2> QED
    BY <2>2, <2>3, <2>4, <2>5 DEF Inv
<1>6. CASE Fail(s)
  <2> USE <1>t, <1>6, Alone DEF Fail, Goto
  <2>1. Writing(s) /\ \A r \in Sections : pc'[r] = "idle"
    BY DEF Writing, TypeOK
  <2>2. TypeOK' /\ Readable'
    BY <2>1 DEF TypeOK, Writing, Readable
  <2>3. AnsweredSurvives'
    BY <2>1 DEF Inv, AnsweredSurvives, InFlight, TypeOK
  <2>4. Shown'
    BY <2>1 DEF Inv, Shown, Writing
  <2>5. Merged' /\ Stages' /\ Settled'
    BY <2>1 DEF Inv, Merged, Stages, Settled, Writing, TypeOK
  <2> QED
    BY <2>2, <2>3, <2>4, <2>5 DEF Inv
<1>3. CASE Replace(s)
  <2> USE <1>t, <1>3, Alone DEF Replace, Goto
  <2>1. Writing(s) /\ tmp[s] = "synced" /\ new[s] \in Content
    BY DEF Writing, Inv, Stages, TypeOK
  <2>2. TypeOK' /\ Readable'
    BY <2>1 DEF TypeOK, Writing, Readable
  <2>3. data = file
    BY <2>1 DEF Inv, Settled
  <2>4. \A r \in Sections : InFlight(r)' = IF r = s THEN {new[s][s]} ELSE {}
    BY <2>1 DEF InFlight, TypeOK
  <2>5. \A r \in Sections : new[s][r] \in allowed[r] \cup InFlight(r)'
    <3> SUFFICES ASSUME NEW r \in Sections PROVE new[s][r] \in allowed[r] \cup InFlight(r)'
      OBVIOUS
    <3>1. CASE r = s
      BY <3>1, <2>4
    <3>2. CASE r # s
      <4>1. new[s][r] = file[r]
        BY <2>1, <2>3, <3>2 DEF Inv, Merged
      <4>2. InFlight(r) = {}
        BY <2>1, <3>2 DEF InFlight
      <4> QED
        BY <4>1, <4>2 DEF Inv, AnsweredSurvives
    <3> QED
      BY <3>1, <3>2
  <2>6. AnsweredSurvives'
    BY <2>1, <2>4, <2>5 DEF Inv, AnsweredSurvives, InFlight
  <2>7. Merged' /\ Stages' /\ Settled' /\ Shown'
    BY <2>1 DEF Inv, Merged, Stages, Settled, Shown, Writing, TypeOK
  <2> QED
    BY <2>2, <2>6, <2>7 DEF Inv
<1>4. CASE SyncDir(s)
  <2> USE <1>t, <1>4, Alone DEF SyncDir, Goto
  <2>1. Writing(s)
    BY DEF Writing
  <2>2. TypeOK' /\ Readable'
    <3>1. disk' \subseteq Content /\ disk' # {} /\ shaky' \in BOOLEAN
      BY DEF TypeOK
    <3>2. /\ pc' \in [Sections -> {"idle", "write", "sync", "replace", "syncDir", "answer"}]
          /\ \A r \in Sections : r # s => pc'[r] = "idle"
      BY <2>1 DEF TypeOK
    <3> QED
      BY <3>1, <3>2 DEF TypeOK, Writing, Readable
  <2>3. AnsweredSurvives'
    BY <2>1 DEF Inv, AnsweredSurvives, InFlight, TypeOK
  <2>4. Merged' /\ Stages' /\ Settled' /\ Shown'
    BY <2>1 DEF Inv, Merged, Stages, Settled, Shown, Writing, TypeOK
  <2> QED
    BY <2>2, <2>3, <2>4 DEF Inv
<1>5. CASE Answer(s)
  <2> USE <1>t, <1>5, Alone DEF Answer, Goto
  <2>1. /\ Writing(s) /\ file = new[s] /\ new[s] \in Content /\ (~shaky => disk = {file})
        /\ \A r \in Sections : pc'[r] = "idle"
    BY DEF Writing, Inv, Stages, TypeOK
  <2> DEFINE v == new[s][s]
  <2>v. v \in Values[s] BY <2>1, ContentHas
  <2>a. own' = [own EXCEPT ![s] = v] /\ allowed' = [allowed EXCEPT ![s] = {v}] OBVIOUS
  <2> HIDE DEF v
  <2>b. own' \in Content /\ \A r \in Sections : own'[r] = IF r = s THEN v ELSE own[r]
    <3>1. own \in Content BY DEF TypeOK
    <3>2. own' \in Content BY <3>1, <2>v, <2>a, ContentWith
    <3>3. \A r \in Sections : own'[r] = IF r = s THEN v ELSE own[r] BY <3>1, <2>a, ContentFun
    <3> QED BY <3>2, <3>3
  <2>2. TypeOK' /\ Readable'
    BY <2>1, <2>v, <2>a, <2>b DEF TypeOK, Writing, Readable
  <2>3. AnsweredSurvives'
    BY <2>1, <2>a DEF Inv, AnsweredSurvives, InFlight, TypeOK, v
  <2>4. Stages' /\ Settled' /\ Merged'
    BY <2>1 DEF Inv, Merged, Stages, Settled, Writing, TypeOK
  <2>5. Shown'
    <3>1. data'[s] = own'[s] BY <2>1, <2>b DEF v
    <3>2. ASSUME NEW r \in Sections \ {s} PROVE data'[r] = data[r] /\ own'[r] = own[r] /\ ~Writing(r)
      BY <2>1, <2>b DEF Inv, Merged, Writing
    <3> QED BY <3>1, <3>2 DEF Inv, Shown
  <2> QED
    BY <2>2, <2>3, <2>4, <2>5 DEF Inv
<1> QED
  BY <1>1, <1>2, <1>3, <1>4, <1>5, <1>6 DEF Write

\* So do the steps of the kernel, a crash and a power loss.
LEMMA WorldInv == ASSUME Inv, Writeback \/ Crash \/ PowerLoss PROVE Inv'
<1> USE TornAssumption, SectionsAssumption
<1>t. TypeOK /\ Readable /\ file \in Content /\ disk \subseteq Content
  BY DEF Inv, TypeOK, Readable
<1>1. CASE Writeback
  <2>1. TypeOK' /\ Readable' /\ AnsweredSurvives'
    BY <1>t, <1>1 DEF Writeback, Inv, TypeOK, Writing, Readable, AnsweredSurvives, InFlight
  <2>2. Merged' /\ Stages' /\ Settled' /\ Shown'
    BY <1>1 DEF Writeback, Inv, Merged, Stages, Settled, Shown, Writing
  <2> QED
    BY <2>1, <2>2 DEF Inv
<1>2. CASE Crash
  <2> USE <1>t, <1>2 DEF Crash, Load
  <2>1. TypeOK' /\ Readable'
    <3>1. \A s \in Sections : InFlight(s) \subseteq Values[s]
      BY ContentHas DEF InFlight, TypeOK, Writing
    <3> QED
      BY <3>1 DEF TypeOK, Writing, Readable
  <2>2. AnsweredSurvives'
    BY DEF Inv, AnsweredSurvives, InFlight
  <2>3. Merged' /\ Stages' /\ Settled' /\ Shown'
    BY DEF Merged, Stages, Settled, Shown, Writing
  <2> QED
    BY <2>1, <2>2, <2>3 DEF Inv
<1>3. CASE PowerLoss
  <2> USE <1>t, <1>3 DEF PowerLoss, Load
  <2>1. TypeOK' /\ Readable'
    <3>1. PICK content \in Content :
            /\ Load(content) /\ file' = content /\ disk' = {content}
            /\ allowed' = [s \in Sections |-> {content[s]}]
      OBVIOUS
    <3>3. DOMAIN allowed' = Sections /\ \A s \in Sections : allowed'[s] \subseteq Values[s]
      BY <3>1, ContentHas
    <3>4. disk' \subseteq Content /\ disk' # {} /\ file' \in Content
      BY <3>1
    <3> QED
      BY <3>1, <3>3, <3>4 DEF TypeOK, Writing, Readable
  <2>2. AnsweredSurvives'
    BY DEF AnsweredSurvives, InFlight
  <2>3. Merged' /\ Stages' /\ Settled' /\ Shown'
    BY DEF Merged, Stages, Settled, Shown, Writing
  <2> QED
    BY <2>1, <2>2, <2>3 DEF Inv
<1> QED
  BY <1>1, <1>2, <1>3

LEMMA StutterInv == ASSUME Inv, UNCHANGED vars PROVE Inv'
<1> USE DEF vars, Inv
<1>1. TypeOK' /\ Readable' /\ AnsweredSurvives'
  BY DEF TypeOK, Writing, Readable, AnsweredSurvives, InFlight
<1>2. Merged' /\ Stages' /\ Settled' /\ Shown'
  BY DEF Merged, Stages, Settled, Shown, Writing
<1> QED
  BY <1>1, <1>2

LEMMA InvAlways == Spec => []Inv
<1>1. Inv /\ [Next]_vars => Inv'
  BY WriteInv, WorldInv, StutterInv DEF Next
<1> QED
  BY InitInv, <1>1, PTL DEF Spec

\* No crash and no power loss ever leaves half a file (store.py, _dump).
THEOREM AlwaysReadable == Spec => []Readable
<1>1. Inv => Readable
  BY DEF Inv
<1> QED
  BY InvAlways, <1>1, PTL

\* Every answered write is found by every later start, a refused one is not.
THEOREM AnswersAreDurable == Spec => []AnsweredSurvives
<1>1. Inv => AnsweredSurvives
  BY DEF Inv
<1> QED
  BY InvAlways, <1>1, PTL

\* After every write, refused ones included, memory and file agree (write).
THEOREM MemoryFollowsFile == Spec => []MemoryIsFile
<1>1. Inv => MemoryIsFile
  BY DEF Inv, Settled, MemoryIsFile, Writing
<1> QED
  BY InvAlways, <1>1, PTL

\* What a component shows is saved, but for what was refused to one that changes its memory first
\* (reservations.py, _commit; prompts.py 40-41).
THEOREM ShownIsSaved == Spec => []ShowsWhatIsSaved
<1>1. Inv => ShowsWhatIsSaved
  BY DEF Inv, Shown, ShowsWhatIsSaved
<1> QED
  BY InvAlways, <1>1, PTL

\* No component's write takes back another's (write merges under the lock).
THEOREM SectionsStayApart == Spec => SectionsApart
<1>1. ASSUME Inv, NEW s \in Sections, Replace(s), NEW r \in Sections \ {s}
      PROVE  file'[r] = file[r]
  <2>1. data = file
    BY <1>1, Alone DEF Replace, Inv, Settled, Writing
  <2>2. new[s][r] = data[r]
    BY <1>1 DEF Replace, Inv, Merged, Writing
  <2> QED
    BY <1>1, <2>1, <2>2 DEF Replace
<1>2. Inv => [\A s \in Sections : Replace(s) => \A r \in Sections \ {s} : file'[r] = file[r]]_vars
  BY <1>1
<1> QED
  BY InvAlways, <1>2, PTL DEF SectionsApart

-----------------------------------------------------------------------------
\* The gateway beside the other writers.

LEMMA GatewayStep == [GatewayNext]_allVars => [Next]_vars
<1> SUFFICES ASSUME [GatewayNext]_allVars PROVE [Next]_vars OBVIOUS
<1>0. Prompts \in Sections BY GatewayAssumption
<1>1. CASE \E q \in PromptNames : SavePrompt(q) \/ DeletePrompt(q)
  BY <1>1, <1>0 DEF SavePrompt, DeletePrompt, Change, Next, Write
<1>2. CASE PromptWrite BY <1>2, <1>0 DEF PromptWrite, Next, Write
<1>3. CASE OtherWrite BY <1>3 DEF OtherWrite, Next
<1>4. CASE Writeback /\ UNCHANGED gatewayVars BY <1>4 DEF Next
<1>5. CASE \E n \in Names : \E p \in Ports : Serve(n, p) BY <1>5 DEF Serve
<1>6. CASE \E n \in Names : Withdraw(n) BY <1>6 DEF Withdraw
<1>7. CASE \E p \in Ports : UnitEnds(p) BY <1>7 DEF UnitEnds
<1>8. CASE \E a \in Agents : Request(a)
  BY <1>8 DEF Request, Find, NoPrompt, ReadPrompt, Send, Headers, Stream, Cut, Asked
<1>9. CASE Restart \/ PowerGoes BY <1>9 DEF Restart, PowerGoes, Next
<1>10. CASE UNCHANGED allVars BY <1>10 DEF allVars
<1> QED BY <1>1, <1>2, <1>3, <1>4, <1>5, <1>6, <1>7, <1>8, <1>9, <1>10 DEF GatewayNext

\* The gateway with PromptStore is a use of StateStore: what holds of the file for every writer
\* holds of it beside the gateway too.
THEOREM GatewayUsesFile == GatewaySpec => Spec
<1>1. GatewayInit => Init BY DEF GatewayInit
<1>2. [GatewayNext]_allVars => [Next]_vars BY GatewayStep
<1> QED BY <1>1, <1>2, PTL DEF GatewaySpec, Spec

\* What the memory of PromptStore and the answered content of its section hold under every name is
\* what the answers about that name allow; the name being saved is the only one that is ahead.
PromptInv ==
  /\ saving \in PromptNames \cup {NoName} /\ (saving # NoName <=> Writing(Prompts))
  /\ expected \in [PromptNames -> SUBSET Texts]
  /\ \A q \in PromptNames \ {saving} : own[Prompts][q] \in expected[q]
  /\ \A d \in allowed[Prompts] : \A q \in PromptNames : d[q] \in expected[q]
  /\ Writing(Prompts) => new[Prompts][Prompts] = own[Prompts]

\* Every content of the section is a text for every name.
LEMMA PromptTexts == ASSUME NEW c \in Content PROVE c[Prompts] \in [PromptNames -> Texts]
BY ContentHas, GatewayAssumption

LEMMA PromptInvStarts == GatewayInit => PromptInv
<1> SUFFICES ASSUME GatewayInit PROVE PromptInv OBVIOUS
<1> USE GatewayAssumption
<1>1. own \in Content /\ own = file BY DEF GatewayInit, Init
<1>2. own[Prompts] \in [PromptNames -> Texts] BY <1>1, PromptTexts
<1>3. expected = [q \in PromptNames |-> {own[Prompts][q]}] BY DEF GatewayInit
<1>4. expected \in [PromptNames -> SUBSET Texts] BY <1>2, <1>3
<1>5. allowed[Prompts] = {own[Prompts]} BY <1>1 DEF GatewayInit, Init
<1>6. saving = NoName /\ ~Writing(Prompts) BY DEF GatewayInit, Init, Writing
<1> QED BY <1>3, <1>4, <1>5, <1>6 DEF PromptInv

\* A save or a delete puts its name ahead of the answers and leaves the others.
LEMMA ChangeKeepsPrompts ==
  ASSUME Inv, PromptInv, NEW q \in PromptNames, NEW text \in Texts, Change(q, text)
  PROVE  PromptInv'
<1> USE GatewayAssumption DEF Change
<1>0. Prompts \in Sections /\ Prompts \notin FileFirst /\ own \in Content /\ data \in Content
  BY DEF Inv, TypeOK
<1>1. PICK v \in Values[Prompts] :
        /\ new' = [new EXCEPT ![Prompts] = [data EXCEPT ![Prompts] = v]]
        /\ own' = [own EXCEPT ![Prompts] = v]
  BY <1>0 DEF Begin
<1>2. ~Writing(Prompts) /\ Writing(Prompts)' BY <1>0 DEF Begin, Goto, Writing, Inv, TypeOK
<1>3. new'[Prompts][Prompts] = v /\ own'[Prompts] = v
  BY <1>0, <1>1, ContentFun DEF Inv, TypeOK
<1>4. v = [own[Prompts] EXCEPT ![q] = text] BY <1>3
<1>5. own[Prompts] \in [PromptNames -> Texts] BY <1>0, PromptTexts
<1>6. ASSUME NEW r \in PromptNames \ {q} PROVE own'[Prompts][r] \in expected[r]
  <2>1. own'[Prompts][r] = own[Prompts][r] BY <1>3, <1>4, <1>5
  <2> QED BY <2>1, <1>2 DEF PromptInv
<1>7. UNCHANGED <<allowed, expected>> /\ saving' = q BY DEF Begin
<1> QED BY <1>2, <1>3, <1>6, <1>7 DEF PromptInv

\* An answer, or an error, is about the one name.
LEMMA WriteKeepsPrompts == ASSUME Inv, PromptInv, PromptWrite PROVE PromptInv'
<1> USE GatewayAssumption
<1>0. Prompts \in Sections /\ TypeOK /\ own \in Content BY DEF Inv, TypeOK
<1>t. own[Prompts] \in [PromptNames -> Texts] BY <1>0, PromptTexts
<1>1. CASE /\ WriteTmp(Prompts) \/ SyncTmp(Prompts) \/ Replace(Prompts) \/ SyncDir(Prompts)
           /\ UNCHANGED gatewayVars
  <2>1. UNCHANGED <<own, new, allowed, saving, expected>>
    BY <1>1 DEF WriteTmp, SyncTmp, Replace, SyncDir, gatewayVars
  <2>2. Writing(Prompts) /\ Writing(Prompts)'
    BY <1>1, <1>0 DEF WriteTmp, SyncTmp, Replace, SyncDir, Goto, Writing, TypeOK
  <2> QED BY <2>1, <2>2 DEF PromptInv
<1> DEFINE said == own[Prompts][saving]
<1>2. ASSUME Writing(Prompts) PROVE saving \in PromptNames /\ said \in Texts
  BY <1>2, <1>t DEF PromptInv
<1>3. CASE Answer(Prompts) /\ expected' = [expected EXCEPT ![saving] = {said}] /\ saving' = NoName
  <2>0. Writing(Prompts) /\ ~Writing(Prompts)' BY <1>3, <1>0 DEF Answer, Goto, Writing, TypeOK
  <2>1. own'[Prompts] = own[Prompts] /\ allowed'[Prompts] = {own[Prompts]}
    BY <1>3, <1>0, <2>0, ContentFun DEF Answer, PromptInv, TypeOK
  <2>2. ASSUME NEW q \in PromptNames PROVE own[Prompts][q] \in expected'[q]
    <3>1. CASE q = saving BY <3>1, <1>3, <1>2, <2>0 DEF PromptInv
    <3>2. CASE q # saving BY <3>2, <1>3, <1>2, <2>0 DEF PromptInv
    <3> QED BY <3>1, <3>2
  <2>3. expected' \in [PromptNames -> SUBSET Texts] BY <1>3, <1>2, <2>0 DEF PromptInv
  <2> QED BY <2>0, <2>1, <2>2, <2>3, <1>3 DEF PromptInv
<1>4. CASE Fail(Prompts) /\ expected' = [expected EXCEPT ![saving] = @ \cup {said}] /\ saving' = NoName
  <2>0. Writing(Prompts) /\ ~Writing(Prompts)' BY <1>4, <1>0 DEF Fail, Goto, Writing, TypeOK
  <2>1. own' = own /\ allowed' = allowed BY <1>4 DEF Fail
  <2>2. ASSUME NEW q \in PromptNames PROVE own[Prompts][q] \in expected'[q] /\ expected[q] \subseteq expected'[q]
    <3>1. CASE q = saving BY <3>1, <1>4, <1>2, <2>0 DEF PromptInv
    <3>2. CASE q # saving BY <3>2, <1>4, <1>2, <2>0 DEF PromptInv
    <3> QED BY <3>1, <3>2
  <2>3. expected' \in [PromptNames -> SUBSET Texts] BY <1>4, <1>2, <2>0 DEF PromptInv
  <2>4. \A d \in allowed'[Prompts] : \A q \in PromptNames : d[q] \in expected'[q]
    BY <2>1, <2>2 DEF PromptInv
  <2> QED BY <2>0, <2>1, <2>2, <2>3, <2>4, <1>4 DEF PromptInv
<1> QED BY <1>1, <1>3, <1>4 DEF PromptWrite

\* What a restart finds of the section was answered, or is the write that was cut off.
LEMMA FoundIsExpected ==
  ASSUME Inv, PromptInv, NEW d \in allowed[Prompts] \cup InFlight(Prompts), NEW q \in PromptNames
  PROVE  d[q] \in expected[q] \cup CutOff(q)
<1>1. CASE d \in allowed[Prompts] BY <1>1 DEF PromptInv
<1>2. CASE d \in InFlight(Prompts)
  <2>1. d = own[Prompts] BY <1>2 DEF InFlight, PromptInv, Writing
  <2>2. CASE q = saving BY <1>2, <2>2 DEF CutOff
  <2>3. CASE q # saving BY <2>1, <2>3 DEF PromptInv
  <2> QED BY <2>2, <2>3
<1> QED BY <1>1, <1>2

LEMMA CutOffIsText == ASSUME Inv, PromptInv, NEW q \in PromptNames PROVE CutOff(q) \subseteq Texts
<1>1. own[Prompts] \in [PromptNames -> Texts] BY PromptTexts DEF Inv, TypeOK
<1>2. \A d \in InFlight(Prompts) : d = own[Prompts] BY DEF InFlight, PromptInv, Writing
<1> QED BY <1>1, <1>2 DEF CutOff

\* The manager loads the section from a file that holds such a content.
LEMMA LoadKeepsPrompts ==
  ASSUME Inv, PromptInv, NEW c \in Content, c[Prompts] \in allowed[Prompts] \cup InFlight(Prompts),
         own' = c, allowed'[Prompts] \subseteq allowed[Prompts] \cup InFlight(Prompts),
         ~Writing(Prompts)', saving' = NoName,
         expected' = [q \in PromptNames |-> expected[q] \cup CutOff(q)]
  PROVE  PromptInv'
<1> USE GatewayAssumption
<1>1. \A q \in PromptNames : own'[Prompts][q] \in expected'[q] BY FoundIsExpected
<1>2. \A d \in allowed'[Prompts] : \A q \in PromptNames : d[q] \in expected'[q] BY FoundIsExpected
<1>3. expected' \in [PromptNames -> SUBSET Texts]
  <2>1. \A q \in PromptNames : expected[q] \cup CutOff(q) \in SUBSET Texts BY CutOffIsText DEF PromptInv
  <2> QED BY <2>1
<1> QED BY <1>1, <1>2, <1>3 DEF PromptInv

LEMMA PromptInvStays == Inv /\ PromptInv /\ [GatewayNext]_allVars => PromptInv'
<1> SUFFICES ASSUME Inv, PromptInv, [GatewayNext]_allVars PROVE PromptInv' OBVIOUS
<1> USE GatewayAssumption
<1>0. Prompts \in Sections /\ TypeOK BY DEF Inv
<1>1. ASSUME NEW q \in PromptNames, SavePrompt(q) \/ DeletePrompt(q) PROVE PromptInv'
  BY <1>1, ChangeKeepsPrompts DEF SavePrompt, DeletePrompt
<1>2. CASE PromptWrite BY <1>2, WriteKeepsPrompts
<1>3. ASSUME UNCHANGED <<saving, expected>>, own'[Prompts] = own[Prompts], pc'[Prompts] = pc[Prompts],
             allowed'[Prompts] = allowed[Prompts], new'[Prompts] = new[Prompts]
      PROVE  PromptInv'
  BY <1>3 DEF PromptInv, Writing
<1>4. CASE OtherWrite
  <2>1. PICK s \in Sections \ {Prompts} : Write(s) BY <1>4 DEF OtherWrite
  <2>2. own'[Prompts] = own[Prompts]
    <3>1. own \in Content /\ own = [r \in Sections |-> own[r]] BY <1>0, ContentFun DEF TypeOK
    <3> QED BY <2>1, <3>1, <1>0 DEF Write, Begin, WriteTmp, SyncTmp, Replace, SyncDir, Answer, Fail
  <2>3. pc'[Prompts] = pc[Prompts] /\ allowed'[Prompts] = allowed[Prompts] /\ new'[Prompts] = new[Prompts]
    BY <2>1, <1>0 DEF Write, Begin, WriteTmp, SyncTmp, Replace, SyncDir, Answer, Fail, Goto, TypeOK
  <2> QED BY <1>3, <1>4, <2>2, <2>3 DEF OtherWrite, gatewayVars
<1>5. CASE Writeback /\ UNCHANGED gatewayVars BY <1>3, <1>5 DEF Writeback, gatewayVars
<1>6. CASE Restart
  <2>1. own' = file /\ allowed' = [s \in Sections |-> allowed[s] \cup InFlight(s)] /\ ~Writing(Prompts)'
    BY <1>6, <1>0 DEF Restart, Crash, Load, Writing
  <2>2. file \in Content /\ file[Prompts] \in allowed[Prompts] \cup InFlight(Prompts)
    BY <1>0 DEF Inv, AnsweredSurvives, TypeOK, Readable
  <2>3. allowed'[Prompts] = allowed[Prompts] \cup InFlight(Prompts) BY <2>1
  <2>4. saving' = NoName /\ expected' = [q \in PromptNames |-> expected[q] \cup CutOff(q)]
    BY <1>6 DEF Restart
  <2> QED BY <2>1, <2>2, <2>3, <2>4, LoadKeepsPrompts
<1>7. CASE PowerGoes
  <2>1. PICK c \in disk : /\ own' = c /\ allowed' = [s \in Sections |-> {c[s]}]
                          /\ ~Writing(Prompts)'
    BY <1>7, <1>0 DEF PowerGoes, PowerLoss, Load, Writing
  <2>2. c \in Content BY <2>1 DEF Inv, TypeOK, Readable
  <2>3. allowed'[Prompts] = {c[Prompts]} /\ c[Prompts] \in [PromptNames -> Texts]
    BY <2>1, <2>2, PromptTexts
  <2>4. CASE shaky
    <3>1. saving' = NoName /\ expected' = [q \in PromptNames |-> {c[Prompts][q]}]
      BY <1>7, <2>1, <2>4 DEF PowerGoes
    <3> QED BY <2>1, <2>3, <3>1 DEF PromptInv
  <2>5. CASE ~shaky
    <3>1. saving' = NoName /\ expected' = [q \in PromptNames |-> expected[q] \cup CutOff(q)]
      BY <1>7, <2>5 DEF PowerGoes
    <3>2. c[Prompts] \in allowed[Prompts] \cup InFlight(Prompts) BY <2>1, <2>5, <1>0 DEF Inv, AnsweredSurvives
    <3> QED BY <2>1, <2>2, <2>3, <3>1, <3>2, LoadKeepsPrompts
  <2> QED BY <2>4, <2>5
<1>8. CASE (\E n \in Names : \E p \in Ports : Serve(n, p)) \/ (\E n \in Names : Withdraw(n))
        \/ (\E p \in Ports : UnitEnds(p)) \/ (\E a \in Agents : Request(a)) \/ UNCHANGED allVars
  <2>1. UNCHANGED <<vars, saving, expected>>
    BY <1>8 DEF Serve, Withdraw, UnitEnds, Request, Find, NoPrompt, ReadPrompt, Send, Headers, Stream,
                Cut, Asked, allVars, gatewayVars
  <2> QED BY <2>1, <1>3 DEF vars
<1> QED BY <1>1, <1>2, <1>4, <1>5, <1>6, <1>7, <1>8 DEF GatewayNext

LEMMA PromptAlways == GatewaySpec => [](Inv /\ PromptInv)
<1>1. GatewayInit => Inv /\ PromptInv BY InitInv, PromptInvStarts DEF GatewayInit
<1>2. Inv /\ PromptInv /\ [GatewayNext]_allVars => (Inv /\ PromptInv)'
  <2>1. Inv /\ [Next]_vars => Inv' BY WriteInv, WorldInv, StutterInv DEF Next
  <2> QED BY <2>1, GatewayStep, PromptInvStays
<1> QED BY <1>1, <1>2, PTL DEF GatewaySpec

\* Whoever reads a prompt gets what the last answered save or delete of that prompt left, or a later
\* refused one of it: no save of another prompt, no restart and no power loss brings another text
\* (prompts.py 40-41, 50-51, 55-60).
THEOREM PromptsAreAnswered == GatewaySpec => PromptIsAnswered
<1>1. PromptInv => \A a \in Agents : \A q \in PromptNames :
                     ReadPrompt(a, q) => own[Prompts][q] \in expected[q]
  BY GatewayAssumption DEF PromptInv, ReadPrompt
<1>2. Inv /\ PromptInv /\ [GatewayNext]_allVars
        => [\A a \in Agents : \A q \in PromptNames : ReadPrompt(a, q) => own[Prompts][q] \in expected[q]]_allVars
  BY <1>1
<1> QED BY <1>2, PromptAlways, PTL DEF GatewaySpec, PromptIsAnswered
-----------------------------------------------------------------------------
\* The part of GatewayTypeOK that is about models and requests.
AskInv ==
  /\ servers \in [Names -> Ports \cup {NoPort}] /\ unit \in [Ports -> Names \cup {NoName}]
  /\ ask \in [Agents -> Ask \cup {NoAsk}]

LEMMA AskInvStarts == GatewayInit => AskInv
BY DEF GatewayInit, AskInv

\* A request goes on: what it becomes is again a request.
LEMMA AskGoesOn ==
  ASSUME AskInv, NEW a \in Agents, NEW r \in Ask \cup {NoAsk}, ask' = [ask EXCEPT ![a] = r],
         UNCHANGED <<servers, unit>>
  PROVE  AskInv'
BY DEF AskInv

LEMMA RequestKeepsAsk == ASSUME AskInv, NEW a \in Agents, Request(a) PROVE AskInv'
<1> USE GatewayAssumption, AskAssumption
<1>u. UNCHANGED <<servers, unit>>
  BY DEF Request, Find, NoPrompt, ReadPrompt, Send, Headers, Stream, Cut, Asked
<1>e. CASE End(a) BY <1>e, <1>u, AskGoesOn DEF End
<1>1. CASE Find(a)
  <2>1. PICK n \in Names :
          servers[n] # NoPort /\ ask' = [ask EXCEPT ![a] = [name |-> n, port |-> servers[n], stage |-> "found"]]
    BY <1>1 DEF Find
  <2> DEFINE r == [name |-> n, port |-> servers[n], stage |-> "found"]
  <2>2. r \in Ask BY <2>1 DEF Ask, AskInv
  <2>3. ask' = [ask EXCEPT ![a] = r] BY <2>1
  <2> HIDE DEF r
  <2> QED BY <1>u, <2>2, <2>3, AskGoesOn
<1>2. ASSUME NEW before \in {"found", "ready", "generating"}, NEW after \in {"ready", "generating", "streaming"},
             At(a, before), ask' = [ask EXCEPT ![a].stage = after]
      PROVE  AskInv'
  <2> DEFINE r == [ask[a] EXCEPT !.stage = after]
  <2>1. ask[a] \in Ask BY <1>2 DEF At, AskInv
  <2>2. r \in Ask BY <2>1 DEF Ask
  <2>3. ask' = [ask EXCEPT ![a] = r] BY <1>2 DEF AskInv
  <2> HIDE DEF r
  <2> QED BY <1>u, <2>2, <2>3, AskGoesOn
<1>3. CASE NoPrompt(a) BY <1>2, <1>3 DEF NoPrompt
<1>4. ASSUME NEW q \in PromptNames, ReadPrompt(a, q) PROVE AskInv'
  <2>1. CASE End(a) BY <2>1, <1>e
  <2>2. CASE ~End(a) BY <1>2, <1>4, <2>2 DEF ReadPrompt
  <2> QED BY <2>1, <2>2
<1>5. CASE Send(a)
  <2>1. CASE End(a) BY <2>1, <1>e
  <2>2. CASE ~End(a) BY <1>2, <1>5, <2>2 DEF Send
  <2> QED BY <2>1, <2>2
<1>6. CASE Headers(a) BY <1>2, <1>6 DEF Headers
<1>7. CASE Stream(a) \/ Cut(a) \/ Asked(a) BY <1>7, <1>e DEF Stream, Cut, Asked
<1> QED BY <1>1, <1>3, <1>4, <1>5, <1>6, <1>7 DEF Request

LEMMA AskInvStays == AskInv /\ [GatewayNext]_allVars => AskInv'
<1> SUFFICES ASSUME AskInv, [GatewayNext]_allVars PROVE AskInv' OBVIOUS
<1> USE GatewayAssumption
<1>1. CASE UNCHANGED <<servers, unit, ask>> BY <1>1 DEF AskInv
<1>2. CASE \/ \E q \in PromptNames : SavePrompt(q) \/ DeletePrompt(q)
           \/ PromptWrite \/ OtherWrite \/ (Writeback /\ UNCHANGED gatewayVars)
  BY <1>1, <1>2 DEF SavePrompt, DeletePrompt, Change, PromptWrite, OtherWrite, gatewayVars
<1>3. ASSUME NEW n \in Names, NEW p \in Ports, Serve(n, p) PROVE AskInv' BY <1>3 DEF Serve, AskInv
<1>4. ASSUME NEW n \in Names, Withdraw(n) PROVE AskInv' BY <1>4 DEF Withdraw, AskInv
<1>5. ASSUME NEW p \in Ports, UnitEnds(p) PROVE AskInv' BY <1>5 DEF UnitEnds, AskInv
<1>6. ASSUME NEW a \in Agents, Request(a) PROVE AskInv' BY <1>6, RequestKeepsAsk
<1>7. CASE Restart BY <1>7 DEF Restart, AskInv
<1>8. CASE PowerGoes BY <1>8 DEF PowerGoes, AskInv
<1>9. CASE UNCHANGED allVars BY <1>1, <1>9 DEF allVars, gatewayVars
<1>10. CASE GatewayNext BY <1>2, <1>3, <1>4, <1>5, <1>6, <1>7, <1>8, <1>10 DEF GatewayNext
<1> QED BY <1>9, <1>10

\* Types of the gateway with its file; a prompt is marked as being saved exactly while the section
\* is written (prompts.py 39-41).
THEOREM GatewayTypes == GatewaySpec => []GatewayTypeOK
<1>1. GatewayInit => AskInv BY AskInvStarts
<1>2. AskInv /\ [GatewayNext]_allVars => AskInv' BY AskInvStays
<1>3. Inv /\ PromptInv /\ AskInv => GatewayTypeOK BY DEF Inv, PromptInv, AskInv, GatewayTypeOK
<1> QED BY <1>1, <1>2, <1>3, PromptAlways, PTL DEF GatewaySpec
=============================================================================
