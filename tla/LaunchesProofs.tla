--------------------------- MODULE LaunchesProofs ---------------------------
(***************************************************************************)
(* What a model is started with, for every model, card and behaviour of    *)
(* vLLM: types with the limit of attempts, the profiles of other models    *)
(* that nobody loses, the start by a profile that needs no retry, and the  *)
(* estimate that turns away no model that would run.                       *)
(***************************************************************************)
EXTENDS Launches, OperatorProofs

\* The numbers.

LEMMA Times == ASSUME NEW a \in Nat, NEW b \in Nat, NEW c \in Nat, a <= b PROVE c * a <= c * b
OBVIOUS

LEMMA Division ==
  ASSUME NEW a \in Nat, NEW b \in Nat \ {0}
  PROVE  a \div b \in Nat /\ b * (a \div b) <= a
OBVIOUS

LEMMA MemFreeBounds ==
  ASSUME used \in Nat
  PROVE  MemFree \in 0..Full /\ (MemFree > 0 => Card * MemFree <= 100 * (Card - used))
<1> USE ConstantsAssumption
<1>1. CASE used + Slack < Card
  <2> DEFINE x == 100 * (Card - used - Slack)
             q == x \div Card
  <2>1. x \in Nat /\ x <= 100 * Card /\ x <= 100 * (Card - used) BY <1>1
  <2>2. q \in Nat /\ Card * q <= x
    <3> HIDE DEF x
    <3> QED BY <2>1, Division
  <2>3. MemFree = q BY <1>1 DEF MemFree
  <2>4. q <= 100
    <3> HIDE DEF q, x
    <3> SUFFICES ASSUME 101 <= q PROVE FALSE BY <2>2
    <3>1. Card * 101 <= Card * q BY <2>2, Times
    <3>2. Card * 101 <= 100 * Card BY <2>1, <2>2, <3>1
    <3> QED BY <3>2
  <2> HIDE DEF q, x
  <2> QED BY <2>1, <2>2, <2>3, <2>4 DEF Full
<1>2. CASE ~(used + Slack < Card) BY <1>2 DEF MemFree, Full
<1> QED BY <1>1, <1>2

LEMMA FreeBounds ==
  ASSUME used \in Nat, NEW limit \in 0..Full
  PROVE  Free(limit) \in 0..Full /\ (Free(limit) > 0 => Free(limit) <= MemFree)
<1>1. MemFree \in 0..Full BY MemFreeBounds
<1> QED BY <1>1 DEF Free, FreeShare, Lesser, Full

-----------------------------------------------------------------------------
\* Types

LEMMA ArgsTypes ==
  ASSUME TypeOK, NEW ask \in Asks
  PROVE  ArgsFor(ask.args) \in Args /\ CtxFor(ask.ctx) \in Nat \cup {NoValue}
<1>1. ask.args \in Args \cup {NoValue} /\ ask.ctx \in Nat \cup {NoValue} BY ConstantsAssumption
<1>2. NoArgs \in Args BY DEF NoArgs, Args
<1>3. ProfileOf(Model) # NoProfile
        => ProfileOf(Model).args \in Args /\ ProfileOf(Model).ctx \in Nat \cup {NoValue}
  BY DEF TypeOK, ProfileOf, Profile
<1> QED BY <1>1, <1>2, <1>3 DEF ArgsFor, CtxFor

LEMMA GrantTypes ==
  ASSUME TypeOK, NEW ask \in Asks, NEW f \in Grants(ask.share)
  PROVE  f \in 1..Full
<1>1. ask.share \in 1..Full \cup {NoValue} BY ConstantsAssumption
<1>2. CASE ask.share # NoValue BY <1>1, <1>2 DEF Grants
<1>3. CASE ask.share = NoValue
  <2>1. DefaultShare \in 1..Full BY ConstantsAssumption DEF MinFraction, Full
  <2>2. used \in Nat BY DEF TypeOK
  <2>3. Ceiling \in 1..Full
    <3>1. ProfileOf(Model) # NoProfile => ProfileOf(Model).share \in 1..Full \cup {NoValue}
      BY DEF TypeOK, ProfileOf, Profile
    <3> QED BY <2>1, <3>1 DEF Ceiling, Given
  <2>4. Free(DefaultShare) \in 0..Full
    <3>1. DefaultShare \in 0..Full BY <2>1 DEF Full
    <3> QED BY <3>1, <2>2, FreeBounds
  <2> QED BY <1>3, <2>3, <2>4 DEF Grants, Lesser, MinFraction, Full
<1> QED BY <1>2, <1>3

\* The number vLLM names is a number.
LEMMA ErrorTypes ==
  ASSUME need \in Needs, NEW p \in Params, NEW error \in Errors(p)
  PROVE  error \in [code : Codes, n : Nat]
<1>1. PICK c \in Codes : Wrong(p, c) /\ error = [code |-> c, n |-> Named(p, c)] BY DEF Errors
<1>2. need.limit \in Nat /\ need.kv \in Nat \ {0} /\ need.overhead \in Nat /\ need.blocks \in Nat \cup {NoValue}
  BY NeedsAssumption
<1>3. c = "mamba" => need.blocks \in Nat BY <1>1, <1>2 DEF Wrong, Given
<1>4. c = "kv_len" => Tokens(p) \in Nat
  <2>1. SUFFICES ASSUME c = "kv_len" PROVE Tokens(p) \in Nat OBVIOUS
  <2>2. Loaded \in Nat
    <3>1. SelectFiles(need.repo) \subseteq DOMAIN need.repo BY DEF SelectFiles
    <3> QED BY <3>1, NeedsAssumption DEF Loaded
  <2>3. Budget(p) \in Int
    <3>1. p.share \in Int BY DEF Params
    <3> HIDE DEF Loaded
    <3> QED BY <2>2, <1>2, <3>1, ConstantsAssumption DEF Budget
  <2>4. Budget(p) > 0 BY <1>1, <2>1 DEF Wrong
  <2> DEFINE b == Budget(p)
             k == 100 * need.kv
  <2>5. b \in Nat /\ k \in Nat \ {0} BY <1>2, <2>3, <2>4
  <2> HIDE DEF b, k
  <2>6. b \div k \in Nat BY <2>5, Division
  <2> QED BY <2>6 DEF Tokens, b, k
<1> HIDE DEF Tokens
<1>5. Named(p, c) \in Nat BY <1>2, <1>3, <1>4 DEF Named
<1> QED BY <1>1, <1>5

LEMMA AdviceTypes ==
  ASSUME NEW error \in [code : Codes, n : Nat]
  PROVE  Advice(error) \in [code : Codes, n : Nat]
<1>1. "no_kv" \in Codes BY DEF Codes
<1>2. error.n \div CtxRound \in Nat BY DEF CtxRound
<1>3. (error.n \div CtxRound) * CtxRound \in Nat BY <1>2 DEF CtxRound
<1> QED BY <1>1, <1>3 DEF Advice

LEMMA HalvedTypes == ASSUME NEW ctx \in Nat \cup {NoValue} PROVE Halved(ctx) \in Nat
<1> DEFINE from == IF Given(ctx) THEN ctx ELSE 8 * MinAutoCtx
           half == ((from \div 2) \div CtxRound) * CtxRound
<1>1. from \in Nat BY DEF Given, MinAutoCtx
<1>2. half \in Nat
  <2> HIDE DEF from
  <2>1. from \div 2 \in Nat BY <1>1
  <2>2. (from \div 2) \div CtxRound \in Nat BY <2>1 DEF CtxRound
  <2> QED BY <2>2 DEF CtxRound
<1> QED BY <1>2 DEF Halved, MinAutoCtx

LEMMA FixTypes ==
  ASSUME TypeOK, NEW s \in Server, NEW error \in [code : Codes, n : Nat], NEW t \in Fixes(s, error)
  PROVE  t \in Server /\ t.status = "starting"
<1>1. s.attempts \in 1..4
  <2>1. ~(s.attempts >= MaxAttempts) BY DEF Fixes
  <2> QED BY <2>1 DEF Server, MaxAttempts
<1>2. PICK r : /\ t = [r EXCEPT !.attempts = @ + 1, !.status = "starting"]
               /\ \/ r = [s EXCEPT !.ctx = error.n]
                  \/ r \in Lowered(s) \cup Raised(s) \cup Shortened(s)
                  \/ r = [s EXCEPT !.args.seqs = error.n]
                  \/ r = [s EXCEPT !.args.eager = TRUE]
  BY <1>1 DEF Fixes, MaxAttempts
<1>3. ASSUME NEW f \in 1..Full PROVE [s EXCEPT !.share = f] \in Server BY DEF Server
<1>4. ASSUME NEW c \in Nat PROVE [s EXCEPT !.ctx = c] \in Server BY DEF Server
<1>5. ASSUME NEW a \in Args PROVE [s EXCEPT !.args = a] \in Server BY DEF Server
<1>6. r \in Server /\ r.attempts = s.attempts
  <2>1. CASE r = [s EXCEPT !.ctx = error.n] BY <2>1, <1>4 DEF Server
  <2>2. CASE r \in Lowered(s)
    <3>1. LowerFraction(s.share) \in 0..Full BY LowerIsShare
    <3>2. PICK f \in 1..Full : r = [s EXCEPT !.share = f] BY <2>2, <3>1 DEF Lowered, NoShare, Full
    <3> QED BY <3>2, <1>3 DEF Server
  <2>3. CASE r \in Raised(s)
    <3>1. Free(DefaultShare) \in 0..Full
      BY FreeBounds, ConstantsAssumption DEF TypeOK, MinFraction, Full
    <3>2. s.share \in 1..Full BY DEF Server
    <3>3. BiggerFraction(s.share, Free(DefaultShare)) \in 0..Full BY <3>1, <3>2, BiggerBounds
    <3>4. PICK f \in 1..Full : r = [s EXCEPT !.share = f] BY <2>3, <3>3 DEF Raised, NoShare, Full
    <3> QED BY <3>4, <1>3 DEF Server
  <2>4. CASE r \in Shortened(s)
    <3>1. Halved(s.ctx) \in Nat BY HalvedTypes DEF Server
    <3>2. PICK c \in Nat : r = [s EXCEPT !.ctx = c] BY <2>4, <3>1 DEF Shortened
    <3> QED BY <3>2, <1>4 DEF Server
  <2>5. CASE r = [s EXCEPT !.args.seqs = error.n]
    <3>1. s.args \in Args /\ error.n \in Nat BY DEF Server
    <3>2. [s.args EXCEPT !.seqs = error.n] \in Args BY <3>1 DEF Args
    <3>3. r = [s EXCEPT !.args = [s.args EXCEPT !.seqs = error.n]] BY <2>5
    <3> QED BY <3>2, <3>3, <1>5 DEF Server
  <2>6. CASE r = [s EXCEPT !.args.eager = TRUE]
    <3>1. s.args \in Args BY DEF Server
    <3>2. [s.args EXCEPT !.eager = TRUE] \in Args BY <3>1 DEF Args
    <3>3. r = [s EXCEPT !.args = [s.args EXCEPT !.eager = TRUE]] BY <2>6
    <3> QED BY <3>2, <3>3, <1>5 DEF Server
  <2> QED BY <1>2, <2>1, <2>2, <2>3, <2>4, <2>5, <2>6
<1>7. t = [r EXCEPT !.attempts = r.attempts + 1, !.status = "starting"] BY <1>2, <1>6 DEF Server
<1>8. r.attempts + 1 \in 1..MaxAttempts BY <1>1, <1>6 DEF MaxAttempts
<1> QED BY <1>6, <1>7, <1>8 DEF Server

Types == TypeOK /\ need \in Needs

LEMMA ParamsTypes == ASSUME NEW s \in Server PROVE ParamsOf(s) \in Params
BY DEF Server, ParamsOf, Params

LEMMA TypesStart == Init => Types
<1> SUFFICES ASSUME Init PROVE Types OBVIOUS
<1>1. [share |-> NoValue, ctx |-> NoValue, args |-> NoArgs] \in Profile BY DEF Profile, Args, NoArgs
<1>2. PICK p \in Profiles \cup {NoProfile} :
        entries = [r \in {Model} \cup Others |->
                     IF r = Model THEN p ELSE [share |-> NoValue, ctx |-> NoValue, args |-> NoArgs]]
  BY DEF Init
<1>3. p \in Profile \cup {NoProfile} BY ConstantsAssumption
<1>4. entries \in [{Model} \cup Others -> Profile \cup {NoProfile}] BY <1>1, <1>2, <1>3
<1> QED BY <1>4, ConstantsAssumption DEF Init, Types, TypeOK

LEMMA TypesStay == Types /\ [Next]_vars => Types'
<1> SUFFICES ASSUME Types, [Next]_vars PROVE Types' OBVIOUS
<1> USE ConstantsAssumption DEF Types, file, history, bounds
<1>1. CASE Start
  <2>1. PICK ask \in Asks :
          /\ \E f \in Grants(ask.share) :
               srv' = [share |-> f, ctx |-> CtxFor(ask.ctx), args |-> ArgsFor(ask.args),
                       explicit |-> ask.share # NoValue, status |-> "starting", attempts |-> 1]
          /\ origin' = OriginOf(ask)
    BY <1>1 DEF Start
  <2>2. srv' \in Server BY <2>1, ArgsTypes, GrantTypes DEF Server, MaxAttempts
  <2>3. unit' \in [params : Params, up : BOOLEAN] BY <1>1, <2>2, ParamsTypes DEF Start, Launch
  <2>4. origin' \in {"plain", "asked", "profile", "replay", "disturbed"} BY <2>1 DEF OriginOf
  <2> QED BY <1>1, <2>2, <2>3, <2>4 DEF Start, TypeOK
<1>2. CASE Stop
  <2>1. srv \in Server BY <1>2 DEF Stop, Active, TypeOK
  <2>2. srv' \in Server BY <1>2, <2>1 DEF Stop, Server
  <2> QED BY <1>2, <2>2 DEF Stop, TypeOK
<1>3. CASE Retry
  <2>1. srv \in Server /\ log \in [code : Codes, n : Nat] BY <1>3 DEF Retry, Dead, Active, TypeOK
  <2>2. srv' \in Server BY <1>3, <2>1, AdviceTypes, FixTypes DEF Retry
  <2>3. unit' \in [params : Params, up : BOOLEAN] BY <1>3, <2>2, ParamsTypes DEF Retry, Launch
  <2> QED BY <1>3, <2>2, <2>3 DEF Retry, TypeOK
<1>4. CASE GiveUp
  <2>1. srv \in Server BY <1>4 DEF GiveUp, Dead, Active, TypeOK
  <2>2. srv' \in Server BY <1>4, <2>1 DEF GiveUp, Server
  <2> QED BY <1>4, <2>2 DEF GiveUp, TypeOK
<1>5. CASE Healthy
  <2>1. srv \in Server BY <1>5 DEF Healthy, Active, TypeOK
  <2>2. srv' \in Server BY <1>5, <2>1 DEF Healthy, Server
  <2>3. ParamsOf(srv) \in Params BY <2>1, ParamsTypes
  <2> QED BY <1>5, <2>2, <2>3 DEF Healthy, TypeOK
<1>6. CASE SaveProfile
  <2>1. toSave \in Server BY <1>6 DEF SaveProfile, TypeOK
  <2>2. KeptShare(toSave) \in 1..Full \cup {NoValue}
    BY <2>1 DEF KeptShare, Server, TypeOK, Profile
  <2>3. [share |-> KeptShare(toSave), ctx |-> toSave.ctx, args |-> toSave.args] \in Profile
    BY <2>1, <2>2 DEF Server, Profile
  <2>4. entries' \in [{Model} \cup Others -> Profile \cup {NoProfile}]
    BY <1>6, <2>3 DEF SaveProfile, TypeOK
  <2> QED BY <1>6, <2>4 DEF SaveProfile, TypeOK
<1>7. CASE VllmUp
  <2>1. unit' \in [params : Params, up : BOOLEAN] BY <1>7 DEF VllmUp, TypeOK
  <2> QED BY <1>7, <2>1 DEF VllmUp, TypeOK
<1>8. CASE VllmDies
  <2>1. unit.params \in Params BY <1>8 DEF VllmDies, TypeOK
  <2>2. log' \in [code : Codes, n : Nat] BY <1>8, <2>1, ErrorTypes DEF VllmDies
  <2> QED BY <1>8, <2>2 DEF VllmDies, TypeOK
<1>9. CASE VllmBreaks
  <2>1. log' \in [code : Codes, n : Nat]
    <3>1. log' \in [code : {"oom", "other"}, n : {0}] BY <1>9 DEF VllmBreaks
    <3> QED BY <3>1 DEF Codes
  <2> QED BY <1>9, <2>1 DEF VllmBreaks, Disturb, TypeOK
<1>10. CASE OthersChange BY <1>10 DEF OthersChange, Disturb, TypeOK
<1>11. CASE EditProfiles BY <1>11 DEF EditProfiles, TypeOK
<1>12. CASE UNCHANGED vars BY <1>12 DEF vars, TypeOK
<1> QED
  BY <1>1, <1>2, <1>3, <1>4, <1>5, <1>6, <1>7, <1>8, <1>9, <1>10, <1>11, <1>12 DEF Next

\* Types, and the limit of attempts: whatever vLLM dies of, a launch is retried MaxAttempts times
\* at most, with a share that is one (_plan_fix, runner.py 549-578).
THEOREM LaunchTypes == Spec => []TypeOK
<1>1. Types => TypeOK BY DEF Types
<1> QED BY <1>1, TypesStart, TypesStay, PTL DEF Spec

-----------------------------------------------------------------------------
\* The profiles of other models

\* No save of a profile takes those of other models out of the file, also when a person's edit
\* has left it broken (_save_profile, runner.py 615-640).
THEOREM OthersAreKept == Spec => []OthersKept
<1>1. Init => OthersKept
  <2> SUFFICES ASSUME Init, NEW r \in Others PROVE entries[r] # NoProfile BY DEF OthersKept
  <2>1. entries[r] = [share |-> NoValue, ctx |-> NoValue, args |-> NoArgs]
    BY ConstantsAssumption DEF Init
  <2>2. entries[r] \in Profile BY <2>1 DEF Profile, Args, NoArgs
  <2> QED BY <2>2, NullsAssumption
<1>2. Types /\ OthersKept /\ [Next]_vars => OthersKept'
  <2> SUFFICES ASSUME Types, OthersKept, [Next]_vars, NEW r \in Others
               PROVE  entries'[r] = entries[r]
    BY DEF OthersKept
  <2>1. CASE SaveProfile BY <2>1, ConstantsAssumption DEF SaveProfile, Types, TypeOK
  <2>2. CASE ~SaveProfile
    BY <2>2 DEF Next, Start, Stop, Retry, GiveUp, Healthy, VllmUp, VllmDies, VllmBreaks,
                OthersChange, EditProfiles, file, vars
  <2> QED BY <2>1, <2>2
<1> QED BY <1>1, <1>2, TypesStart, TypesStay, PTL DEF Spec

-----------------------------------------------------------------------------
\* A start by what ran before

\* Nothing is wrong with the parameters as far as the model and its vLLM go.
Sound(p) == \A c \in Codes : Wrong(p, c) => c = "taken"

ReplayInv ==
  /\ unit # NoUnit => Active /\ unit.params = ParamsOf(srv)
  /\ unit # NoUnit /\ unit.up => Sound(unit.params)
  /\ \A p \in ran : Sound(p)
  /\ origin = "replay" /\ srv # NoServer =>
       /\ srv.attempts = 1 /\ srv.status \in {"starting", "running", "stopped"}
       /\ Sound(ParamsOf(srv)) /\ Card * srv.share <= 100 * (Card - used)
       /\ Active => unit # NoUnit

\* The share a profile asks for, when it is free, is not taken by others.
LEMMA NotTaken ==
  ASSUME used \in Nat, NEW p \in Params, p.share <= Free(DefaultShare)
  PROVE  Card * p.share <= 100 * (Card - used)
<1>1. p.share \in 1..Full BY DEF Params
<1>2. MemFree \in Nat /\ Free(DefaultShare) \in Nat /\ p.share <= MemFree
  <2>1. DefaultShare \in 0..Full BY ConstantsAssumption DEF MinFraction, Full
  <2>2. MemFree \in 0..Full BY MemFreeBounds
  <2>3. Free(DefaultShare) \in 0..Full /\ (Free(DefaultShare) > 0 => Free(DefaultShare) <= MemFree)
    BY <2>1, FreeBounds
  <2> QED BY <1>1, <2>2, <2>3 DEF Full
<1>3. p.share \in Nat /\ Card \in Nat BY <1>1, ConstantsAssumption
<1>4. Card * p.share <= Card * MemFree BY <1>2, <1>3, Times
<1>5. Card * MemFree <= 100 * (Card - used) BY <1>1, <1>2, MemFreeBounds
<1>6. Card * p.share \in Nat /\ Card * MemFree \in Nat BY <1>2, <1>3
<1> DEFINE x == Card * p.share
           y == Card * MemFree
           z == 100 * (Card - used)
<1>7. x \in Nat /\ y \in Nat /\ z \in Int /\ x <= y /\ y <= z
  BY <1>4, <1>5, <1>6, ConstantsAssumption
<1>8. x <= z
  <2> HIDE DEF x, y, z
  <2> QED BY <1>7
<1> QED BY <1>8

\* A start with origin "replay" takes the parameters of the profile as they are.
LEMMA ReplayTakesProfile ==
  ASSUME Types, ReplayInv, NEW ask \in Asks, NEW f \in Grants(ask.share), OriginOf(ask) = "replay",
         NEW s, s = [share |-> f, ctx |-> CtxFor(ask.ctx), args |-> ArgsFor(ask.args),
                     explicit |-> ask.share # NoValue, status |-> "starting", attempts |-> 1]
  PROVE  Sound(ParamsOf(s)) /\ Card * s.share <= 100 * (Card - used)
<1> DEFINE p == ProfileOf(Model)
<1>1. p # NoProfile /\ p \in ran /\ p.share <= Free(DefaultShare) BY DEF OriginOf
<1>2. p \in Params BY <1>1 DEF Types, TypeOK
<1>3. ask.share = NoValue /\ ask.ctx = NoValue /\ ask.args = NoValue
  <2>1. DOMAIN ask = {"share", "ctx", "args"} BY ConstantsAssumption
  <2>2. \A what \in DOMAIN ask : ask[what] = NoValue BY DEF OriginOf
  <2> QED BY <2>1, <2>2
<1>4. CtxFor(ask.ctx) = p.ctx /\ ArgsFor(ask.args) = p.args BY <1>1, <1>3 DEF CtxFor, ArgsFor
<1>5. f = p.share
  <2>1. p.share \in 1..Full BY <1>2 DEF Params
  <2>2. Given(p.share) BY <2>1, FitAssumption DEF Given, Full
  <2>3. Ceiling = p.share BY <1>1, <2>2 DEF Ceiling
  <2>4. f = Lesser(p.share, Free(DefaultShare)) BY <1>3, <2>3 DEF Grants
  <2> QED BY <1>1, <2>4 DEF Lesser
<1>6. ParamsOf(s) = p
  <2>1. ParamsOf(s) = [share |-> p.share, ctx |-> p.ctx, args |-> p.args] BY <1>4, <1>5 DEF ParamsOf
  <2> HIDE DEF p
  <2> QED BY <2>1, <1>2 DEF Params
<1> HIDE DEF p
<1>7. Card * p.share <= 100 * (Card - used) BY <1>1, <1>2, NotTaken DEF Types, TypeOK
<1>8. Sound(p) BY <1>1 DEF ReplayInv
<1> QED BY <1>5, <1>6, <1>7, <1>8

\* What is sound is so whatever happens: the model and its vLLM do not change.
LEMMA SoundStays == [Next]_vars => need' = need /\ \A p : Sound(p) => Sound(p)'
<1> SUFFICES ASSUME [Next]_vars PROVE need' = need /\ \A p : Sound(p) => Sound(p)' OBVIOUS
<1>1. need' = need
  BY DEF Next, Start, Stop, Retry, GiveUp, Healthy, SaveProfile, VllmUp, VllmDies, VllmBreaks,
         OthersChange, EditProfiles, vars
<1>2. \A p, c : c # "taken" => (Wrong(p, c)' <=> Wrong(p, c))
  BY <1>1 DEF Wrong, Ctx, Budget, Tokens, Seqs, Loaded
<1> QED BY <1>1, <1>2 DEF Sound

LEMMA ReplayInvStays == Types /\ ReplayInv /\ [Next]_vars => ReplayInv'
<1> SUFFICES ASSUME Types, ReplayInv, [Next]_vars PROVE ReplayInv' OBVIOUS
<1> USE DEF file, history, bounds
<1>2. \A p : Sound(p) => Sound(p)' BY SoundStays
<1>3. CASE Start
  <2>1. PICK ask \in Asks :
          /\ \E f \in Grants(ask.share) :
               srv' = [share |-> f, ctx |-> CtxFor(ask.ctx), args |-> ArgsFor(ask.args),
                       explicit |-> ask.share # NoValue, status |-> "starting", attempts |-> 1]
          /\ origin' = OriginOf(ask)
    BY <1>3 DEF Start
  <2>2. PICK f \in Grants(ask.share) :
          srv' = [share |-> f, ctx |-> CtxFor(ask.ctx), args |-> ArgsFor(ask.args),
                  explicit |-> ask.share # NoValue, status |-> "starting", attempts |-> 1]
    BY <2>1
  <2>3. unit' = [params |-> ParamsOf(srv'), up |-> FALSE] BY <1>3 DEF Start, Launch
  <2>4. srv' \in Server /\ srv'.status = "starting" /\ srv'.attempts = 1
    BY <2>2, ArgsTypes, GrantTypes DEF Types, Server, MaxAttempts
  <2>5. unit' # NoUnit
    <3>1. ParamsOf(srv') \in Params BY <2>4, ParamsTypes
    <3>2. unit' \in [params : Params, up : BOOLEAN] BY <2>3, <3>1
    <3> QED BY <3>2, NullsAssumption
  <2>6. Active' BY <2>4, NullsAssumption DEF Active
  <2>7. origin' = "replay" => Sound(ParamsOf(srv')) /\ Card * srv'.share <= 100 * (Card - used')
    <3> SUFFICES ASSUME OriginOf(ask) = "replay"
                 PROVE  Sound(ParamsOf(srv')) /\ Card * srv'.share <= 100 * (Card - used')
      BY <2>1
    <3>1. used' = used BY <1>3 DEF Start
    <3> QED BY <2>2, <3>1, ReplayTakesProfile
  <2>8. (ParamsOf(srv))' = ParamsOf(srv') BY DEF ParamsOf
  <2>9. ran' = ran BY <1>3 DEF Start
  <2>10. unit'.up = FALSE /\ unit'.params = ParamsOf(srv') BY <2>3
  <2> QED BY <1>2, <2>4, <2>5, <2>6, <2>7, <2>8, <2>9, <2>10 DEF ReplayInv
<1>4. CASE Stop
  <2>1. srv \in Server /\ srv' = [srv EXCEPT !.status = "stopped"] /\ unit' = NoUnit
        /\ UNCHANGED <<need, used, ran, origin>>
    BY <1>4 DEF Stop, Active, Types, TypeOK
  <2>2. srv'.attempts = srv.attempts /\ srv'.status = "stopped" /\ ParamsOf(srv') = ParamsOf(srv)
    BY <2>1 DEF Server, ParamsOf
  <2>3. ~Active' BY <2>2 DEF Active
  <2>4. srv # NoServer BY <1>4 DEF Stop, Active
  <2>5. (ParamsOf(srv))' = ParamsOf(srv') /\ srv'.share = srv.share BY <2>1 DEF ParamsOf, Server
  <2> QED BY <1>2, <2>1, <2>2, <2>3, <2>4, <2>5 DEF ReplayInv
<1>5. CASE Retry
  <2>1. srv \in Server /\ log \in [code : Codes, n : Nat] BY <1>5 DEF Retry, Dead, Active, Types, TypeOK
  <2>2. srv' \in Server /\ srv'.status = "starting"
    BY <1>5, <2>1, AdviceTypes, FixTypes DEF Retry, Types
  <2>3. unit' = [params |-> ParamsOf(srv'), up |-> FALSE] /\ UNCHANGED <<ran, origin>>
    BY <1>5 DEF Retry, Launch
  <2>4. unit' # NoUnit /\ Active'
    <3>1. ParamsOf(srv') \in Params BY <2>2, ParamsTypes
    <3>2. unit' \in [params : Params, up : BOOLEAN] BY <2>3, <3>1
    <3> QED BY <2>2, <3>2, NullsAssumption DEF Active
  <2>5. origin # "replay" BY <1>5 DEF Retry, Dead, Active, ReplayInv
  <2>6. unit'.up = FALSE /\ unit'.params = ParamsOf(srv') /\ (ParamsOf(srv))' = ParamsOf(srv')
    BY <2>3 DEF ParamsOf
  <2> QED BY <1>2, <2>3, <2>4, <2>5, <2>6 DEF ReplayInv
<1>6. CASE GiveUp
  <2>1. unit = NoUnit /\ unit' = NoUnit /\ UNCHANGED <<ran, origin>> BY <1>6 DEF GiveUp, Dead
  <2>2. origin # "replay" BY <1>6 DEF GiveUp, Dead, Active, ReplayInv
  <2> QED BY <1>2, <2>1, <2>2 DEF ReplayInv
<1>7. CASE Healthy
  <2>1. srv \in Server /\ srv' = [srv EXCEPT !.status = "running"] /\ ran' = ran \cup {ParamsOf(srv)}
        /\ UNCHANGED <<need, used, unit, origin>> /\ unit # NoUnit /\ unit.up
    BY <1>7 DEF Healthy, Active, Types, TypeOK
  <2>2. srv'.attempts = srv.attempts /\ srv'.status = "running" /\ ParamsOf(srv') = ParamsOf(srv)
    BY <2>1 DEF Server, ParamsOf
  <2>3. Sound(unit.params) /\ unit.params = ParamsOf(srv) /\ srv # NoServer
    BY <2>1, <1>7 DEF ReplayInv, Healthy, Active
  <2>4. \A p \in ran' : Sound(p)' BY <1>2, <2>1, <2>3 DEF ReplayInv
  <2>5. srv' \in Server BY <2>1 DEF Server
  <2>6. Active' BY <2>2, <2>5, NullsAssumption DEF Active
  <2>7. srv'.share = srv.share BY <2>1 DEF Server
  <2>8. (ParamsOf(srv))' = ParamsOf(srv') BY DEF ParamsOf
  <2> QED BY <1>2, <2>1, <2>2, <2>3, <2>4, <2>6, <2>7, <2>8 DEF ReplayInv
<1>8. ASSUME UNCHANGED <<need, used, srv, unit, ran, origin>> PROVE ReplayInv'
  <2>1. (ParamsOf(srv))' = ParamsOf(srv) /\ Active' = Active BY <1>8 DEF ParamsOf, Active
  <2> QED BY <1>2, <1>8, <2>1 DEF ReplayInv
<1>9. CASE SaveProfile \/ EditProfiles \/ UNCHANGED vars
  BY <1>8, <1>9 DEF SaveProfile, EditProfiles, vars
<1>10. CASE VllmUp
  <2>1. unit \in [params : Params, up : BOOLEAN] /\ unit # NoUnit /\ Errors(unit.params) = {}
        /\ unit' = [unit EXCEPT !.up = TRUE] /\ UNCHANGED <<need, used, srv, ran, origin>>
    BY <1>10 DEF VllmUp, Types, TypeOK
  <2>2. unit' \in [params : Params, up : BOOLEAN] /\ unit'.params = unit.params BY <2>1
  <2>3. unit' # NoUnit BY <2>2, NullsAssumption
  <2>4. Sound(unit.params) BY <2>1 DEF Errors, Sound
  <2>5. (ParamsOf(srv))' = ParamsOf(srv) /\ Active' = Active BY <2>1 DEF ParamsOf, Active
  <2> QED BY <1>2, <2>1, <2>2, <2>3, <2>4, <2>5 DEF ReplayInv
<1>11. CASE VllmDies
  <2>1. unit # NoUnit /\ unit' = NoUnit /\ Errors(unit.params) # {} /\ UNCHANGED <<ran, origin, srv>>
    BY <1>11 DEF VllmDies
  <2>2. Active /\ unit.params = ParamsOf(srv) BY <2>1 DEF ReplayInv
  <2>3. origin # "replay"
    <3> SUFFICES ASSUME origin = "replay" PROVE FALSE OBVIOUS
    <3>1. Sound(unit.params) /\ Card * srv.share <= 100 * (Card - used)
      BY <2>2 DEF ReplayInv, Active
    <3>2. unit.params.share = srv.share /\ srv \in Server
      BY <2>2 DEF ParamsOf, Active, Types, TypeOK
    <3>3. ~(Card * srv.share > 100 * (Card - used))
      <4>1. srv.share \in Nat /\ used \in Nat /\ Card \in Nat
        BY <3>2, ConstantsAssumption DEF Server, Full, Types, TypeOK
      <4>2. Card * srv.share \in Nat BY <4>1
      <4> QED BY <3>1, <4>1, <4>2
    <3>4. ~Wrong(unit.params, "taken") BY <3>2, <3>3 DEF Wrong
    <3>5. Errors(unit.params) = {} BY <3>1, <3>4 DEF Errors, Sound
    <3> QED BY <3>5, <2>1
  <2> QED BY <1>2, <2>1, <2>3 DEF ReplayInv
<1>12. CASE VllmBreaks
  <2>1. unit' = NoUnit /\ origin' = "disturbed" /\ ran' = ran BY <1>12 DEF VllmBreaks, Disturb
  <2> QED BY <1>2, <2>1 DEF ReplayInv
<1>13. CASE OthersChange
  <2>1. origin' = "disturbed" /\ UNCHANGED <<srv, unit, ran>> BY <1>13 DEF OthersChange, Disturb
  <2>2. (ParamsOf(srv))' = ParamsOf(srv) /\ Active' = Active BY <2>1 DEF ParamsOf, Active
  <2> QED BY <1>2, <2>1, <2>2 DEF ReplayInv
<1> QED
  BY <1>3, <1>4, <1>5, <1>6, <1>7, <1>9, <1>10, <1>11, <1>12, <1>13 DEF Next

\* A model that is started with what it once came to run with needs no retry, whatever it and its
\* vLLM are like, while its share of the card is free (README: successful parameters are kept and
\* taken the next time; runner.py 278-295, 627-633).
THEOREM ReplayNeedsNoRetry == Spec => []ReplayRuns
<1>1. Init => ReplayInv BY DEF Init, ReplayInv
<1>2. ReplayInv => ReplayRuns BY DEF ReplayInv, ReplayRuns
<1> QED BY <1>1, <1>2, TypesStart, TypesStay, ReplayInvStays, PTL DEF Spec

-----------------------------------------------------------------------------
\* What runs, the estimate says fits

\* What is downloaded and what vLLM reads of it weigh the same: one format is left.
LEMMA LoadedIsWeighed ==
  ASSUME need \in Needs
  PROVE  Loaded = WeightBytes(need.repo, SelectFiles(need.repo))
<1> DEFINE chosen == SelectFiles(need.repo)
           st == {n \in chosen : need.repo[n].weights = "safetensors"}
<1>1. CASE st = {} BY <1>1 DEF Loaded
<1>2. CASE st # {}
  <2>1. HasSafetensors(need.repo) BY <1>2 DEF HasSafetensors, SelectFiles
  <2>2. \A n \in chosen : need.repo[n].weights # "bin" BY <2>1 DEF SelectFiles
  <2>3. \A n \in chosen : need.repo[n].weights \in {"safetensors", "bin", "none"}
    BY NeedsAssumption DEF SelectFiles
  <2>4. {n \in st : need.repo[n].weights # "none"} = {n \in chosen : need.repo[n].weights # "none"}
    BY <2>2, <2>3
  <2>5. WeightBytes(need.repo, st) = WeightBytes(need.repo, chosen) BY <2>4 DEF WeightBytes
  <2>6. Loaded = WeightBytes(need.repo, st) BY <1>2 DEF Loaded
  <2> QED BY <2>5, <2>6
<1> QED BY <1>1, <1>2

\* A bigger number is divided into no less.
LEMMA Quotients ==
  ASSUME NEW a \in Nat, NEW b \in Nat, a <= b, NEW k \in Nat \ {0}
  PROVE  a \div k <= b \div k
<1> DEFINE p == a \div k
           q == b \div k
<1>1. p \in Nat /\ k * p <= a BY Division
<1>2. q \in Nat /\ b < k * (q + 1) OBVIOUS
<1> HIDE DEF p, q
<1>3. SUFFICES ASSUME q + 1 <= p PROVE FALSE BY <1>1, <1>2 DEF p, q
<1>4. k * (q + 1) <= k * p BY <1>1, <1>2, <1>3, Times
<1>5. k * (q + 1) \in Nat /\ k * p \in Nat BY <1>1, <1>2
<1> DEFINE x == k * (q + 1)
           y == k * p
<1> HIDE DEF x, y
<1>6. x \in Nat /\ y \in Nat /\ b < x /\ x <= y /\ y <= a BY <1>1, <1>2, <1>4, <1>5 DEF x, y
<1> QED BY <1>6

RunInv ==
  /\ WeightBytes(need.repo, SelectFiles(need.repo)) # 0
  /\ srv # NoServer /\ srv.status = "running" => Sound(ParamsOf(srv))

LEMMA RunInvStays == Types /\ ReplayInv /\ RunInv /\ [Next]_vars => RunInv'
<1> SUFFICES ASSUME Types, ReplayInv, RunInv, [Next]_vars PROVE RunInv' OBVIOUS
<1> USE DEF file, history, bounds
<1>1. need' = need /\ \A p : Sound(p) => Sound(p)' BY SoundStays
<1>2. \A p : Sound(p) => Sound(p)' BY <1>1
<1>3. WeightBytes(need.repo, SelectFiles(need.repo))' # 0 BY <1>1 DEF RunInv
<1>4. SUFFICES ASSUME srv' # NoServer, srv'.status = "running" PROVE Sound(ParamsOf(srv))'
  BY <1>3 DEF RunInv
<1>5. CASE srv' = srv
  <2>1. Sound(ParamsOf(srv)) BY <1>4, <1>5 DEF RunInv
  <2>2. (ParamsOf(srv))' = ParamsOf(srv) BY <1>5 DEF ParamsOf
  <2> QED BY <1>2, <2>1, <2>2
<1>6. CASE Healthy
  <2>1. srv \in Server /\ srv' = [srv EXCEPT !.status = "running"] /\ unit # NoUnit /\ unit.up
    BY <1>6 DEF Healthy, Active, Types, TypeOK
  <2>2. Sound(ParamsOf(srv)) BY <2>1 DEF ReplayInv
  <2>3. (ParamsOf(srv))' = ParamsOf(srv) BY <2>1 DEF ParamsOf, Server
  <2> QED BY <1>2, <2>2, <2>3
<1>7. CASE Start BY <1>7, <1>4 DEF Start
<1>8. CASE Stop
  <2>1. srv \in Server BY <1>8 DEF Stop, Active, Types, TypeOK
  <2>2. srv'.status = "stopped" BY <1>8, <2>1 DEF Stop, Server
  <2> QED BY <1>4, <2>2
<1>9. CASE Retry
  <2>1. srv \in Server /\ log \in [code : Codes, n : Nat] BY <1>9 DEF Retry, Dead, Active, Types, TypeOK
  <2>2. srv'.status = "starting" BY <1>9, <2>1, AdviceTypes, FixTypes DEF Retry, Types
  <2> QED BY <1>4, <2>2
<1>10. CASE GiveUp
  <2>1. srv \in Server BY <1>10 DEF GiveUp, Dead, Active, Types, TypeOK
  <2>2. srv'.status = "failed" BY <1>10, <2>1 DEF GiveUp, Server
  <2> QED BY <1>4, <2>2
<1> QED
  BY <1>5, <1>6, <1>7, <1>8, <1>9, <1>10
     DEF Next, SaveProfile, VllmUp, VllmDies, VllmBreaks, OthersChange, EditProfiles, vars

\* A model that runs is one whose place the estimate holds for big enough.
LEMMA RunningFits == Types /\ RunInv => RunsFit
<1> SUFFICES ASSUME Types, RunInv, srv # NoServer, srv.status = "running",
                    need.overhead >= FitOverhead, need.kv = KvBytesPerToken(need.config)
             PROVE  Estimated(srv.share).fits /\ Estimated(srv.share).tokens >= Ctx(srv)
  BY DEF RunsFit
<1> DEFINE w == WeightBytes(need.repo, SelectFiles(need.repo))
           usable == Card * srv.share - 100 * (w + FitOverhead)
           k == 100 * need.kv
           s == ParamsOf(srv)
           budget == Budget(s)
<1>1. srv \in Server /\ srv.share \in 1..100 BY DEF Types, TypeOK, Server, Full
<1>2. /\ need.limit \in Nat /\ need.kv \in Nat \ {0} /\ need.overhead \in Nat
      /\ need.config.limit \in {need.limit, NoValue} /\ FitOverhead \in Nat /\ Card \in Nat
  BY NeedsAssumption, ConstantsAssumption DEF Types
<1>3. Sound(s) /\ w # 0 BY DEF RunInv
<1>4. w \in Nat
  <2>1. SelectFiles(need.repo) \subseteq DOMAIN need.repo BY DEF SelectFiles
  <2> QED BY <2>1, NeedsAssumption DEF Types
<1>5. Ctx(s) = Ctx(srv) /\ Ctx(s) \in Nat
  BY <1>1, <1>2 DEF Ctx, ParamsOf, Server, Given
<1>6. budget = Card * srv.share - 100 * (w + need.overhead)
  BY LoadedIsWeighed DEF Budget, ParamsOf, Types
<1>7. budget \in Int /\ usable \in Int /\ budget <= usable
  <2>1. Card * srv.share \in Int BY <1>1, <1>2
  <2> DEFINE c == Card * srv.share
  <2> HIDE DEF c, w, budget
  <2> QED BY <1>2, <1>4, <1>6, <2>1 DEF c
<1>8. budget > 0 /\ Ctx(s) <= need.limit /\ budget \div k >= Ctx(s)
  <2>1. {"no_kv", "kv_len", "kv_small", "ctx_over_model"} \subseteq Codes BY DEF Codes
  <2>2. /\ ~Wrong(s, "no_kv") /\ ~Wrong(s, "kv_len") /\ ~Wrong(s, "kv_small")
        /\ ~Wrong(s, "ctx_over_model")
    BY <1>3, <2>1 DEF Sound
  <2>3. ~(budget <= 0) /\ ~(Ctx(s) > need.limit) BY <2>2 DEF Wrong
  <2>4. budget > 0 /\ ~(Tokens(s) < Ctx(s))
    <3>1. budget > 0
      <4> HIDE DEF budget
      <4> QED BY <1>7, <2>3
    <3> QED BY <2>2, <3>1 DEF Wrong
  <2>5. budget \in Nat /\ k \in Nat \ {0}
    <3> HIDE DEF budget
    <3> QED BY <1>2, <1>7, <2>4
  <2>6. Tokens(s) = budget \div k BY DEF Tokens
  <2>7. budget \div k \in Nat
    <3> HIDE DEF budget, k
    <3> QED BY <2>5, Division
  <2> HIDE DEF budget, k
  <2> QED BY <1>2, <1>5, <2>3, <2>4, <2>6, <2>7
<1>9. usable \in Nat /\ usable > 0 /\ usable \div k >= Ctx(s) /\ usable \div k \in Nat
  <2>1. k \in Nat \ {0} BY <1>2
  <2> HIDE DEF usable, budget, k
  <2>2. budget \in Nat /\ usable \in Nat /\ usable > 0 BY <1>7, <1>8
  <2>3. budget \div k <= usable \div k BY <2>1, <2>2, <1>7, Quotients
  <2>4. budget \div k \in Nat /\ usable \div k \in Nat BY <2>1, <2>2, Division
  <2> QED BY <2>2, <2>3, <2>4, <1>5, <1>8
<1> DEFINE e == Estimated(srv.share)
           t == usable \div k
           l == need.config.limit
<1>10. Given(need.kv) BY <1>2, FitAssumption DEF Given
<1>11. e = [fits |-> usable > 0 /\ w > 0,
            tokens |-> IF t # NoValue /\ l # NoValue /\ l < t THEN l ELSE t]
  <2>1. ~(usable <= 0)
    <3> HIDE DEF usable
    <3> QED BY <1>9
  <2> QED BY <2>1, <1>10 DEF Estimated, Estimate
<1>12. w > 0
  <2> HIDE DEF w
  <2> QED BY <1>3, <1>4
<1> HIDE DEF e, t, l, usable, w
<1>13. e.fits BY <1>9, <1>11, <1>12
<1>14. e.tokens \in {l, t} /\ (e.tokens = l => l # NoValue \/ l = t) BY <1>11
<1>15. e.tokens >= Ctx(srv)
  <2>1. t \in Nat /\ t >= Ctx(s) BY <1>9 DEF t
  <2>2. l # NoValue => l = need.limit BY <1>2 DEF l
  <2> QED BY <1>2, <1>5, <1>8, <1>14, <2>1, <2>2
<1> QED BY <1>13, <1>15 DEF e

\* The estimate turns away no model that would run with its share and its context, provided vLLM
\* needs no less overhead than the estimate allows for and a token costs what the estimate says
\* (hub.py 91-134).  Where vLLM needs less the estimate may be too pessimistic: that is outside.
THEOREM EstimateIsFair == Spec => []RunsFit
<1>1. Init => ReplayInv /\ RunInv BY DEF Init, ReplayInv, RunInv
<1> QED BY <1>1, TypesStart, TypesStay, ReplayInvStays, RunInvStays, RunningFits, PTL DEF Spec

-----------------------------------------------------------------------------
\* What the estimate says fits comes to run

\* The premises of FitRuns that do not change during a start.
Promised ==
  /\ EstimateIsRight /\ Free(DefaultShare) >= FitShare
  /\ Estimated(FitShare).fits
  /\ Estimated(FitShare).tokens # NoValue /\ Estimated(FitShare).tokens >= MinUsefulCtx

\* How often a share may still be too much, on the way down the ladder.
OomsLeft(f) ==
  IF f <= need.safe THEN 0 ELSE 1 + Cardinality({r \in Ladder : need.safe < r /\ r < f})

One(holds) == IF holds THEN 1 ELSE 0

\* The retries that parameters may still need: two for a share too much, since the context may
\* have to be cut again after, one each for the context, the Mamba cache and the compiler.
Left(p) ==
  2 * OomsLeft(p.share) + One(Tokens(p) < Ctx(p))
  + One(Given(need.blocks) /\ Seqs(p) > need.blocks) + One(~need.compiles /\ ~p.args.eager)

FitInv ==
  origin = "plain" /\ srv # NoServer /\ Promised =>
    /\ FitShare <= srv.share /\ srv.share <= Free(DefaultShare)
    /\ srv.ctx = NoValue \/ srv.ctx \in 1..need.limit
    /\ srv.attempts + Left(ParamsOf(srv)) <= 1 + Troubles
    /\ Active /\ unit = NoUnit => log \in Errors(ParamsOf(srv))
    /\ srv.status = "failed" => Troubles >= MaxAttempts

LEMMA LadderFacts ==
  /\ IsFiniteSet(Ladder) /\ Ladder \subseteq 1..Full
  /\ \A S \in SUBSET Ladder : IsFiniteSet(S) /\ Cardinality(S) \in Nat
<1>1. Ladder \subseteq 1..100 BY DEF Ladder
<1>2. IsFiniteSet(1..100)
  <2> DEFINE top == 100
  <2>1. top \in Int OBVIOUS
  <2> HIDE DEF top
  <2>2. IsFiniteSet(1..top) BY <2>1, FS_Interval
  <2> QED BY <2>2 DEF top
<1>3. IsFiniteSet(Ladder) BY <1>1, <1>2, FS_Subset
<1> QED BY <1>1, <1>3, FS_Subset, FS_CardinalityType DEF Full

LEMMA OomsLeftType == ASSUME NEW f PROVE OomsLeft(f) \in Nat
<1> DEFINE S == {r \in Ladder : need.safe < r /\ r < f}
<1>1. S \in SUBSET Ladder OBVIOUS
<1>2. Cardinality(S) \in Nat
  <2> HIDE DEF S
  <2> QED BY <1>1, LadderFacts
<1> QED BY <1>2 DEF OomsLeft

\* Below a share too much lies a rung not below the share of the estimate, with fewer left.
LEMMA RungBelow ==
  ASSUME need.safe \in Nat, FitShare \in Ladder, FitShare <= need.safe,
         NEW f \in 1..Full, need.safe < f
  PROVE  /\ LowerFraction(f) \in 1..Full /\ LowerFraction(f) # NoShare
         /\ FitShare <= LowerFraction(f) /\ LowerFraction(f) < f
         /\ OomsLeft(LowerFraction(f)) + 1 <= OomsLeft(f)
<1> DEFINE below == {g \in Ladder : g < f}
           l == LowerFraction(f)
           S == {r \in Ladder : need.safe < r /\ r < f}
           T == {r \in Ladder : need.safe < r /\ r < l}
<1>1. FitShare \in Nat /\ f \in Nat BY LadderFacts DEF Full
<1>2. FitShare \in below BY <1>1
<1>3. \E g \in below : \A h \in below : h <= g
  <2>1. below # {} BY <1>2
  <2> QED BY <2>1 DEF Ladder
<1>4. l \in below /\ \A h \in below : h <= l BY <1>2, <1>3 DEF LowerFraction
<1> HIDE DEF l
<1>5. l \in 1..Full /\ l < f /\ FitShare <= l /\ l \in Ladder BY <1>2, <1>4, LadderFacts
<1>6. OomsLeft(f) = 1 + Cardinality(S) BY <1>1 DEF OomsLeft
<1>7. S \in SUBSET Ladder /\ T \in SUBSET Ladder OBVIOUS
<1>8. l \notin T BY <1>5
<1>9. CASE l <= need.safe
  <2>1. OomsLeft(l) = 0 BY <1>9 DEF OomsLeft
  <2>2. Cardinality(S) \in Nat
    <3> HIDE DEF S
    <3> QED BY <1>7, LadderFacts
  <2> QED BY <1>5, <1>6, <2>1, <2>2 DEF l, NoShare
<1>10. CASE ~(l <= need.safe)
  <2>1. OomsLeft(l) = 1 + Cardinality(T) BY <1>10 DEF OomsLeft
  <2>2. l \in S BY <1>5, <1>10 DEF Full
  <2>3. T \subseteq S \ {l}
    <3> SUFFICES ASSUME NEW r \in Ladder, need.safe < r, r < l PROVE r \in S /\ r # l OBVIOUS
    <3>1. r \in Nat BY LadderFacts DEF Full
    <3> QED BY <1>1, <1>5, <3>1
  <2> HIDE DEF S, T
  <2>4. IsFiniteSet(S) /\ Cardinality(S) \in Nat /\ Cardinality(T) \in Nat BY <1>7, LadderFacts
  <2>5. IsFiniteSet(S \ {l}) /\ Cardinality(S \ {l}) = Cardinality(S) - 1
    BY <2>2, <2>4, FS_RemoveElement
  <2>6. Cardinality(T) <= Cardinality(S) - 1 BY <2>3, <2>5, FS_Subset
  <2> QED BY <1>5, <1>6, <2>1, <2>4, <2>6 DEF l, NoShare
<1> QED BY <1>9, <1>10

\* A first share has no more left than the ladder has rungs above the share that lasts.
LEMMA RungsAreEnough ==
  ASSUME need.safe \in Nat, DefaultShare \in Ladder, NEW f \in 1..Full, f <= DefaultShare
  PROVE  OomsLeft(f) <= Rungs /\ Rungs \in Nat
<1> DEFINE S == {r \in Ladder : need.safe < r /\ r < f}
           R == {r \in Ladder : need.safe < r /\ r <= DefaultShare}
<1>1. S \in SUBSET Ladder /\ R \in SUBSET Ladder OBVIOUS
<1>2. DefaultShare \in Nat /\ f \in Nat /\ \A r \in Ladder : r \in Nat BY LadderFacts DEF Full
<1>3. Rungs = Cardinality(R) BY DEF Rungs
<1>4. S \subseteq R \ {DefaultShare}
  <2> SUFFICES ASSUME NEW r \in Ladder, need.safe < r, r < f PROVE r \in R /\ r # DefaultShare OBVIOUS
  <2>1. r < DefaultShare BY <1>2
  <2> QED BY <1>2, <2>1
<1>5. need.safe < f => DefaultShare \in R BY <1>2
<1>6. ~(f <= need.safe) => OomsLeft(f) = 1 + Cardinality(S) BY DEF OomsLeft
<1>7. f <= need.safe => OomsLeft(f) = 0 BY DEF OomsLeft
<1> HIDE DEF S, R
<1>8. IsFiniteSet(R) /\ Cardinality(R) \in Nat /\ Cardinality(S) \in Nat BY <1>1, LadderFacts
<1>9. CASE f <= need.safe BY <1>3, <1>7, <1>8, <1>9
<1>10. CASE ~(f <= need.safe)
  <2>1. DefaultShare \in R BY <1>2, <1>5, <1>10
  <2>2. IsFiniteSet(R \ {DefaultShare}) /\ Cardinality(R \ {DefaultShare}) = Cardinality(R) - 1
    BY <1>8, <2>1, FS_RemoveElement
  <2>3. Cardinality(S) <= Cardinality(R) - 1 BY <1>4, <2>2, FS_Subset
  <2> QED BY <1>3, <1>6, <1>8, <1>10, <2>3
<1> QED BY <1>9, <1>10

\* A share not below that of the estimate leaves a context of use.
LEMMA ContextOfUse ==
  ASSUME need \in Needs, Promised, NEW share \in 1..Full, FitShare <= share,
         NEW p, p.share = share
  PROVE  Budget(p) > 0 /\ Tokens(p) \in Nat /\ Tokens(p) >= MinUsefulCtx
<1> DEFINE w == WeightBytes(need.repo, SelectFiles(need.repo))
           usable == Card * FitShare - 100 * (w + FitOverhead)
           k == 100 * need.kv
           b == Budget(p)
           l == need.config.limit
           t == usable \div k
<1>1. /\ need.limit \in Nat /\ need.kv \in Nat \ {0} /\ need.overhead \in Nat
      /\ l \in {need.limit, NoValue} /\ FitOverhead \in Nat /\ Card \in Nat /\ FitShare \in Nat
  BY NeedsAssumption, ConstantsAssumption
<1>2. w \in Nat
  <2>1. SelectFiles(need.repo) \subseteq DOMAIN need.repo BY DEF SelectFiles
  <2> QED BY <2>1, NeedsAssumption
<1>3. need.overhead <= FitOverhead /\ need.kv = KvBytesPerToken(need.config)
  BY DEF Promised, EstimateIsRight
<1>4. b = Card * share - 100 * (w + need.overhead) BY LoadedIsWeighed DEF Budget
<1>5. usable \in Int /\ b \in Int /\ usable <= b
  <2>1. Card * FitShare <= Card * share BY <1>1, Times
  <2>2. Card * FitShare \in Int /\ Card * share \in Int BY <1>1
  <2> DEFINE x == Card * FitShare
             y == Card * share
  <2> HIDE DEF x, y, w, b
  <2> QED BY <1>1, <1>2, <1>3, <1>4, <2>1, <2>2 DEF x, y
<1>6. Given(need.kv) BY <1>1, FitAssumption DEF Given
<1> DEFINE e == Estimated(FitShare)
<1>7. e = [fits |-> usable > 0 /\ w > 0,
           tokens |-> IF (IF usable <= 0 THEN 0 ELSE t) # NoValue /\ l # NoValue
                           /\ l < (IF usable <= 0 THEN 0 ELSE t)
                      THEN l ELSE (IF usable <= 0 THEN 0 ELSE t)]
  BY <1>3, <1>6 DEF Estimated, Estimate
<1>8. e.fits /\ e.tokens >= MinUsefulCtx BY DEF Promised
<1>9. usable > 0
  <2> HIDE DEF usable, w, t, e
  <2>1. e.fits = (usable > 0 /\ w > 0) BY <1>7
  <2> QED BY <1>8, <2>1
<1>10. k \in Nat \ {0} BY <1>1
<1>11. t \in Nat
  <2> HIDE DEF usable, k
  <2>1. usable \in Nat BY <1>5, <1>9
  <2> QED BY <1>10, <2>1, Division
<1>12. t >= MinUsefulCtx
  <2> HIDE DEF usable, k, t, w, e, l
  <2>1. e.tokens = IF t # NoValue /\ l # NoValue /\ l < t THEN l ELSE t BY <1>5, <1>7, <1>9
  <2>2. CASE e.tokens = t BY <1>8, <2>2
  <2>3. CASE e.tokens = l /\ l # NoValue /\ l < t
    <3>1. l \in Nat BY <1>1, <2>3
    <3> QED BY <1>8, <1>11, <2>3, <3>1 DEF MinUsefulCtx
  <2> QED BY <2>1, <2>2, <2>3
<1>13. Tokens(p) = b \div k BY DEF Tokens
<1>14. b > 0 /\ t <= b \div k /\ b \div k \in Nat
  <2> HIDE DEF b, usable, k
  <2>1. b \in Nat /\ usable \in Nat /\ b > 0 BY <1>5, <1>9
  <2> QED BY <1>5, <1>10, <2>1, Quotients, Division
<1> HIDE DEF b, t, k
<1> QED BY <1>11, <1>12, <1>13, <1>14 DEF MinUsefulCtx, b

\* What a launch that the estimate is right about can die of.
LEMMA TroublesOfLaunch ==
  ASSUME need \in Needs, used \in Nat, Promised, NEW p \in Params,
         FitShare <= p.share, p.share <= Free(DefaultShare),
         p.ctx = NoValue \/ p.ctx \in 1..need.limit, NEW error \in Errors(p)
  PROVE  /\ Ctx(p) \in Nat /\ Ctx(p) <= need.limit /\ need.limit \in Nat
         /\ Tokens(p) \in Nat /\ Tokens(p) >= MinUsefulCtx
         /\ \/ error = [code |-> "oom", n |-> 0] /\ need.safe < p.share
            \/ error = [code |-> "kv_len", n |-> Tokens(p)] /\ Tokens(p) < Ctx(p)
            \/ /\ error = [code |-> "mamba", n |-> need.blocks]
               /\ need.blocks \in Nat \ {0} /\ Given(need.blocks) /\ Seqs(p) > need.blocks
            \/ error = [code |-> "compile", n |-> 0] /\ ~need.compiles /\ ~p.args.eager
<1>1. PICK c \in Codes : Wrong(p, c) /\ error = [code |-> c, n |-> Named(p, c)] BY DEF Errors
<1>2. need.limit \in Nat /\ need.blocks \in Nat \cup {NoValue} /\ need.safe \in Nat
  BY NeedsAssumption
<1>3. Ctx(p) \in Nat /\ Ctx(p) <= need.limit BY <1>2 DEF Ctx, Given
<1>4. p.share \in 1..Full BY DEF Params
<1>5. Budget(p) > 0 /\ Tokens(p) \in Nat /\ Tokens(p) >= MinUsefulCtx BY <1>4, ContextOfUse
<1>6. EstimateIsRight BY DEF Promised
<1> HIDE DEF Tokens, Budget
<1>7. CASE c = "ctx_over_model" BY <1>1, <1>2, <1>3, <1>7 DEF Wrong
<1>8. CASE c = "taken"
  <2>1. Card * p.share <= 100 * (Card - used) BY NotTaken
  <2>2. Card * p.share > 100 * (Card - used) BY <1>1, <1>8 DEF Wrong
  <2>3. Card * p.share \in Int /\ 100 * (Card - used) \in Int BY <1>4, ConstantsAssumption
  <2> DEFINE x == Card * p.share
             y == 100 * (Card - used)
  <2> HIDE DEF x, y
  <2> QED BY <2>1, <2>2, <2>3 DEF x, y
<1>9. CASE c = "oom" BY <1>1, <1>2, <1>3, <1>4, <1>5, <1>9 DEF Wrong, Named
<1>10. CASE c = "no_kv"
  <2>1. Budget(p) \in Int
    <3>1. SelectFiles(need.repo) \subseteq DOMAIN need.repo BY DEF SelectFiles
    <3>2. Loaded \in Nat BY <3>1, LoadedIsWeighed, NeedsAssumption
    <3>3. need.overhead \in Nat /\ Card * p.share \in Int
      BY <1>4, NeedsAssumption, ConstantsAssumption
    <3> HIDE DEF Loaded
    <3> QED BY <3>2, <3>3 DEF Budget
  <2>2. Budget(p) <= 0 BY <1>1, <1>10 DEF Wrong
  <2> QED BY <1>5, <2>1, <2>2
<1>11. CASE c = "kv_len" BY <1>1, <1>2, <1>3, <1>5, <1>11 DEF Wrong, Named
<1>12. CASE c = "kv_small" BY <1>1, <1>6, <1>12 DEF Wrong, EstimateIsRight
<1>13. CASE c = "mamba" BY <1>1, <1>2, <1>3, <1>5, <1>13 DEF Wrong, Named, Given
<1>14. CASE c = "compile" BY <1>1, <1>2, <1>3, <1>5, <1>14 DEF Wrong, Named
<1>15. CASE c = "other" BY <1>1, <1>6, <1>15 DEF Wrong, EstimateIsRight
<1> QED
  BY <1>7, <1>8, <1>9, <1>10, <1>11, <1>12, <1>13, <1>14, <1>15 DEF Codes

\* Advice on a context of use is a context within it.
LEMMA AdviceOfUse ==
  ASSUME NEW n \in Nat, n >= MinUsefulCtx
  PROVE  \E c \in 1..n : Advice([code |-> "kv_len", n |-> n]) = [code |-> "kv_len", n |-> c]
<1> DEFINE c == IF n < CtxRound THEN n ELSE (n \div CtxRound) * CtxRound
           q == n \div 1024
<1>1. q \in Nat /\ 1024 * q <= n /\ (n >= 1024 => q >= 1) OBVIOUS
<1>2. c = IF n < 1024 THEN n ELSE q * 1024 BY DEF CtxRound
<1> HIDE DEF q, c
<1>3. c \in 1..n BY <1>1, <1>2 DEF MinUsefulCtx
<1>4. ~(n < MinUsefulCtx) BY DEF MinUsefulCtx
<1>5. Advice([code |-> "kv_len", n |-> n]) = [code |-> "kv_len", n |-> c] BY <1>4 DEF Advice, c
<1> QED BY <1>3, <1>5

\* The parameters Fixes tries, by the code of the error.
Retried(t) == [t EXCEPT !.attempts = @ + 1, !.status = "starting"]

LEMMA FixesByCode ==
  ASSUME NEW s, NEW e
  PROVE  LET Fixed(r) == Fixes(s, e) = IF s.attempts >= MaxAttempts THEN {} ELSE {Retried(r)}
         IN  /\ e.code = "oom" => \A r : Lowered(s) = {r} => Fixed(r)
             /\ e.code = "kv_len" => Fixed([s EXCEPT !.ctx = e.n])
             /\ e.code = "mamba" /\ e.n >= 1 => Fixed([s EXCEPT !.args.seqs = e.n])
             /\ e.code = "compile" /\ ~s.args.eager => Fixed([s EXCEPT !.args.eager = TRUE])
<1>1. ASSUME e.code = "oom", NEW r, Lowered(s) = {r}
      PROVE  Fixes(s, e) = IF s.attempts >= MaxAttempts THEN {} ELSE {Retried(r)}
  BY <1>1 DEF Fixes, Retried
<1>2. ASSUME e.code = "kv_len"
      PROVE  Fixes(s, e) = IF s.attempts >= MaxAttempts THEN {} ELSE {Retried([s EXCEPT !.ctx = e.n])}
  BY <1>2 DEF Fixes, Retried
<1>3. ASSUME e.code = "mamba", e.n >= 1
      PROVE  Fixes(s, e) = IF s.attempts >= MaxAttempts THEN {} ELSE {Retried([s EXCEPT !.args.seqs = e.n])}
  BY <1>3 DEF Fixes, Retried
<1>4. ASSUME e.code = "compile", ~s.args.eager
      PROVE  Fixes(s, e) = IF s.attempts >= MaxAttempts THEN {} ELSE {Retried([s EXCEPT !.args.eager = TRUE])}
  BY <1>4 DEF Fixes, Retried
<1> QED BY <1>1, <1>2, <1>3, <1>4

LEMMA OneIs == \A b \in BOOLEAN : One(b) \in {0, 1} /\ (One(b) = 1 <=> b)
BY DEF One

\* A launch the estimate is right about that dies is fixed with one trouble less, or its attempts
\* are used up.
LEMMA FixProgress ==
  ASSUME need \in Needs, used \in Nat, Promised, FitShare \in Ladder, NEW s \in Server,
         FitShare <= s.share, s.share <= Free(DefaultShare),
         s.ctx = NoValue \/ s.ctx \in 1..need.limit, NEW error \in Errors(ParamsOf(s))
  PROVE  \E r \in Server :
           /\ Fixes(s, Advice(error)) = IF s.attempts >= MaxAttempts THEN {} ELSE {Retried(r)}
           /\ r.attempts = s.attempts
           /\ FitShare <= r.share /\ r.share <= Free(DefaultShare)
           /\ r.ctx = NoValue \/ r.ctx \in 1..need.limit
           /\ Left(ParamsOf(r)) + 1 <= Left(ParamsOf(s))
<1> DEFINE p == ParamsOf(s)
           oom(x) == OomsLeft(x.share)
           kv(x) == One(Tokens(x) < Ctx(x))
           mamba(x) == One(Given(need.blocks) /\ Seqs(x) > need.blocks)
           compile(x) == One(~need.compiles /\ ~x.args.eager)
<1>1. p \in Params /\ p.share = s.share /\ p.ctx = s.ctx /\ p.args = s.args
  BY ParamsTypes DEF ParamsOf
<1>2. /\ Ctx(p) \in Nat /\ Ctx(p) <= need.limit /\ need.limit \in Nat
      /\ Tokens(p) \in Nat /\ Tokens(p) >= MinUsefulCtx
      /\ \/ error = [code |-> "oom", n |-> 0] /\ need.safe < p.share
         \/ error = [code |-> "kv_len", n |-> Tokens(p)] /\ Tokens(p) < Ctx(p)
         \/ /\ error = [code |-> "mamba", n |-> need.blocks]
            /\ need.blocks \in Nat \ {0} /\ Given(need.blocks) /\ Seqs(p) > need.blocks
         \/ error = [code |-> "compile", n |-> 0] /\ ~need.compiles /\ ~p.args.eager
  BY <1>1, TroublesOfLaunch
<1>3. \A x : /\ Left(x) = 2 * oom(x) + kv(x) + mamba(x) + compile(x)
             /\ oom(x) \in Nat /\ kv(x) \in {0, 1} /\ mamba(x) \in {0, 1} /\ compile(x) \in {0, 1}
  BY OomsLeftType DEF Left, One
<1>4. /\ Tokens(p) < Ctx(p) => kv(p) = 1
      /\ Given(need.blocks) /\ Seqs(p) > need.blocks => mamba(p) = 1
      /\ ~need.compiles /\ ~p.args.eager => compile(p) = 1
  BY DEF One
<1>5. ASSUME NEW x, x.args = p.args PROVE mamba(x) = mamba(p) /\ compile(x) = compile(p)
  BY <1>5 DEF Seqs
<1>6. ASSUME NEW x, x.share = p.share PROVE Tokens(x) = Tokens(p) /\ oom(x) = oom(p)
  BY <1>6 DEF Tokens, Budget
<1>7. ASSUME NEW x, x.share = p.share, x.ctx = p.ctx PROVE kv(x) = kv(p)
  BY <1>6, <1>7 DEF Ctx
<1>8. CASE error = [code |-> "oom", n |-> 0] /\ need.safe < p.share
  <2> DEFINE f == LowerFraction(s.share)
             r == [s EXCEPT !.share = f]
  <2>1. need.safe \in Nat /\ FitShare <= need.safe
    <3>1. need.safe \in Nat /\ FitShare \in Nat BY NeedsAssumption, ConstantsAssumption
    <3>2. need.safe >= FitShare BY DEF Promised, EstimateIsRight
    <3> QED BY <3>1, <3>2
  <2>2. s.share \in 1..Full BY DEF Server
  <2>3. /\ f \in 1..Full /\ f # NoShare /\ FitShare <= f /\ f < s.share
        /\ OomsLeft(f) + 1 <= OomsLeft(s.share)
    BY <1>1, <1>8, <2>1, <2>2, RungBelow
  <2>4. Lowered(s) = {r} BY <2>3 DEF Lowered
  <2> HIDE DEF f
  <2>5. r \in Server /\ r.attempts = s.attempts /\ r.share = f /\ r.ctx = s.ctx /\ r.args = s.args
    BY <2>3 DEF Server
  <2> HIDE DEF r
  <2>6. Advice(error) = error /\ error.code = "oom" BY <1>8 DEF Advice
  <2>7. Fixes(s, Advice(error)) = IF s.attempts >= MaxAttempts THEN {} ELSE {Retried(r)}
    BY <2>4, <2>6, FixesByCode
  <2>8. Free(DefaultShare) \in 0..Full
    <3>1. DefaultShare \in 0..Full BY ConstantsAssumption DEF MinFraction, Full
    <3> QED BY <3>1, FreeBounds
  <2>9. FitShare <= r.share /\ r.share <= Free(DefaultShare) BY <2>2, <2>3, <2>5, <2>8 DEF Full
  <2> DEFINE x == ParamsOf(r)
  <2>10. x.share = f /\ x.args = p.args BY <1>1, <2>5 DEF ParamsOf
  <2> HIDE DEF x
  <2>11. mamba(x) = mamba(p) /\ compile(x) = compile(p) BY <1>5, <2>10
  <2>12. oom(x) + 1 <= oom(p) BY <1>1, <2>3, <2>10
  <2>13. Left(x) + 1 <= Left(p)
    <3> HIDE DEF oom, kv, mamba, compile, p
    <3> QED BY <1>3, <2>11, <2>12
  <2> QED BY <2>5, <2>7, <2>9, <2>13 DEF x
<1>9. CASE error = [code |-> "kv_len", n |-> Tokens(p)] /\ Tokens(p) < Ctx(p)
  <2>1. PICK c \in 1..Tokens(p) : Advice(error) = [code |-> "kv_len", n |-> c]
    BY <1>2, <1>9, AdviceOfUse
  <2> DEFINE r == [s EXCEPT !.ctx = c]
  <2>2. c \in Nat /\ c >= 1 /\ c <= Tokens(p) /\ c <= need.limit
    BY <1>2, <1>9, <2>1
  <2>3. r \in Server /\ r.attempts = s.attempts /\ r.share = s.share /\ r.ctx = c /\ r.args = s.args
    BY <2>2 DEF Server
  <2>4. Fixes(s, Advice(error)) = IF s.attempts >= MaxAttempts THEN {} ELSE {Retried(r)}
    <3> DEFINE e == Advice(error)
    <3>1. e.code = "kv_len" /\ e.n = c BY <2>1
    <3> HIDE DEF e
    <3>2. Fixes(s, e) = IF s.attempts >= MaxAttempts THEN {} ELSE {Retried([s EXCEPT !.ctx = e.n])}
      BY <3>1, FixesByCode
    <3> QED BY <3>1, <3>2 DEF e
  <2> HIDE DEF r
  <2> DEFINE x == ParamsOf(r)
  <2>5. x.share = p.share /\ x.args = p.args /\ x.ctx = c BY <1>1, <2>3 DEF ParamsOf
  <2> HIDE DEF x
  <2>6. mamba(x) = mamba(p) /\ compile(x) = compile(p) /\ oom(x) = oom(p) /\ Tokens(x) = Tokens(p)
    BY <1>5, <1>6, <2>5
  <2>7. c # NoValue BY <2>2, FitAssumption
  <2>8. Ctx(x) = c BY <2>2, <2>5, <2>7 DEF Ctx, Given
  <2>9. ~(Tokens(x) < Ctx(x)) BY <1>2, <2>2, <2>6, <2>8
  <2>10. kv(x) = 0 /\ kv(p) = 1 BY <1>4, <1>9, <2>9 DEF One
  <2>11. Left(x) + 1 <= Left(p)
    <3> HIDE DEF oom, kv, mamba, compile, p
    <3> QED BY <1>3, <2>6, <2>10
  <2>12. c \in 1..need.limit BY <1>2, <2>2
  <2> QED BY <2>3, <2>4, <2>11, <2>12 DEF x
<1>10. CASE /\ error = [code |-> "mamba", n |-> need.blocks]
            /\ need.blocks \in Nat \ {0} /\ Given(need.blocks) /\ Seqs(p) > need.blocks
  <2> DEFINE r == [s EXCEPT !.args.seqs = need.blocks]
  <2>1. s.args \in Args BY DEF Server
  <2>2. r = [s EXCEPT !.args = [s.args EXCEPT !.seqs = need.blocks]] OBVIOUS
  <2>3. /\ [s.args EXCEPT !.seqs = need.blocks] \in Args
        /\ [s.args EXCEPT !.seqs = need.blocks].eager = s.args.eager
        /\ [s.args EXCEPT !.seqs = need.blocks].seqs = need.blocks
    BY <1>10, <2>1 DEF Args
  <2>4. /\ r \in Server /\ r.attempts = s.attempts /\ r.share = s.share /\ r.ctx = s.ctx
        /\ r.args.seqs = need.blocks /\ r.args.eager = s.args.eager
    <3> DEFINE a == [s.args EXCEPT !.seqs = need.blocks]
    <3> HIDE DEF a
    <3>1. a \in Args /\ a.eager = s.args.eager /\ a.seqs = need.blocks BY <2>3 DEF a
    <3>2. r = [s EXCEPT !.args = a] BY <2>2 DEF a
    <3> HIDE DEF r
    <3>3. r \in Server /\ r.attempts = s.attempts /\ r.share = s.share /\ r.ctx = s.ctx /\ r.args = a
      BY <3>1, <3>2 DEF Server
    <3> QED BY <3>1, <3>3
  <2>5. Advice(error) = error /\ error.code = "mamba" /\ error.n = need.blocks /\ error.n >= 1
    BY <1>10 DEF Advice
  <2>6. Fixes(s, Advice(error)) = IF s.attempts >= MaxAttempts THEN {} ELSE {Retried(r)}
    <3> DEFINE e == Advice(error)
    <3>1. e.code = "mamba" /\ e.n = need.blocks /\ e.n >= 1 BY <2>5
    <3> HIDE DEF e
    <3>2. Fixes(s, e) = IF s.attempts >= MaxAttempts THEN {} ELSE {Retried([s EXCEPT !.args.seqs = e.n])}
      BY <3>1, FixesByCode
    <3> QED BY <3>1, <3>2 DEF e
  <2> HIDE DEF r
  <2> DEFINE x == ParamsOf(r)
  <2>7. /\ x.share = p.share /\ x.ctx = p.ctx /\ x.args.eager = p.args.eager
        /\ x.args.seqs = need.blocks
    BY <1>1, <2>4 DEF ParamsOf
  <2> HIDE DEF x
  <2>8. kv(x) = kv(p) /\ oom(x) = oom(p) BY <1>6, <1>7, <2>7
  <2>9. compile(x) = compile(p) BY <2>7
  <2>10. Seqs(x) = need.blocks BY <1>10, <2>7, FitAssumption DEF Seqs
  <2>11. ~(Seqs(x) > need.blocks) BY <1>10, <2>10
  <2>12. mamba(x) = 0 /\ mamba(p) = 1 BY <1>4, <1>10, <2>11 DEF One
  <2>13. Left(x) + 1 <= Left(p)
    <3> HIDE DEF oom, kv, mamba, compile, p
    <3> QED BY <1>3, <2>8, <2>9, <2>12
  <2> QED BY <2>4, <2>6, <2>13 DEF x
<1>11. CASE error = [code |-> "compile", n |-> 0] /\ ~need.compiles /\ ~p.args.eager
  <2> DEFINE r == [s EXCEPT !.args.eager = TRUE]
  <2>1. s.args \in Args BY DEF Server
  <2>2. r = [s EXCEPT !.args = [s.args EXCEPT !.eager = TRUE]] OBVIOUS
  <2>3. /\ [s.args EXCEPT !.eager = TRUE] \in Args
        /\ [s.args EXCEPT !.eager = TRUE].eager = TRUE
        /\ [s.args EXCEPT !.eager = TRUE].seqs = s.args.seqs
    BY <2>1 DEF Args
  <2>4. /\ r \in Server /\ r.attempts = s.attempts /\ r.share = s.share /\ r.ctx = s.ctx
        /\ r.args.seqs = s.args.seqs /\ r.args.eager = TRUE
    <3> DEFINE a == [s.args EXCEPT !.eager = TRUE]
    <3> HIDE DEF a
    <3>1. a \in Args /\ a.eager = TRUE /\ a.seqs = s.args.seqs BY <2>3 DEF a
    <3>2. r = [s EXCEPT !.args = a] BY <2>2 DEF a
    <3> HIDE DEF r
    <3>3. r \in Server /\ r.attempts = s.attempts /\ r.share = s.share /\ r.ctx = s.ctx /\ r.args = a
      BY <3>1, <3>2 DEF Server
    <3> QED BY <3>1, <3>3
  <2>5. Advice(error) = error /\ error.code = "compile" /\ ~s.args.eager BY <1>1, <1>11 DEF Advice
  <2>6. Fixes(s, Advice(error)) = IF s.attempts >= MaxAttempts THEN {} ELSE {Retried(r)}
    BY <2>5, FixesByCode
  <2> HIDE DEF r
  <2> DEFINE x == ParamsOf(r)
  <2>7. /\ x.share = p.share /\ x.ctx = p.ctx /\ x.args.eager = TRUE
        /\ x.args.seqs = p.args.seqs
    BY <1>1, <2>4 DEF ParamsOf
  <2> HIDE DEF x
  <2>8. kv(x) = kv(p) /\ oom(x) = oom(p) BY <1>6, <1>7, <2>7
  <2>9. Seqs(x) = Seqs(p) BY <2>7 DEF Seqs
  <2>10. mamba(x) = mamba(p) BY <2>9
  <2>11. compile(x) = 0 /\ compile(p) = 1 BY <1>4, <1>11, <2>7 DEF One
  <2>12. Left(x) + 1 <= Left(p)
    <3> HIDE DEF oom, kv, mamba, compile, p
    <3> QED BY <1>3, <2>8, <2>10, <2>11
  <2> QED BY <2>4, <2>6, <2>12 DEF x
<1> QED BY <1>2, <1>8, <1>9, <1>10, <1>11

LEMMA LeftType == \A p : Left(p) \in Nat
<1> TAKE p
<1> DEFINE a == One(Tokens(p) < Ctx(p))
           b == One(Given(need.blocks) /\ Seqs(p) > need.blocks)
           c == One(~need.compiles /\ ~p.args.eager)
<1>1. a \in {0, 1} /\ b \in {0, 1} /\ c \in {0, 1} BY DEF One
<1>2. OomsLeft(p.share) \in Nat BY OomsLeftType
<1>3. Left(p) = 2 * OomsLeft(p.share) + a + b + c BY DEF Left
<1> HIDE DEF a, b, c
<1> QED BY <1>1, <1>2, <1>3

LEMMA TroublesType == Troubles \in Nat
<1> DEFINE R == {f \in Ladder : need.safe < f /\ f <= DefaultShare}
           m == IF Given(need.blocks) THEN 1 ELSE 0
           c == IF need.compiles THEN 0 ELSE 1
<1>1. R \in SUBSET Ladder /\ m \in {0, 1} /\ c \in {0, 1} OBVIOUS
<1>2. Troubles = 2 * Cardinality(R) + 1 + m + c BY DEF Troubles, Rungs
<1> HIDE DEF R, m, c
<1> QED BY <1>1, <1>2, LadderFacts

LEMMA FreeWithin ==
  ASSUME used \in Nat, NEW limit \in 0..Full
  PROVE  Free(limit) <= limit
<1>1. MemFree \in 0..Full BY MemFreeBounds
<1> QED BY <1>1 DEF Free, FreeShare, Lesser, Full

\* Nothing of the promise changes while the model and the rest of the card stay the same.
LEMMA PromiseStays ==
  ASSUME UNCHANGED <<need, used>>
  PROVE  /\ Promised' = Promised /\ Troubles' = Troubles
         /\ Free(DefaultShare)' = Free(DefaultShare)
         /\ \A p : Left(p)' = Left(p) /\ Errors(p)' = Errors(p)
<1>1. MemFree' = MemFree BY DEF MemFree
<1>2. Free(DefaultShare)' = Free(DefaultShare) BY <1>1 DEF Free
<1>3. Promised' = Promised BY <1>2 DEF Promised, EstimateIsRight, Estimated
<1>4. Troubles' = Troubles BY DEF Troubles, Rungs
<1>5. Loaded' = Loaded BY DEF Loaded
<1>6. \A p : Tokens(p)' = Tokens(p) /\ Budget(p)' = Budget(p) /\ Ctx(p)' = Ctx(p) /\ Seqs(p)' = Seqs(p)
  BY <1>5 DEF Tokens, Budget, Ctx, Seqs
<1>7. \A f : OomsLeft(f)' = OomsLeft(f) BY DEF OomsLeft
<1>8. \A p : Left(p)' = Left(p) BY <1>6, <1>7 DEF Left, One
<1>9. \A p, c : Wrong(p, c)' = Wrong(p, c) /\ Named(p, c)' = Named(p, c)
  BY <1>6 DEF Wrong, Named
<1>10. \A p : Errors(p)' = Errors(p) BY <1>9 DEF Errors
<1> QED BY <1>2, <1>3, <1>4, <1>8, <1>10

\* A first start by the defaults has no more retries before it than troubles.
LEMMA PlainStart ==
  ASSUME Types, Promised, FitShare \in Ladder, DefaultShare \in Ladder,
         NEW ask \in Asks, OriginOf(ask) = "plain", NEW f \in Grants(ask.share)
  PROVE  /\ FitShare <= f /\ f <= Free(DefaultShare) /\ CtxFor(ask.ctx) = NoValue
         /\ \A p : p.share = f => Left(p) <= Troubles
<1>1. ask.share = NoValue /\ ask.ctx = NoValue /\ ProfileOf(Model) = NoProfile
  <2>1. DOMAIN ask = {"share", "ctx", "args"} BY ConstantsAssumption
  <2>2. ask["share"] = NoValue /\ ask["ctx"] = NoValue BY <2>1 DEF OriginOf
  <2>3. ProfileOf(Model) = NoProfile
    <3>1. "plain" # "asked" /\ "plain" # "replay" /\ "plain" # "profile" OBVIOUS
    <3> QED BY <3>1 DEF OriginOf
  <2> QED BY <2>2, <2>3
<1>2. used \in Nat /\ need.safe \in Nat /\ DefaultShare \in 1..Full /\ FitShare \in Nat
  BY NeedsAssumption, ConstantsAssumption DEF Types, TypeOK, MinFraction, Full
<1>3. f = Lesser(DefaultShare, Free(DefaultShare)) BY <1>1 DEF Grants, Ceiling
<1>4. Free(DefaultShare) \in 0..Full /\ Free(DefaultShare) <= DefaultShare
  <2>1. DefaultShare \in 0..Full BY <1>2 DEF Full
  <2> QED BY <1>2, <2>1, FreeBounds, FreeWithin
<1>5. FitShare <= Free(DefaultShare) BY <1>2, <1>4 DEF Promised, Full
<1>6. f = Free(DefaultShare) /\ f <= DefaultShare /\ f \in 1..Full
  <2>1. f \in 1..Full BY GrantTypes DEF Types
  <2> QED BY <1>2, <1>3, <1>4, <2>1 DEF Lesser, Full
<1>7. OomsLeft(f) <= Rungs /\ Rungs \in Nat /\ OomsLeft(f) \in Nat
  BY <1>2, <1>6, RungsAreEnough, OomsLeftType
<1>8. ASSUME NEW p, p.share = f PROVE Left(p) <= Troubles
  <2> DEFINE kv == One(Tokens(p) < Ctx(p))
             mamba == One(Given(need.blocks) /\ Seqs(p) > need.blocks)
             compile == One(~need.compiles /\ ~p.args.eager)
             m == IF Given(need.blocks) THEN 1 ELSE 0
             c == IF need.compiles THEN 0 ELSE 1
  <2>1. kv \in {0, 1} /\ mamba \in {0, 1} /\ compile \in {0, 1} /\ m \in {0, 1} /\ c \in {0, 1}
    BY DEF One
  <2>2. mamba <= m /\ compile <= c BY DEF One
  <2>3. Left(p) = 2 * OomsLeft(f) + kv + mamba + compile BY <1>8 DEF Left
  <2>4. Troubles = 2 * Rungs + 1 + m + c BY DEF Troubles
  <2> HIDE DEF kv, mamba, compile, m, c
  <2> QED BY <1>7, <2>1, <2>2, <2>3, <2>4
<1> QED BY <1>1, <1>5, <1>6, <1>8, <1>2, <1>4 DEF CtxFor, Full

LEMMA FitInvStays ==
  ASSUME FitShare \in Ladder, DefaultShare \in Ladder
  PROVE  Types /\ Types' /\ ReplayInv /\ FitInv /\ [Next]_vars => FitInv'
<1> SUFFICES ASSUME Types, Types', ReplayInv, FitInv, [Next]_vars, origin' = "plain", srv' # NoServer, Promised'
             PROVE  /\ FitShare <= srv'.share /\ srv'.share <= Free(DefaultShare)'
                    /\ srv'.ctx = NoValue \/ srv'.ctx \in 1..need'.limit
                    /\ srv'.attempts + Left(ParamsOf(srv))' <= 1 + Troubles'
                    /\ Active' /\ unit' = NoUnit => log' \in Errors(ParamsOf(srv))'
                    /\ srv'.status = "failed" => Troubles' >= MaxAttempts
  BY DEF FitInv
<1> USE DEF file, history, bounds
<1> DEFINE q == ParamsOf(srv')
           free == Free(DefaultShare)
           Goal == /\ FitShare <= srv'.share /\ srv'.share <= free
                   /\ srv'.ctx = NoValue \/ srv'.ctx \in 1..need.limit
                   /\ srv'.attempts + Left(q) <= 1 + Troubles
                   /\ Active' /\ unit' = NoUnit => log' \in Errors(q)
                   /\ srv'.status = "failed" => Troubles >= MaxAttempts
<1>1. UNCHANGED <<need, used>>
  <2>1. CASE VllmBreaks \/ OthersChange BY <2>1 DEF VllmBreaks, OthersChange, Disturb
  <2>2. CASE ~(VllmBreaks \/ OthersChange)
    BY <2>2 DEF Next, Start, Stop, Retry, GiveUp, Healthy, SaveProfile, VllmUp, VllmDies,
                EditProfiles, vars
  <2> QED BY <2>1, <2>2
<1>2. /\ Promised /\ Troubles' = Troubles /\ Free(DefaultShare)' = free
      /\ \A p : Left(p)' = Left(p) /\ Errors(p)' = Errors(p)
  BY <1>1, PromiseStays
<1>3. (ParamsOf(srv))' = q BY DEF ParamsOf
<1>4. SUFFICES Goal
  <2>1. Left(ParamsOf(srv))' = Left(q) /\ Errors(ParamsOf(srv))' = Errors(q)
    <3> HIDE DEF q
    <3> QED BY <1>2, <1>3
  <2> QED BY <1>1, <1>2, <2>1
<1>5. need \in Needs /\ used \in Nat BY DEF Types, TypeOK
<1>6. ASSUME srv # NoServer, origin = "plain"
      PROVE  /\ FitShare <= srv.share /\ srv.share <= free
             /\ srv.ctx = NoValue \/ srv.ctx \in 1..need.limit
             /\ srv.attempts + Left(ParamsOf(srv)) <= 1 + Troubles
             /\ Active /\ unit = NoUnit => log \in Errors(ParamsOf(srv))
             /\ srv.status = "failed" => Troubles >= MaxAttempts
  BY <1>2, <1>6 DEF FitInv
<1>7. CASE Start
  <2>0. PICK ask \in Asks :
          /\ \E f \in Grants(ask.share) :
               srv' = [share |-> f, ctx |-> CtxFor(ask.ctx), args |-> ArgsFor(ask.args),
                       explicit |-> ask.share # NoValue, status |-> "starting", attempts |-> 1]
          /\ OriginOf(ask) = "plain"
    BY <1>7 DEF Start
  <2>1. PICK f \in Grants(ask.share) :
          srv' = [share |-> f, ctx |-> CtxFor(ask.ctx), args |-> ArgsFor(ask.args),
                  explicit |-> ask.share # NoValue, status |-> "starting", attempts |-> 1]
    BY <2>0
  <2>2. /\ FitShare <= f /\ f <= free /\ CtxFor(ask.ctx) = NoValue
        /\ \A p : p.share = f => Left(p) <= Troubles
    BY <1>2, <2>0, <2>1, PlainStart
  <2>3. q.share = f /\ srv'.share = f /\ srv'.ctx = NoValue /\ srv'.attempts = 1 /\ srv'.status = "starting"
    BY <2>1, <2>2 DEF ParamsOf
  <2>4. unit' # NoUnit
    <3>1. srv' \in Server BY DEF Types, TypeOK
    <3>2. ParamsOf(srv') \in Params BY <3>1, ParamsTypes
    <3>3. unit' = [params |-> ParamsOf(srv'), up |-> FALSE] BY <1>7 DEF Start, Launch
    <3>4. unit' \in [params : Params, up : BOOLEAN] BY <3>2, <3>3
    <3> QED BY <3>4, NullsAssumption
  <2>5. Left(q) <= Troubles BY <2>2, <2>3
  <2> HIDE DEF q, free
  <2>6. 1 + Left(q) <= 1 + Troubles
    <3>1. Left(q) \in Int /\ Troubles \in Int BY LeftType, TroublesType
    <3> QED BY <2>5, <3>1
  <2> QED BY <2>2, <2>3, <2>4, <2>6
<1>8. CASE Stop
  <2>1. srv \in Server /\ srv # NoServer /\ srv' = [srv EXCEPT !.status = "stopped"] /\ origin = "plain"
    BY <1>8 DEF Stop, Active, Types, TypeOK
  <2>2. /\ q = ParamsOf(srv) /\ srv'.status = "stopped" /\ srv'.share = srv.share
        /\ srv'.ctx = srv.ctx /\ srv'.attempts = srv.attempts /\ ~Active'
    BY <2>1 DEF Server, ParamsOf, Active
  <2> HIDE DEF q, free
  <2> QED BY <1>6, <2>1, <2>2
<1>9. CASE Retry
  <2>1. /\ srv \in Server /\ srv # NoServer /\ Active /\ unit = NoUnit /\ origin = "plain"
        /\ srv' \in Fixes(srv, Advice(log))
    BY <1>9 DEF Retry, Dead, Active, Types, TypeOK
  <2>2. log \in Errors(ParamsOf(srv)) /\ srv.attempts + Left(ParamsOf(srv)) <= 1 + Troubles
    BY <1>6, <2>1
  <2>3. PICK r \in Server :
          /\ Fixes(srv, Advice(log)) = IF srv.attempts >= MaxAttempts THEN {} ELSE {Retried(r)}
          /\ r.attempts = srv.attempts
          /\ FitShare <= r.share /\ r.share <= free
          /\ r.ctx = NoValue \/ r.ctx \in 1..need.limit
          /\ Left(ParamsOf(r)) + 1 <= Left(ParamsOf(srv))
    BY <1>2, <1>5, <1>6, <2>1, <2>2, FixProgress
  <2>4. srv' = Retried(r) BY <2>1, <2>3
  <2>5. /\ q = ParamsOf(r) /\ srv'.status = "starting" /\ srv'.share = r.share
        /\ srv'.ctx = r.ctx /\ srv'.attempts = r.attempts + 1
    BY <2>4 DEF Retried, Server, ParamsOf
  <2>6. unit' # NoUnit
    <3>1. srv' \in Server BY DEF Types, TypeOK
    <3>2. ParamsOf(srv') \in Params BY <3>1, ParamsTypes
    <3>3. unit' = [params |-> ParamsOf(srv'), up |-> FALSE] BY <1>9 DEF Retry, Launch
    <3>4. unit' \in [params : Params, up : BOOLEAN] BY <3>2, <3>3
    <3> QED BY <3>4, NullsAssumption
  <2> HIDE DEF q, free
  <2>7. srv'.attempts + Left(q) <= 1 + Troubles
    <3>1. Left(q) \in Int /\ Left(ParamsOf(srv)) \in Int /\ Troubles \in Int BY LeftType, TroublesType
    <3>2. srv.attempts \in Int BY <2>1 DEF Server
    <3>3. Left(q) + 1 <= Left(ParamsOf(srv)) /\ srv'.attempts = srv.attempts + 1 BY <2>3, <2>5
    <3> QED BY <2>2, <3>1, <3>2, <3>3
  <2> QED BY <2>3, <2>5, <2>6, <2>7
<1>10. CASE GiveUp
  <2>1. /\ srv \in Server /\ srv # NoServer /\ Active /\ unit = NoUnit /\ origin = "plain"
        /\ Fixes(srv, Advice(log)) = {} /\ srv' = [srv EXCEPT !.status = "failed"]
    BY <1>10 DEF GiveUp, Dead, Active, Types, TypeOK
  <2>2. log \in Errors(ParamsOf(srv)) /\ srv.attempts + Left(ParamsOf(srv)) <= 1 + Troubles
    BY <1>6, <2>1
  <2>3. PICK r \in Server :
          /\ Fixes(srv, Advice(log)) = IF srv.attempts >= MaxAttempts THEN {} ELSE {Retried(r)}
          /\ Left(ParamsOf(r)) + 1 <= Left(ParamsOf(srv))
    BY <1>2, <1>5, <1>6, <2>1, <2>2, FixProgress
  <2>4. srv.attempts >= MaxAttempts BY <2>1, <2>3
  <2>5. Troubles >= MaxAttempts
    <3>1. Left(ParamsOf(r)) \in Nat /\ Left(ParamsOf(srv)) \in Nat /\ Troubles \in Nat
      BY LeftType, TroublesType
    <3>2. srv.attempts \in Nat BY <2>1 DEF Server, MaxAttempts
    <3> QED BY <2>2, <2>3, <2>4, <3>1, <3>2 DEF MaxAttempts
  <2>6. /\ q = ParamsOf(srv) /\ srv'.status = "failed" /\ srv'.share = srv.share
        /\ srv'.ctx = srv.ctx /\ srv'.attempts = srv.attempts /\ ~Active'
    BY <2>1 DEF Server, ParamsOf, Active
  <2> HIDE DEF q, free
  <2> QED BY <1>6, <2>1, <2>5, <2>6
<1>11. CASE Healthy
  <2>1. /\ srv \in Server /\ srv # NoServer /\ srv' = [srv EXCEPT !.status = "running"]
        /\ origin = "plain" /\ unit' # NoUnit
    BY <1>11 DEF Healthy, Active, Types, TypeOK
  <2>2. /\ q = ParamsOf(srv) /\ srv'.status = "running" /\ srv'.share = srv.share
        /\ srv'.ctx = srv.ctx /\ srv'.attempts = srv.attempts
    BY <2>1 DEF Server, ParamsOf
  <2> HIDE DEF q, free
  <2> QED BY <1>6, <2>1, <2>2
<1>12. ASSUME UNCHANGED <<srv, origin>>, Active /\ unit' = NoUnit => log' \in Errors(ParamsOf(srv))
       PROVE  Goal
  <2>1. q = ParamsOf(srv) /\ Active' = Active BY <1>12 DEF Active
  <2> HIDE DEF q, free
  <2> QED BY <1>6, <1>12, <2>1
<1>13. CASE SaveProfile \/ EditProfiles \/ UNCHANGED vars
  <2>1. UNCHANGED <<srv, origin, unit, log>> BY <1>13 DEF SaveProfile, EditProfiles, vars
  <2>2. Active /\ unit' = NoUnit => log' \in Errors(ParamsOf(srv)) BY <1>6, <2>1 DEF Active
  <2> QED BY <1>12, <2>1, <2>2
<1>14. CASE VllmUp
  <2>1. UNCHANGED <<srv, origin>> BY <1>14 DEF VllmUp
  <2>2. unit' # NoUnit
    <3>1. unit \in [params : Params, up : BOOLEAN] /\ unit' = [unit EXCEPT !.up = TRUE]
      BY <1>14 DEF VllmUp, Types, TypeOK
    <3>2. unit' \in [params : Params, up : BOOLEAN] BY <3>1
    <3> QED BY <3>2, NullsAssumption
  <2> QED BY <1>12, <2>1, <2>2
<1>15. CASE VllmDies
  <2>1. UNCHANGED <<srv, origin>> /\ unit # NoUnit /\ log' \in Errors(unit.params) BY <1>15 DEF VllmDies
  <2>2. unit.params = ParamsOf(srv) BY <2>1 DEF ReplayInv
  <2> QED BY <1>12, <2>1, <2>2
<1>16. CASE VllmBreaks \/ OthersChange BY <1>16 DEF VllmBreaks, OthersChange, Disturb
<1> HIDE DEF Goal
<1> QED BY <1>7, <1>8, <1>9, <1>10, <1>11, <1>13, <1>14, <1>15, <1>16 DEF Next

\* A model the estimate says fits, and is right about, started by the defaults with the share of the
\* estimate free, is not given up while its troubles are fewer than the attempts (_plan_fix, runner.py
\* 549-578); of a model whose troubles reach the attempts, as with a lasting share of 90 and the
\* defaults, nothing is said. The share of the estimate and the default share are rungs of the
\* ladder, as in the default configuration: a share between two rungs would be stepped over.
THEOREM WhatFitsRuns ==
  ASSUME FitShare \in Ladder, DefaultShare \in Ladder
  PROVE  Spec => []FitRuns
<1>1. Init => ReplayInv /\ FitInv BY DEF Init, ReplayInv, FitInv
<1>2. FitInv => FitRuns BY DEF FitInv, FitRuns, Promised
<1> QED BY <1>1, <1>2, TypesStart, TypesStay, ReplayInvStays, FitInvStays, PTL DEF Spec
=============================================================================
