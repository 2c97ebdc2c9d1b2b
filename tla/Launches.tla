------------------------------ MODULE Launches ------------------------------
(***************************************************************************)
(* What a model is started with (runner.py): the share of the card, the    *)
(* length of the context and the extra arguments, taken from the request,  *)
(* the profile of the model or the defaults; what the poll loop changes in *)
(* them by the error vLLM died of; and the profile a successful start      *)
(* leaves for the next one.  Fit is the estimate the model was chosen by.  *)
(*                                                                         *)
(* One model on one card, one request at a time: who holds which place,    *)
(* and how requests and the poll loop interleave, is the matter of Runner. *)
(* vLLM is modelled by what the manager reads of it: it comes up, or dies  *)
(* and names one of the things its parameters or the card are short of.    *)
(***************************************************************************)
EXTENDS Fit, Shares

CONSTANTS
  Model, Others,  \* the repository at hand, those with profiles of their own
  Card, Slack,    \* bytes of the card; _MEM_SLACK_MIB
  DefaultShare,   \* vllm.default_fraction
  FitShare,       \* models.fit_memory_fraction
  FitOverhead,    \* models.fit_overhead_gib
  MaxNumSeqs,     \* vllm.max_num_seqs
  Needs,          \* what a model and its vLLM may be like
  Usages,         \* bytes of the card other programs may hold
  Asks,           \* what requests ask explicitly; NoValue: nothing
  Profiles,       \* profiles a person may have written by hand
  MaxStarts,      \* bound: starts in a behaviour
  MaxChanges,     \* bound: changes of the outside world in a behaviour
  NoServer, NoUnit, NoProfile, NoError   \* null values

VARIABLES
  need,      \* the facts of the model and its vLLM, which never change
  used,      \* bytes of the card other programs hold
  entries,   \* model_profiles.json: the profiles in it
  readable,  \* FALSE while a person's edit has left it broken
  srv,       \* the record of the model in ModelRunner._items
  unit,      \* its vLLM
  log,       \* the error in the log of the last launch
  toSave,    \* a record the poll loop has still to write a profile of
  ran,       \* history: parameters with which the model came to run
  origin,    \* history: what the start at hand began from
  starts, changes   \* counters of the bounds

vars == <<need, used, entries, readable, srv, unit, log, toSave, ran, origin, starts, changes>>

file == <<entries, readable>>
history == <<ran, origin>>
bounds == <<starts, changes>>

MaxAttempts == 5       \* _MAX_ATTEMPTS
MinAutoCtx == 2048     \* _MIN_AUTO_CTX
MinUsefulCtx == 256    \* _MIN_USEFUL_CTX
CtxRound == 1024       \* _CTX_ROUND

Args == [seqs : Nat \cup {NoValue}, eager : BOOLEAN]   \* the extra arguments that matter

NoArgs == [seqs |-> NoValue, eager |-> FALSE]

Params == [share : 1..Full, ctx : Nat \cup {NoValue}, args : Args]

Server == [share : 1..Full, ctx : Nat \cup {NoValue}, args : Args, explicit : BOOLEAN,
           status : {"starting", "running", "failed", "stopped"}, attempts : 1..MaxAttempts]

Profile == [share : 1..Full \cup {NoValue}, ctx : Nat \cup {NoValue}, args : Args]

ASSUME ConstantsAssumption ==
  /\ Model \notin Others
  /\ Card \in Nat \ {0} /\ Slack \in Nat /\ FitOverhead \in Nat /\ MaxNumSeqs \in Nat \ {0}
  /\ DefaultShare \in MinFraction..Full /\ FitShare \in 1..Full
  /\ Asks \subseteq [share : 1..Full \cup {NoValue}, ctx : Nat \cup {NoValue}, args : Args \cup {NoValue}]
  /\ Profiles \subseteq Profile /\ Usages \subseteq Nat
  /\ MaxStarts \in Nat /\ MaxChanges \in Nat

ASSUME NullsAssumption ==
  NoServer \notin Server /\ NoProfile \notin Profile /\ NoUnit \notin [params : Params, up : BOOLEAN]

\* Numbers are numbers, and so is what the files of a repository weigh together.
ASSUME NeedsAssumption == \A n \in Needs :
  /\ n.limit \in Nat /\ n.kv \in Nat \ {0} /\ n.overhead \in Nat /\ n.safe \in Nat
  /\ n.blocks \in Nat \cup {NoValue}
  /\ n.config.limit \in {n.limit, NoValue}
  /\ \A f \in DOMAIN n.repo : n.repo[f].weights \in {"safetensors", "bin", "none"}
  /\ \A chosen \in SUBSET DOMAIN n.repo : WeightBytes(n.repo, chosen) \in Nat

Active == srv # NoServer /\ srv.status \in {"starting", "running"}

ParamsOf(s) == [share |-> s.share, ctx |-> s.ctx, args |-> s.args]

\* The share of the card that telemetry shows free, slack taken off, rounded down.
MemFree == IF used + Slack < Card THEN (100 * (Card - used - Slack)) \div Card ELSE 0

Free(limit) == FreeShare(MemFree, 0, limit)

-----------------------------------------------------------------------------
\* vLLM, as the manager sees it

\* The weights vLLM reads of what was downloaded: one format.
Loaded ==
  LET chosen == SelectFiles(need.repo)
      st == {n \in chosen : need.repo[n].weights = "safetensors"}
  IN  WeightBytes(need.repo, IF st # {} THEN st ELSE chosen)

\* Hundredths of a byte left for the KV cache.
Budget(p) == Card * p.share - 100 * (Loaded + need.overhead)

Tokens(p) == Budget(p) \div (100 * need.kv)

Ctx(p) == IF Given(p.ctx) THEN p.ctx ELSE need.limit

Seqs(p) == IF p.args.seqs # NoValue THEN p.args.seqs ELSE MaxNumSeqs

Codes == {"ctx_over_model", "taken", "oom", "no_kv", "kv_len", "kv_small", "mamba", "compile", "other"}

\* What is wrong with a launch, and the number the message names.
Wrong(p, code) ==
  \/ code = "ctx_over_model" /\ Ctx(p) > need.limit
  \/ code = "taken" /\ Card * p.share > 100 * (Card - used)
  \/ code = "oom" /\ p.share > need.safe
  \/ code = "no_kv" /\ Budget(p) <= 0
  \/ code = "kv_len" /\ need.advises /\ Budget(p) > 0 /\ Tokens(p) < Ctx(p)
  \/ code = "kv_small" /\ ~need.advises /\ Budget(p) > 0 /\ Tokens(p) < Ctx(p)
  \/ code = "mamba" /\ Given(need.blocks) /\ Seqs(p) > need.blocks
  \/ code = "compile" /\ ~need.compiles /\ ~p.args.eager
  \/ code = "other" /\ ~need.loads

Named(p, code) ==
  IF code = "ctx_over_model" THEN need.limit
  ELSE IF code = "kv_len" THEN Tokens(p)
  ELSE IF code = "mamba" THEN need.blocks ELSE 0

Errors(p) == {[code |-> c, n |-> Named(p, c)] : c \in {d \in Codes : Wrong(p, d)}}

VllmUp ==
  /\ unit # NoUnit /\ ~unit.up /\ Errors(unit.params) = {}
  /\ unit' = [unit EXCEPT !.up = TRUE]
  /\ UNCHANGED <<need, used, file, srv, log, toSave, history, bounds>>

VllmDies ==
  /\ unit # NoUnit /\ ~unit.up
  /\ log' \in Errors(unit.params)
  /\ unit' = NoUnit
  /\ UNCHANGED <<need, used, file, srv, toSave, history, bounds>>

\* A disturbance from outside: no promise is made about the start at hand.
Disturb == /\ changes < MaxChanges /\ changes' = changes + 1
           /\ origin' = "disturbed"

\* vLLM dies at its work, or of something no pattern knows.
VllmBreaks ==
  /\ unit # NoUnit /\ Disturb
  /\ unit' = NoUnit
  /\ log' \in [code : {"oom", "other"}, n : {0}]
  /\ UNCHANGED <<need, used, file, srv, toSave, ran, starts>>

\* Other programs take memory of the card, or leave it.
OthersChange ==
  /\ Disturb
  /\ used' \in Usages \ {used}
  /\ UNCHANGED <<need, file, srv, unit, log, toSave, ran, starts>>

\* A person breaks the file at an edit, or repairs it.
EditProfiles ==
  /\ readable' = ~readable
  /\ UNCHANGED <<need, used, entries, srv, unit, log, toSave, history, bounds>>

-----------------------------------------------------------------------------
\* start() and stop()

\* _load_profiles: an unreadable file counts as an empty one.
ProfileOf(repo) == IF readable THEN entries[repo] ELSE NoProfile

\* Mutant: extra arguments of the profile are not taken.
ArgsUnprofiled(ask) == IF ask # NoValue THEN ask ELSE NoArgs

\* Explicit, else of the profile, else the default.
ArgsFor(ask) ==
  IF ask # NoValue THEN ask
  ELSE IF ProfileOf(Model) # NoProfile THEN ProfileOf(Model).args ELSE NoArgs

CtxFor(ask) ==
  IF ask # NoValue THEN ask
  ELSE IF ProfileOf(Model) # NoProfile THEN ProfileOf(Model).ctx ELSE NoValue

\* The ceiling of a share the manager chooses.
Ceiling ==
  IF ProfileOf(Model) # NoProfile /\ Given(ProfileOf(Model).share)
  THEN ProfileOf(Model).share ELSE DefaultShare

\* An explicit share is granted as it is or not at all.
Grants(ask) ==
  IF ask # NoValue THEN {f \in {ask} : f <= Free(Full)}
  ELSE {f \in {Lesser(Ceiling, Free(DefaultShare))} : f >= MinFraction}

\* A start by parameters that ran as they stand, with their share free again,
\* or a first start by the defaults alone.
OriginOf(ask) ==
  LET p == ProfileOf(Model)
  IN  IF \E what \in DOMAIN ask : ask[what] # NoValue THEN "asked"
      ELSE IF p = NoProfile THEN "plain"
      ELSE IF p \in ran /\ p.share <= Free(DefaultShare) THEN "replay" ELSE "profile"

Launch(s) == unit' = [params |-> ParamsOf(s), up |-> FALSE]

Start ==
  /\ ~Active /\ unit = NoUnit
  /\ starts < MaxStarts /\ starts' = starts + 1
  /\ \E ask \in Asks :
       /\ \E f \in Grants(ask.share) :
            srv' = [share |-> f, ctx |-> CtxFor(ask.ctx), args |-> ArgsFor(ask.args),
                    explicit |-> ask.share # NoValue, status |-> "starting", attempts |-> 1]
       /\ origin' = OriginOf(ask)
  /\ Launch(srv')
  /\ log' = NoError
  /\ UNCHANGED <<need, used, file, toSave, ran, changes>>

Stop ==
  /\ Active
  /\ srv' = [srv EXCEPT !.status = "stopped"]
  /\ unit' = NoUnit
  /\ UNCHANGED <<need, used, file, log, toSave, history, bounds>>

-----------------------------------------------------------------------------
\* The poll loop

\* Mutant: an advice below CtxRound is rounded to nothing.
AdviceRounded(error) ==
  IF error.code # "kv_len" THEN error
  ELSE IF error.n < MinUsefulCtx THEN [code |-> "no_kv", n |-> 0]
  ELSE [error EXCEPT !.n = (@ \div CtxRound) * CtxRound]

\* _hint: an advised length too short to be of use means there is no memory for
\* the cache at all; another one is rounded down, unless that leaves nothing.
Advice(error) ==
  IF error.code # "kv_len" THEN error
  ELSE IF error.n < MinUsefulCtx THEN [code |-> "no_kv", n |-> 0]
  ELSE [error EXCEPT !.n = IF @ < CtxRound THEN @ ELSE (@ \div CtxRound) * CtxRound]

\* Half the context, rounded down, but not below MinAutoCtx; no context set
\* counts as four times the half.
Halved(ctx) ==
  LET from == IF Given(ctx) THEN ctx ELSE 8 * MinAutoCtx
      half == ((from \div 2) \div CtxRound) * CtxRound
  IN  IF half < MinAutoCtx THEN MinAutoCtx ELSE half

\* Mutant: the limit of attempts is not looked at.
FixesForEver(s, error) ==
  {t \in {[s EXCEPT !.ctx = error.n, !.attempts = @ + 1, !.status = "starting"]} : error.n > 0}

Lowered(s) == {[s EXCEPT !.share = f] : f \in {LowerFraction(s.share)} \ {NoShare}}

Raised(s) ==
  {[s EXCEPT !.share = f] : f \in {BiggerFraction(s.share, Free(DefaultShare))} \ {NoShare}}

Shortened(s) ==
  {[s EXCEPT !.ctx = c] : c \in {d \in {Halved(s.ctx)} : s.ctx = NoValue \/ d < s.ctx}}

\* _plan_fix: the parameters the error calls for; none when the attempts are
\* used up or nothing helps.
Fixes(s, error) ==
  LET Of(codes, fixed) == IF error.code \in codes THEN fixed ELSE {}
      fix ==
        Of({"kv_len", "ctx_over_model"}, {[s EXCEPT !.ctx = error.n]})
        \cup Of({"taken", "oom"}, Lowered(s))
        \cup Of({"kv_small"}, Shortened(s))
        \cup Of({"oom"}, IF Lowered(s) = {} THEN Shortened(s) ELSE {})
        \cup Of({"no_kv"}, Raised(s))
        \cup Of({"mamba"}, IF error.n >= 1 THEN {[s EXCEPT !.args.seqs = error.n]} ELSE {})
        \cup Of({"compile"}, IF s.args.eager THEN {} ELSE {[s EXCEPT !.args.eager = TRUE]})
  IN  IF s.attempts >= MaxAttempts THEN {}
      ELSE {[t EXCEPT !.attempts = @ + 1, !.status = "starting"] : t \in fix}

Dead == Active /\ unit = NoUnit /\ toSave = NoServer

Retry ==
  /\ Dead /\ log # NoError
  /\ srv' \in Fixes(srv, Advice(log))
  /\ Launch(srv')
  /\ log' = NoError
  /\ UNCHANGED <<need, used, file, toSave, history, bounds>>

GiveUp ==
  /\ Dead /\ log # NoError
  /\ Fixes(srv, Advice(log)) = {}
  /\ srv' = [srv EXCEPT !.status = "failed"]
  /\ UNCHANGED <<need, used, file, unit, log, toSave, history, bounds>>

\* /health answers: the model runs, and its profile is written after.
Healthy ==
  /\ Active /\ srv.status = "starting" /\ toSave = NoServer
  /\ unit # NoUnit /\ unit.up
  /\ srv' = [srv EXCEPT !.status = "running"]
  /\ toSave' = srv'
  /\ ran' = ran \cup {ParamsOf(srv)}
  /\ UNCHANGED <<need, used, file, unit, log, origin, bounds>>

\* A share from the request is how the card was divided, not what the model
\* needs: the profile keeps the one it has.
KeptShare(s) ==
  IF ~s.explicit THEN s.share
  ELSE IF entries[Model] # NoProfile THEN entries[Model].share ELSE NoValue

\* Mutant: a broken file is begun anew.
SaveProfileAnyway ==
  /\ toSave # NoServer
  /\ entries' = [r \in {Model} \cup Others |->
                   IF r = Model THEN [share |-> KeptShare(toSave), ctx |-> toSave.ctx, args |-> toSave.args]
                   ELSE IF readable THEN entries[r] ELSE NoProfile]
  /\ toSave' = NoServer
  /\ UNCHANGED <<need, used, readable, srv, unit, log, history, bounds>>

\* _save_profile: a file that cannot be read is left as it is.
SaveProfile ==
  /\ toSave # NoServer
  /\ entries' = IF readable
                THEN [entries EXCEPT ![Model] = [share |-> KeptShare(toSave), ctx |-> toSave.ctx,
                                                 args |-> toSave.args]]
                ELSE entries
  /\ toSave' = NoServer
  /\ UNCHANGED <<need, used, readable, srv, unit, log, history, bounds>>

-----------------------------------------------------------------------------
\* A model that was worth downloading, on a card others leave free enough for
\* the share the estimate is made for.
Init ==
  /\ need \in Needs /\ WeightBytes(need.repo, SelectFiles(need.repo)) # 0
  /\ used \in Usages
  /\ \E p \in Profiles \cup {NoProfile} :
       entries = [r \in {Model} \cup Others |->
                    IF r = Model THEN p ELSE [share |-> NoValue, ctx |-> NoValue, args |-> NoArgs]]
  /\ readable = TRUE
  /\ srv = NoServer /\ unit = NoUnit /\ log = NoError /\ toSave = NoServer
  /\ ran = {} /\ origin = "plain" /\ starts = 0 /\ changes = 0

Next ==
  \/ Start \/ Stop \/ Retry \/ GiveUp \/ Healthy \/ SaveProfile
  \/ VllmUp \/ VllmDies \/ VllmBreaks \/ OthersChange \/ EditProfiles

Spec == Init /\ [][Next]_vars

-----------------------------------------------------------------------------
\* Properties

TypeOK ==
  /\ used \in Nat /\ readable \in BOOLEAN
  /\ entries \in [{Model} \cup Others -> Profile \cup {NoProfile}]
  /\ srv \in Server \cup {NoServer} /\ toSave \in Server \cup {NoServer}
  /\ unit \in [params : Params, up : BOOLEAN] \cup {NoUnit}
  /\ log \in [code : Codes, n : Nat] \cup {NoError}
  /\ ran \subseteq Params /\ origin \in {"plain", "asked", "profile", "replay", "disturbed"}
  /\ starts \in Nat /\ changes \in Nat

\* What the estimate says of a share of the card.
Estimated(share) ==
  Estimate(WeightBytes(need.repo, SelectFiles(need.repo)), KvBytesPerToken(need.config),
           need.config.limit, Card, share, FitOverhead)

\* The estimate's view of the model is right: no more overhead than it allows
\* for, its cost of a token, memory that lasts for its share, a vLLM that can
\* load the model and says how much context there is room for.
EstimateIsRight ==
  /\ need.overhead <= FitOverhead /\ need.kv = KvBytesPerToken(need.config)
  /\ need.safe >= FitShare /\ need.loads /\ need.advises

\* How often vLLM may have to be started anew: for every rung of the ladder
\* down to a share that lasts, with the context once before and after each,
\* for its Mamba cache and for its compiler.
Rungs == Cardinality({f \in Ladder : need.safe < f /\ f <= DefaultShare})

Troubles ==
  2 * Rungs + 1 + (IF Given(need.blocks) THEN 1 ELSE 0) + (IF need.compiles THEN 0 ELSE 1)

\* A model the estimate says fits, with a context of use, and which is started
\* by the defaults on a card with the share of the estimate free, comes to run
\* by itself: it is not given up while its troubles are fewer than the attempts.
FitRuns ==
  /\ origin = "plain" /\ srv # NoServer /\ srv.status = "failed"
  /\ EstimateIsRight /\ Free(DefaultShare) >= FitShare
  /\ Estimated(FitShare).fits
  /\ Estimated(FitShare).tokens # NoValue /\ Estimated(FitShare).tokens >= MinUsefulCtx
  => Troubles >= MaxAttempts

\* The estimate sifts out nothing that would run: a model that runs with a share
\* and a context, though vLLM needs no less than the estimate allows for, is one
\* the estimate says fits that share with that context (hub.py: it is there to
\* sift out models that are plainly too big).
RunsFit ==
  /\ srv # NoServer /\ srv.status = "running"
  /\ need.overhead >= FitOverhead /\ need.kv = KvBytesPerToken(need.config)
  => LET e == Estimated(srv.share) IN e.fits /\ e.tokens >= Ctx(srv)

\* What ran once runs again at the first attempt: a start by a profile that is
\* what a launch of the model came to run with needs no retry, while its share
\* is free (README: successful parameters are kept and taken the next time).
ReplayRuns ==
  origin = "replay" /\ srv # NoServer => srv.attempts = 1 /\ srv.status # "failed"

\* The manager never takes the profiles of other models out of the file, be it
\* broken or not when a profile is saved.
OthersKept == \A r \in Others : entries[r] # NoProfile
=============================================================================
