-------------------------------- MODULE Fit --------------------------------
(***************************************************************************)
(* What the manager says of a model before it is downloaded (hub.py): which *)
(* files of a repository are taken, what they weigh, what a token of        *)
(* context costs, and whether the model fits a card.                        *)
(*                                                                         *)
(* Sizes are in bytes of any scale; a share of a card is in whole percent.  *)
(* A repository maps the names of its files to what the patterns tell       *)
(* apart: the weights' format, whether a pattern of _NEVER matches, size.   *)
(***************************************************************************)
EXTENDS Integers, FiniteSets, FiniteSetsExt

CONSTANT NoValue   \* None: a field that is absent, a number that is unknown

ASSUME FitAssumption == NoValue \notin Nat

\* Python's "or" on numbers: an absent field and a zero are passed over.
Given(value) == value # NoValue /\ value # 0

-----------------------------------------------------------------------------
\* Formats vLLM does not read are left out, and *.bin beside safetensors, which
\* are the same weights once more.
HasSafetensors(repo) == \E n \in DOMAIN repo : repo[n].weights = "safetensors"

\* Mutant: the same weights are taken in both formats.
SelectBoth(repo) == {n \in DOMAIN repo : ~repo[n].never}

SelectFiles(repo) ==
  {n \in DOMAIN repo :
     /\ ~repo[n].never
     /\ ~(HasSafetensors(repo) /\ repo[n].weights = "bin")}

WeightBytes(repo, chosen) ==
  MapThenSumSet(LAMBDA n : repo[n].size, {n \in chosen : repo[n].weights # "none"})

KvBytes == 2   \* _KV_BYTES: one value of the cache takes 16 bits

\* 2 (K and V) x layers x KV heads x size of a head x KvBytes; unknown when a
\* field it needs is absent.
KvBytesPerToken(config) ==
  LET kvHeads == IF Given(config.kvHeads) THEN config.kvHeads ELSE config.heads
      headDim == IF Given(config.headDim) THEN config.headDim ELSE config.hidden \div config.heads
      known == /\ config.layers # NoValue /\ config.heads # NoValue
               /\ Given(config.headDim) \/ (config.hidden # NoValue /\ config.heads # 0)
  IN  IF known THEN 2 * config.layers * kvHeads * headDim * KvBytes ELSE NoValue

\* The estimate for one card: what its share leaves beside the weights and the
\* overhead, in tokens of context, within the limit of the model.
Estimate(weights, kv, limit, card, share, overhead) ==
  LET usable == card * share - 100 * (weights + overhead)   \* hundredths of a byte
      tokens == IF usable <= 0 THEN 0
                ELSE IF Given(kv) THEN usable \div (100 * kv) ELSE NoValue
  IN  [fits |-> usable > 0 /\ weights > 0,
       tokens |-> IF tokens # NoValue /\ limit # NoValue /\ limit < tokens THEN limit ELSE tokens]
=============================================================================
