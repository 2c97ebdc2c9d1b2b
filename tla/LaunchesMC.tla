----------------------------- MODULE LaunchesMC -----------------------------
EXTENDS Launches

File(weights, never, size) == [weights |-> weights, never |-> never, size |-> size]

\* Safetensors beside the same weights as *.bin and in a format vLLM does not
\* read; weights as *.bin alone.  The card has 100,000 bytes.
Repo(size) ==
  [st |-> File("safetensors", FALSE, size), bin |-> File("bin", FALSE, size),
   gguf |-> File("none", TRUE, size), readme |-> File("none", FALSE, 1)]

OldRepo == [bin |-> File("bin", FALSE, 40000)]

Config(kvHeads, hidden, limit) ==
  [layers |-> 1, heads |-> 2, kvHeads |-> kvHeads, headDim |-> NoValue, hidden |-> hidden, limit |-> limit]

Need(repo, config, overhead, safe, blocks, compiles) ==
  [repo |-> repo, config |-> config, kv |-> KvBytesPerToken(config), limit |-> config.limit,
   overhead |-> overhead, safe |-> safe, blocks |-> blocks, compiles |-> compiles,
   loads |-> TRUE, advises |-> TRUE]

\* Plenty of room, and a model that leaves some hundreds of tokens on the
\* rungs of the ladder; every trouble by itself and with the others; less
\* overhead than the estimate allows for, and just as much.
Usual ==
  { Need(repo, Config(1, 2, 8192), 1000, safe, blocks, compiles) :
      repo \in {Repo(20000), Repo(86500)}, safe \in {100, 93, 90}, blocks \in {NoValue, 16},
      compiles \in {TRUE} }
  \cup { Need(Repo(86500), Config(1, 2, 40000), 1000, safe, 16, FALSE) : safe \in {100, 90} }
  \cup { Need(Repo(80000), Config(2, 4, 8192), overhead, 100, NoValue, TRUE) : overhead \in {1000, 2000} }
  \cup { Need(OldRepo, Config(1, 2, 8192), 2000, 93, 16, TRUE),
         Need(Repo(86500), Config(1, 2, 8192), 2000, 100, NoValue, FALSE) }

\* Models the estimate is wrong about, or knows nothing of.
Unusual ==
  { Need(Repo(86500), Config(1, 2, 8192), 3000, 93, NoValue, TRUE),
    Need(OldRepo, Config(NoValue, 2, 40000), 1000, 80, NoValue, TRUE),
    [Need(OldRepo, Config(NoValue, NoValue, 40000), 1000, 100, NoValue, TRUE) EXCEPT !.kv = 4],
    [Need(Repo(86500), Config(1, 2, 40000), 1000, 100, NoValue, TRUE) EXCEPT !.advises = FALSE],
    [Need(Repo(20000), Config(1, 2, 8192), 1000, 100, NoValue, TRUE) EXCEPT !.loads = FALSE] }

MCNeeds == Usual \cup Unusual

MCProfiles == { [share |-> 20, ctx |-> 65536, args |-> NoArgs] }

Nothing == [share |-> NoValue, ctx |-> NoValue, args |-> NoValue]

MCAsks == { Nothing, [Nothing EXCEPT !.share = 50, !.ctx = 16384],
            [Nothing EXCEPT !.args = [seqs |-> 64, eager |-> FALSE]] }
=============================================================================
