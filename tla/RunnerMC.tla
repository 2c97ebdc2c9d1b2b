------------------------------ MODULE RunnerMC ------------------------------
EXTENDS Runner, TLC

NothingSaved == [n \in Names |-> NoServer]

Resumed(port, frac, status) ==
  [id |-> 0, started |-> 0, gpu |-> CHOOSE g \in Cards : TRUE, port |-> port, frac |-> frac,
   explicit |-> FALSE, status |-> status, want |-> TRUE, attempts |-> 1]

MCEmpty == {NothingSaved}

\* One model that was running.
MCOne == {[NothingSaved EXCEPT ![n] = Resumed(CHOOSE p \in Ports : TRUE, 40, "running")] : n \in Names}

Symmetry == Permutations(Names) \cup Permutations(Threads) \cup Permutations(Ports)
=============================================================================
