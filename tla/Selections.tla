----------------------------- MODULE Selections -----------------------------
(***************************************************************************)
(* A list comprehension and a sort: what journal.py and history.py take of *)
(* a list, and in which order.                                             *)
(***************************************************************************)
EXTENDS Integers, Sequences, FiniteSets

\* f counts the elements of the finite set S by rising key.
Orders(f, S, key) ==
  /\ \A x \in S : \E k \in 1..Cardinality(S) : f[k] = x
  /\ \A i, j \in 1..Cardinality(S) : i < j => f[i] # f[j] /\ key[f[i]] <= key[f[j]]

Ordered(S, key) == CHOOSE f \in [1..Cardinality(S) -> S] : Orders(f, S, key)

Ascending(I) == Ordered(I, [i \in I |-> i])

\* The elements of s at the places I, in the order of s.
Selected(s, I) == [k \in 1..Cardinality(I) |-> s[Ascending(I)[k]]]
=============================================================================
