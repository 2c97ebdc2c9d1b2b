------------------------------- MODULE Places -------------------------------
(***************************************************************************)
(* What the runner's state.json promises about places: every active model  *)
(* holds a place, that is a port no other active model holds and a share   *)
(* of a card within what the others leave of it.  A name takes a place     *)
(* only when it holds none, keeps its card and port for as long as it      *)
(* holds it, may have the share changed, and gives the place back.         *)
(* ModelRunner (Runner.tla) implements this, retries, moves, crashes and   *)
(* restarts included.                                                      *)
(***************************************************************************)
EXTENDS Shares

CONSTANTS Names, Cards, Ports, NoPlace

VARIABLE place   \* [Names -> a place or NoPlace]

Place == [gpu : Cards, port : Ports, frac : 1..Full]

Holders(pl) == {n \in Names : pl[n] # NoPlace}

\* The shares taken on card g, the holder n itself left out.
UsedBeside(pl, g, n) ==
  Total([m \in Names |->
           IF m # n /\ pl[m] # NoPlace THEN IF pl[m].gpu = g THEN pl[m].frac ELSE 0
           ELSE 0])

DistinctPlaces(pl) ==
  \A m, n \in Holders(pl) : m # n => pl[m].port # pl[n].port

Init == /\ place \in [Names -> Place \cup {NoPlace}]
        /\ DistinctPlaces(place)

Take(n) ==
  LET p == place'[n]
  IN  /\ place[n] = NoPlace
      /\ p \in Place
      /\ \A m \in Holders(place) : place[m].port # p.port
      /\ p.frac + UsedBeside(place, p.gpu, n) <= Full
      /\ place' = [place EXCEPT ![n] = p]

Resize(n) ==
  LET p == place'[n]
  IN  /\ place[n] # NoPlace
      /\ p \in Place /\ p.gpu = place[n].gpu /\ p.port = place[n].port
      /\ \/ p.frac <= place[n].frac
         \/ p.frac + UsedBeside(place, p.gpu, n) <= Full
      /\ place' = [place EXCEPT ![n] = p]

Give(S) ==
  place' = [n \in Names |-> IF n \in S THEN NoPlace ELSE place[n]]

Next ==
  \/ \E n \in Names : Take(n) \/ Resize(n)
  \/ \E S \in SUBSET Names : Give(S)

Spec == Init /\ [][Next]_place
=============================================================================
