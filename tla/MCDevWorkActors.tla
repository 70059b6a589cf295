-------------------------- MODULE MCDevWorkActors --------------------------
(***************************************************************************)
(* DevWorkActors for TLC.  Slots for tasks and calls are interchangeable.  *)
(* In the behaviours with requests to /tick the calls are explored one at  *)
(* a time, and the first round only.                                       *)
(***************************************************************************)
EXTENDS DevWorkActors, TLC

Symmetry == Permutations(Drivers) \cup Permutations(Tickers) \cup Permutations(Calls)

TickBound ==
    ghost.ticks =>
        /\ Cardinality({c \in Calls : calls[c].pc # "idle"}) =< 1
        /\ \A t \in Tasks : tasks[t].rounds = 0
=============================================================================
