---------------------------- MODULE MCTurnStore ----------------------------
(* TLC instances of TurnStore. *)
EXTENDS TurnStore, TLC

CONSTANTS s1, s2, k1, k2, q1, q2, t1, t2, o1, o2, c1, c2, h1

\* Identifiers of one kind are interchangeable.
Symmetry == Permutations(Sessions) \cup Permutations(Keys)
            \cup Permutations(Requests) \cup Permutations(Turns)
            \cup Permutations(Ops) \cup Permutations(Calls)

\* What is explored: the Turns of one Session with all their calls and effects, and
\* the Turns of several Sessions, with requests that conflict and the Harness recorded,
\* whose calls are not modelled then and which have one effect between them.
Explored ==
    LET used == {t \in Turns : turn[t].status # "absent"}
        receipts == UNION {{receipt[s][k] : k \in Keys} : s \in Sessions} \ {None}
    IN  \/ /\ Cardinality({turn[t].session : t \in used}) <= 1
           /\ Cardinality({r.request : r \in receipts}) <= 1
           /\ \A t \in used : turn[t].harness = None
        \/ /\ \A t \in Turns : requested[t] = {}
           /\ Cardinality({o \in Ops : effect[o] # NoEffect}) <= 1
=============================================================================
