------------------------- MODULE MCLoadBalancing -------------------------
(* LoadBalancing on a bar of elements between nodes 1, 2, ... in a row. *)
EXTENDS LoadBalancing, TLC

Bar == [e \in Elem |-> <<e, e + 1>>]
BarNodes == 1..Cardinality(Elem) + 1
Primary == [n \in BarNodes |-> {}]
Alone == [e \in Elem |-> {}]

\* The last node hangs on the first one; it is the slave of a distant element.
Slave == [nodes |-> Bar, near |-> Alone, masters |-> [Primary EXCEPT ![Cardinality(Elem) + 1] = {1}]]
\* Each element averages over its neighbours.
Neighbours == [nodes |-> Bar, masters |-> Primary,
               near |-> [e \in Elem |-> {f \in Elem : f # e /\ f - e \in -1..1}]]
\* The first node hangs on the second, which hangs on the last.
Chain == [nodes |-> Bar, near |-> Alone,
          masters |-> [Primary EXCEPT ![1] = {3}, ![3] = {2}]]
\* The last node hangs on the second one, and the elements average.
SlaveMirrored == [Neighbours EXCEPT !.masters[Cardinality(Elem) + 1] = {2}]

\* One element each, and two on one process; the second round starts from any plan.
Started == {<<0, 1, 2>>, <<1, 1, 0>>}
\* Process 2 may have any elements but the first, also none.
Assigned == {owner \in [Elem -> Proc] : owner[1] # 2}

Balanced == {Slave, Neighbours}
Chains == {Chain}
MirroredSlaves == {SlaveMirrored}
===============================================================================
