----------------------------- MODULE MCFETISolver -----------------------------
(* FETISolver for three partitions and two boundary dof managers. *)
EXTENDS FETISolver

Ranks == {0, 1, 2}
Nodes == {1, 2}
Shared == {P \in SUBSET Ranks : Cardinality(P) >= 2}
ModesOne == [p \in Ranks |-> IF p = 1 THEN 1 ELSE 0]
ModesTwo == [p \in Ranks |-> IF p = 0 THEN 1 ELSE 2]

Connected(m) == \A p \in Ranks : m.modes[p] = 0 \/ \E n \in Nodes : p \in m.parts[n]

\* Both dof managers on any partitions; the second one has two dofs, one of the first is
\* supported.  The master has enough supported dofs for its buffers.
Partitions ==
  {m \in [parts : [Nodes -> Shared], dofs : {<<1, 2>>}, modes : {ModesOne, ModesTwo}, energy : BOOLEAN,
          prescribed : {<<6, 6, 6>>}] : Connected(m)}

\* The master has one dof manager more than it shares, with its supported dof in it.
Supported == {[parts |-> <<Ranks, Ranks>>, dofs |-> <<1, 2>>, modes |-> ModesOne, energy |-> FALSE,
               prescribed |-> <<1, 0, 3>>]}
===============================================================================
