--------------------------- MODULE MCGlobalOrdering ---------------------------
(* GlobalOrdering on all node-cut partitionings of a small mesh. *)
EXTENDS GlobalOrdering, TLC

\* One dof manager without equations would show nothing; one and two equations do.
SmallDofs == (1 :> 2) @@ (2 :> 1)
ThreeDofs == (1 :> 1) @@ (2 :> 2) @@ (3 :> 1)
===============================================================================
