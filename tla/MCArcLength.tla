----------------------------- MODULE MCArcLength -----------------------------
(* ArcLength for two metasteps. *)
EXTENDS ArcLength

Plain == [manrm |-> 0, lineSearch |-> FALSE, maxiter |-> 5, restarts |-> 2, miniter |-> 0,
          reqiter |-> 3, min |-> 1, max |-> 16, initial |-> 0, forced |-> 0]

\* Modified and then accelerated N-R, with a smaller bound on the length and one to go on
\* with if the length is beyond it.
TwoMetaSteps == <<Plain, [Plain EXCEPT !.manrm = 2, !.max = 8, !.initial = 6, !.miniter = 2]>>
Searching == <<[Plain EXCEPT !.lineSearch = TRUE]>>
===============================================================================
