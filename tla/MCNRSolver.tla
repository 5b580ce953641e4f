------------------------------ MODULE MCNRSolver ------------------------------
(* NRSolver for one and two processes and the usual solver parameters. *)
EXTENDS NRSolver

\* A restriction of increments that never applies (maxIncAllowed is 1e20).
Unrestricted == 1000

Plain == [grouped |-> TRUE, lineSearch |-> FALSE, solDep |-> FALSE, stiffFirst |-> TRUE,
          deltaOne |-> TRUE, uniform |-> TRUE, manrm |-> 0, minIter |-> 0, maxInc |-> Unrestricted]

\* Load control without line search.
LoadControl == {[Plain EXCEPT !.grouped = g, !.solDep = s, !.stiffFirst = f, !.manrm = m, !.minIter = i] :
                 g \in BOOLEAN, s \in BOOLEAN, f \in BOOLEAN, m \in 0..2, i \in 0..1}
\* Line search, and iterations without an increment.
Search == {[Plain EXCEPT !.lineSearch = l, !.solDep = s, !.deltaOne = d, !.manrm = m] :
            l \in BOOLEAN, s \in BOOLEAN, d \in BOOLEAN, m \in 0..1}

OnlyPlain == {Plain}
OnlyMixed == {[Plain EXCEPT !.uniform = FALSE]}
OnlySearch == {[Plain EXCEPT !.lineSearch = TRUE]}
OnlyMaxInc == {[Plain EXCEPT !.maxInc = 2]}
===============================================================================
