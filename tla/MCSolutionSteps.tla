---------------------------- MODULE MCSolutionSteps ----------------------------
EXTENDS SolutionSteps

M(first, steps, indirect, fix, keep, dt) ==
  [first |-> first, steps |-> steps, indirect |-> indirect, fix |-> fix, keep |-> keep, dt |-> dt]

\* Indirect, direct and indirect control; the last metastep does not fix its load.
ThreeMetaSteps == <<M(1, 2, TRUE, TRUE, TRUE, 1), M(3, 3, FALSE, TRUE, FALSE, 3),
                    M(6, 2, TRUE, FALSE, TRUE, 2)>>
\* The load of a metastep under indirect control does not change within it.
ThreeLoads == <<5, 5, 7, -3, 4, 11, 11>>

\* The first metastep does not fix its load.
NotFixed == <<M(1, 2, TRUE, FALSE, TRUE, 1), M(3, 2, TRUE, TRUE, FALSE, 1)>>
TwoLoads == <<5, 5, 7, 7>>

OneOrTwo == {1, 2}
===============================================================================
