------------------------------- MODULE NRSolver -------------------------------
(***************************************************************************)
(* NRSolver::solve with LineSearchNM::solve: one load step of the Newton-  *)
(* Raphson iteration, run by every process of a partitioned problem.       *)
(*                                                                         *)
(* The processes meet in the collective operations of the iteration:       *)
(* assembling the stiffness, assembling the internal forces (with the      *)
(* exchange of shared dof managers), adding up the error norms, solving    *)
(* the linear system.  pc[p] names the operation p waits at; it happens    *)
(* when all processes wait at the same one.  Everything else is local.     *)
(*                                                                         *)
(* Of the solution we keep one dof that all processes share and, for its   *)
(* effect on maxinc, the largest increment among the other dofs of each    *)
(* process.  Of a residual we keep, for each group of dofs, its class:     *)
(*   zero    no unbalanced force                                           *)
(*   small   within the tolerances                                         *)
(*   large   above a tolerance                                             *)
(*   huge    beyond tolerance * NRSOLVER_MAX_REL_ERROR_BOUND               *)
(*   nan     not a number, which fails every comparison                    *)
(* Loads are counted in load increments: R0 holds none and R holds one.    *)
(* Of the assembled vectors we also keep which solution they belong to.    *)
(* The displacement control of single dofs (ddm) is left out.              *)
(***************************************************************************)
EXTENDS Integers, FiniteSets

CONSTANTS
  Rank,        \* the processes
  Group,       \* the groups of dofs (DofIDItem)
  Classes,     \* the classes of residuals that occur
  Increments,  \* the increments a linear solve may return
  Etas,        \* the step lengths the line search may try
  NsMax,       \* nsmax: maximum number of iterations
  LsMax,       \* number of step lengths tried by a line search
  Configs      \* the combinations of solver parameters, see Config

\* grouped: norms are kept per group; manrm: MANRMSteps, 0 for modified N-R;
\* stiffFirst: mCalcStiffBeforeRes; deltaOne: deltaL is not below 1;
\* maxInc: maxIncAllowed; uniform: the same groups are in use on all processes.
Config == [grouped : BOOLEAN, lineSearch : BOOLEAN, solDep : BOOLEAN, stiffFirst : BOOLEAN,
           deltaOne : BOOLEAN, uniform : BOOLEAN, manrm : Nat, minIter : Nat, maxInc : Nat]

AllClasses == {"zero", "small", "large", "huge", "nan"}

ASSUME ProcessAssumption == Rank # {} /\ Group # {}
ASSUME ClassAssumption == "zero" \in Classes /\ Classes \subseteq AllClasses
ASSUME NumberAssumption == /\ Increments \subseteq Nat \ {0} /\ Etas \subseteq Nat \ {0}
                           /\ NsMax \in Nat /\ LsMax \in Nat \ {0}
ASSUME ConfigAssumption == Configs \subseteq Config

VARIABLES
  config,  \* the solver parameters, the same on all processes
  inUse,   \* inUse[p]: the groups that have equations on p
  err,     \* err[g]: class of the accumulated error of group g
  pc,      \* pc[p]: what p does next
  nite,    \* nite[p]: the iteration
  X,       \* X[p]: total value of the shared dof
  dX,      \* dX[p]: its increment in this step
  ddX,     \* ddX[p]: its increment in this iteration
  ddMax,   \* ddMax[p]: the largest increment of p's dofs in this iteration
  base,    \* base[p]: value from which the line search started
  ls,      \* ls[p]: the step length being tried and the number of trials
  R, RT,   \* R[p], RT[p]: the load increment, and the total load computed from it
  forcesAt, \* forcesAt[p]: the X[p] the internal forces F were last assembled for
  loadAt,  \* loadAt[p]: the X[p] the external load in RT was assembled for
  status   \* status[p]: the verdict

iterate == <<X, dX, ddX, ddMax, base, ls>>
loads == <<R, RT, forcesAt, loadAt>>
vars == <<config, inUse, err, pc, nite, iterate, loads, status>>
-------------------------------------------------------------------------------
(* What the processes wait for *)

\* The collective operation behind each place of the program.
Operation == [norm |-> "norm", firstStiffness |-> "assemble", stiffness |-> "assemble",
              residual |-> "forces", trialForces |-> "forces", lastForces |-> "forces",
              errors |-> "reduce", solve |-> "solve", external |-> "forces"]

Waits == DOMAIN Operation
Places == Waits \union {"decide", "equilibrate", "lineSearch", "trial", "update", "end"}

Goto(p, l) == pc' = [pc EXCEPT ![p] = l]

\* All processes wait for the operation op; each goes on to next[p].
Meet(op, next) ==
  /\ \A p \in Rank : pc[p] \in Waits /\ Operation[pc[p]] = op
  /\ pc' = next

\* Mutant of NoIncrement: deltaL is not tested.
NoIncrementAlways(p) == nite[p] = 0

\* An iteration that applies no load increment solves no linear system.
NoIncrement(p) == nite[p] = 0 /\ ~config.deltaOne

\* Where p goes on after an operation it only has to go through.
After(p) ==
  CASE pc[p] = "norm" -> "firstStiffness"
    [] pc[p] = "firstStiffness" -> "residual"
    [] pc[p] = "stiffness" -> IF NoIncrement(p) THEN "equilibrate" ELSE "solve"
    [] pc[p] = "residual" -> "errors"
    [] pc[p] = "trialForces" -> "trial"
    [] pc[p] = "lastForces" -> "update"
    [] pc[p] = "external" -> "residual"
-------------------------------------------------------------------------------
Init ==
  /\ config \in Configs
  /\ inUse \in [Rank -> SUBSET Group]
  /\ config.uniform => \A p, q \in Rank : inUse[p] = inUse[q]
  /\ \E p \in Rank : inUse[p] # {}
  /\ err = [g \in Group |-> "zero"]
  /\ pc = [p \in Rank |-> "norm"]
  /\ nite = [p \in Rank |-> 0]
  /\ X = [p \in Rank |-> 0] /\ dX = [p \in Rank |-> 0]
  /\ ddX = [p \in Rank |-> 0] /\ ddMax = [p \in Rank |-> 0] /\ base = [p \in Rank |-> 0]
  /\ ls = [p \in Rank |-> [eta |-> 1, trials |-> 0]]
  /\ R = [p \in Rank |-> 1] /\ RT = [p \in Rank |-> 1]
  /\ forcesAt = [p \in Rank |-> 0] /\ loadAt = [p \in Rank |-> 0]
  /\ status = [p \in Rank |-> "unknown"]

\* The norm of the load.
LoadNorm ==
  /\ Meet("norm", [p \in Rank |-> After(p)])
  /\ UNCHANGED <<config, inUse, err, nite, iterate, loads, status>>

\* The stiffness: once before the first residual, whatever mCalcStiffBeforeRes
\* says, and in the iterations that update it.
AssembleStiffness ==
  /\ Meet("assemble", [p \in Rank |-> After(p)])
  /\ UNCHANGED <<config, inUse, err, nite, iterate, loads, status>>

\* Forces are assembled and the values of shared dof managers exchanged: internal
\* forces for the residual or a line search, external ones, which give R anew, from
\* which RT is computed again.
AssembleForces ==
  /\ Meet("forces", [p \in Rank |-> After(p)])
  /\ R' = [p \in Rank |-> IF pc[p] = "external" THEN 1 ELSE R[p]]
  /\ RT' = [p \in Rank |-> IF pc[p] = "external" THEN R'[p] ELSE RT[p]]
  /\ loadAt' = [p \in Rank |-> IF pc[p] = "external" THEN X[p] ELSE loadAt[p]]
  /\ forcesAt' = [p \in Rank |-> IF pc[p] = "external" THEN forcesAt[p] ELSE X[p]]
  /\ UNCHANGED <<config, inUse, err, nite, iterate, status>>

\* checkConvergence adds up the error norms of all processes: a group that is in
\* use nowhere has no error, and without groups there is one norm for all dofs.
AccumulateErrors ==
  /\ Meet("reduce", [p \in Rank |-> "decide"])
  /\ err' \in [Group -> Classes]
  /\ IF config.grouped
     THEN \A g \in Group : (\A p \in Rank : g \notin inUse[p]) => err'[g] = "zero"
     ELSE \A g, h \in Group : err'[g] = err'[h]
  /\ UNCHANGED <<config, inUse, nite, iterate, loads, status>>

\* Mutant of Judged: only one process looks at the errors.
JudgedOnFirst(p) == IF config.grouped /\ p # CHOOSE q \in Rank : TRUE THEN {} ELSE Group
\* The groups p looks at: those in use on p itself.
Judged(p) == IF config.grouped THEN inUse[p] ELSE Group

ErrorOutOfRange(p) == \E g \in Judged(p) : err[g] = "huge"

\* No tolerance is exceeded; with groups, the first iteration also asks that there
\* is no unbalanced force at all, so that the loading is applied.
Converged(p) ==
  \A g \in Judged(p) :
    /\ err[g] \notin {"large", "huge"}
    /\ config.grouped /\ nite[p] = 0 => err[g] # "small"

\* Mutant of Verdict: one iteration too many is allowed.
VerdictLate(p) ==
  CASE ErrorOutOfRange(p) -> "divergedTol"
    [] ~ErrorOutOfRange(p) /\ Converged(p) /\ nite[p] >= config.minIter -> "converged"
    [] ~ErrorOutOfRange(p) /\ ~(Converged(p) /\ nite[p] >= config.minIter) ->
         IF nite[p] > NsMax THEN "divergedIts" ELSE "unknown"

Verdict(p) ==
  CASE ErrorOutOfRange(p) -> "divergedTol"
    [] ~ErrorOutOfRange(p) /\ Converged(p) /\ nite[p] >= config.minIter -> "converged"
    [] ~ErrorOutOfRange(p) /\ ~(Converged(p) /\ nite[p] >= config.minIter) ->
         IF nite[p] >= NsMax THEN "divergedIts" ELSE "unknown"

\* The iteration ends with a verdict ...
Finish(p) ==
  /\ pc[p] = "decide" /\ Verdict(p) # "unknown"
  /\ status' = [status EXCEPT ![p] = Verdict(p)]
  /\ Goto(p, "end")
  /\ UNCHANGED <<config, inUse, err, nite, iterate, loads>>

UpdatesStiffness(p) ==
  (nite[p] > 0 \/ ~config.stiffFirst) /\ config.manrm > 0 /\ nite[p] % config.manrm = 0

\* ... or goes on, with a new stiffness if the scheme says so.
Continue(p) ==
  /\ pc[p] = "decide" /\ Verdict(p) = "unknown"
  /\ Goto(p, IF UpdatesStiffness(p) THEN "stiffness"
             ELSE IF NoIncrement(p) THEN "equilibrate" ELSE "solve")
  /\ UNCHANGED <<config, inUse, err, nite, iterate, loads, status>>

\* deltaL < 1: the residual and the load increment are zeroed, no increment follows.
Equilibrate(p) ==
  /\ pc[p] = "equilibrate"
  /\ R' = [R EXCEPT ![p] = 0]
  /\ ddX' = [ddX EXCEPT ![p] = 0]
  /\ ddMax' = [ddMax EXCEPT ![p] = 0]
  /\ Goto(p, "update")
  /\ UNCHANGED <<config, inUse, err, nite, X, dX, base, ls, RT, forcesAt, loadAt, status>>

\* Mutant of Solve: each process keeps its own part, nothing is scattered back.
SolveUnscattered ==
  /\ Meet("solve", [p \in Rank |-> IF config.lineSearch /\ nite[p] > 0 THEN "lineSearch" ELSE "update"])
  /\ \E m \in [Rank -> Increments] : ddX' = m /\ ddMax' = m
  /\ UNCHANGED <<config, inUse, err, nite, X, dX, base, ls, loads, status>>

\* The linear system is solved by all processes together.
Solve ==
  /\ Meet("solve", [p \in Rank |-> IF config.lineSearch /\ nite[p] > 0 THEN "lineSearch" ELSE "update"])
  /\ \E v \in Increments, m \in [Rank -> Increments] :
       /\ ddX' = [p \in Rank |-> v]
       /\ ddMax' = [p \in Rank |-> IF m[p] > v THEN m[p] ELSE v]
  /\ UNCHANGED <<config, inUse, err, nite, X, dX, base, ls, loads, status>>
-------------------------------------------------------------------------------
(* LineSearchNM::solve: it moves the total solution, and its inner products *)
(* are those of the process, so each may go a different way.                *)

\* X[p] is moved by eta times the increment from where the search started.
TryStep(p, from, eta) == X' = [X EXCEPT ![p] = from + eta * ddX[p]]

\* The inner product is uphill: the whole increment is taken.
TakeWhole(p) ==
  /\ pc[p] = "lineSearch"
  /\ base' = [base EXCEPT ![p] = X[p]]
  /\ TryStep(p, X[p], 1)
  /\ Goto(p, "lastForces")
  /\ UNCHANGED <<config, inUse, err, nite, dX, ddX, ddMax, ls, loads, status>>

StartSearch(p) ==
  /\ pc[p] = "lineSearch"
  /\ base' = [base EXCEPT ![p] = X[p]]
  /\ TryStep(p, X[p], 1)
  /\ ls' = [ls EXCEPT ![p] = [eta |-> 1, trials |-> 1]]
  /\ Goto(p, "trialForces")
  /\ UNCHANGED <<config, inUse, err, nite, dX, ddX, ddMax, loads, status>>

\* Mutant of AcceptStep: the increment is not scaled by the step length.
AcceptUnscaled(p) ==
  /\ pc[p] = "trial"
  /\ Goto(p, "update")
  /\ UNCHANGED <<config, inUse, err, nite, iterate, loads, status>>

\* The inner product has decreased enough.
AcceptStep(p) ==
  /\ pc[p] = "trial"
  /\ ddX' = [ddX EXCEPT ![p] = @ * ls[p].eta]
  /\ ddMax' = [ddMax EXCEPT ![p] = @ * ls[p].eta]
  /\ Goto(p, "update")
  /\ UNCHANGED <<config, inUse, err, nite, X, dX, base, ls, loads, status>>

\* LineSearchNM::search has proposed another step length.
TryNext(p) ==
  /\ pc[p] = "trial" /\ ls[p].trials < LsMax
  /\ \E eta \in Etas : /\ ls' = [ls EXCEPT ![p] = [eta |-> eta, trials |-> @.trials + 1]]
                       /\ TryStep(p, base[p], eta)
  /\ Goto(p, "trialForces")
  /\ UNCHANGED <<config, inUse, err, nite, dX, ddX, ddMax, base, loads, status>>

\* All trials are used up, or the limits of the step length were hit twice.
GiveUp(p) ==
  /\ pc[p] = "trial" /\ (ls[p].trials = LsMax \/ ls[p].trials >= 2)
  /\ TryStep(p, base[p], 1)
  /\ Goto(p, "lastForces")
  /\ UNCHANGED <<config, inUse, err, nite, dX, ddX, ddMax, base, ls, loads, status>>
-------------------------------------------------------------------------------
\* The increment of p is restricted by maxinc, as the largest increment of p is.
Restricted(p) ==
  IF ddMax[p] > config.maxInc THEN (ddX[p] * config.maxInc) \div ddMax[p] ELSE ddX[p]

\* Mutant of Update: the total of the step is overwritten.
UpdateOverwrites(p) ==
  /\ pc[p] = "update"
  /\ X' = [X EXCEPT ![p] = @ + Restricted(p)]
  /\ dX' = [dX EXCEPT ![p] = Restricted(p)]
  /\ nite' = [nite EXCEPT ![p] = @ + 1]
  /\ Goto(p, IF config.solDep THEN "external" ELSE "residual")
  /\ UNCHANGED <<config, inUse, err, ddX, ddMax, base, ls, loads, status>>

\* Mutant of Update: the forces the line search has assembled are taken for the residual.
UpdateTrustsSearch(p) ==
  /\ pc[p] = "update"
  /\ X' = [X EXCEPT ![p] = @ + Restricted(p)]
  /\ dX' = [dX EXCEPT ![p] = @ + Restricted(p)]
  /\ nite' = [nite EXCEPT ![p] = @ + 1]
  /\ Goto(p, IF config.solDep THEN "external"
             ELSE IF config.lineSearch /\ nite[p] > 0 THEN "errors" ELSE "residual")
  /\ UNCHANGED <<config, inUse, err, ddX, ddMax, base, ls, loads, status>>

\* The increment is added to the total solution and to the increment of the step.
Update(p) ==
  /\ pc[p] = "update"
  /\ X' = [X EXCEPT ![p] = @ + Restricted(p)]
  /\ dX' = [dX EXCEPT ![p] = @ + Restricted(p)]
  /\ nite' = [nite EXCEPT ![p] = @ + 1]
  /\ Goto(p, IF config.solDep THEN "external" ELSE "residual")
  /\ UNCHANGED <<config, inUse, err, ddX, ddMax, base, ls, loads, status>>

Together == LoadNorm \/ AssembleStiffness \/ AssembleForces \/ AccumulateErrors \/ Solve

Alone(p) == \/ Finish(p) \/ Continue(p) \/ Equilibrate(p) \/ Update(p)
            \/ TakeWhole(p) \/ StartSearch(p) \/ AcceptStep(p) \/ TryNext(p) \/ GiveUp(p)

Next == Together \/ \E p \in Rank : Alone(p)

Spec == Init /\ [][Next]_vars

\* Every process keeps running, and an operation all have entered completes.
FairSpec == Spec /\ WF_vars(Together) /\ \A p \in Rank : WF_vars(Alone(p))
-------------------------------------------------------------------------------
(* Properties *)

\* Every variable has its type.
TypeOK ==
  /\ config \in Config /\ inUse \in [Rank -> SUBSET Group] /\ err \in [Group -> AllClasses]
  /\ pc \in [Rank -> Places] /\ nite \in [Rank -> 0..NsMax]
  /\ X \in [Rank -> Nat] /\ dX \in [Rank -> Nat] /\ ddX \in [Rank -> Nat]
  /\ ddMax \in [Rank -> Nat] /\ base \in [Rank -> Nat]
  /\ ls \in [Rank -> [eta : Nat, trials : 0..LsMax]]
  /\ R \in [Rank -> {0, 1}] /\ RT \in [Rank -> {0, 1}]
  /\ forcesAt \in [Rank -> Nat] /\ loadAt \in [Rank -> Nat]
  /\ status \in [Rank -> {"unknown", "converged", "divergedTol", "divergedIts"}]

\* The processes call the same collective operations in the same order: no two wait
\* in different operations, and none waits for a process that has left the iteration.
CallsMatch ==
  \A p, q \in Rank :
    pc[p] \in Waits => CASE pc[q] \in Waits -> Operation[pc[p]] = Operation[pc[q]]
                         [] pc[q] = "end" -> FALSE
                         [] OTHER -> TRUE

\* All processes leave the iteration with the same verdict after as many iterations.
VerdictsAgree ==
  \A p, q \in Rank : pc[p] = "end" /\ pc[q] = "end" =>
    status[p] = status[q] /\ nite[p] = nite[q]

\* nrsolver.C notes that solutions are always total global values: processes that
\* share a dof have the same value of it whenever they evaluate internal forces.
SharedValueAgrees ==
  \A p, q \in Rank : pc[p] \in {"residual", "end"} /\ pc[q] \in {"residual", "end"} => X[p] = X[q]

\* sparsenonlinsystemnm.h calls X the total solution and dX its increment: over the
\* step X changes by exactly dX, which is what elements get as their increment.
TotalMovesByIncrement ==
  \A p \in Rank : pc[p] \in {"residual", "errors", "end"} => X[p] = dX[p]

\* A step reported as converged is in equilibrium within the tolerances: on all
\* processes, for all groups.
ConvergedIsEquilibrium ==
  \A p \in Rank : status[p] = "converged" => \A g \in Group : err[g] \in {"zero", "small"}

\* nrsolver.C says of the groups that checkConvergence skips that their residual will
\* be zero anyway.
SkippedGroupsAreZero ==
  \A p \in Rank : pc[p] = "decide" => \A g \in Group \ Judged(p) : err[g] = "zero"

\* The load a converged solution balances (RT) is the one that the caller finds in R
\* and will add to the initial load of the next step.
LoadOnRecord == \A p \in Rank : status[p] = "converged" => RT[p] = R[p]

\* A line search leaves total solution and increment consistent: the total is where
\* the search started plus the increment it returns.
SearchConsistent ==
  \A p \in Rank : pc[p] = "update" /\ config.lineSearch /\ nite[p] > 0 =>
    X[p] = base[p] + ddX[p]

\* The verdict is about the solution the step ends with.  The total moves in the trials
\* of a line search, in its last step and once more when the increment is added, the
\* internal forces are assembled in between, and the load before or after; still the
\* residual that is judged is of forces and, where it depends on the solution, of a
\* load assembled for the very X that the solver leaves behind.
VerdictOnLastIterate ==
  \A p \in Rank : pc[p] \in {"decide", "end"} =>
    /\ forcesAt[p] = X[p]
    /\ config.solDep => loadAt[p] = X[p]

\* The step ends on every process, with a verdict.
StepEnds == \A p \in Rank : <>(pc[p] = "end" /\ status[p] # "unknown")
===============================================================================
