------------------------------- MODULE ArcLength -------------------------------
(***************************************************************************)
(* CylindricalALM::solve: load steps with the cylindrical arc-length       *)
(* method, one after the other, with restarts of a step at a smaller step  *)
(* length and the switch to full Newton-Raphson iteration they bring.      *)
(*                                                                         *)
(* Vectors and load levels are known by the iterate they come from:        *)
(* <<r, n>> is iterate n after r restarts of the step, n = 0 being the     *)
(* predictor.  So X = d says that the total displacement is that of the    *)
(* start of the step plus the increment d, load = d that Lambda is the     *)
(* load level reached before plus the one found with d, and forces tells   *)
(* for which total and which increment the internal forces were evaluated. *)
(* mat is the iterate that the temporary state of the material is at, and  *)
(* Equilibrium the state the last step has left.  tangent is the state the *)
(* stiffness was evaluated from.                                           *)
(*                                                                         *)
(* Whether an iteration meets the tolerances or exceeds them beyond        *)
(* CALM_MAX_REL_ERROR_BOUND is chosen freely; a NaN does both.             *)
(* Step lengths are natural numbers.                                       *)
(***************************************************************************)
EXTENDS Integers, Sequences

CONSTANTS
  Attributes,  \* the attributes of the metasteps, in their order
  MaxSteps     \* bound on the number of steps

\* initializeFrom cuts numberOfRequiredIterations to these.
Required == 3..1000

\* manrm: calm_MANRMSteps, 0 for modified N-R; lineSearch: lsFlag; maxiter: nsmax;
\* restarts: maxRestarts; miniter, reqiter: minIterations, numberOfRequiredIterations;
\* min, max, initial, forced: step lengths, 0 if not given.
Attribute == [manrm : Nat, lineSearch : BOOLEAN, maxiter : Nat \ {0}, restarts : Nat, miniter : Nat,
              reqiter : Required, min : Nat, max : Nat \ {0}, initial : Nat, forced : Nat]

ASSUME AttributeAssumption == Attributes \in Seq(Attribute) /\ Attributes # <<>>
ASSUME StepsAssumption == MaxSteps \in Nat

VARIABLES
  meta,              \* the metastep whose attributes are in force
  mode,              \* calm_NR_Mode
  oldMode,           \* calm_NR_OldMode
  tick,              \* calm_NR_ModeTick
  deltaL,            \* the step length
  pc,                \* between steps ("ready") or iterating
  nite,              \* the iteration
  irest,             \* restarts of this step
  X, dX, load,       \* total displacement, its increment, Lambda
  forces,            \* what the internal forces were evaluated for
  mat, tangent,      \* material state, and the one the stiffness comes from
  converged,         \* the verdict of checkConvergence
  steps,             \* steps finished
  calm,              \* history: steps since the last restart or the last change of metastep
  again              \* history: a step was restarted while the mode was full already

iterate == <<X, dX, load, forces, mat, tangent>>
newton == <<mode, oldMode, tick>>
vars == <<meta, newton, deltaL, pc, nite, irest, iterate, converged, steps, calm, again>>
-------------------------------------------------------------------------------
attr == Attributes[meta]
Modes == {"modified", "full", "accel"}
NRMTicks == 2                  \* CALM_DEFAULT_NRM_TICKS
Equilibrium == <<-1, 0>>
Calm == NRMTicks + 1           \* bound on the count of steps without a restart

Lower(a, b) == IF a < b THEN a ELSE b
Upper(a, b) == IF a < b THEN b ELSE a

\* The mode the attributes ask for.
Asked(a) == IF a.manrm > 0 THEN "accel" ELSE "modified"

\* Mutant of KeptLength: what another metastep has left is kept, be it too long.
KeptLengthAny(d, a) == IF a.forced > 0 THEN a.forced
                       ELSE IF d > 0 THEN d
                       ELSE IF a.initial > 0 THEN a.initial ELSE a.max
\* initializeFrom keeps the length of the last step if there is one within bounds;
\* a forced length always wins.
KeptLength(d, a) == IF a.forced > 0 THEN a.forced
                    ELSE IF d > 0 /\ d <= a.max THEN d
                    ELSE IF a.initial > 0 THEN a.initial ELSE a.max

\* The constructor, and initializeFrom for the first metastep.
Init ==
  /\ meta = 1
  /\ mode = Asked(attr) /\ oldMode = Asked(attr) /\ tick = -1
  /\ deltaL = KeptLength(-1, attr)
  /\ pc = "ready" /\ nite = 0 /\ irest = 0
  /\ X = Equilibrium /\ dX = Equilibrium /\ load = Equilibrium
  /\ forces = <<Equilibrium, Equilibrium>> /\ mat = Equilibrium /\ tangent = Equilibrium
  /\ converged = TRUE
  /\ steps = 0 /\ calm = Calm /\ again = FALSE

\* initializeFrom for the next metastep; modified N-R leaves the old mode as it is.
NextMetaStep ==
  /\ pc = "ready" /\ meta < Len(Attributes)
  /\ meta' = meta + 1
  /\ mode' = Asked(attr')
  /\ oldMode' = IF attr'.manrm > 0 THEN "accel" ELSE oldMode
  /\ deltaL' = KeptLength(deltaL, attr')
  /\ calm' = Calm
  /\ UNCHANGED <<tick, pc, nite, irest, iterate, converged, steps, again>>
-------------------------------------------------------------------------------
\* From restart on: the stiffness for the material state state, the predictor, and the
\* internal forces for it; X is the total displacement of the start of the step.
Predict(r, state) ==
  LET d == <<r, 0>>
  IN /\ tangent' = state
     /\ X' = d /\ dX' = d /\ load' = d /\ forces' = <<d, d>> /\ mat' = d
     /\ nite' = 0 /\ irest' = r
     /\ pc' = "iterate"

\* Mutant of Countdown: the old mode comes back one step too early.
CountdownEarly == /\ tick' = IF tick > 0 THEN tick - 1 ELSE tick
                  /\ mode' = IF tick' = 0 THEN oldMode ELSE mode
\* The old mode comes back when the ticks are used up, and then in every step.
Countdown == /\ mode' = IF tick = 0 THEN oldMode ELSE mode
             /\ tick' = IF tick > 0 THEN tick - 1 ELSE tick

StartStep ==
  /\ pc = "ready" /\ steps < MaxSteps
  /\ Countdown
  /\ Predict(0, mat)
  /\ converged' = FALSE
  /\ UNCHANGED <<meta, oldMode, deltaL, steps, calm, again>>

\* The new increment and the forces for it.  The line search, from the second iteration
\* on, tries increments and evaluates the forces, but leaves the total displacement.
Increment(d) ==
  /\ dX' = d
  /\ X' = IF attr.lineSearch /\ nite' # 1 THEN X ELSE d
  /\ forces' = <<X', dX'>>

\* One iteration up to checkConvergence.
Sweep ==
  /\ nite' = nite + 1
  /\ tangent' = IF mode = "full" \/ (mode = "accel" /\ nite' % attr.manrm = 0) THEN mat ELSE tangent
  /\ Increment(<<irest, nite'>>)
  /\ load' = <<irest, nite'>>
  /\ mat' = <<irest, nite'>>

\* The verdict on the iteration and whether the error is out of range.
Verdict == {<<c, o>> : c, o \in BOOLEAN}
Troubled(out) == nite + 1 >= attr.maxiter \/ out

Continue ==
  /\ pc = "iterate"
  /\ \E v \in Verdict : /\ ~Troubled(v[2])
                        /\ ~v[1] \/ nite + 1 < attr.miniter
                        /\ converged' = v[1]
  /\ Sweep
  /\ UNCHANGED <<meta, newton, deltaL, pc, irest, steps, calm, again>>

\* Mutant of Restarts: the counter stays.
RestartsUncounted == irest
Restarts == irest + 1
MayRestart == Restarts <= attr.restarts

\* Mutant of InitStepIncrements: temporary material data stay as they are.
InitStepIncrementsNot(state) == state
\* EngngModel::initStepIncrements: only the data of the last equilibrium remain.
InitStepIncrements(state) == Equilibrium

\* CALM_RESET_STEP_REDUCE
Reduced == Upper(deltaL \div 4, attr.min)

\* Mutant of SwitchToFull: the modes are assigned in the other order.
SwitchToFullFirst == mode' = "full" /\ oldMode' = mode' /\ tick' = NRMTicks
SwitchToFull == oldMode' = mode /\ mode' = "full" /\ tick' = NRMTicks

\* Out of range or too many iterations, even if the last one has converged: once more
\* with a smaller step, and full N-R in this and the next steps.
Restart ==
  /\ pc = "iterate"
  /\ \E v \in Verdict : Troubled(v[2]) /\ converged' = v[1]
  /\ MayRestart
  /\ deltaL' = Reduced
  /\ SwitchToFull
  /\ Predict(Restarts, InitStepIncrements(<<irest, nite + 1>>))
  /\ calm' = 0 /\ again' = (again \/ mode = "full")
  /\ UNCHANGED <<meta, steps>>

Power4(d) == d * d * d * d
\* d is the fourth root of a / b, rounded down or up.
IsRoot(d, a, b) == \/ Power4(d) * b <= a /\ a < Power4(d + 1) * b
                   \/ a <= Power4(d) * b /\ Power4(d - 1) * b < a

\* The length grows with the root of a root of required by needed iterations.
Grown == {d \in deltaL..(deltaL * attr.reqiter) : IsRoot(d, Power4(deltaL) * attr.reqiter, nite')}

\* The length for the next step, within the bounds.
NextLength ==
  {Upper(Lower(d, attr.max), attr.min) :
     d \in IF nite' > attr.reqiter THEN {(deltaL * attr.reqiter) \div nite'} ELSE Grown}

\* After the loop: the step is reported as converged, whether the last iteration has
\* or the restarts are used up.  The engineering model then accepts the state.
Finish ==
  /\ pc = "iterate"
  /\ \E v \in Verdict : /\ \/ ~Troubled(v[2]) /\ v[1] /\ nite + 1 >= attr.miniter
                           \/ Troubled(v[2]) /\ ~MayRestart
                        /\ converged' = v[1]
  /\ nite' = nite + 1
  /\ tangent' = IF mode = "full" \/ (mode = "accel" /\ nite' % attr.manrm = 0) THEN mat ELSE tangent
  /\ Increment(<<irest, nite'>>)
  /\ load' = <<irest, nite'>>
  /\ mat' = Equilibrium
  /\ deltaL' \in NextLength
  /\ pc' = "ready"
  /\ steps' = steps + 1
  /\ calm' = Lower(calm + 1, Calm)
  /\ UNCHANGED <<meta, newton, irest, again>>
-------------------------------------------------------------------------------
Next == NextMetaStep \/ StartStep \/ Continue \/ Restart \/ Finish

Spec == Init /\ [][Next]_vars
\* The solver runs on as long as it is in a step.
FairSpec == Spec /\ WF_vars(Continue \/ Restart \/ Finish)
-------------------------------------------------------------------------------
Iterate == Int \X Int

\* Type invariant.
TypeOK ==
  /\ meta \in 1..Len(Attributes)
  /\ mode \in Modes /\ oldMode \in Modes /\ tick \in -1..NRMTicks
  /\ deltaL \in Nat /\ pc \in {"ready", "iterate"} /\ nite \in Nat /\ irest \in Nat
  /\ X \in Iterate /\ dX \in Iterate /\ load \in Iterate /\ mat \in Iterate /\ tangent \in Iterate
  /\ forces \in Iterate \X Iterate
  /\ converged \in BOOLEAN /\ again \in BOOLEAN /\ steps \in 0..MaxSteps /\ calm \in 0..Calm

\* A step starts again where it started: the predictor uses the stiffness of the last
\* equilibrium, not of the iterate that was given up, and so do all iterations of
\* modified N-R.
StartsFromEquilibrium ==
  pc = "iterate" /\ (nite = 0 \/ mode = "modified") => tangent = Equilibrium

\* A step that is restarted, and as many steps after it as there are ticks, iterate with
\* full N-R if the metastep does not change.
FullAfterTrouble == pc = "iterate" /\ calm <= NRMTicks => mode = "full"

\* Steps later than that iterate with the mode their metastep asks for, unless a restart
\* happened in full mode already, which makes full the old mode.
OldModeBack == pc = "iterate" /\ calm = Calm /\ ~again => mode = Asked(attr)

\* The length of a step is within the bounds of its metastep: it outlives the metastep
\* it was adjusted in, restarts cut it, quick and slow steps change it, and the bounds
\* are applied at three different places.
LengthInRange == pc = "iterate" => deltaL \in attr.min..attr.max

\* The total displacement is that of the start of the step plus the increment, the load
\* level belongs to the same increment, and the internal forces were evaluated for both.
TotalIsSum == X = dX /\ load = dX /\ forces = <<X, dX>>

\* What solve returns as converged is an iterate that meets the tolerances.
ConvergedMeetsTolerances == pc = "ready" => converged

\* Every step comes to an end, converged or not.
StepEnds == pc = "iterate" ~> pc = "ready"
===============================================================================
