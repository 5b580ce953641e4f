--------------------------- MODULE ArcLengthProofs ---------------------------
(***************************************************************************)
(* Where steps of the arc-length method set out, the mode they iterate in  *)
(* and their length, over restarts, changes of the iteration mode and      *)
(* changes of metastep, for any attributes and any number of steps.        *)
(***************************************************************************)
EXTENDS ArcLength, TLAPS

LEMMA AttrTyped == ASSUME meta \in 1 .. Len(Attributes) PROVE attr \in Attribute
PROOF BY AttributeAssumption DEF attr

LEMMA LengthTyped ==
  ASSUME NEW d \in Int, NEW a \in Attribute
  PROVE  KeptLength(d, a) \in Nat
PROOF BY DEF KeptLength, Attribute

LEMMA RequiredTyped == Required \subseteq Nat
PROOF BY DEF Required

LEMMA NextLengthTyped ==
  ASSUME meta \in 1 .. Len(Attributes), deltaL \in Nat, nite' \in Nat
  PROVE  NextLength \subseteq Nat
PROOF
<1>1. attr \in Attribute
  BY AttrTyped
<1>2. attr.min \in Nat /\ attr.max \in Nat /\ attr.reqiter \in Nat
  BY <1>1, RequiredTyped DEF Attribute
<1>3. ASSUME NEW d \in Int
      PROVE  Upper(Lower(d, attr.max), attr.min) \in Nat
  BY <1>2 DEF Upper, Lower
<1>4. CASE nite' > attr.reqiter
  <2>1. (deltaL * attr.reqiter) \div nite' \in Int
    BY <1>2, <1>4
  <2>. QED
    BY <1>3, <1>4, <2>1 DEF NextLength
<1>5. CASE ~(nite' > attr.reqiter)
  <2>1. deltaL * attr.reqiter \in Int
    BY <1>2
  <2>2. Grown \subseteq Int
    BY <2>1 DEF Grown
  <2>. QED
    BY <1>3, <1>5, <2>2 DEF NextLength
<1>. QED
  BY <1>4, <1>5

LEMMA IterateTyped ==
  ASSUME NEW r \in Int, NEW n \in Int
  PROVE  <<r, n>> \in Iterate
PROOF BY DEF Iterate

LEMMA EquilibriumTyped == Equilibrium \in Iterate
PROOF BY IterateTyped DEF Equilibrium

-------------------------------------------------------------------------------
(* Type correctness *)

\* Whoever iterates has a step left.
TypeInv == TypeOK /\ (pc = "iterate" => steps < MaxSteps)

LEMMA TypeInit == Init => TypeInv
PROOF
<1>. SUFFICES ASSUME Init
              PROVE  TypeInv
  OBVIOUS
<1>1. meta \in 1 .. Len(Attributes)
  BY AttributeAssumption DEF Init
<1>2. deltaL \in Nat
  BY <1>1, AttrTyped, LengthTyped DEF Init
<1>3. mode \in Modes /\ oldMode \in Modes /\ pc = "ready" /\ steps \in 0 .. MaxSteps /\ calm \in 0 .. Calm
  BY StepsAssumption DEF Init, Asked, Modes, Calm, NRMTicks
<1>4. /\ X \in Iterate /\ dX \in Iterate /\ load \in Iterate /\ mat \in Iterate /\ tangent \in Iterate
      /\ forces \in Iterate \X Iterate
  BY EquilibriumTyped DEF Init
<1>5. tick \in -1 .. NRMTicks /\ nite = 0 /\ irest = 0 /\ converged = TRUE /\ again = FALSE
  BY DEF Init, NRMTicks
<1>. QED
  BY <1>1, <1>2, <1>3, <1>4, <1>5 DEF TypeInv, TypeOK

LEMMA TypeStep == TypeInv /\ [Next]_vars => TypeInv'
PROOF
<1>. SUFFICES ASSUME TypeInv, [Next]_vars
              PROVE  TypeInv'
  OBVIOUS
<1>. USE DEF TypeInv, TypeOK
<1>0. attr \in Attribute
  BY AttrTyped
<1>1. CASE NextMetaStep
  <2>1. meta' \in 1 .. Len(Attributes)
    BY <1>1, AttributeAssumption DEF NextMetaStep
  <2>2. Attributes[meta'] \in Attribute
    BY <2>1, AttributeAssumption
  <2>3. deltaL' \in Nat
    BY <1>1, <2>2, LengthTyped DEF NextMetaStep, attr
  <2>4. mode' \in Modes /\ oldMode' \in Modes
    BY <1>1 DEF NextMetaStep, Asked, Modes
  <2>. QED
    BY <1>1, <2>1, <2>3, <2>4 DEF NextMetaStep, iterate, Calm, NRMTicks
<1>2. CASE StartStep
  <2>1. <<0, 0>> \in Iterate
    BY IterateTyped
  <2>2. mode' \in Modes /\ tick' \in -1 .. NRMTicks
    BY <1>2 DEF StartStep, Countdown, NRMTicks
  <2>3. Predict(0, mat) /\ UNCHANGED <<meta, oldMode, deltaL, steps, calm, again>> /\ converged' = FALSE
        /\ steps < MaxSteps
    BY <1>2 DEF StartStep
  <2>. QED
    BY <2>1, <2>2, <2>3 DEF Predict
<1>3. CASE Continue
  <2>1. <<irest, nite'>> \in Iterate /\ nite' \in Nat
    BY <1>3, IterateTyped DEF Continue, Sweep
  <2>2. converged' \in BOOLEAN
    BY <1>3 DEF Continue, Verdict
  <2>3. Sweep /\ UNCHANGED <<meta, mode, oldMode, tick, deltaL, pc, irest, steps, calm, again>>
    BY <1>3 DEF Continue, newton
  <2>4. X' \in Iterate /\ dX' \in Iterate /\ forces' \in Iterate \X Iterate
    BY <2>1, <2>3 DEF Sweep, Increment
  <2>5. load' \in Iterate /\ mat' \in Iterate /\ tangent' \in Iterate
    BY <2>1, <2>3 DEF Sweep
  <2>. QED
    BY <2>1, <2>2, <2>3, <2>4, <2>5
<1>4. CASE Restart
  <2>1. deltaL' \in Nat
    BY <1>0, <1>4 DEF Restart, Reduced, Upper, Attribute
  <2>2. UNCHANGED <<meta, steps>> /\ converged' \in BOOLEAN /\ again' \in BOOLEAN /\ calm' \in 0 .. Calm
    BY <1>4 DEF Restart, Verdict, Calm, NRMTicks
  <2>3. mode' \in Modes /\ oldMode' \in Modes /\ tick' \in -1 .. NRMTicks
    BY <1>4 DEF Restart, SwitchToFull, Modes, NRMTicks
  <2>4. Predict(Restarts, Equilibrium) /\ Restarts \in Nat
    BY <1>4 DEF Restart, Restarts, InitStepIncrements
  <2>5. <<Restarts, 0>> \in Iterate /\ Equilibrium \in Iterate
    BY <2>4, IterateTyped, EquilibriumTyped
  <2>. QED
    BY <1>4, <2>1, <2>2, <2>3, <2>4, <2>5 DEF Predict, Restart
<1>5. CASE Finish
  <2>1. nite' \in Nat
    BY <1>5 DEF Finish
  <2>2. deltaL' \in Nat
    BY <1>5, <2>1, NextLengthTyped DEF Finish
  <2>3. UNCHANGED <<meta, newton, irest, again>> /\ converged' \in BOOLEAN /\ pc' = "ready"
    BY <1>5 DEF Finish, Verdict
  <2>4. dX' \in Iterate /\ X' \in Iterate /\ load' \in Iterate
    BY <1>5, <2>1, IterateTyped DEF Finish, Increment
  <2>5. forces' \in Iterate \X Iterate /\ mat' \in Iterate /\ tangent' \in Iterate
    BY <1>5, <2>4, EquilibriumTyped DEF Finish, Increment
  <2>6. calm' \in 0 .. Calm
    BY <1>5 DEF Finish, Lower, Calm, NRMTicks
  <2>7. steps' \in 0 .. MaxSteps
    BY <1>5, StepsAssumption DEF Finish
  <2>. QED
    BY <2>1, <2>2, <2>3, <2>4, <2>5, <2>6, <2>7 DEF newton
<1>6. CASE UNCHANGED vars
  BY <1>6 DEF vars, newton, iterate
<1>. QED
  BY <1>1, <1>2, <1>3, <1>4, <1>5, <1>6 DEF Next

\* Type correctness of the arc-length method.
THEOREM ArcTypeCorrect == Spec => []TypeOK
PROOF
<1>1. TypeInv => TypeOK
  BY DEF TypeInv
<1>. QED
  BY <1>1, TypeInit, TypeStep, PTL DEF Spec

-------------------------------------------------------------------------------
(* Restarts: the material state between steps is the last equilibrium, so   *)
(* the stiffness of a predictor is, and modified Newton-Raphson keeps it.   *)

RestInv == /\ pc = "ready" => mat = Equilibrium
           /\ StartsFromEquilibrium

LEMMA RestStep == TypeOK /\ RestInv /\ [Next]_vars => RestInv'
PROOF
<1>. SUFFICES ASSUME TypeOK, RestInv, [Next]_vars
              PROVE  RestInv'
  OBVIOUS
<1>. USE DEF RestInv, StartsFromEquilibrium
<1>1. CASE NextMetaStep
  BY <1>1 DEF NextMetaStep, iterate
<1>2. CASE StartStep
  BY <1>2 DEF StartStep, Predict
<1>3. CASE Continue
  <2>1. pc = "iterate" /\ pc' = "iterate" /\ mode' = mode
    BY <1>3 DEF Continue, newton
  <2>2. CASE mode = "modified"
    BY <1>3, <2>1, <2>2 DEF Continue, Sweep
  <2>3. nite' # 0
    BY <1>3 DEF Continue, Sweep, TypeOK
  <2>. QED
    BY <2>1, <2>2, <2>3
<1>4. CASE Restart
  BY <1>4 DEF Restart, Predict, InitStepIncrements
<1>5. CASE Finish
  BY <1>5 DEF Finish
<1>6. CASE UNCHANGED vars
  BY <1>6 DEF vars, newton, iterate
<1>. QED
  BY <1>1, <1>2, <1>3, <1>4, <1>5, <1>6 DEF Next

\* Every step, restarted or not, sets out from the last equilibrium.
THEOREM StepsStartFromEquilibrium == Spec => []StartsFromEquilibrium
PROOF
<1>1. Init => RestInv
  BY DEF Init, RestInv, StartsFromEquilibrium
<1>2. RestInv => StartsFromEquilibrium
  BY DEF RestInv
<1>. QED
  BY <1>1, <1>2, RestStep, ArcTypeCorrect, PTL DEF Spec

-------------------------------------------------------------------------------
(* Trouble: the ticks left tell how many steps ago the last restart was,     *)
(* and as long as there are any the mode is full.                            *)

TicksLeft == calm <= NRMTicks =>
               mode = "full" /\ tick = (IF pc = "iterate" THEN NRMTicks ELSE NRMTicks + 1) - calm

LEMMA TicksStep == TypeOK /\ TicksLeft /\ [Next]_vars => TicksLeft'
PROOF
<1>. SUFFICES ASSUME TypeOK, TicksLeft, [Next]_vars
              PROVE  TicksLeft'
  OBVIOUS
<1>. USE DEF TicksLeft, TypeOK, Calm, NRMTicks
<1>1. CASE NextMetaStep
  BY <1>1 DEF NextMetaStep
<1>2. CASE StartStep
  BY <1>2 DEF StartStep, Countdown, Predict
<1>3. CASE Continue
  BY <1>3 DEF Continue, newton
<1>4. CASE Restart
  BY <1>4 DEF Restart, SwitchToFull, Predict
<1>5. CASE Finish
  BY <1>5 DEF Finish, Lower, newton
<1>6. CASE UNCHANGED vars
  BY <1>6 DEF vars, newton
<1>. QED
  BY <1>1, <1>2, <1>3, <1>4, <1>5, <1>6 DEF Next

LEMMA TicksInit == Init => TicksLeft
PROOF BY DEF Init, TicksLeft, Calm, NRMTicks

\* Full Newton-Raphson is used from a restart on for as many steps as there are ticks.
THEOREM FullModeAfterTrouble == Spec => []FullAfterTrouble
PROOF
<1>1. TicksLeft => FullAfterTrouble
  BY DEF TicksLeft, FullAfterTrouble
<1>. QED
  BY <1>1, TicksInit, TicksStep, ArcTypeCorrect, PTL DEF Spec

\* Once metasteps ask for accelerated iteration, all later ones do.
AcceleratedStays == \A m \in 1 .. Len(Attributes) - 1 :
                      Attributes[m].manrm > 0 => Attributes[m + 1].manrm > 0

\* Unless a restart happened in full mode, the old mode is the one asked for, and the mode
\* is full only in trouble or right before the old one comes back.
OldModeKept == ~again => /\ oldMode = Asked(attr)
                         /\ mode \in {"full", Asked(attr)}
                         /\ mode = "full" /\ calm = Calm => pc = "ready" /\ tick = 0

LEMMA OldModeStep ==
  ASSUME AcceleratedStays
  PROVE  TypeOK /\ TicksLeft /\ OldModeKept /\ [Next]_vars => OldModeKept'
PROOF
<1>. SUFFICES ASSUME TypeOK, TicksLeft, OldModeKept, [Next]_vars, ~again'
              PROVE  /\ oldMode' = Asked(attr')
                     /\ mode' \in {"full", Asked(attr')}
                     /\ mode' = "full" /\ calm' = Calm => pc' = "ready" /\ tick' = 0
  BY DEF OldModeKept
<1>0. calm \in 0 .. Calm /\ Calm = 3 /\ NRMTicks = 2 /\ meta \in 1 .. Len(Attributes)
  BY DEF TypeOK, Calm, NRMTicks
<1>1. CASE NextMetaStep
  <2>1. meta \in 1 .. Len(Attributes) - 1 /\ meta' = meta + 1 /\ again' = again
    BY <1>0, <1>1, AttributeAssumption DEF NextMetaStep
  <2>2. attr \in Attribute /\ attr' \in Attribute
    BY <2>1, AttributeAssumption DEF attr
  <2>3. attr.manrm > 0 => attr'.manrm > 0
    BY <2>1, AcceleratedStays DEF AcceleratedStays, attr
  <2>4. oldMode = Asked(attr)
    BY <2>1 DEF OldModeKept
  <2>5. mode' = Asked(attr') /\ mode' # "full"
    BY <1>1 DEF NextMetaStep, Asked
  <2>6. oldMode' = Asked(attr')
    <3>1. CASE attr'.manrm > 0
      BY <1>1, <3>1 DEF NextMetaStep, Asked
    <3>2. CASE ~(attr'.manrm > 0)
      BY <1>1, <2>3, <2>4, <3>2 DEF NextMetaStep, Asked
    <3>. QED
      BY <3>1, <3>2
  <2>. QED
    BY <2>5, <2>6
<1>2. CASE StartStep
  <2>1. UNCHANGED <<meta, oldMode, calm, again>> /\ Countdown
    BY <1>2 DEF StartStep
  <2>2. attr' = attr
    BY <2>1 DEF attr
  <2>3. pc = "ready" /\ oldMode = Asked(attr) /\ mode \in {"full", Asked(attr)}
        /\ (mode = "full" /\ calm = Calm => tick = 0)
    BY <1>2, <2>1 DEF StartStep, OldModeKept
  <2>4. Asked(attr) # "full"
    BY DEF Asked
  <2>5. mode' \in {"full", Asked(attr)} /\ ~(mode' = "full" /\ calm' = Calm)
    BY <2>1, <2>3, <2>4 DEF Countdown
  <2>. QED
    BY <2>1, <2>2, <2>3, <2>5
<1>3. CASE Continue
  BY <1>3 DEF Continue, newton, OldModeKept, attr
<1>4. CASE Restart
  <2>1. ~again /\ mode # "full" /\ mode' = "full" /\ oldMode' = mode /\ calm' = 0 /\ meta' = meta
    BY <1>4 DEF Restart, SwitchToFull
  <2>. QED
    BY <1>0, <2>1 DEF OldModeKept, attr
<1>5. CASE Finish
  <2>1. UNCHANGED <<meta, mode, oldMode, tick, again>> /\ pc = "iterate" /\ pc' = "ready"
        /\ calm' = Lower(calm + 1, Calm)
    BY <1>5 DEF Finish, newton
  <2>2. ASSUME mode' = "full", calm' = Calm
        PROVE  tick' = 0
    <3>1. calm # Calm
      BY <2>1, <2>2 DEF OldModeKept
    <3>2. calm = 2
      BY <1>0, <2>1, <2>2, <3>1 DEF Lower
    <3>. QED
      BY <1>0, <2>1, <3>2 DEF TicksLeft
  <2>. QED
    BY <2>1, <2>2 DEF OldModeKept, attr
<1>6. CASE UNCHANGED vars
  BY <1>6 DEF vars, newton, OldModeKept, attr
<1>. QED
  BY <1>1, <1>2, <1>3, <1>4, <1>5, <1>6 DEF Next

\* Later steps iterate in the mode asked for, if no metastep goes back from accelerated to
\* modified Newton-Raphson.
THEOREM OldModeComesBack == AcceleratedStays => (Spec => []OldModeBack)
PROOF
<1>. SUFFICES ASSUME AcceleratedStays
              PROVE  Spec => []OldModeBack
  OBVIOUS
<1>1. Init => OldModeKept
  BY DEF Init, OldModeKept, Asked
<1>2. OldModeKept => OldModeBack
  BY DEF OldModeKept, OldModeBack
<1>. QED
  BY <1>1, <1>2, OldModeStep, TicksInit, TicksStep, ArcTypeCorrect, PTL DEF Spec

-------------------------------------------------------------------------------
(* The step length *)

\* The bounds of every metastep leave room, given lengths are within them, and the
\* smallest length does not grow from one metastep to the next unless that forces a
\* length of its own: initializeFrom cuts what an earlier metastep has left to the new
\* maximum, but does not raise it to the new minimum.
BoundsFit ==
  /\ \A m \in 1 .. Len(Attributes) :
       LET a == Attributes[m]
       IN /\ a.min <= a.max
          /\ a.initial > 0 => a.initial \in a.min .. a.max
          /\ a.forced > 0 => a.forced \in a.min .. a.max
  /\ \A m \in 1 .. Len(Attributes) - 1 :
       Attributes[m + 1].min <= Attributes[m].min \/ Attributes[m + 1].forced > 0

LengthInv == deltaL \in attr.min .. attr.max

\* What BoundsFit says of one metastep.
LEMMA BoundsOf ==
  ASSUME BoundsFit, NEW m \in 1 .. Len(Attributes), NEW a, a = Attributes[m]
  PROVE  /\ a.min \in Nat /\ a.max \in Nat /\ a.initial \in Nat /\ a.forced \in Nat
         /\ a.reqiter \in Nat /\ a.min <= a.max
         /\ a.initial > 0 => a.initial \in a.min .. a.max
         /\ a.forced > 0 => a.forced \in a.min .. a.max
PROOF
<1>1. a \in Attribute
  BY AttributeAssumption
<1>. QED
  BY <1>1, RequiredTyped DEF BoundsFit, Attribute

LEMMA LengthInit == BoundsFit /\ Init => LengthInv
PROOF
<1>. SUFFICES ASSUME BoundsFit, Init
              PROVE  LengthInv
  OBVIOUS
<1>1. meta \in 1 .. Len(Attributes) /\ deltaL = KeptLength(-1, attr)
  BY AttributeAssumption DEF Init
<1>. QED
  BY <1>1, BoundsOf DEF LengthInv, KeptLength, attr

LEMMA LengthStep ==
  ASSUME BoundsFit
  PROVE  TypeOK /\ LengthInv /\ [Next]_vars => LengthInv'
PROOF
<1>. SUFFICES ASSUME TypeOK, LengthInv, [Next]_vars
              PROVE  LengthInv'
  OBVIOUS
<1>0. /\ attr.min \in Nat /\ attr.max \in Nat /\ attr.reqiter \in Nat /\ attr.min <= attr.max
      /\ meta \in 1 .. Len(Attributes) /\ deltaL \in Nat
  BY BoundsOf DEF TypeOK, attr
<1>1. CASE NextMetaStep
  <2>1. meta \in 1 .. Len(Attributes) - 1 /\ meta' = meta + 1 /\ deltaL' = KeptLength(deltaL, attr')
    BY <1>0, <1>1, AttributeAssumption DEF NextMetaStep
  <2> DEFINE a == Attributes[meta + 1]
  <2>2. attr' = a /\ attr = Attributes[meta]
    BY <2>1 DEF attr
  <2>3. /\ a.min \in Nat /\ a.max \in Nat /\ a.initial \in Nat /\ a.forced \in Nat /\ a.min <= a.max
        /\ a.initial > 0 => a.initial \in a.min .. a.max
        /\ a.forced > 0 => a.forced \in a.min .. a.max
    <3>1. meta + 1 \in 1 .. Len(Attributes)
      BY <2>1, AttributeAssumption
    <3>. QED
      BY <3>1, BoundsOf
  <2>4. a.min <= attr.min \/ a.forced > 0
    BY <2>1, <2>2 DEF BoundsFit
  <2>5. attr.min <= deltaL
    BY <1>0 DEF LengthInv
  <2> HIDE DEF a
  <2>6. KeptLength(deltaL, a) \in a.min .. a.max
    BY <1>0, <2>3, <2>4, <2>5 DEF KeptLength
  <2>. QED
    BY <2>1, <2>2, <2>6 DEF LengthInv
<1>2. CASE UNCHANGED <<meta, deltaL>>
  BY <1>2 DEF LengthInv, attr
<1>3. CASE StartStep \/ Continue
  BY <1>2, <1>3 DEF StartStep, Continue
<1>4. CASE Restart
  <2>1. meta' = meta /\ deltaL' = Upper(deltaL \div 4, attr.min)
    BY <1>4 DEF Restart, Reduced
  <2>2. deltaL \div 4 \in Nat /\ deltaL \div 4 <= deltaL /\ deltaL <= attr.max
    BY <1>0 DEF LengthInv
  <2>. QED
    BY <1>0, <2>1, <2>2 DEF LengthInv, Upper, attr
<1>5. CASE Finish
  <2>1. meta' = meta /\ deltaL' \in NextLength /\ nite' \in Nat /\ nite' > 0
    BY <1>5 DEF Finish, TypeOK
  <2>2. ASSUME NEW d \in Int
        PROVE  Upper(Lower(d, attr.max), attr.min) \in attr.min .. attr.max
    BY <1>0 DEF Upper, Lower
  <2>3. (deltaL * attr.reqiter) \div nite' \in Int
    BY <1>0, <2>1
  <2>4. Grown \subseteq Int
    BY <1>0 DEF Grown
  <2>5. NextLength \subseteq attr.min .. attr.max
    <3>1. CASE nite' > attr.reqiter
      BY <2>2, <2>3, <3>1 DEF NextLength
    <3>2. CASE ~(nite' > attr.reqiter)
      BY <2>2, <2>4, <3>2 DEF NextLength
    <3>. QED
      BY <3>1, <3>2
  <2>. QED
    BY <2>1, <2>5 DEF LengthInv, attr
<1>6. CASE UNCHANGED vars
  BY <1>2, <1>6 DEF vars
<1>. QED
  BY <1>1, <1>3, <1>4, <1>5, <1>6 DEF Next

\* CylindricalALM: restarts, growth and slow steps, and changes of metastep keep the
\* length of a step within the bounds of its metastep, if the bounds fit.
THEOREM LengthStaysInRange == BoundsFit => (Spec => []LengthInRange)
PROOF
<1>. SUFFICES ASSUME BoundsFit
              PROVE  Spec => []LengthInRange
  OBVIOUS
<1>1. LengthInv => LengthInRange
  BY DEF LengthInv, LengthInRange
<1>. QED
  BY <1>1, LengthInit, LengthStep, ArcTypeCorrect, PTL DEF Spec
===============================================================================
