----------------------------- MODULE SolutionSteps -----------------------------
(***************************************************************************)
(* The metasteps and solution steps of a NonLinearStatic analysis          *)
(* (EngngModel::solveYourself), the load vectors it carries from step to   *)
(* step, the contexts it saves on disk, and its restart from one of them   *)
(* after the program has ended in any of its steps.                        *)
(*                                                                         *)
(* A load vector is a number.  Reference[n] is the load vector that        *)
(* assembleIncrementalReferenceLoadVectors finds at step n.  The           *)
(* arc-length method raises the load level by a chosen element of          *)
(* Increments; the Newton-Raphson solver sets it to one.                   *)
(* What a run has reported is kept as history, in the context too.         *)
(***************************************************************************)
EXTENDS Integers, Sequences

CONSTANTS
  MetaSteps,    \* the metasteps, in their order
  Reference,    \* the reference load assembled at a step
  Increments,   \* by how much a step of the arc-length method raises the load level
  Torn,         \* a context that was not written to its end
  Every,        \* contextOutputStep, 0 for no contexts
  MaxRuns       \* bound on how often the program is started; the last run has no trouble

\* first: sindex; indirect: controlmode 0; fix: no donotfixload; keep: keepll; dt: deltat.
MetaStep == [first : Nat \ {0}, steps : Nat \ {0}, indirect : BOOLEAN, fix : BOOLEAN,
             keep : BOOLEAN, dt : Nat]

\* setStepBounds; every metastep has a step.
ASSUME MetaStepAssumption ==
  /\ MetaSteps \in Seq(MetaStep) /\ MetaSteps # <<>>
  /\ MetaSteps[1].first = 1
  /\ \A m \in 1 .. Len(MetaSteps) - 1 :
       MetaSteps[m + 1].first = MetaSteps[m].first + MetaSteps[m].steps

nMetaSteps == Len(MetaSteps)
Last(m) == MetaSteps[m].first + MetaSteps[m].steps - 1
Step == 1 .. Last(nMetaSteps)
isStepValid(m, n) == n \in MetaSteps[m].first .. Last(m)

ASSUME LoadAssumption == Reference \in [Step -> Int] /\ Increments \subseteq Int
ASSUME RunAssumption == Every \in Nat /\ MaxRuns \in Nat \ {0}

VARIABLES
  pc,            \* where the program is in solveYourself, or "down", or "done"
  imstep,        \* the metastep whose attributes are in force
  jstep,         \* the relative number of the next step
  number,        \* currentStep: its number, 0 if there is none
  mstep,         \*   its metastep
  time,          \*   its target time
  loadInitFlag,  \* the reference load has to be assembled
  incremental,   \* incrementalLoadVector
  initial,       \* initialLoadVector
  loadLevel, cumulated,   \* loadLevel, cumulatedLoadLevel
  files,         \* the contexts on disk
  past,          \* history: what the steps up to now have reported
  runs           \* starts of the program

step == <<number, mstep, time>>
loads == <<loadInitFlag, incremental, initial, loadLevel, cumulated>>
vars == <<pc, imstep, jstep, step, loads, files, past, runs>>
-------------------------------------------------------------------------------
Running == {"loop", "solve", "solved", "save", "saving"}
attr == MetaSteps[imstep]

\* The load that equilibrium was found with.
Load == initial + loadLevel * incremental

Init ==
  /\ pc = "down" /\ imstep = 1 /\ jstep = 1
  /\ number = 0 /\ mstep = 1 /\ time = 0
  /\ loadInitFlag = TRUE /\ incremental = 0 /\ initial = 0 /\ loadLevel = 0 /\ cumulated = 0
  /\ files = <<>> /\ past = <<>> /\ runs = 0

\* The program is started from the beginning.
Start ==
  /\ pc = "down" /\ runs < MaxRuns
  /\ pc' = "loop" /\ runs' = runs + 1
  /\ imstep' = 1 /\ jstep' = 1
  /\ number' = 0 /\ mstep' = 1 /\ time' = 0
  /\ loadInitFlag' = TRUE /\ incremental' = 0 /\ initial' = 0 /\ loadLevel' = 0 /\ cumulated' = 0
  /\ past' = <<>>
  /\ UNCHANGED files

ContextWith(level) == [number |-> number, mstep |-> mstep, time |-> time, initial |-> initial,
                       loadLevel |-> level, cumulated |-> cumulated, past |-> past]
\* Mutant of Context: the load level is left out.
ContextNoLevel == ContextWith(0)
\* What saveContext writes, with the history that led to it.
Context == ContextWith(loadLevel)

\* Mutant of NextRelative: the step that was saved is solved again.
NextRelative0(c) == c.number - MetaSteps[c.mstep].first + 1
\* Mutant of NextRelative: the number of the step is taken for its relative number.
NextRelativeAll(c) == c.number + 1
\* The step solveYourself continues with, giveStepRelativeNumber + 1.
NextRelative(c) == c.number - MetaSteps[c.mstep].first + 2

\* restoreContext of step n; the rest is as the constructor has left it.
Restart(n) ==
  /\ pc = "down" /\ runs < MaxRuns
  /\ n \in DOMAIN files /\ files[n] # Torn
  /\ LET c == files[n]
     IN /\ number' = c.number /\ mstep' = c.mstep /\ time' = c.time
        /\ initial' = c.initial /\ loadLevel' = c.loadLevel /\ cumulated' = c.cumulated
        /\ past' = c.past
        /\ imstep' = c.mstep /\ jstep' = NextRelative(c)
  /\ loadInitFlag' = TRUE /\ incremental' = 0
  /\ pc' = "loop" /\ runs' = runs + 1
  /\ UNCHANGED files

\* The program ends before its work is done.
Crash ==
  /\ pc \in Running /\ runs < MaxRuns
  /\ pc' = "down"
  /\ UNCHANGED <<imstep, jstep, step, loads, files, past, runs>>
-------------------------------------------------------------------------------
\* The loop over the metasteps: the attributes of the next one.
NextMetaStep ==
  /\ pc = "loop" /\ jstep > attr.steps /\ imstep < nMetaSteps
  /\ imstep' = imstep + 1 /\ jstep' = 1
  /\ UNCHANGED <<pc, step, loads, files, past, runs>>

Finish ==
  /\ pc = "loop" /\ jstep > attr.steps /\ imstep = nMetaSteps
  /\ pc' = "done"
  /\ UNCHANGED <<imstep, jstep, step, loads, files, past, runs>>

\* Mutant of NextMeta: every step after the first begins a metastep.
NextMetaAlways(n, m) == IF n = 1 THEN 1 ELSE m + 1
\* giveNextStep: the metastep of step n that follows a step of metastep m.
NextMeta(n, m) == IF n = 1 THEN 1 ELSE IF isStepValid(m, n) THEN m ELSE m + 1

\* Mutant of StepTime: the step restarts the clock.
StepTimeAnew(n) == IF n = 1 THEN 0 ELSE (n - 1) * attr.dt
\* The first step is at time zero; the increment is that of the attributes in force.
StepTime(n) == IF n = 1 THEN 0 ELSE time + attr.dt

giveNextStep ==
  LET n == number + 1
  IN /\ pc = "loop" /\ jstep <= attr.steps
     /\ IF NextMeta(n, mstep) > nMetaSteps
        THEN pc' = "down" /\ UNCHANGED <<step, jstep>>
        ELSE /\ pc' = "solve" /\ jstep' = jstep + 1
             /\ number' = n /\ mstep' = NextMeta(n, mstep) /\ time' = StepTime(n)
     /\ UNCHANGED <<imstep, loads, files, past, runs>>

\* The reference load is assembled anew.
Assembled == loadInitFlag \/ ~attr.indirect

\* proceedStep that converges, updateYourself, and the step's output.
proceedStep(d) ==
  /\ pc = "solve"
  /\ incremental' = IF Assembled THEN Reference[number] ELSE incremental
  /\ loadInitFlag' = IF Assembled /\ incremental' # 0 THEN FALSE ELSE loadInitFlag
  /\ loadLevel' = IF attr.indirect THEN loadLevel + d ELSE 1
  /\ past' = Append(past, [load |-> initial + loadLevel' * incremental',
                            shown |-> cumulated + loadLevel', by |-> d])
  /\ pc' = "solved"
  /\ UNCHANGED <<imstep, jstep, step, initial, cumulated, files, runs>>

\* proceedStep that does not: OOFEM_ERROR.
NotConverged ==
  /\ pc = "solve" /\ runs < MaxRuns
  /\ pc' = "down"
  /\ UNCHANGED <<imstep, jstep, step, loads, files, past, runs>>

\* Mutant of FixLoad: the flag stays as it is.
FixLoadKeepFlag == initial' = Load /\ incremental' = 0 /\ UNCHANGED loadInitFlag
\* Mutant of FixLoad: the load vector is zeroed before it is added.
FixLoadZeroed == incremental' = 0 /\ loadInitFlag' = TRUE /\ initial' = initial + loadLevel * incremental'
FixLoad == initial' = Load /\ incremental' = 0 /\ loadInitFlag' = TRUE

\* Under direct control the load is fixed after each step.
Fixed == ~attr.indirect \/ (number = Last(mstep) /\ MetaSteps[mstep].fix)

\* Mutant of ResetLevel: the level is summed up whatever the attributes say.
ResetLevelKeep == cumulated' = cumulated + loadLevel /\ loadLevel' = 0
ResetLevel == cumulated' = (IF attr.keep THEN cumulated + loadLevel ELSE 0) /\ loadLevel' = 0

\* updateLoadVectors, and saveStepContext when no context is due.
updateLoadVectors ==
  /\ pc = "solved"
  /\ IF Fixed THEN FixLoad ELSE UNCHANGED <<initial, incremental, loadInitFlag>>
  /\ IF number = Last(mstep) /\ MetaSteps[mstep].fix
     THEN ResetLevel ELSE UNCHANGED <<cumulated, loadLevel>>
  /\ pc' = IF Every > 0 /\ number % Every = 0 THEN "save" ELSE "loop"
  /\ UNCHANGED <<imstep, jstep, step, files, past, runs>>

Put(n, c) == [k \in DOMAIN files \union {n} |-> IF k = n THEN c ELSE files[k]]

\* The context file is opened, whatever it held before, ...
OpenContext ==
  /\ pc = "save"
  /\ files' = Put(number, Torn) /\ pc' = "saving"
  /\ UNCHANGED <<imstep, jstep, step, loads, past, runs>>

\* ... and written.
saveContext ==
  /\ pc = "saving"
  /\ files' = Put(number, Context) /\ pc' = "loop"
  /\ UNCHANGED <<imstep, jstep, step, loads, past, runs>>

Work ==
  \/ NextMetaStep \/ Finish \/ giveNextStep
  \/ \E d \in Increments : proceedStep(d)
  \/ updateLoadVectors \/ OpenContext \/ saveContext
Rerun == Start \/ \E n \in DOMAIN files : Restart(n)
Next == Work \/ Rerun \/ Crash \/ NotConverged

Spec == Init /\ [][Next]_vars
\* The program goes on while it runs, and is started again after it has ended too early.
FairSpec == Spec /\ WF_vars(Work) /\ WF_vars(Rerun)
-------------------------------------------------------------------------------
Report == [load : Int, shown : Int, by : Int]
SavedContext == [number : Step, mstep : 1 .. nMetaSteps, time : Nat, initial : Int,
                 loadLevel : Int, cumulated : Int, past : Seq(Report)]

\* Type invariant.
TypeOK ==
  /\ pc \in Running \union {"down", "done"}
  /\ imstep \in 1 .. nMetaSteps /\ jstep \in 1 .. attr.steps + 1
  /\ number \in 0 .. Last(nMetaSteps) /\ mstep \in 1 .. nMetaSteps /\ time \in Nat
  /\ loadInitFlag \in BOOLEAN
  /\ {incremental, initial, loadLevel, cumulated} \subseteq Int
  /\ DOMAIN files \subseteq Step
  /\ \A n \in DOMAIN files : files[n] = Torn \/ files[n] \in SavedContext
  /\ past \in Seq(Report) /\ runs \in 0 .. MaxRuns

\* The metastep that giveNextStep finds by the step's number is the one whose attributes
\* solveYourself has put in force, and the relative number agrees with the number, also
\* after a restart: no step is left out or solved under another metastep's attributes.
StepInMetaStep ==
  /\ pc \in {"solve", "solved", "save", "saving"} =>
       mstep = imstep /\ isStepValid(imstep, number)
  /\ pc \in Running => number = attr.first + jstep - 2
  /\ pc = "done" => number = Last(nMetaSteps)

MetaOf(n) == CHOOSE m \in 1 .. nMetaSteps : isStepValid(m, n)
TimeOf[n \in Step] == IF n = 1 THEN 0 ELSE TimeOf[n - 1] + MetaSteps[MetaOf(n)].dt

\* The time of a step is the sum of the increments of the steps before it, each with the
\* increment of its own metastep, in a restarted analysis as in one that was not.
TimeRight == number > 0 => time = TimeOf[number]

IsFirst(n, m) == n = MetaSteps[m].first
Before(h, n) == IF n = 1 THEN [load |-> 0, shown |-> 0, by |-> 0] ELSE h[n - 1]
\* Nothing was fixed at the end of the metastep before m.
Unfixed(m) == m > 1 /\ ~MetaSteps[m - 1].fix

\* The load of step n goes on from the load of the step before: by the whole load vector of
\* the step under direct control, else by the increment of the level times the reference
\* load of the metastep.
LoadFollows(h, n) ==
  LET m == MetaOf(n)
  IN h[n].load = Before(h, n).load +
       (IF MetaSteps[m].indirect THEN h[n].by * Reference[MetaSteps[m].first] ELSE Reference[n])

\* The load found in every step reported follows from the one before, over the ends of
\* metasteps (where the load reached is fixed and the level starts from zero) and over
\* restarts (whose contexts hold neither the reference load nor the flag to assemble it).
LoadsFollow == \A n \in 1 .. Len(past) : Unfixed(MetaOf(n)) \/ LoadFollows(past, n)

\* The load level printed: what the metasteps kept before this one with keepll have reached,
\* and the increments of this metastep's steps, or one under direct control.
LevelFollows(h, n) ==
  LET m == MetaOf(n)
      kept == IF m > 1 /\ MetaSteps[m - 1].keep THEN Before(h, MetaSteps[m].first).shown ELSE 0
  IN h[n].shown = IF ~MetaSteps[m].indirect THEN kept + 1
                  ELSE (IF IsFirst(n, m) THEN kept ELSE Before(h, n).shown) + h[n].by

LevelsFollow == \A n \in 1 .. Len(past) : Unfixed(MetaOf(n)) \/ LevelFollows(past, n)

\* Part of the load of step n, of metastep m, still scales.
Scales(m, n) == MetaSteps[m].indirect /\ (n # Last(m) \/ ~MetaSteps[m].fix)

\* A context on disk is that of its step, and with the reference load of its metastep,
\* which is not saved, it gives the load the step was reported with.
ContextHoldsLoad ==
  \A n \in DOMAIN files : files[n] # Torn =>
    LET c == files[n]
    IN /\ c.number = n /\ isStepValid(c.mstep, n) /\ Len(c.past) = n
       /\ c.past[n].load = c.initial + IF Scales(c.mstep, n)
                                       THEN c.loadLevel * Reference[MetaSteps[c.mstep].first] ELSE 0

\* Bookkeeping after a step moves load from the part that scales to the part that does
\* not, and never changes the load itself.
FixingKeepsLoad == [][pc = "solved" /\ pc' \in {"save", "loop"} => Load' = Load]_vars

\* Under indirect control every metastep is loaded with a reference load of its own.
NewReference ==
  pc = "solved" /\ attr.indirect =>
    \E n \in MetaSteps[imstep].first .. Last(imstep) : incremental = Reference[n]

\* An analysis whose last run meets no trouble comes to its end.
AnalysisEnds == <>(pc = "done")
===============================================================================
