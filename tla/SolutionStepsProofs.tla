------------------------- MODULE SolutionStepsProofs -------------------------
(***************************************************************************)
(* The steps of an analysis, its load vectors and its contexts fit         *)
(* together over metasteps and restarts, for any metasteps and loads and   *)
(* any number of runs of the program.                                      *)
(***************************************************************************)
EXTENDS SolutionSteps, TLAPS, WellFoundedInduction

-------------------------------------------------------------------------------
(* Metasteps follow each other without gaps. *)

LEMMA MetaStepTyped ==
  ASSUME NEW m \in 1 .. nMetaSteps
  PROVE  /\ MetaSteps[m] \in MetaStep
         /\ MetaSteps[m].first \in Nat \ {0} /\ MetaSteps[m].steps \in Nat \ {0}
         /\ MetaSteps[m].indirect \in BOOLEAN /\ MetaSteps[m].fix \in BOOLEAN
         /\ MetaSteps[m].keep \in BOOLEAN /\ MetaSteps[m].dt \in Nat
         /\ Last(m) \in Nat \ {0} /\ MetaSteps[m].first <= Last(m)
PROOF
<1>1. MetaSteps[m] \in MetaStep
  BY MetaStepAssumption DEF nMetaSteps
<1>. QED
  BY <1>1 DEF MetaStep, Last

LEMMA CountTyped == nMetaSteps \in Nat \ {0}
PROOF BY MetaStepAssumption DEF nMetaSteps

LEMMA NextFirst ==
  ASSUME NEW m \in 1 .. nMetaSteps, m # nMetaSteps
  PROVE  m + 1 \in 1 .. nMetaSteps /\ MetaSteps[m + 1].first = Last(m) + 1
PROOF
<1>1. m \in 1 .. Len(MetaSteps) - 1
  BY CountTyped DEF nMetaSteps
<1>2. MetaSteps[m + 1].first = MetaSteps[m].first + MetaSteps[m].steps
  BY <1>1, MetaStepAssumption
<1>. QED
  BY <1>2, MetaStepTyped, CountTyped DEF Last

\* By the least metastep that begins before one before it has ended.
LEMMA InOrder ==
  ASSUME NEW k \in 1 .. nMetaSteps, NEW l \in 1 .. nMetaSteps, l < k
  PROVE  Last(l) < MetaSteps[k].first
PROOF
<1>. DEFINE Late(j, i) == i < j /\ ~(Last(i) < MetaSteps[j].first)
            T == {j \in 1 .. nMetaSteps : \E i \in 1 .. nMetaSteps : Late(j, i)}
            R == OpToRel(<, Nat)
<1>0. SUFFICES ASSUME T # {}
               PROVE  FALSE
  OBVIOUS
<1>1. T \subseteq Nat
  BY CountTyped
<1>2. IsWellFoundedOn(R, Nat)
  BY NatLessThanWellFounded
<1>3. \E x \in T : \A y \in T : ~ (<<y, x>> \in R)
  <2>. HIDE DEF T, R
  <2>. QED
    BY <1>0, <1>1, <1>2, WFMin
<1>4. PICK j \in T : \A y \in T : ~ (<<y, j>> \in R)
  BY <1>3
<1>5. PICK i \in 1 .. nMetaSteps : Late(j, i)
  OBVIOUS
<1>6. j \in 1 .. nMetaSteps /\ j - 1 \in 1 .. nMetaSteps /\ j - 1 # nMetaSteps /\ i <= j - 1
  BY <1>5, CountTyped
<1>7. MetaSteps[j].first = Last(j - 1) + 1
  <2>1. MetaSteps[(j - 1) + 1].first = Last(j - 1) + 1
    BY <1>6, NextFirst
  <2>. QED
    BY <1>6, <2>1
<1>8. j - 1 \notin T
  <2>1. <<j - 1, j>> \in R
    BY <1>6, CountTyped DEF OpToRel
  <2>. QED
    BY <1>4, <2>1
<1>9. Last(i) <= Last(j - 1)
  <2>1. CASE i = j - 1
    BY <2>1, <1>6, MetaStepTyped
  <2>2. CASE i < j - 1
    <3>1. Last(i) < MetaSteps[j - 1].first
      BY <1>6, <1>8, <2>2
    <3>. QED
      BY <3>1, <1>6, MetaStepTyped
  <2>. QED
    BY <1>6, <2>1, <2>2, CountTyped
<1>. QED
  BY <1>5, <1>6, <1>7, <1>9, MetaStepTyped

LEMMA LastInStep ==
  ASSUME NEW m \in 1 .. nMetaSteps
  PROVE  Last(m) <= Last(nMetaSteps)
PROOF
<1>1. CASE m = nMetaSteps
  BY <1>1, MetaStepTyped
<1>2. CASE m < nMetaSteps
  <2>1. nMetaSteps \in 1 .. nMetaSteps
    BY CountTyped
  <2>2. Last(m) < MetaSteps[nMetaSteps].first
    BY <1>2, <2>1, InOrder
  <2>. QED
    BY <2>1, <2>2, MetaStepTyped
<1>. QED
  BY <1>1, <1>2, CountTyped

LEMMA ValidInStep ==
  ASSUME NEW m \in 1 .. nMetaSteps, NEW n \in Int, isStepValid(m, n)
  PROVE  n \in Step
PROOF BY LastInStep, MetaStepTyped, CountTyped DEF isStepValid, Step

\* A step belongs to one metastep.
LEMMA OneMetaStep ==
  ASSUME NEW m \in 1 .. nMetaSteps, NEW l \in 1 .. nMetaSteps, NEW n \in Int,
         isStepValid(m, n), isStepValid(l, n)
  PROVE  m = l
PROOF
<1>1. CASE l < m
  BY <1>1, InOrder, MetaStepTyped DEF isStepValid
<1>2. CASE m < l
  BY <1>2, InOrder, MetaStepTyped DEF isStepValid
<1>. QED
  BY <1>1, <1>2, CountTyped

LEMMA MetaOfStep ==
  ASSUME NEW m \in 1 .. nMetaSteps, NEW n \in Int, isStepValid(m, n)
  PROVE  MetaOf(n) = m
PROOF
<1>1. MetaOf(n) \in 1 .. nMetaSteps /\ isStepValid(MetaOf(n), n)
  BY DEF MetaOf
<1>. QED
  BY <1>1, OneMetaStep

-------------------------------------------------------------------------------
(* Type correctness, and the place of every step.  While the program runs, the relative  *)
(* number follows from the number; only between steps the next metastep may be in force  *)
(* already.  A context on disk holds a step and its metastep.                            *)

InStep == {"solve", "solved", "save", "saving"}

Placed ==
  /\ StepInMetaStep
  /\ pc = "loop" =>
       \/ number = 0 /\ imstep = 1
       \/ isStepValid(mstep, number) /\ (mstep = imstep \/ (imstep = mstep + 1 /\ jstep = 1))
  /\ \A n \in DOMAIN files : files[n] # Torn =>
       files[n].number = n /\ isStepValid(files[n].mstep, n)

PlaceInv == TypeOK /\ Placed

LEMMA PlaceInit == Init => PlaceInv
PROOF
<1>. SUFFICES ASSUME Init
              PROVE  PlaceInv
  OBVIOUS
<1>1. 1 \in 1 .. nMetaSteps /\ nMetaSteps \in 1 .. nMetaSteps
  BY CountTyped
<1>2. Last(nMetaSteps) \in Nat /\ attr.steps \in Nat
  BY <1>1, MetaStepTyped DEF Init, attr
<1>3. DOMAIN files = {} /\ past \in Seq(Report) /\ runs \in 0 .. MaxRuns
  BY RunAssumption DEF Init
<1>4. TypeOK
  BY <1>1, <1>2, <1>3 DEF Init, TypeOK
<1>5. Placed
  BY <1>3 DEF Init, Placed, StepInMetaStep, Running
<1>. QED
  BY <1>4, <1>5 DEF PlaceInv

LEMMA PlaceStart == PlaceInv /\ Start => PlaceInv'
PROOF
<1>. SUFFICES ASSUME PlaceInv, Start
              PROVE  PlaceInv'
  OBVIOUS
<1>1. 1 \in 1 .. nMetaSteps /\ nMetaSteps \in 1 .. nMetaSteps
  BY CountTyped
<1>2. imstep' = 1 /\ jstep' = 1 /\ number' = 0 /\ mstep' = 1 /\ pc' = "loop" /\ files' = files
  BY DEF Start
<1>3. Last(nMetaSteps) \in Nat /\ attr' = MetaSteps[1] /\ MetaSteps[1].steps \in Nat
  BY <1>1, <1>2, MetaStepTyped DEF attr
<1>4. past' \in Seq(Report) /\ runs' \in 0 .. MaxRuns
  BY RunAssumption DEF Start, PlaceInv, TypeOK
<1>5. TypeOK'
  <2>1. /\ imstep' \in 1 .. nMetaSteps /\ jstep' \in 1 .. attr'.steps + 1
        /\ number' \in 0 .. Last(nMetaSteps) /\ mstep' \in 1 .. nMetaSteps
    BY <1>1, <1>2, <1>3
  <2>2. /\ pc' \in Running \cup {"down", "done"} /\ time' \in Nat /\ loadInitFlag' \in BOOLEAN
        /\ {incremental', initial', loadLevel', cumulated'} \subseteq Int
    BY DEF Start, Running
  <2>. QED
    BY <1>2, <1>4, <2>1, <2>2 DEF PlaceInv, TypeOK
<1>6. Placed'
  BY <1>2, <1>3, MetaStepAssumption DEF PlaceInv, Placed, StepInMetaStep, Running
<1>. QED
  BY <1>5, <1>6 DEF PlaceInv

LEMMA PlaceRestart ==
  ASSUME PlaceInv, NEW n \in DOMAIN files, Restart(n)
  PROVE  PlaceInv'
PROOF
<1>. DEFINE c == files[n]
<1>1. c \in SavedContext /\ c.number = n /\ isStepValid(c.mstep, n)
  BY DEF Restart, PlaceInv, TypeOK, Placed
<1>2. c.mstep \in 1 .. nMetaSteps /\ c.number \in Step
  BY <1>1 DEF SavedContext
<1>3. /\ number' = c.number /\ mstep' = c.mstep /\ time' = c.time
      /\ initial' = c.initial /\ loadLevel' = c.loadLevel /\ cumulated' = c.cumulated
      /\ past' = c.past
      /\ imstep' = c.mstep /\ jstep' = NextRelative(c)
      /\ loadInitFlag' = TRUE /\ incremental' = 0
      /\ pc' = "loop" /\ runs' = runs + 1 /\ runs < MaxRuns
      /\ files' = files
  BY DEF Restart
<1>4. attr' = MetaSteps[c.mstep]
  BY <1>3 DEF attr
<1>5. n \in Nat /\ jstep' = n - MetaSteps[c.mstep].first + 2
  BY <1>1, <1>2, <1>3 DEF NextRelative, Step
<1>6. jstep' \in 1 .. attr'.steps + 1 /\ number' = attr'.first + jstep' - 2
  BY <1>1, <1>2, <1>3, <1>4, <1>5, MetaStepTyped DEF isStepValid, Last
<1>7. number' \in 0 .. Last(nMetaSteps)
  BY <1>2, <1>3 DEF Step
<1>8. TypeOK'
  <2>1. runs' \in 0 .. MaxRuns
    BY <1>3, RunAssumption DEF PlaceInv, TypeOK
  <2>2. DOMAIN files' \subseteq Step /\ \A k \in DOMAIN files' : files'[k] = Torn \/ files'[k] \in SavedContext
    BY <1>3 DEF PlaceInv, TypeOK
  <2>3. time' \in Nat /\ past' \in Seq(Report) /\ {incremental', initial', loadLevel', cumulated'} \subseteq Int
    BY <1>1, <1>3 DEF SavedContext
  <2>. QED
    BY <1>2, <1>3, <1>6, <1>7, <2>1, <2>2, <2>3 DEF TypeOK, Running
<1>9. Placed'
  BY <1>1, <1>3, <1>6 DEF PlaceInv, Placed, StepInMetaStep, Running
<1>. QED
  BY <1>8, <1>9 DEF PlaceInv

\* What happens to the loads does not matter here.
LEMMA PlaceSame ==
  ASSUME PlaceInv, UNCHANGED <<imstep, jstep, step, files>>,
         past' \in Seq(Report), runs' \in 0 .. MaxRuns,
         loadInitFlag' \in BOOLEAN, {incremental', initial', loadLevel', cumulated'} \subseteq Int,
         \/ pc' = "down"
         \/ pc \in InStep /\ pc' \in InStep \union {"loop"}
         \/ pc' = pc
         \/ pc' = "done" /\ number = Last(nMetaSteps)
  PROVE  PlaceInv'
PROOF
<1>. USE DEF PlaceInv
<1>1. attr' = attr
  BY DEF attr
<1>2. UNCHANGED <<number, mstep, time, imstep, jstep, files>>
  BY DEF step
<1>3. TypeOK'
  <2>1. pc' \in Running \union {"down", "done"}
    BY DEF TypeOK, InStep, Running
  <2>. QED
    BY <1>1, <1>2, <2>1 DEF TypeOK
<1>4. Placed'
  <2>1. StepInMetaStep'
    BY <1>1, <1>2 DEF Placed, StepInMetaStep, InStep, Running
  <2>2. pc' = "loop" =>
          \/ number = 0 /\ imstep = 1
          \/ isStepValid(mstep, number) /\ (mstep = imstep \/ (imstep = mstep + 1 /\ jstep = 1))
    BY DEF Placed, StepInMetaStep, InStep
  <2>. QED
    BY <1>2, <2>1, <2>2 DEF Placed
<1>. QED
  BY <1>3, <1>4

LEMMA PlaceNextMetaStep == PlaceInv /\ NextMetaStep => PlaceInv'
PROOF
<1>. SUFFICES ASSUME PlaceInv, NextMetaStep
              PROVE  PlaceInv'
  OBVIOUS
<1>. USE DEF PlaceInv
<1>1. /\ pc = "loop" /\ jstep > attr.steps /\ imstep < nMetaSteps
      /\ imstep' = imstep + 1 /\ jstep' = 1
      /\ UNCHANGED <<pc, step, loads, files, past, runs>>
  BY DEF NextMetaStep
<1>2. imstep \in 1 .. nMetaSteps /\ imstep # nMetaSteps /\ jstep = attr.steps + 1
  <2>1. imstep \in 1 .. nMetaSteps /\ jstep \in 1 .. attr.steps + 1
    BY DEF TypeOK
  <2>2. attr.steps \in Nat
    BY <2>1, MetaStepTyped DEF attr
  <2>. QED
    BY <1>1, <2>1, <2>2, CountTyped
<1>3. imstep' \in 1 .. nMetaSteps /\ attr' = MetaSteps[imstep'] /\ attr'.first = Last(imstep) + 1
  BY <1>1, <1>2, NextFirst DEF attr
<1>4. number = Last(imstep) /\ number > 0
  BY <1>1, <1>2, MetaStepTyped DEF Placed, StepInMetaStep, Running, Last, attr
<1>5. isStepValid(mstep, number) /\ mstep = imstep
  <2>1. isStepValid(mstep, number) /\ (mstep = imstep \/ (imstep = mstep + 1 /\ jstep = 1))
    BY <1>1, <1>4 DEF Placed
  <2>2. jstep # 1
    BY <1>2, MetaStepTyped DEF attr
  <2>. QED
    BY <2>1, <2>2
<1>6. attr'.steps \in Nat /\ number = attr'.first + jstep' - 2
  BY <1>1, <1>3, <1>4, MetaStepTyped, <1>2
<1>7. TypeOK'
  BY <1>1, <1>3, <1>6 DEF TypeOK, step, loads
<1>8. Placed'
  BY <1>1, <1>5, <1>6 DEF Placed, StepInMetaStep, step
<1>. QED
  BY <1>7, <1>8

LEMMA PlaceNextStep == PlaceInv /\ giveNextStep => PlaceInv'
PROOF
<1>. SUFFICES ASSUME PlaceInv, giveNextStep
              PROVE  PlaceInv'
  OBVIOUS
<1>. USE DEF PlaceInv
<1>. DEFINE n == number + 1
<1>1. pc = "loop" /\ jstep <= attr.steps /\ UNCHANGED <<imstep, loads, files, past, runs>>
  BY DEF giveNextStep
<1>2. imstep \in 1 .. nMetaSteps /\ mstep \in 1 .. nMetaSteps /\ jstep \in Nat \ {0} /\ number \in Nat
  BY MetaStepTyped DEF TypeOK, attr
<1>3. n = attr.first + jstep - 1 /\ isStepValid(imstep, n)
  BY <1>1, <1>2, MetaStepTyped DEF Placed, StepInMetaStep, Running, isStepValid, Last, attr
<1>4. NextMeta(n, mstep) = imstep
  <2>1. CASE n = 1
    <3>1. imstep = 1
      <4>1. 1 \in 1 .. nMetaSteps /\ isStepValid(1, 1)
        BY CountTyped, MetaStepTyped, MetaStepAssumption DEF isStepValid
      <4>. QED
        BY <1>2, <1>3, <2>1, <4>1, OneMetaStep
    <3>. QED
      BY <2>1, <3>1 DEF NextMeta
  <2>2. CASE n # 1
    <3>1. isStepValid(mstep, number) /\ (mstep = imstep \/ (imstep = mstep + 1 /\ jstep = 1))
      BY <1>1, <1>2, <2>2 DEF Placed
    <3>2. CASE mstep = imstep
      BY <1>3, <2>2, <3>2 DEF NextMeta
    <3>3. CASE imstep = mstep + 1
      <4>1. ~isStepValid(mstep, n)
        BY <1>2, <1>3, <3>3, OneMetaStep
      <4>. QED
        BY <2>2, <3>3, <4>1 DEF NextMeta
    <3>. QED
      BY <3>1, <3>2, <3>3
  <2>. QED
    BY <2>1, <2>2
<1>5. /\ pc' = "solve" /\ jstep' = jstep + 1
      /\ number' = n /\ mstep' = imstep /\ time' = StepTime(n)
  BY <1>2, <1>4, CountTyped DEF giveNextStep
<1>6. attr' = attr /\ attr.steps \in Nat /\ attr.dt \in Nat
  BY <1>1, <1>2, MetaStepTyped DEF attr
<1>7. n \in Step
  BY <1>2, <1>3, ValidInStep
<1>8. TypeOK'
  <2>1. time' \in Nat
    BY <1>5, <1>6 DEF StepTime, TypeOK
  <2>2. number' \in 0 .. Last(nMetaSteps)
    BY <1>5, <1>7 DEF Step
  <2>3. jstep' \in 1 .. attr'.steps + 1
    BY <1>1, <1>2, <1>5, <1>6
  <2>4. pc' \in Running
    BY <1>5 DEF Running
  <2>. QED
    BY <1>1, <1>2, <1>5, <2>1, <2>2, <2>3, <2>4 DEF TypeOK, loads
<1>9. Placed'
  <2>1. number' = attr'.first + jstep' - 2
    BY <1>2, <1>3, <1>5, <1>6, MetaStepTyped DEF attr
  <2>. QED
    BY <1>1, <1>3, <1>5, <2>1 DEF Placed, StepInMetaStep
<1>. QED
  BY <1>8, <1>9

\* A context is put on disk: its file is cut off first.
LEMMA PlacePut ==
  ASSUME PlaceInv, pc \in InStep, NEW c, c = Torn \/ c = Context, files' = Put(number, c),
         pc' \in {"saving", "loop"}, UNCHANGED <<imstep, jstep, step, loads, past, runs>>
  PROVE  PlaceInv'
PROOF
<1>. USE DEF PlaceInv
<1>1. UNCHANGED <<number, mstep, time, imstep, jstep>> /\ attr' = attr
  BY DEF step, attr
<1>2. mstep = imstep /\ isStepValid(mstep, number) /\ mstep \in 1 .. nMetaSteps
  BY DEF Placed, StepInMetaStep, InStep, TypeOK
<1>3. number \in Step
  BY <1>2, ValidInStep DEF TypeOK
<1>4. c = Torn \/ (c \in SavedContext /\ c.number = number /\ c.mstep = mstep)
  BY <1>2, <1>3 DEF Context, ContextWith, SavedContext, TypeOK
<1>5. /\ DOMAIN files' = DOMAIN files \union {number}
      /\ \A k \in DOMAIN files' : files'[k] = IF k = number THEN c ELSE files[k]
  BY DEF Put
<1>6. TypeOK'
  <2>1. DOMAIN files' \subseteq Step
    BY <1>3, <1>5 DEF TypeOK
  <2>2. \A k \in DOMAIN files' : files'[k] = Torn \/ files'[k] \in SavedContext
    BY <1>4, <1>5 DEF TypeOK
  <2>3. pc' \in Running
    BY DEF Running
  <2>. QED
    BY <1>1, <2>1, <2>2, <2>3 DEF TypeOK, loads
<1>7. Placed'
  <2>1. \A k \in DOMAIN files' : files'[k] # Torn => files'[k].number = k /\ isStepValid(files'[k].mstep, k)
    BY <1>2, <1>4, <1>5 DEF Placed
  <2>2. StepInMetaStep' /\ isStepValid(mstep', number') /\ mstep' = imstep'
    BY <1>1, <1>2 DEF Placed, StepInMetaStep, InStep, Running
  <2>. QED
    BY <2>1, <2>2 DEF Placed
<1>. QED
  BY <1>6, <1>7

LEMMA LoadsTyped ==
  ASSUME TypeOK, Placed, pc \in InStep
  PROVE  number \in Step /\ Reference[number] \in Int /\ Load \in Int
PROOF
<1>1. number \in Step
  BY ValidInStep DEF Placed, StepInMetaStep, InStep, TypeOK
<1>. QED
  BY <1>1, LoadAssumption DEF Load, TypeOK

LEMMA PlaceSolve ==
  ASSUME PlaceInv, NEW d \in Increments, proceedStep(d)
  PROVE  PlaceInv'
PROOF
<1>1. TypeOK /\ Placed /\ pc = "solve" /\ d \in Int
  BY LoadAssumption DEF PlaceInv, proceedStep
<1>2. incremental' \in Int /\ loadLevel' \in Int /\ loadInitFlag' \in BOOLEAN
  <2>1. Reference[number] \in Int /\ incremental \in Int /\ loadLevel \in Int /\ loadInitFlag \in BOOLEAN
    BY <1>1, LoadsTyped DEF TypeOK, InStep
  <2>2. incremental' \in Int
    BY <2>1 DEF proceedStep
  <2>3. loadLevel' \in Int
    BY <1>1, <2>1 DEF proceedStep
  <2>4. loadInitFlag' \in BOOLEAN
    BY <2>1 DEF proceedStep
  <2>. QED
    BY <2>2, <2>3, <2>4
<1>3. initial' \in Int /\ cumulated' \in Int /\ cumulated \in Int /\ runs' \in 0 .. MaxRuns
  BY <1>1 DEF proceedStep, TypeOK
<1>4. [load |-> initial + loadLevel' * incremental', shown |-> cumulated + loadLevel', by |-> d] \in Report
  <2>1. initial \in Int /\ loadLevel' * incremental' \in Int
    BY <1>1, <1>2 DEF TypeOK
  <2>. QED
    BY <1>1, <1>2, <1>3, <2>1 DEF Report
<1>5. past' \in Seq(Report)
  BY <1>1, <1>4 DEF proceedStep, TypeOK
<1>6. pc' = "solved" /\ UNCHANGED <<imstep, jstep, step, files>>
  BY DEF proceedStep
<1>. QED
  BY <1>1, <1>2, <1>3, <1>5, <1>6, PlaceSame DEF InStep

LEMMA PlaceUpdate == PlaceInv /\ updateLoadVectors => PlaceInv'
PROOF
<1>. SUFFICES ASSUME PlaceInv, updateLoadVectors
              PROVE  PlaceInv'
  OBVIOUS
<1>1. TypeOK /\ Placed /\ pc = "solved"
  BY DEF PlaceInv, updateLoadVectors
<1>2. Load \in Int
  BY <1>1, LoadsTyped DEF InStep
<1>3. initial' \in Int /\ incremental' \in Int /\ loadInitFlag' \in BOOLEAN
  <2>1. CASE Fixed
    BY <1>2, <2>1 DEF updateLoadVectors, FixLoad
  <2>2. CASE ~Fixed
    BY <1>1, <2>2 DEF updateLoadVectors, TypeOK
  <2>. QED
    BY <2>1, <2>2
<1>4. cumulated' \in Int /\ loadLevel' \in Int
  BY <1>1 DEF updateLoadVectors, ResetLevel, TypeOK
<1>5. pc' \in {"save", "loop"} /\ UNCHANGED <<imstep, jstep, step, files, past, runs>>
  BY DEF updateLoadVectors
<1>. QED
  BY <1>1, <1>3, <1>4, <1>5, PlaceSame DEF InStep, TypeOK

LEMMA PlaceStep == PlaceInv /\ [Next]_vars => PlaceInv'
PROOF
<1>. SUFFICES ASSUME PlaceInv, [Next]_vars
              PROVE  PlaceInv'
  OBVIOUS
<1>0. /\ past \in Seq(Report) /\ runs \in 0 .. MaxRuns
      /\ loadInitFlag \in BOOLEAN /\ {incremental, initial, loadLevel, cumulated} \subseteq Int
  BY DEF PlaceInv, TypeOK
<1>1. CASE Start
  BY <1>1, PlaceStart
<1>2. CASE \E n \in DOMAIN files : Restart(n)
  BY <1>2, PlaceRestart
<1>3. CASE Crash \/ NotConverged
  BY <1>0, <1>3, PlaceSame DEF Crash, NotConverged, loads
<1>4. CASE NextMetaStep
  BY <1>4, PlaceNextMetaStep
<1>5. CASE Finish
  <2>1. pc = "loop" /\ jstep > attr.steps /\ imstep = nMetaSteps /\ pc' = "done"
        /\ UNCHANGED <<imstep, jstep, step, loads, files, past, runs>>
    BY <1>5 DEF Finish
  <2>2. jstep = attr.steps + 1 /\ number = attr.first + jstep - 2
    <3>1. jstep \in 1 .. attr.steps + 1 /\ attr.steps \in Nat
      BY <2>1, MetaStepTyped, CountTyped DEF PlaceInv, TypeOK, attr
    <3>. QED
      BY <2>1, <3>1 DEF PlaceInv, Placed, StepInMetaStep, Running
  <2>3. number = Last(nMetaSteps)
    BY <2>1, <2>2, MetaStepTyped, CountTyped DEF Last, attr
  <2>. QED
    BY <1>0, <2>1, <2>3, PlaceSame DEF loads
<1>6. CASE giveNextStep
  BY <1>6, PlaceNextStep
<1>7. CASE \E d \in Increments : proceedStep(d)
  BY <1>7, PlaceSolve
<1>8. CASE updateLoadVectors
  BY <1>8, PlaceUpdate
<1>9. CASE OpenContext
  BY <1>9, PlacePut DEF OpenContext, InStep
<1>10. CASE saveContext
  BY <1>10, PlacePut DEF saveContext, InStep
<1>11. CASE UNCHANGED vars
  BY <1>0, <1>11, PlaceSame DEF vars, loads
<1>. QED
  BY <1>1, <1>2, <1>3, <1>4, <1>5, <1>6, <1>7, <1>8, <1>9, <1>10, <1>11 DEF Next, Work, Rerun

LEMMA PlaceInvariant == Spec => []PlaceInv
PROOF BY PlaceInit, PlaceStep, PTL DEF Spec

\* Type correctness of the analysis and of its contexts.
THEOREM StepsTypeCorrect == Spec => []TypeOK
PROOF
<1>1. PlaceInv => TypeOK
  BY DEF PlaceInv
<1>. QED
  BY <1>1, PlaceInvariant, PTL

\* Every step is solved once under the attributes of its own metastep, also after restarts.
THEOREM StepsInMetaSteps == Spec => []StepInMetaStep
PROOF
<1>1. PlaceInv => StepInMetaStep
  BY DEF PlaceInv, Placed
<1>. QED
  BY <1>1, PlaceInvariant, PTL

-------------------------------------------------------------------------------
(* Fixing the load *)

LEMMA NothingScales ==
  ASSUME NEW a \in Int, NEW l \in Int
  PROVE  a + l * 0 = a
PROOF OBVIOUS

LEMMA FixKeeps == TypeOK /\ Placed /\ updateLoadVectors => Load' = Load
PROOF
<1>. SUFFICES ASSUME TypeOK, Placed, updateLoadVectors
              PROVE  Load' = Load
  OBVIOUS
<1>1. CASE Fixed
  <2>1. initial' = Load /\ incremental' = 0 /\ loadLevel' \in Int
    BY <1>1 DEF updateLoadVectors, FixLoad, ResetLevel, TypeOK
  <2>2. Load \in Int
    BY LoadsTyped DEF updateLoadVectors, InStep
  <2>3. Load + loadLevel' * 0 = Load
    BY <2>1, <2>2, NothingScales
  <2>4. Load' = initial' + loadLevel' * incremental'
    BY DEF Load
  <2>5. Load' = Load + loadLevel' * 0
    BY <2>1, <2>4, Zenon
  <2>. QED
    BY <2>3, <2>5, Zenon
<1>2. CASE ~Fixed
  BY <1>2 DEF updateLoadVectors, Fixed, Load
<1>. QED
  BY <1>1, <1>2

\* The bookkeeping after a step never changes the load.
THEOREM FixingAlwaysKeepsLoad == Spec => FixingKeepsLoad
PROOF
<1>1. PlaceInv /\ [Next]_vars => [pc = "solved" /\ pc' \in {"save", "loop"} => Load' = Load]_vars
  <2>. SUFFICES ASSUME PlaceInv, Next, pc = "solved", pc' \in {"save", "loop"}
                PROVE  Load' = Load
    BY DEF vars
  <2>1. updateLoadVectors
    BY DEF Next, Work, Rerun, Start, Restart, Crash, NotConverged, NextMetaStep, Finish, giveNextStep,
           proceedStep, OpenContext, saveContext
  <2>. QED
    BY <2>1, FixKeeps DEF PlaceInv
<1>. QED
  BY <1>1, PlaceInvariant, PTL DEF Spec, FixingKeepsLoad

-------------------------------------------------------------------------------
(* The loads of an analysis whose metasteps fix their load, and whose reference load    *)
(* does not change within a metastep under indirect control: a restart assembles it at  *)
(* a later step than the first of the metastep.                                         *)

Regular ==
  /\ \A m \in 1 .. nMetaSteps : m # nMetaSteps => MetaSteps[m].fix
  /\ \A m \in 1 .. nMetaSteps : MetaSteps[m].indirect =>
       \A n \in MetaSteps[m].first .. Last(m) : Reference[n] = Reference[MetaSteps[m].first]

Ref(m) == Reference[MetaSteps[m].first]
AllFollow(h) == \A k \in 1 .. Len(h) : LoadFollows(h, k)

\* Between steps, and in a context: h reports the steps up to n, of metastep m, i is the
\* fixed part of the load and l the level.
Accounted(h, n, m, i, l) ==
  /\ Len(h) = n
  /\ AllFollow(h)
  /\ IF n = 0 THEN i = 0 /\ l = 0
     ELSE /\ h[n].load = i + (IF Scales(m, n) THEN l * Ref(m) ELSE 0)
          /\ n = Last(m) /\ MetaSteps[m].fix => l = 0

BetweenSteps ==
  pc \in {"save", "saving", "loop"} =>
    /\ Accounted(past, number, mstep, initial, loadLevel)
    /\ ~loadInitFlag => number > 0 /\ Scales(mstep, number) /\ incremental = Ref(mstep)

BeforeSolving ==
  pc = "solve" =>
    /\ Len(past) = number - 1
    /\ Before(past, number).load = initial + (IF attr.indirect THEN loadLevel * Ref(imstep) ELSE 0)
    /\ ~loadInitFlag => attr.indirect /\ incremental = Ref(imstep)

AfterSolving ==
  pc = "solved" =>
    /\ Len(past) = number
    /\ past[number].load = Load
    /\ attr.indirect => incremental = Ref(imstep)

FilesAccounted ==
  \A n \in DOMAIN files : files[n] # Torn =>
    Accounted(files[n].past, n, files[n].mstep, files[n].initial, files[n].loadLevel)

LoadInv == AllFollow(past) /\ BetweenSteps /\ BeforeSolving /\ AfterSolving /\ FilesAccounted

LEMMA RefTyped ==
  ASSUME NEW m \in 1 .. nMetaSteps
  PROVE  Ref(m) \in Int
PROOF
<1>1. isStepValid(m, MetaSteps[m].first)
  BY MetaStepTyped DEF isStepValid
<1>. QED
  BY <1>1, ValidInStep, MetaStepTyped, LoadAssumption DEF Ref

LEMMA NoLevel == \A a, r \in Int : a + 0 * r = a
PROOF OBVIOUS

LEMMA LevelAdds == \A a, l, d, r \in Int : a + (l + d) * r = (a + l * r) + d * r
PROOF BY Z3

LEMMA FollowsPrefix ==
  ASSUME NEW g, NEW h, NEW k \in Nat \ {0}, \A j \in 1 .. k : g[j] = h[j], LoadFollows(h, k)
  PROVE  LoadFollows(g, k)
PROOF
<1>1. g[k] = h[k]
  OBVIOUS
<1>2. Before(g, k) = Before(h, k)
  <2>1. CASE k = 1
    BY <2>1 DEF Before
  <2>2. CASE k # 1
    BY <2>2 DEF Before
  <2>. QED
    BY <2>1, <2>2
<1>. QED
  BY <1>1, <1>2 DEF LoadFollows

LEMMA LoadInit == Init => LoadInv
PROOF
<1>. SUFFICES ASSUME Init
              PROVE  LoadInv
  OBVIOUS
<1>1. past = <<>> /\ files = <<>> /\ pc = "down"
  BY DEF Init
<1>. QED
  BY <1>1 DEF LoadInv, AllFollow, BetweenSteps, BeforeSolving, AfterSolving, FilesAccounted

LEMMA LoadStart == FilesAccounted /\ Start => LoadInv'
PROOF
<1>. SUFFICES ASSUME FilesAccounted, Start
              PROVE  LoadInv'
  OBVIOUS
<1>1. /\ past' = <<>> /\ files' = files /\ pc' = "loop" /\ number' = 0
      /\ loadInitFlag' = TRUE /\ initial' = 0 /\ loadLevel' = 0
  BY DEF Start
<1>2. AllFollow(past')
  BY <1>1 DEF AllFollow
<1>3. Accounted(past', number', mstep', initial', loadLevel')
  BY <1>1, <1>2 DEF Accounted
<1>4. FilesAccounted'
  BY <1>1 DEF FilesAccounted
<1>. QED
  BY <1>1, <1>2, <1>3, <1>4 DEF LoadInv, BetweenSteps, BeforeSolving, AfterSolving

LEMMA LoadRestart ==
  ASSUME PlaceInv, FilesAccounted, NEW n \in DOMAIN files, Restart(n)
  PROVE  LoadInv'
PROOF
<1>. DEFINE c == files[n]
<1>1. /\ number' = c.number /\ mstep' = c.mstep /\ initial' = c.initial /\ loadLevel' = c.loadLevel
      /\ past' = c.past /\ files' = files /\ pc' = "loop" /\ loadInitFlag' = TRUE
      /\ c # Torn
  BY DEF Restart
<1>2. c.number = n
  BY <1>1 DEF PlaceInv, Placed
<1>3. Accounted(past', number', mstep', initial', loadLevel')
  BY <1>1, <1>2 DEF FilesAccounted
<1>4. AllFollow(past')
  BY <1>3 DEF Accounted
<1>5. FilesAccounted'
  BY <1>1 DEF FilesAccounted
<1>. QED
  BY <1>1, <1>3, <1>4, <1>5 DEF LoadInv, BetweenSteps, BeforeSolving, AfterSolving

LEMMA LoadNextStep ==
  ASSUME Regular
  PROVE  PlaceInv /\ LoadInv /\ PlaceInv' /\ giveNextStep => LoadInv'
PROOF
<1>. SUFFICES ASSUME PlaceInv, LoadInv, PlaceInv', giveNextStep
              PROVE  LoadInv'
  OBVIOUS
<1>1. pc = "loop" /\ pc' \in {"solve", "down"} /\ UNCHANGED <<imstep, loads, files, past, runs>>
  BY DEF giveNextStep
<1>2. AllFollow(past') /\ FilesAccounted'
  BY <1>1 DEF LoadInv, FilesAccounted
<1>3. CASE pc' = "down"
  BY <1>2, <1>3 DEF LoadInv, BetweenSteps, BeforeSolving, AfterSolving
<1>4. CASE pc' = "solve"
  <2>. DEFINE n == number + 1
  <2>1. number' = n /\ attr' = attr /\ imstep' = imstep
    BY <1>1, <1>4 DEF giveNextStep, attr
  <2>2. /\ imstep \in 1 .. nMetaSteps /\ mstep \in 1 .. nMetaSteps /\ number \in Nat
        /\ initial \in Int /\ loadLevel \in Int
    BY MetaStepTyped, CountTyped DEF PlaceInv, TypeOK
  <2>3. isStepValid(imstep, n)
    BY <1>4, <2>1 DEF PlaceInv, Placed, StepInMetaStep
  <2>4. Accounted(past, number, mstep, initial, loadLevel)
        /\ (~loadInitFlag => number > 0 /\ Scales(mstep, number) /\ incremental = Ref(mstep))
    BY <1>1 DEF LoadInv, BetweenSteps
  <2>5. Ref(imstep) \in Int
    BY <2>2, RefTyped
  <2>6. Len(past) = n - 1 /\ (n > 1 => Before(past, n) = past[number])
    BY <2>2, <2>4 DEF Accounted, Before
  <2>7. CASE number = 0
    <3>1. initial = 0 /\ loadLevel = 0 /\ loadInitFlag
      BY <2>4, <2>7, <1>1 DEF Accounted, PlaceInv, TypeOK
    <3>2. Before(past, n).load = 0
      BY <2>7 DEF Before
    <3>3. 0 + 0 * Ref(imstep) = 0
      BY <2>5, NoLevel
    <3>4. BeforeSolving'
      BY <1>1, <2>1, <2>6, <3>1, <3>2, <3>3 DEF BeforeSolving, loads
    <3>. QED
      BY <1>2, <1>4, <3>4 DEF LoadInv, BetweenSteps, AfterSolving
  <2>8. CASE number > 0 /\ mstep = imstep
    <3>1. number # Last(mstep)
      BY <2>2, <2>3, <2>8, MetaStepTyped DEF isStepValid
    <3>2. Scales(mstep, number) <=> attr.indirect
      BY <2>8, <3>1 DEF Scales, attr
    <3>3. past[number].load = initial + (IF attr.indirect THEN loadLevel * Ref(imstep) ELSE 0)
      BY <2>4, <2>8, <3>2 DEF Accounted
    <3>4. BeforeSolving'
      BY <1>1, <2>1, <2>2, <2>4, <2>6, <2>8, <3>2, <3>3 DEF BeforeSolving, loads
    <3>. QED
      BY <1>2, <1>4, <3>4 DEF LoadInv, BetweenSteps, AfterSolving
  <2>9. CASE number > 0 /\ mstep # imstep
    <3>1. isStepValid(mstep, number) /\ imstep = mstep + 1
      BY <1>1, <2>9 DEF PlaceInv, Placed
    <3>2. mstep # nMetaSteps /\ MetaSteps[imstep].first = Last(mstep) + 1 /\ MetaSteps[mstep].fix
      BY <2>2, <3>1, NextFirst, CountTyped DEF Regular
    <3>3. number = Last(mstep)
      BY <2>2, <2>3, <3>1, <3>2, MetaStepTyped DEF isStepValid
    <3>4. ~Scales(mstep, number) /\ loadLevel = 0 /\ loadInitFlag
      BY <2>4, <2>9, <3>2, <3>3, <1>1 DEF Scales, Accounted, PlaceInv, TypeOK
    <3>5. past[number].load = initial
      BY <2>2, <2>4, <2>9, <3>4 DEF Accounted
    <3>6. initial + 0 * Ref(imstep) = initial
      BY <2>2, <2>5, NoLevel
    <3>7. BeforeSolving'
      BY <1>1, <2>1, <2>2, <2>6, <2>9, <3>4, <3>5, <3>6 DEF BeforeSolving, loads
    <3>. QED
      BY <1>2, <1>4, <3>7 DEF LoadInv, BetweenSteps, AfterSolving
  <2>. QED
    BY <2>2, <2>7, <2>8, <2>9
<1>. QED
  BY <1>1, <1>3, <1>4

LEMMA LoadSolve ==
  ASSUME Regular, PlaceInv, LoadInv, NEW d \in Increments, proceedStep(d)
  PROVE  LoadInv'
PROOF
<1>. DEFINE rec == [load |-> initial + loadLevel' * incremental', shown |-> cumulated + loadLevel', by |-> d]
<1>1. /\ pc = "solve" /\ pc' = "solved" /\ past' = Append(past, rec)
      /\ UNCHANGED <<imstep, jstep, number, mstep, initial, cumulated, files>>
  BY DEF proceedStep, step
<1>2. /\ past \in Seq(Report) /\ number \in Nat \ {0} /\ imstep \in 1 .. nMetaSteps
      /\ isStepValid(imstep, number) /\ d \in Int /\ Len(past) = number - 1
      /\ initial \in Int /\ loadLevel \in Int
  <2>1. isStepValid(imstep, number) /\ imstep \in 1 .. nMetaSteps
    BY <1>1 DEF PlaceInv, Placed, StepInMetaStep, TypeOK
  <2>. QED
    BY <1>1, <2>1, MetaStepTyped, LoadAssumption
       DEF PlaceInv, TypeOK, LoadInv, BeforeSolving, isStepValid
<1>3. /\ Len(past') = number /\ past'[number] = rec
      /\ \A k \in 1 .. number - 1 : past'[k] = past[k]
  BY <1>1, <1>2
<1>4. attr' = attr /\ attr = MetaSteps[imstep] /\ attr.indirect \in BOOLEAN /\ Ref(imstep) \in Int
      /\ MetaOf(number) = imstep
  BY <1>1, <1>2, MetaStepTyped, RefTyped, MetaOfStep DEF attr
<1>5. attr.indirect => incremental' = Ref(imstep)
  <2>1. ~Assembled /\ attr.indirect => incremental = Ref(imstep)
    BY <1>1 DEF LoadInv, BeforeSolving, Assembled
  <2>2. attr.indirect => Reference[number] = Ref(imstep)
    BY <1>2, <1>4 DEF Regular, Ref, isStepValid
  <2>. QED
    BY <2>1, <2>2 DEF proceedStep
<1>6. Before(past', number) = Before(past, number)
  <2>1. CASE number = 1
    BY <2>1 DEF Before
  <2>2. CASE number # 1
    BY <1>2, <1>3, <2>2 DEF Before
  <2>. QED
    BY <2>1, <2>2
<1>7. LoadFollows(past', number)
  <2>1. CASE attr.indirect
    <3>1. rec.load = initial + (loadLevel + d) * Ref(imstep)
      BY <1>5, <2>1 DEF proceedStep
    <3>2. rec.load = (initial + loadLevel * Ref(imstep)) + d * Ref(imstep)
      BY <1>2, <1>4, <3>1, LevelAdds
    <3>3. Before(past, number).load = initial + loadLevel * Ref(imstep)
      BY <1>1, <2>1 DEF LoadInv, BeforeSolving
    <3>4. past'[number].load = Before(past', number).load + past'[number].by * Ref(imstep)
      BY <1>3, <1>6, <3>2, <3>3
    <3>. QED
      BY <1>4, <2>1, <3>4 DEF LoadFollows, Ref
  <2>2. CASE ~attr.indirect
    <3>1. loadLevel' = 1 /\ incremental' = Reference[number] /\ Reference[number] \in Int
      BY <1>1, <2>2, LoadsTyped DEF proceedStep, Assembled, PlaceInv, InStep
    <3>2. 1 * Reference[number] = Reference[number]
      BY <3>1
    <3>3. rec.load = initial + Reference[number]
      BY <3>1, <3>2
    <3>4. Before(past, number).load = initial
      BY <1>1, <1>2, <2>2 DEF LoadInv, BeforeSolving
    <3>5. past'[number].load = Before(past', number).load + Reference[number]
      BY <1>3, <1>6, <3>3, <3>4
    <3>. QED
      BY <1>4, <2>2, <3>5 DEF LoadFollows
  <2>. QED
    BY <2>1, <2>2
<1>8. AllFollow(past')
  <2>1. ASSUME NEW k \in 1 .. number - 1
        PROVE  LoadFollows(past', k)
    <3>1. LoadFollows(past, k)
      BY <1>2 DEF LoadInv, AllFollow
    <3>2. k \in Nat \ {0} /\ \A j \in 1 .. k : past'[j] = past[j]
      BY <1>2, <1>3
    <3>. QED
      BY <3>1, <3>2, FollowsPrefix
  <2>. QED
    BY <1>2, <1>3, <1>7, <2>1 DEF AllFollow
<1>9. AfterSolving'
  <2>1. rec.load = Load'
    BY <1>1 DEF Load
  <2>. QED
    BY <1>1, <1>3, <1>4, <1>5, <2>1 DEF AfterSolving
<1>10. FilesAccounted'
  BY <1>1 DEF LoadInv, FilesAccounted
<1>. QED
  BY <1>1, <1>8, <1>9, <1>10 DEF LoadInv, BetweenSteps, BeforeSolving

LEMMA LoadUpdate == PlaceInv /\ LoadInv /\ updateLoadVectors => LoadInv'
PROOF
<1>. SUFFICES ASSUME PlaceInv, LoadInv, updateLoadVectors
              PROVE  LoadInv'
  OBVIOUS
<1>1. pc = "solved" /\ pc' \in {"save", "loop"} /\ UNCHANGED <<imstep, jstep, number, mstep, files, past>>
  BY DEF updateLoadVectors, step
<1>2. mstep = imstep /\ imstep \in 1 .. nMetaSteps /\ isStepValid(mstep, number) /\ number \in Nat
  BY <1>1 DEF PlaceInv, Placed, StepInMetaStep, TypeOK
<1>3. number # 0
  BY <1>2, MetaStepTyped DEF isStepValid
<1>4. Len(past) = number /\ AllFollow(past) /\ past[number].load = Load /\ Load \in Int
      /\ (attr.indirect => incremental = Ref(imstep))
  BY <1>1, LoadsTyped DEF LoadInv, AfterSolving, PlaceInv, InStep
<1>5. Scales(mstep, number) <=> ~Fixed
  BY <1>2, MetaStepTyped DEF Scales, Fixed, attr
<1>6. number = Last(mstep) /\ MetaSteps[mstep].fix => loadLevel' = 0
  BY DEF updateLoadVectors, ResetLevel
<1>7. CASE Fixed
  <2>1. initial' = Load /\ loadInitFlag' = TRUE
    BY <1>7 DEF updateLoadVectors, FixLoad
  <2>2. Accounted(past', number', mstep', initial', loadLevel')
    BY <1>1, <1>3, <1>4, <1>5, <1>6, <1>7, <2>1 DEF Accounted
  <2>. QED
    BY <1>1, <1>4, <2>1, <2>2 DEF LoadInv, BetweenSteps, BeforeSolving, AfterSolving, FilesAccounted
<1>8. CASE ~Fixed
  <2>1. /\ UNCHANGED <<initial, incremental, loadInitFlag, loadLevel>>
        /\ incremental = Ref(mstep) /\ ~(number = Last(mstep) /\ MetaSteps[mstep].fix)
    BY <1>2, <1>4, <1>8 DEF updateLoadVectors, Fixed
  <2>2. past[number].load = initial + loadLevel * Ref(mstep)
    BY <1>4, <2>1 DEF Load
  <2>3. Accounted(past', number', mstep', initial', loadLevel')
    BY <1>1, <1>3, <1>4, <1>5, <1>8, <2>1, <2>2 DEF Accounted
  <2>4. number > 0 /\ Scales(mstep, number)
    BY <1>2, <1>3, <1>5, <1>8
  <2>. QED
    BY <1>1, <1>4, <2>1, <2>3, <2>4 DEF LoadInv, BetweenSteps, BeforeSolving, AfterSolving, FilesAccounted
<1>. QED
  BY <1>7, <1>8

LEMMA LoadPut ==
  ASSUME LoadInv, pc \in {"save", "saving"}, NEW c, c = Torn \/ c = Context, files' = Put(number, c),
         pc' \in {"saving", "loop"}, UNCHANGED <<imstep, jstep, step, loads, past, runs>>
  PROVE  LoadInv'
PROOF
<1>1. UNCHANGED <<number, mstep, initial, loadLevel, incremental, loadInitFlag, past>>
  BY DEF step, loads
<1>2. Accounted(past, number, mstep, initial, loadLevel)
  BY DEF LoadInv, BetweenSteps
<1>3. c = Torn \/ Accounted(c.past, number, c.mstep, c.initial, c.loadLevel)
  BY <1>2 DEF Context, ContextWith
<1>4. FilesAccounted'
  <2>1. /\ DOMAIN files' = DOMAIN files \union {number}
        /\ \A k \in DOMAIN files' : files'[k] = IF k = number THEN c ELSE files[k]
    BY DEF Put
  <2>. QED
    BY <1>3, <2>1 DEF LoadInv, FilesAccounted
<1>. QED
  BY <1>1, <1>4 DEF LoadInv, BetweenSteps, BeforeSolving, AfterSolving

LEMMA LoadStep ==
  ASSUME Regular
  PROVE  PlaceInv /\ LoadInv /\ [Next]_vars => LoadInv'
PROOF
<1>. SUFFICES ASSUME PlaceInv, LoadInv, [Next]_vars
              PROVE  LoadInv'
  OBVIOUS
<1>0. FilesAccounted
  BY DEF LoadInv
<1>1. CASE Start
  BY <1>0, <1>1, LoadStart
<1>2. CASE \E n \in DOMAIN files : Restart(n)
  BY <1>0, <1>2, LoadRestart
<1>3. CASE Crash \/ NotConverged \/ Finish
  BY <1>3 DEF Crash, NotConverged, Finish, LoadInv, BetweenSteps, BeforeSolving, AfterSolving, FilesAccounted
<1>4. CASE NextMetaStep
  BY <1>4 DEF NextMetaStep, step, loads, LoadInv, BetweenSteps, BeforeSolving, AfterSolving, FilesAccounted
<1>5. CASE giveNextStep
  BY <1>5, PlaceStep, LoadNextStep
<1>6. CASE \E d \in Increments : proceedStep(d)
  BY <1>6, LoadSolve
<1>7. CASE updateLoadVectors
  BY <1>7, LoadUpdate
<1>8. CASE OpenContext
  BY <1>8, LoadPut DEF OpenContext
<1>9. CASE saveContext
  BY <1>9, LoadPut DEF saveContext
<1>10. CASE UNCHANGED vars
  <2>1. UNCHANGED <<pc, imstep, number, mstep, loadInitFlag, incremental, initial, loadLevel, files, past>>
    BY <1>10 DEF vars, step, loads
  <2>. QED
    BY <2>1 DEF LoadInv, BetweenSteps, BeforeSolving, AfterSolving, FilesAccounted, Load, attr
<1>. QED
  BY <1>1, <1>2, <1>3, <1>4, <1>5, <1>6, <1>7, <1>8, <1>9, <1>10 DEF Next, Work, Rerun

LEMMA LoadInvariant == Regular => (Spec => []LoadInv)
PROOF
<1>. SUFFICES ASSUME Regular
              PROVE  Spec => []LoadInv
  OBVIOUS
<1>. QED
  BY LoadInit, LoadStep, PlaceInvariant, PTL DEF Spec

\* The load of every step follows from the step before, in regular analyses, whatever the
\* restarts.
THEOREM LoadsAlwaysFollow == Regular => (Spec => []LoadsFollow)
PROOF
<1>1. LoadInv => LoadsFollow
  BY DEF LoadInv, AllFollow, LoadsFollow
<1>. QED
  BY <1>1, LoadInvariant, PTL

\* A context that was written to its end gives the load its step was reported with.
THEOREM ContextsHoldLoad == Regular => (Spec => []ContextHoldsLoad)
PROOF
<1>1. PlaceInv /\ LoadInv => ContextHoldsLoad
  <2>. SUFFICES ASSUME PlaceInv, LoadInv, NEW n \in DOMAIN files, files[n] # Torn
                PROVE  LET c == files[n]
                       IN /\ c.number = n /\ isStepValid(c.mstep, n) /\ Len(c.past) = n
                          /\ c.past[n].load = c.initial + (IF Scales(c.mstep, n)
                               THEN c.loadLevel * Reference[MetaSteps[c.mstep].first] ELSE 0)
    BY DEF ContextHoldsLoad
  <2>. DEFINE c == files[n]
  <2>1. c.number = n /\ isStepValid(c.mstep, n) /\ c \in SavedContext
    BY DEF PlaceInv, Placed, TypeOK
  <2>2. n # 0
    BY <2>1 DEF SavedContext, Step
  <2>3. Accounted(c.past, n, c.mstep, c.initial, c.loadLevel)
    BY DEF LoadInv, FilesAccounted
  <2>. QED
    BY <2>1, <2>2, <2>3 DEF Accounted, Ref
<1>. QED
  BY <1>1, LoadInvariant, PlaceInvariant, PTL

-------------------------------------------------------------------------------
(* The load levels printed: what earlier metasteps have kept, and the level reached in   *)
(* this one.                                                                             *)

Kept(h, m) == IF m > 1 /\ MetaSteps[m - 1].keep THEN Before(h, MetaSteps[m].first).shown ELSE 0
AllShown(h) == \A k \in 1 .. Len(h) : LevelFollows(h, k)

\* c is cumulatedLoadLevel, l the level, after step n of metastep m.
ShownAs(h, n, m, c, l) ==
  /\ AllShown(h)
  /\ IF n = 0 THEN c = 0
     ELSE IF n = Last(m) /\ MetaSteps[m].fix THEN c = (IF MetaSteps[m].keep THEN h[n].shown ELSE 0)
     ELSE c = Kept(h, m) /\ h[n].shown = c + l

ShownBetween ==
  pc \in {"save", "saving", "loop"} => ShownAs(past, number, mstep, cumulated, loadLevel)

ShownBefore ==
  pc = "solve" =>
    /\ cumulated = Kept(past, imstep)
    /\ IF number = attr.first THEN loadLevel = 0
       ELSE Before(past, number).shown = cumulated + loadLevel

ShownAfter ==
  pc = "solved" => cumulated = Kept(past, imstep) /\ past[number].shown = cumulated + loadLevel

FilesShown ==
  \A n \in DOMAIN files : files[n] # Torn =>
    ShownAs(files[n].past, n, files[n].mstep, files[n].cumulated, files[n].loadLevel)

ShownInv == AllShown(past) /\ ShownBetween /\ ShownBefore /\ ShownAfter /\ FilesShown

LEMMA SamePrefix ==
  ASSUME NEW g, NEW h, NEW n \in Nat, \A j \in 1 .. n : g[j] = h[j]
  PROVE  /\ \A k \in 1 .. n + 1 : Before(g, k) = Before(h, k)
         /\ \A m \in 1 .. nMetaSteps : MetaSteps[m].first <= n + 1 => Kept(g, m) = Kept(h, m)
PROOF
<1>1. ASSUME NEW k \in 1 .. n + 1
      PROVE  Before(g, k) = Before(h, k)
  <2>1. CASE k = 1
    BY <2>1 DEF Before
  <2>2. CASE k # 1
    BY <2>2 DEF Before
  <2>. QED
    BY <2>1, <2>2
<1>2. ASSUME NEW m \in 1 .. nMetaSteps, MetaSteps[m].first <= n + 1
      PROVE  Kept(g, m) = Kept(h, m)
  <2>1. MetaSteps[m].first \in 1 .. n + 1
    BY <1>2, MetaStepTyped
  <2>. QED
    BY <1>1, <2>1 DEF Kept
<1>. QED
  BY <1>1, <1>2

LEMMA ShownPrefix ==
  ASSUME NEW g, NEW h, NEW k \in Step, \A j \in 1 .. k : g[j] = h[j], LevelFollows(h, k),
         NEW m \in 1 .. nMetaSteps, isStepValid(m, k)
  PROVE  LevelFollows(g, k)
PROOF
<1>1. k \in Nat \ {0} /\ MetaOf(k) = m /\ MetaSteps[m].first <= k /\ MetaSteps[m].first \in Nat \ {0}
  BY MetaOfStep, MetaStepTyped DEF Step, isStepValid
<1>2. Before(g, k) = Before(h, k) /\ Before(g, MetaSteps[m].first) = Before(h, MetaSteps[m].first)
  <2>1. \A i \in 1 .. k + 1 : Before(g, i) = Before(h, i)
    BY <1>1, SamePrefix
  <2>. QED
    BY <1>1, <2>1
<1>. QED
  BY <1>1, <1>2 DEF LevelFollows

\* Every step has a metastep: by the first step that has none.
LEMMA StepHasMetaStep ==
  ASSUME NEW n \in Step
  PROVE  \E m \in 1 .. nMetaSteps : isStepValid(m, n)
PROOF
<1>. DEFINE Ended == {m \in 1 .. nMetaSteps : n <= Last(m)}
            R == OpToRel(<, Nat)
<1>1. Ended # {} /\ Ended \subseteq Nat
  BY CountTyped DEF Step
<1>2. \E m \in Ended : \A l \in Ended : ~(<<l, m>> \in R)
  <2>1. IsWellFoundedOn(R, Nat)
    BY NatLessThanWellFounded
  <2>. HIDE DEF Ended, R
  <2>. QED
    BY <1>1, <2>1, WFMin
<1>3. PICK m \in Ended : \A l \in Ended : ~(<<l, m>> \in R)
  BY <1>2
<1>4. MetaSteps[m].first <= n
  <2>1. CASE m = 1
    BY <2>1, MetaStepAssumption DEF Step
  <2>2. CASE m # 1
    <3>1. m - 1 \in 1 .. nMetaSteps /\ m - 1 # nMetaSteps
      BY <2>2, CountTyped
    <3>2. m - 1 \notin Ended
      <4>1. <<m - 1, m>> \in R
        BY <3>1, CountTyped DEF OpToRel
      <4>. QED
        BY <1>3, <4>1
    <3>3. MetaSteps[(m - 1) + 1].first = Last(m - 1) + 1
      BY <3>1, NextFirst
    <3>4. (m - 1) + 1 = m /\ Last(m - 1) \in Nat /\ n \in Nat
      BY <3>1, MetaStepTyped DEF Step
    <3>. QED
      BY <3>1, <3>2, <3>3, <3>4
  <2>. QED
    BY <2>1, <2>2
<1>. QED
  BY <1>4 DEF isStepValid, Step

LEMMA ShownSolve ==
  ASSUME PlaceInv, LoadInv, ShownInv, NEW d \in Increments, proceedStep(d)
  PROVE  ShownInv'
PROOF
<1>. DEFINE rec == [load |-> initial + loadLevel' * incremental', shown |-> cumulated + loadLevel', by |-> d]
<1>1. /\ pc = "solve" /\ pc' = "solved" /\ past' = Append(past, rec)
      /\ UNCHANGED <<imstep, jstep, number, mstep, initial, cumulated, files>>
  BY DEF proceedStep, step
<1>2. /\ past \in Seq(Report) /\ number \in Nat \ {0} /\ imstep \in 1 .. nMetaSteps
      /\ isStepValid(imstep, number) /\ d \in Int /\ Len(past) = number - 1
      /\ cumulated \in Int /\ loadLevel \in Int /\ number \in Step
  <2>1. isStepValid(imstep, number) /\ imstep \in 1 .. nMetaSteps
    BY <1>1 DEF PlaceInv, Placed, StepInMetaStep, TypeOK
  <2>2. number \in Step
    BY <1>1, LoadsTyped DEF PlaceInv, InStep
  <2>. QED
    BY <1>1, <2>1, <2>2, MetaStepTyped, LoadAssumption
       DEF PlaceInv, TypeOK, LoadInv, BeforeSolving, isStepValid
<1>3. /\ Len(past') = number /\ past'[number] = rec
      /\ \A k \in 1 .. number - 1 : past'[k] = past[k]
  BY <1>1, <1>2
<1>4. /\ attr' = attr /\ attr = MetaSteps[imstep] /\ attr.indirect \in BOOLEAN
      /\ MetaOf(number) = imstep /\ attr.first <= number /\ attr.first \in Nat \ {0}
  BY <1>1, <1>2, MetaStepTyped, MetaOfStep DEF attr, isStepValid
<1>5. Before(past', number) = Before(past, number) /\ Kept(past', imstep) = Kept(past, imstep)
  <2>1. number - 1 \in Nat /\ number \in 1 .. (number - 1) + 1 /\ attr.first <= (number - 1) + 1
    BY <1>2, <1>4
  <2>2. /\ \A k \in 1 .. (number - 1) + 1 : Before(past', k) = Before(past, k)
        /\ \A m \in 1 .. nMetaSteps :
             MetaSteps[m].first <= (number - 1) + 1 => Kept(past', m) = Kept(past, m)
    BY <1>3, <2>1, SamePrefix
  <2>3. imstep \in 1 .. nMetaSteps /\ MetaSteps[imstep].first <= (number - 1) + 1
    BY <1>2, <1>4, <2>1
  <2>. QED
    BY <2>1, <2>2, <2>3
<1>6. cumulated = Kept(past', imstep)
  BY <1>1, <1>5 DEF ShownInv, ShownBefore
<1>7. LevelFollows(past', number)
  <2>1. past'[number].shown = cumulated + loadLevel' /\ past'[number].by = d
    BY <1>3
  <2>2. CASE attr.indirect
    <3>1. loadLevel' = loadLevel + d
      BY <2>2 DEF proceedStep
    <3>2. CASE number = attr.first
      <4>1. loadLevel = 0
        BY <1>1, <3>2 DEF ShownInv, ShownBefore
      <4>2. past'[number].shown = Kept(past', imstep) + past'[number].by
        BY <1>2, <1>6, <2>1, <3>1, <4>1
      <4>. QED
        BY <1>4, <2>2, <3>2, <4>2 DEF LevelFollows, IsFirst, Kept
    <3>3. CASE number # attr.first
      <4>1. Before(past, number).shown = cumulated + loadLevel
        BY <1>1, <3>3 DEF ShownInv, ShownBefore
      <4>2. past'[number].shown = Before(past', number).shown + past'[number].by
        BY <1>2, <1>5, <2>1, <3>1, <4>1
      <4>. QED
        BY <1>4, <2>2, <3>3, <4>2 DEF LevelFollows, IsFirst
    <3>. QED
      BY <3>2, <3>3
  <2>3. CASE ~attr.indirect
    <3>1. loadLevel' = 1
      BY <2>3 DEF proceedStep
    <3>2. past'[number].shown = Kept(past', imstep) + 1
      BY <1>6, <2>1, <3>1
    <3>. QED
      BY <1>4, <2>3, <3>2 DEF LevelFollows, Kept
  <2>. QED
    BY <2>2, <2>3
<1>8. AllShown(past')
  <2>1. ASSUME NEW k \in 1 .. number - 1
        PROVE  LevelFollows(past', k)
    <3>1. LevelFollows(past, k)
      BY <1>2 DEF ShownInv, AllShown
    <3>2. k \in Step /\ \A j \in 1 .. k : past'[j] = past[j]
      <4>1. Last(nMetaSteps) \in Nat
        BY CountTyped, MetaStepTyped
      <4>. QED
        BY <1>2, <1>3, <4>1 DEF Step
    <3>3. PICK m \in 1 .. nMetaSteps : isStepValid(m, k)
      BY <3>2, StepHasMetaStep
    <3>. QED
      BY <3>1, <3>2, <3>3, ShownPrefix
  <2>. QED
    BY <1>2, <1>3, <1>7, <2>1 DEF AllShown
<1>9. ShownAfter'
  BY <1>1, <1>3, <1>6 DEF ShownAfter
<1>10. FilesShown'
  BY <1>1 DEF ShownInv, FilesShown
<1>. QED
  BY <1>1, <1>8, <1>9, <1>10 DEF ShownInv, ShownBetween, ShownBefore

LEMMA ShownUpdate == PlaceInv /\ ShownInv /\ updateLoadVectors => ShownInv'
PROOF
<1>. SUFFICES ASSUME PlaceInv, ShownInv, updateLoadVectors
              PROVE  ShownInv'
  OBVIOUS
<1>1. pc = "solved" /\ pc' \in {"save", "loop"} /\ UNCHANGED <<imstep, jstep, number, mstep, files, past>>
  BY DEF updateLoadVectors, step
<1>2. mstep = imstep /\ imstep \in 1 .. nMetaSteps /\ isStepValid(mstep, number) /\ attr = MetaSteps[mstep]
  BY <1>1 DEF PlaceInv, Placed, StepInMetaStep, TypeOK, attr
<1>3. number # 0
  BY <1>2, MetaStepTyped DEF isStepValid
<1>4. cumulated = Kept(past, mstep) /\ past[number].shown = cumulated + loadLevel /\ AllShown(past)
  BY <1>1, <1>2 DEF ShownInv, ShownAfter
<1>5. CASE number = Last(mstep) /\ MetaSteps[mstep].fix
  <2>1. cumulated' = IF MetaSteps[mstep].keep THEN past[number].shown ELSE 0
    BY <1>2, <1>4, <1>5 DEF updateLoadVectors, ResetLevel
  <2>. QED
    BY <1>1, <1>3, <1>4, <1>5, <2>1
       DEF ShownInv, ShownBetween, ShownBefore, ShownAfter, FilesShown, ShownAs
<1>6. CASE ~(number = Last(mstep) /\ MetaSteps[mstep].fix)
  <2>1. UNCHANGED <<cumulated, loadLevel>>
    BY <1>6 DEF updateLoadVectors
  <2>. QED
    BY <1>1, <1>3, <1>4, <1>6, <2>1
       DEF ShownInv, ShownBetween, ShownBefore, ShownAfter, FilesShown, ShownAs
<1>. QED
  BY <1>5, <1>6

LEMMA ShownNextStep ==
  ASSUME Regular
  PROVE  PlaceInv /\ LoadInv /\ ShownInv /\ PlaceInv' /\ giveNextStep => ShownInv'
PROOF
<1>. SUFFICES ASSUME PlaceInv, LoadInv, ShownInv, PlaceInv', giveNextStep
              PROVE  ShownInv'
  OBVIOUS
<1>1. pc = "loop" /\ pc' \in {"solve", "down"} /\ UNCHANGED <<imstep, cumulated, loadLevel, files, past, runs>>
  BY DEF giveNextStep, loads
<1>2. AllShown(past') /\ FilesShown'
  BY <1>1 DEF ShownInv, FilesShown
<1>3. CASE pc' = "down"
  BY <1>2, <1>3 DEF ShownInv, ShownBetween, ShownBefore, ShownAfter
<1>4. CASE pc' = "solve"
  <2>. DEFINE n == number + 1
  <2>1. number' = n /\ attr' = attr /\ imstep' = imstep /\ attr = MetaSteps[imstep]
    BY <1>1, <1>4 DEF giveNextStep, attr
  <2>2. imstep \in 1 .. nMetaSteps /\ mstep \in 1 .. nMetaSteps /\ number \in Nat
    BY MetaStepTyped, CountTyped DEF PlaceInv, TypeOK
  <2>3. isStepValid(imstep, n)
    BY <1>4, <2>1 DEF PlaceInv, Placed, StepInMetaStep
  <2>4. Accounted(past, number, mstep, initial, loadLevel) /\ ShownAs(past, number, mstep, cumulated, loadLevel)
    BY <1>1 DEF LoadInv, BetweenSteps, ShownInv, ShownBetween
  <2>5. n > 1 => Before(past, n) = past[number]
    BY <2>2 DEF Before
  <2>6. SUFFICES /\ cumulated = Kept(past, imstep)
                 /\ IF n = attr.first THEN loadLevel = 0
                    ELSE Before(past, n).shown = cumulated + loadLevel
    BY <1>1, <1>2, <1>4, <2>1 DEF ShownInv, ShownBetween, ShownBefore, ShownAfter
  <2>7. CASE number = 0
    <3>1. imstep = 1
      <4>1. 1 \in 1 .. nMetaSteps /\ isStepValid(1, 1)
        BY CountTyped, MetaStepTyped, MetaStepAssumption DEF isStepValid
      <4>. QED
        BY <2>2, <2>3, <2>7, <4>1, OneMetaStep
    <3>2. attr.first = 1 /\ Kept(past, imstep) = 0
      BY <2>1, <3>1, MetaStepAssumption DEF Kept
    <3>3. cumulated = 0 /\ loadLevel = 0
      BY <2>4, <2>7 DEF Accounted, ShownAs
    <3>. QED
      BY <2>7, <3>2, <3>3
  <2>8. CASE number > 0 /\ mstep = imstep
    <3>1. number # Last(mstep)
      BY <2>2, <2>3, <2>8, MetaStepTyped DEF isStepValid
    <3>2. isStepValid(mstep, number)
      BY <1>1, <2>8 DEF PlaceInv, Placed
    <3>3. n # attr.first
      BY <2>1, <2>2, <2>8, <3>2, MetaStepTyped DEF isStepValid
    <3>. QED
      BY <2>2, <2>4, <2>5, <2>8, <3>1, <3>3 DEF ShownAs
  <2>9. CASE number > 0 /\ mstep # imstep
    <3>1. isStepValid(mstep, number) /\ imstep = mstep + 1
      BY <1>1, <2>9 DEF PlaceInv, Placed
    <3>2. mstep # nMetaSteps /\ MetaSteps[imstep].first = Last(mstep) + 1 /\ MetaSteps[mstep].fix
      BY <2>2, <3>1, NextFirst, CountTyped DEF Regular
    <3>3. number = Last(mstep)
      BY <2>2, <2>3, <3>1, <3>2, MetaStepTyped DEF isStepValid
    <3>4. loadLevel = 0 /\ cumulated = IF MetaSteps[mstep].keep THEN past[number].shown ELSE 0
      BY <2>4, <2>9, <3>2, <3>3 DEF Accounted, ShownAs
    <3>5. n = attr.first /\ imstep > 1 /\ imstep - 1 = mstep
      BY <2>1, <2>2, <3>1, <3>2, <3>3
    <3>. QED
      BY <2>1, <2>2, <2>5, <2>9, <3>4, <3>5 DEF Kept
  <2>. QED
    BY <2>2, <2>7, <2>8, <2>9
<1>. QED
  BY <1>1, <1>3, <1>4

LEMMA ShownPut ==
  ASSUME ShownInv, pc \in {"save", "saving"}, NEW c, c = Torn \/ c = Context, files' = Put(number, c),
         pc' \in {"saving", "loop"}, UNCHANGED <<imstep, jstep, step, loads, past, runs>>
  PROVE  ShownInv'
PROOF
<1>1. UNCHANGED <<number, mstep, cumulated, loadLevel, past>>
  BY DEF step, loads
<1>2. ShownAs(past, number, mstep, cumulated, loadLevel)
  BY DEF ShownInv, ShownBetween
<1>3. c = Torn \/ ShownAs(c.past, number, c.mstep, c.cumulated, c.loadLevel)
  BY <1>2 DEF Context, ContextWith
<1>4. FilesShown'
  <2>1. /\ DOMAIN files' = DOMAIN files \union {number}
        /\ \A k \in DOMAIN files' : files'[k] = IF k = number THEN c ELSE files[k]
    BY DEF Put
  <2>. QED
    BY <1>3, <2>1 DEF ShownInv, FilesShown
<1>. QED
  BY <1>1, <1>4 DEF ShownInv, ShownBetween, ShownBefore, ShownAfter

LEMMA ShownStep ==
  ASSUME Regular
  PROVE  PlaceInv /\ LoadInv /\ ShownInv /\ [Next]_vars => ShownInv'
PROOF
<1>. SUFFICES ASSUME PlaceInv, LoadInv, ShownInv, [Next]_vars
              PROVE  ShownInv'
  OBVIOUS
<1>1. CASE Start
  <2>1. past' = <<>> /\ number' = 0 /\ cumulated' = 0 /\ pc' = "loop" /\ files' = files
    BY <1>1 DEF Start
  <2>2. AllShown(past')
    BY <2>1 DEF AllShown
  <2>. QED
    BY <2>1, <2>2 DEF ShownInv, ShownBetween, ShownBefore, ShownAfter, FilesShown, ShownAs
<1>2. CASE \E n \in DOMAIN files : Restart(n)
  <2>1. PICK n \in DOMAIN files : Restart(n)
    BY <1>2
  <2>2. /\ number' = files[n].number /\ mstep' = files[n].mstep /\ loadLevel' = files[n].loadLevel
        /\ cumulated' = files[n].cumulated /\ past' = files[n].past /\ files' = files /\ pc' = "loop"
        /\ files[n] # Torn
    BY <2>1 DEF Restart
  <2>3. files[n].number = n
    BY <2>2 DEF PlaceInv, Placed
  <2>4. ShownAs(past', number', mstep', cumulated', loadLevel')
    BY <2>2, <2>3 DEF ShownInv, FilesShown
  <2>. QED
    BY <2>2, <2>4 DEF ShownInv, ShownBetween, ShownBefore, ShownAfter, FilesShown, ShownAs
<1>3. CASE Crash \/ NotConverged \/ Finish
  BY <1>3 DEF Crash, NotConverged, Finish, ShownInv, ShownBetween, ShownBefore, ShownAfter, FilesShown
<1>4. CASE NextMetaStep
  BY <1>4 DEF NextMetaStep, step, loads, ShownInv, ShownBetween, ShownBefore, ShownAfter, FilesShown
<1>5. CASE giveNextStep
  BY <1>5, PlaceStep, ShownNextStep
<1>6. CASE \E d \in Increments : proceedStep(d)
  BY <1>6, ShownSolve
<1>7. CASE updateLoadVectors
  BY <1>7, ShownUpdate
<1>8. CASE OpenContext
  BY <1>8, ShownPut DEF OpenContext
<1>9. CASE saveContext
  BY <1>9, ShownPut DEF saveContext
<1>10. CASE UNCHANGED vars
  <2>1. UNCHANGED <<pc, imstep, number, mstep, cumulated, loadLevel, files, past>>
    BY <1>10 DEF vars, step, loads
  <2>. QED
    BY <2>1 DEF ShownInv, ShownBetween, ShownBefore, ShownAfter, FilesShown, attr
<1>. QED
  BY <1>1, <1>2, <1>3, <1>4, <1>5, <1>6, <1>7, <1>8, <1>9, <1>10 DEF Next, Work, Rerun

\* The load level printed for every step follows from those before it, in regular analyses,
\* whatever the restarts.
THEOREM LevelsAlwaysFollow == Regular => (Spec => []LevelsFollow)
PROOF
<1>. SUFFICES ASSUME Regular
              PROVE  Spec => []LevelsFollow
  OBVIOUS
<1>1. Init => ShownInv
  <2>. SUFFICES ASSUME Init
                PROVE  ShownInv
    OBVIOUS
  <2>1. past = <<>> /\ files = <<>> /\ pc = "down"
    BY DEF Init
  <2>. QED
    BY <2>1 DEF ShownInv, AllShown, ShownBetween, ShownBefore, ShownAfter, FilesShown
<1>2. ShownInv => LevelsFollow
  BY DEF ShownInv, AllShown, LevelsFollow
<1>. QED
  BY <1>1, <1>2, ShownStep, LoadInvariant, PlaceInvariant, PTL DEF Spec
===============================================================================
