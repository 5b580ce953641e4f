---------------------------- MODULE NRSolverProofs ----------------------------
(***************************************************************************)
(* For every number of processes, groups, iterations and residuals: when   *)
(* the same groups of dofs are in use on all processes and there is no     *)
(* line search, the processes call the same collective operations and end  *)
(* with the same verdict.  With any parameters a line search leaves total  *)
(* and increment in accord, and what is judged in the end is the residual  *)
(* of the solution that is left behind.                                    *)
(*                                                                         *)
(* Between two collective operations each process goes its own way at its  *)
(* own pace, but where it goes is decided: by the errors, the parameters   *)
(* and its iteration count.  Target(p), Iter(p) and Ending(p) say where p  *)
(* will wait next, in which iteration, and with which verdict.  They are   *)
(* the same for all processes, and no local step changes them.             *)
(***************************************************************************)
EXTENDS NRSolver, TLAPS

\* Where p goes from an update of the solution.
Arrival == IF config.solDep THEN "external" ELSE "residual"

Onward(p) == IF UpdatesStiffness(p) THEN "stiffness"
             ELSE IF NoIncrement(p) THEN Arrival ELSE "solve"

Target(p) == IF pc[p] = "decide" THEN IF Verdict(p) # "unknown" THEN "end" ELSE Onward(p)
             ELSE IF pc[p] \in {"equilibrate", "update"} THEN Arrival ELSE pc[p]

Iter(p) == IF \/ pc[p] \in {"equilibrate", "update"}
              \/ pc[p] = "decide" /\ Verdict(p) = "unknown" /\ ~UpdatesStiffness(p) /\ NoIncrement(p)
           THEN nite[p] + 1 ELSE nite[p]

Ending(p) == IF pc[p] = "decide" THEN Verdict(p) ELSE status[p]

\* The places of an iteration without line search.
WaitPlaces == {"norm", "firstStiffness", "stiffness", "residual", "errors", "solve", "external"}
PlainPlaces == WaitPlaces \union {"decide", "equilibrate", "update", "end"}

Verdicts == {"unknown", "converged", "divergedTol", "divergedIts"}

PlainInv ==
  /\ config \in Config /\ config.uniform /\ ~config.lineSearch
  /\ inUse \in [Rank -> SUBSET Group]
  /\ \A p, q \in Rank : inUse[p] = inUse[q]
  /\ err \in [Group -> Classes]
  /\ pc \in [Rank -> PlainPlaces]
  /\ nite \in [Rank -> Nat]
  /\ status \in [Rank -> Verdicts]
  /\ \A p \in Rank : pc[p] # "end" => status[p] = "unknown"

Lockstep ==
  \A p, q \in Rank : Target(p) = Target(q) /\ Iter(p) = Iter(q) /\ Ending(p) = Ending(q)

LockInv == PlainInv /\ Lockstep

PlainRun == \A c \in Configs : c.uniform /\ ~c.lineSearch
-------------------------------------------------------------------------------
(* What a process decides depends on the errors, its groups and its iteration *)

LEMMA Operations ==
  /\ WaitPlaces \subseteq Waits
  /\ "decide" \notin Waits /\ "equilibrate" \notin Waits /\ "update" \notin Waits /\ "end" \notin Waits
  /\ Operation["norm"] = "norm" /\ Operation["firstStiffness"] = "assemble"
  /\ Operation["stiffness"] = "assemble" /\ Operation["residual"] = "forces"
  /\ Operation["external"] = "forces" /\ Operation["errors"] = "reduce" /\ Operation["solve"] = "solve"
BY DEF WaitPlaces, Waits, Operation

LEMMA VerdictType ==
  ASSUME NEW p \in Rank
  PROVE  Verdict(p) \in Verdicts
BY DEF Verdict, Verdicts

\* Processes that are at the same place of the same iteration, with the same groups,
\* go on alike; stated of the state after a collective operation.
LEMMA SameDecision ==
  ASSUME NEW p \in Rank, NEW q \in Rank,
         pc'[p] = pc'[q], nite'[p] = nite'[q], inUse'[p] = inUse'[q], status'[p] = status'[q]
  PROVE  Target(p)' = Target(q)' /\ Iter(p)' = Iter(q)' /\ Ending(p)' = Ending(q)'
<1>1. Judged(p)' = Judged(q)'
  BY DEF Judged
<1>2. ErrorOutOfRange(p)' = ErrorOutOfRange(q)' /\ Converged(p)' = Converged(q)'
  BY <1>1 DEF ErrorOutOfRange, Converged
<1>3. Verdict(p)' = Verdict(q)'
  BY <1>2 DEF Verdict
<1>4. UpdatesStiffness(p)' = UpdatesStiffness(q)' /\ NoIncrement(p)' = NoIncrement(q)'
  BY DEF UpdatesStiffness, NoIncrement
<1>5. Onward(p)' = Onward(q)'
  BY <1>4 DEF Onward
<1>6. QED
  BY <1>3, <1>4, <1>5 DEF Target, Iter, Ending

\* A step that leaves the errors and the data of q alone does not change q's decision.
LEMMA DecisionKept ==
  ASSUME NEW q \in Rank, config' = config, inUse' = inUse, err' = err, nite'[q] = nite[q]
  PROVE  /\ Verdict(q)' = Verdict(q) /\ Onward(q)' = Onward(q) /\ Arrival' = Arrival
         /\ UpdatesStiffness(q)' = UpdatesStiffness(q) /\ NoIncrement(q)' = NoIncrement(q)
<1>1. Judged(q)' = Judged(q)
  BY DEF Judged
<1>2. ErrorOutOfRange(q)' = ErrorOutOfRange(q) /\ Converged(q)' = Converged(q)
  BY <1>1 DEF ErrorOutOfRange, Converged
<1>3. Verdict(q)' = Verdict(q)
  BY <1>2 DEF Verdict
<1>4. UpdatesStiffness(q)' = UpdatesStiffness(q) /\ NoIncrement(q)' = NoIncrement(q) /\ Arrival' = Arrival
  BY DEF UpdatesStiffness, NoIncrement, Arrival
<1>5. QED
  BY <1>3, <1>4 DEF Onward

LEMMA ProcessKept ==
  ASSUME NEW q \in Rank, config' = config, inUse' = inUse, err' = err,
         pc'[q] = pc[q], nite'[q] = nite[q], status'[q] = status[q]
  PROVE  Target(q)' = Target(q) /\ Iter(q)' = Iter(q) /\ Ending(q)' = Ending(q)
BY DecisionKept DEF Target, Iter, Ending
-------------------------------------------------------------------------------
(* The invariant *)

LEMMA InitLock ==
  ASSUME PlainRun, Init
  PROVE  LockInv
<1>1. config \in Config /\ config.uniform /\ ~config.lineSearch
  BY ConfigAssumption DEF Init, PlainRun
<1>2. inUse \in [Rank -> SUBSET Group] /\ \A p, q \in Rank : inUse[p] = inUse[q]
  BY <1>1 DEF Init
<1>3. /\ err \in [Group -> Classes] /\ nite \in [Rank -> Nat] /\ status \in [Rank -> Verdicts]
      /\ pc \in [Rank -> PlainPlaces]
      /\ \A p \in Rank : pc[p] = "norm" /\ nite[p] = 0 /\ status[p] = "unknown"
  BY ClassAssumption DEF Init, Verdicts, PlainPlaces, WaitPlaces
<1>4. \A p \in Rank : Target(p) = "norm" /\ Iter(p) = 0 /\ Ending(p) = "unknown"
  BY <1>3 DEF Target, Iter, Ending
<1>5. QED
  BY <1>1, <1>2, <1>3, <1>4 DEF LockInv, PlainInv, Lockstep

\* What a step of one process has to show: the process keeps its target.
LEMMA OneMoves ==
  ASSUME LockInv, NEW p \in Rank,
         config' = config, inUse' = inUse, err' = err,
         pc' \in [Rank -> PlainPlaces], nite' \in [Rank -> Nat], status' \in [Rank -> Verdicts],
         \A q \in Rank : q # p => pc'[q] = pc[q] /\ nite'[q] = nite[q] /\ status'[q] = status[q],
         pc'[p] # "end" => status'[p] = "unknown",
         Target(p)' = Target(p), Iter(p)' = Iter(p), Ending(p)' = Ending(p)
  PROVE  LockInv'
<1>1. \A q \in Rank : Target(q)' = Target(q) /\ Iter(q)' = Iter(q) /\ Ending(q)' = Ending(q)
  BY ProcessKept
<1>2. Lockstep'
  BY <1>1 DEF LockInv, Lockstep
<1>3. PlainInv'
  BY DEF LockInv, PlainInv
<1>4. QED
  BY <1>2, <1>3 DEF LockInv

LEMMA FinishStep ==
  ASSUME LockInv, NEW p \in Rank, Finish(p)
  PROVE  LockInv'
<1>1. /\ pc[p] = "decide" /\ Verdict(p) # "unknown"
      /\ config' = config /\ inUse' = inUse /\ err' = err /\ nite' = nite
      /\ pc' = [pc EXCEPT ![p] = "end"] /\ status' = [status EXCEPT ![p] = Verdict(p)]
  BY DEF Finish, Goto
<1>2. /\ pc'[p] = "end" /\ status'[p] = Verdict(p) /\ nite'[p] = nite[p]
      /\ pc' \in [Rank -> PlainPlaces] /\ status' \in [Rank -> Verdicts] /\ nite' \in [Rank -> Nat]
      /\ \A q \in Rank : q # p => pc'[q] = pc[q] /\ nite'[q] = nite[q] /\ status'[q] = status[q]
  BY <1>1, VerdictType DEF LockInv, PlainInv, PlainPlaces
<1>3. Target(p)' = Target(p) /\ Iter(p)' = Iter(p) /\ Ending(p)' = Ending(p)
  BY <1>1, <1>2 DEF Target, Iter, Ending
<1>4. QED
  BY <1>1, <1>2, <1>3, OneMoves

LEMMA ContinueStep ==
  ASSUME LockInv, NEW p \in Rank, Continue(p)
  PROVE  LockInv'
<1> DEFINE l == IF UpdatesStiffness(p) THEN "stiffness"
                ELSE IF NoIncrement(p) THEN "equilibrate" ELSE "solve"
<1>1. /\ pc[p] = "decide" /\ Verdict(p) = "unknown"
      /\ config' = config /\ inUse' = inUse /\ err' = err /\ nite' = nite /\ status' = status
      /\ pc' = [pc EXCEPT ![p] = l]
  BY DEF Continue, Goto
<1>2. l \in PlainPlaces
  BY DEF PlainPlaces, WaitPlaces
<1>3. /\ pc'[p] = l /\ status'[p] = "unknown" /\ nite'[p] = nite[p]
      /\ pc' \in [Rank -> PlainPlaces] /\ status' \in [Rank -> Verdicts] /\ nite' \in [Rank -> Nat]
      /\ \A q \in Rank : q # p => pc'[q] = pc[q] /\ nite'[q] = nite[q] /\ status'[q] = status[q]
  <2> HIDE DEF l
  <2> QED BY <1>1, <1>2 DEF LockInv, PlainInv
<1>4. Target(p)' = Target(p) /\ Iter(p)' = Iter(p) /\ Ending(p)' = Ending(p)
  <2>1. Arrival' = Arrival
    BY <1>1 DEF Arrival
  <2>2. QED
    BY <1>1, <1>3, <2>1 DEF Target, Iter, Ending, Onward
<1>5. QED
  BY <1>1, <1>3, <1>4, OneMoves

LEMMA EquilibrateStep ==
  ASSUME LockInv, NEW p \in Rank, Equilibrate(p)
  PROVE  LockInv'
<1>1. /\ pc[p] = "equilibrate"
      /\ config' = config /\ inUse' = inUse /\ err' = err /\ nite' = nite /\ status' = status
      /\ pc' = [pc EXCEPT ![p] = "update"]
  BY DEF Equilibrate, Goto
<1>2. /\ pc'[p] = "update" /\ status'[p] = "unknown" /\ nite'[p] = nite[p] /\ status'[p] = status[p]
      /\ pc' \in [Rank -> PlainPlaces] /\ status' \in [Rank -> Verdicts] /\ nite' \in [Rank -> Nat]
      /\ \A q \in Rank : q # p => pc'[q] = pc[q] /\ nite'[q] = nite[q] /\ status'[q] = status[q]
  BY <1>1 DEF LockInv, PlainInv, PlainPlaces
<1>3. Target(p)' = Target(p) /\ Iter(p)' = Iter(p) /\ Ending(p)' = Ending(p)
  <2>1. Arrival' = Arrival
    BY <1>1 DEF Arrival
  <2>2. QED
    BY <1>1, <1>2, <2>1 DEF Target, Iter, Ending
<1>4. QED
  BY <1>1, <1>2, <1>3, OneMoves

LEMMA UpdateStep ==
  ASSUME LockInv, NEW p \in Rank, Update(p)
  PROVE  LockInv'
<1>1. /\ pc[p] = "update"
      /\ config' = config /\ inUse' = inUse /\ err' = err /\ status' = status
      /\ nite' = [nite EXCEPT ![p] = nite[p] + 1]
      /\ pc' = [pc EXCEPT ![p] = Arrival]
  BY DEF Update, Goto, Arrival
<1>2. Arrival \in {"external", "residual"} /\ Arrival' = Arrival
  BY <1>1 DEF Arrival
<1>3. /\ pc'[p] = Arrival /\ status'[p] = "unknown" /\ nite'[p] = nite[p] + 1 /\ status'[p] = status[p]
      /\ pc' \in [Rank -> PlainPlaces] /\ status' \in [Rank -> Verdicts] /\ nite' \in [Rank -> Nat]
      /\ \A q \in Rank : q # p => pc'[q] = pc[q] /\ nite'[q] = nite[q] /\ status'[q] = status[q]
  BY <1>1, <1>2 DEF LockInv, PlainInv, PlainPlaces, WaitPlaces
<1>4. Target(p)' = Target(p) /\ Iter(p)' = Iter(p) /\ Ending(p)' = Ending(p)
  BY <1>1, <1>2, <1>3 DEF Target, Iter, Ending
<1>5. QED
  BY <1>1, <1>3, <1>4, OneMoves
-------------------------------------------------------------------------------
(* A collective operation moves all processes together *)

LEMMA AllWait ==
  ASSUME LockInv, \A p \in Rank : pc[p] \in Waits
  PROVE  /\ \A p \in Rank : pc[p] \in WaitPlaces /\ status[p] = "unknown"
         /\ \A p, q \in Rank : pc[p] = pc[q] /\ nite[p] = nite[q]
<1>1. \A p \in Rank : pc[p] \in WaitPlaces
  BY Operations DEF LockInv, PlainInv, PlainPlaces
<1>2. \A p \in Rank : Target(p) = pc[p] /\ Iter(p) = nite[p] /\ status[p] = "unknown"
  BY <1>1 DEF Target, Iter, WaitPlaces, LockInv, PlainInv
<1>3. QED
  BY <1>1, <1>2 DEF LockInv, Lockstep

\* What a collective operation has to show: the processes go on to the same place.
LEMMA AllMove ==
  ASSUME LockInv, \A p \in Rank : pc[p] \in Waits,
         config' = config, inUse' = inUse, nite' = nite, status' = status,
         err' \in [Group -> Classes],
         pc' \in [Rank -> PlainPlaces],
         \A p, q \in Rank : pc'[p] = pc'[q]
  PROVE  LockInv'
<1>1. /\ \A p \in Rank : status'[p] = "unknown"
      /\ \A p, q \in Rank : nite'[p] = nite'[q] /\ inUse'[p] = inUse'[q]
  BY AllWait DEF LockInv, PlainInv
<1>2. Lockstep'
  <2>1. \A p, q \in Rank : Target(p)' = Target(q)' /\ Iter(p)' = Iter(q)' /\ Ending(p)' = Ending(q)'
    BY <1>1, SameDecision
  <2>2. QED
    BY <2>1 DEF Lockstep
<1>3. PlainInv'
  BY <1>1 DEF LockInv, PlainInv
<1>4. QED
  BY <1>2, <1>3 DEF LockInv

\* The operations that a process only has to go through.
LEMMA PassStep ==
  ASSUME LockInv, NEW op \in {"norm", "assemble", "forces"},
         Meet(op, [p \in Rank |-> After(p)]),
         config' = config, inUse' = inUse, err' = err, nite' = nite, status' = status
  PROVE  LockInv'
<1>1. /\ \A p \in Rank : pc[p] \in Waits /\ Operation[pc[p]] = op
      /\ pc' = [p \in Rank |-> After(p)]
  BY DEF Meet
<1>2. /\ \A p \in Rank : pc[p] \in WaitPlaces
      /\ \A p, q \in Rank : pc[p] = pc[q] /\ nite[p] = nite[q]
  BY <1>1, AllWait
<1>3. \A p \in Rank : pc[p] \in {"norm", "firstStiffness", "stiffness", "residual", "external"}
  BY <1>1, <1>2, Operations DEF WaitPlaces
<1>4. \A p \in Rank : After(p) \in PlainPlaces
  BY <1>3 DEF After, PlainPlaces, WaitPlaces
<1>5. \A p, q \in Rank : After(p) = After(q)
  <2>1. \A p, q \in Rank : NoIncrement(p) = NoIncrement(q)
    BY <1>2 DEF NoIncrement
  <2>2. QED
    BY <1>2, <2>1 DEF After
<1>6. pc' \in [Rank -> PlainPlaces] /\ \A p, q \in Rank : pc'[p] = pc'[q]
  BY <1>1, <1>4, <1>5
<1>7. err' \in [Group -> Classes]
  BY DEF LockInv, PlainInv
<1>8. QED
  BY <1>1, <1>6, <1>7, AllMove

LEMMA TogetherStep ==
  ASSUME LockInv, Together
  PROVE  LockInv'
<1>1. CASE LoadNorm
  BY <1>1, PassStep DEF LoadNorm
<1>2. CASE AssembleStiffness
  BY <1>2, PassStep DEF AssembleStiffness
<1>3. CASE AssembleForces
  BY <1>3, PassStep DEF AssembleForces
<1>4. CASE AccumulateErrors
  <2>1. /\ \A p \in Rank : pc[p] \in Waits
        /\ config' = config /\ inUse' = inUse /\ nite' = nite /\ status' = status
        /\ err' \in [Group -> Classes] /\ pc' = [p \in Rank |-> "decide"]
    BY <1>4 DEF AccumulateErrors, Meet
  <2>2. pc' \in [Rank -> PlainPlaces] /\ \A p, q \in Rank : pc'[p] = pc'[q]
    BY <2>1 DEF PlainPlaces
  <2>3. QED
    BY <2>1, <2>2, AllMove
<1>5. CASE Solve
  <2>1. ~config.lineSearch /\ err \in [Group -> Classes]
    BY DEF LockInv, PlainInv
  <2>2. /\ \A p \in Rank : pc[p] \in Waits
        /\ config' = config /\ inUse' = inUse /\ nite' = nite /\ status' = status /\ err' = err
        /\ pc' = [p \in Rank |-> "update"]
    BY <1>5, <2>1 DEF Solve, Meet
  <2>3. pc' \in [Rank -> PlainPlaces] /\ \A p, q \in Rank : pc'[p] = pc'[q]
    BY <2>2 DEF PlainPlaces
  <2>4. QED
    BY <2>1, <2>2, <2>3, AllMove
<1>6. QED
  BY <1>1, <1>2, <1>3, <1>4, <1>5 DEF Together

\* No line search is under way.
LEMMA NoSearch ==
  ASSUME LockInv, NEW p \in Rank
  PROVE  ~(TakeWhole(p) \/ StartSearch(p) \/ AcceptStep(p) \/ TryNext(p) \/ GiveUp(p))
<1>1. pc[p] \notin {"lineSearch", "trial"}
  BY DEF LockInv, PlainInv, PlainPlaces, WaitPlaces
<1>2. QED
  BY <1>1 DEF TakeWhole, StartSearch, AcceptStep, TryNext, GiveUp

LEMMA LockInvariant ==
  ASSUME PlainRun
  PROVE  Spec => []LockInv
<1>1. Init => LockInv
  BY InitLock
<1>2. LockInv /\ [Next]_vars => LockInv'
  <2> SUFFICES ASSUME LockInv, [Next]_vars
               PROVE  LockInv'
    OBVIOUS
  <2>1. CASE Together
    BY <2>1, TogetherStep
  <2>2. CASE \E p \in Rank : Alone(p)
    <3>1. PICK p \in Rank : Alone(p)
      BY <2>2
    <3>2. Finish(p) \/ Continue(p) \/ Equilibrate(p) \/ Update(p)
      BY <3>1, NoSearch DEF Alone
    <3>3. QED
      BY <3>2, FinishStep, ContinueStep, EquilibrateStep, UpdateStep
  <2>3. CASE UNCHANGED vars
    <3>1. /\ config' = config /\ inUse' = inUse /\ err' = err
          /\ pc' = pc /\ nite' = nite /\ status' = status
      BY <2>3 DEF vars
    <3>2. PlainInv'
      BY <3>1 DEF LockInv, PlainInv
    <3>3. Lockstep'
      <4>1. \A q \in Rank : Target(q)' = Target(q) /\ Iter(q)' = Iter(q) /\ Ending(q)' = Ending(q)
        BY <3>1, ProcessKept
      <4>2. QED
        BY <4>1 DEF LockInv, Lockstep
    <3>4. QED
      BY <3>2, <3>3 DEF LockInv
  <2>4. QED
    BY <2>1, <2>2, <2>3 DEF Next
<1>3. QED
  BY <1>1, <1>2, PTL DEF Spec

LEMMA LockMatches ==
  ASSUME LockInv
  PROVE  CallsMatch /\ VerdictsAgree
<1>1. CallsMatch
  <2> SUFFICES ASSUME NEW p \in Rank, NEW q \in Rank, pc[p] \in Waits
               PROVE  CASE pc[q] \in Waits -> Operation[pc[p]] = Operation[pc[q]]
                        [] pc[q] = "end" -> FALSE
                        [] OTHER -> TRUE
    BY DEF CallsMatch
  <2>1. pc[p] \in WaitPlaces
    BY Operations DEF LockInv, PlainInv, PlainPlaces
  <2>2. Target(p) = pc[p]
    BY <2>1 DEF Target, WaitPlaces
  <2>3. ASSUME pc[q] \in Waits
        PROVE  pc[q] = pc[p]
    <3>1. pc[q] \in WaitPlaces
      BY <2>3, Operations DEF LockInv, PlainInv, PlainPlaces
    <3>2. Target(q) = pc[q]
      BY <3>1 DEF Target, WaitPlaces
    <3>3. QED
      BY <2>2, <3>2 DEF LockInv, Lockstep
  <2>4. pc[q] # "end"
    <3>1. pc[q] = "end" => Target(q) = "end"
      BY DEF Target
    <3>2. Target(q) = pc[p]
      BY <2>2 DEF LockInv, Lockstep
    <3>3. QED
      BY <2>1, <3>1, <3>2 DEF WaitPlaces
  <2>5. CASE pc[q] \in Waits
    BY <2>3, <2>4, <2>5
  <2>6. CASE pc[q] \notin Waits
    BY <2>4, <2>6
  <2>7. QED
    BY <2>5, <2>6
<1>2. VerdictsAgree
  <2>1. \A p \in Rank : pc[p] = "end" => Iter(p) = nite[p] /\ Ending(p) = status[p]
    BY DEF Iter, Ending
  <2>2. QED
    BY <2>1 DEF LockInv, Lockstep, VerdictsAgree
<1>3. QED
  BY <1>1, <1>2
-------------------------------------------------------------------------------
\* The processes call the same collective operations in the same order, whatever the
\* errors, increments and iteration counts (NRSolver::solve never leaves a process
\* alone in a sum, a solve or an exchange of forces).
THEOREM CallsAlwaysMatch ==
  ASSUME PlainRun
  PROVE  Spec => []CallsMatch
<1>1. LockInv => CallsMatch
  BY LockMatches
<1>2. QED
  BY <1>1, LockInvariant, PTL

\* All processes leave NRSolver::solve with the same verdict after as many iterations,
\* though each takes the decision of checkConvergence for itself.
THEOREM VerdictsAlwaysAgree ==
  ASSUME PlainRun
  PROVE  Spec => []VerdictsAgree
<1>1. LockInv => VerdictsAgree
  BY LockMatches
<1>2. QED
  BY <1>1, LockInvariant, PTL
-------------------------------------------------------------------------------
(* Types, with line search and on whatever groups *)

\* The places between the decision to go on and the end of the iteration.
Inside == {"stiffness", "equilibrate", "solve", "lineSearch", "trial", "trialForces",
           "lastForces", "update"}

\* A process that is inside an iteration has not used up the iterations.
CountedInv == \A p \in Rank : pc[p] \in Inside => nite[p] < NsMax

\* What a process can wait for, and where it can be.
LEMMA AllPlaces ==
  /\ Waits = {"norm", "firstStiffness", "stiffness", "residual", "trialForces", "lastForces",
              "errors", "solve", "external"}
  /\ Places = Waits \union {"decide", "equilibrate", "lineSearch", "trial", "update", "end"}
BY DEF Waits, Operation, Places

\* Products of natural numbers, and their quotients by positive ones, are natural.
LEMMA NaturalNumbers ==
  ASSUME NEW a \in Nat, NEW b \in Nat
  PROVE  a * b \in Nat /\ (b > 0 => a \div b \in Nat)
OBVIOUS

\* The restricted increment is a natural number.
LEMMA RestrictedNat ==
  ASSUME TypeOK, NEW p \in Rank
  PROVE  Restricted(p) \in Nat
<1> DEFINE a == ddX[p]
           c == config.maxInc
           m == ddMax[p]
<1>1. a \in Nat /\ c \in Nat /\ m \in Nat
  BY DEF TypeOK, Config
<1> HIDE DEF a, c, m
<1>2. a * c \in Nat
  BY <1>1, NaturalNumbers
<1>3. m > c => (a * c) \div m \in Nat
  <2> DEFINE k == a * c
  <2>1. k \in Nat
    BY <1>2
  <2> HIDE DEF k
  <2>2. m > c => k \div m \in Nat
    BY <1>1, <2>1, NaturalNumbers
  <2>3. QED
    BY <2>2 DEF k
<1>4. Restricted(p) = IF m > c THEN (a * c) \div m ELSE a
  BY DEF Restricted, a, c, m
<1>5. QED
  BY <1>1, <1>3, <1>4

\* Where an operation leads, and that it takes nobody into an iteration beyond the last.
LEMMA AfterWhere ==
  ASSUME TypeOK, CountedInv, NEW p \in Rank, pc[p] \in Waits,
         Operation[pc[p]] \in {"norm", "assemble", "forces"}
  PROVE  /\ After(p) \in Places
         /\ After(p) \in Inside => nite[p] < NsMax
<1>1. pc[p] \in {"norm", "firstStiffness", "stiffness", "residual", "trialForces", "lastForces", "external"}
  BY AllPlaces DEF Operation
<1>2. QED
  BY <1>1, AllPlaces DEF After, CountedInv, Inside

\* A step of one process that leaves the common data alone.
LEMMA OneTyped ==
  ASSUME TypeOK, CountedInv, NEW p \in Rank, NEW l \in Places,
         config' = config, inUse' = inUse, err' = err, RT' = RT,
         forcesAt' = forcesAt, loadAt' = loadAt,
         pc' = [pc EXCEPT ![p] = l], nite' = nite, l \in Inside => nite[p] < NsMax,
         X' \in [Rank -> Nat], dX' \in [Rank -> Nat], ddX' \in [Rank -> Nat],
         ddMax' \in [Rank -> Nat], base' \in [Rank -> Nat],
         ls' \in [Rank -> [eta : Nat, trials : 0..LsMax]], R' \in [Rank -> {0, 1}],
         status' \in [Rank -> {"unknown", "converged", "divergedTol", "divergedIts"}]
  PROVE  TypeOK' /\ CountedInv'
<1>1. pc' \in [Rank -> Places]
  BY DEF TypeOK
<1>2. TypeOK'
  BY <1>1 DEF TypeOK
<1>3. CountedInv'
  BY DEF TypeOK, CountedInv
<1>4. QED
  BY <1>2, <1>3

\* The decision of checkConvergence: only with iterations left does it go on.
LEMMA DecisionTyped ==
  ASSUME TypeOK, CountedInv, NEW p \in Rank, Finish(p) \/ Continue(p)
  PROVE  TypeOK' /\ CountedInv'
<1>1. CASE Finish(p)
  <2>1. Verdict(p) \in {"unknown", "converged", "divergedTol", "divergedIts"}
    BY DEF Verdict
  <2>2. "end" \in Places /\ "end" \notin Inside
    BY AllPlaces DEF Inside
  <2>3. status' \in [Rank -> {"unknown", "converged", "divergedTol", "divergedIts"}]
    BY <1>1, <2>1 DEF Finish, TypeOK
  <2>4. pc' = [pc EXCEPT ![p] = "end"]
    BY <1>1 DEF Finish, Goto
  <2>5. QED
    BY <1>1, <2>2, <2>3, <2>4, OneTyped DEF Finish, TypeOK, iterate, loads
<1>2. CASE Continue(p)
  <2>1. nite[p] < NsMax
    <3>1. ~(nite[p] >= NsMax)
      BY <1>2 DEF Continue, Verdict
    <3>2. QED
      BY <3>1, NumberAssumption DEF TypeOK
  <2> DEFINE l == IF UpdatesStiffness(p) THEN "stiffness"
                  ELSE IF NoIncrement(p) THEN "equilibrate" ELSE "solve"
  <2>2. l \in Places
    BY AllPlaces
  <2>3. pc' = [pc EXCEPT ![p] = l]
    BY <1>2 DEF Continue, Goto
  <2> HIDE DEF l
  <2>4. QED
    BY <1>2, <2>1, <2>2, <2>3, OneTyped DEF Continue, TypeOK, iterate, loads
<1>3. QED
  BY <1>1, <1>2

\* A step length keeps totals natural numbers.
LEMMA TriedNat ==
  ASSUME TypeOK, NEW p \in Rank, NEW from \in Nat, NEW eta \in Nat, TryStep(p, from, eta)
  PROVE  X' \in [Rank -> Nat] /\ X'[p] = from + eta * ddX[p]
<1> DEFINE d == eta * ddX[p]
<1>1. d \in Nat
  BY NaturalNumbers DEF TypeOK
<1>2. X' = [X EXCEPT ![p] = from + d]
  BY DEF TryStep
<1> HIDE DEF d
<1>3. from + d \in Nat
  BY <1>1
<1>4. X' \in [Rank -> Nat] /\ X'[p] = from + d
  BY <1>2, <1>3 DEF TypeOK
<1>5. QED
  BY <1>4 DEF d

\* The line search stays inside the iteration.
LEMMA SearchTyped ==
  ASSUME TypeOK, CountedInv, NEW p \in Rank,
         TakeWhole(p) \/ StartSearch(p) \/ AcceptStep(p) \/ TryNext(p) \/ GiveUp(p)
  PROVE  TypeOK' /\ CountedInv'
<1>1. pc[p] \in {"lineSearch", "trial"} /\ nite[p] < NsMax
  BY DEF TakeWhole, StartSearch, AcceptStep, TryNext, GiveUp, CountedInv, Inside
<1>2. X[p] \in Nat /\ base[p] \in Nat /\ ddX[p] \in Nat /\ ddMax[p] \in Nat /\ ls[p].eta \in Nat /\ ls[p].trials \in 0..LsMax
  BY DEF TypeOK
<1>3. {"lastForces", "trialForces", "update"} \subseteq Places
  BY AllPlaces
<1>4. ASSUME NEW l \in Places, pc' = [pc EXCEPT ![p] = l],
             config' = config, inUse' = inUse, err' = err, RT' = RT, R' = R, nite' = nite,
             forcesAt' = forcesAt, loadAt' = loadAt,
             dX' = dX, status' = status,
             X' \in [Rank -> Nat], ddX' \in [Rank -> Nat], ddMax' \in [Rank -> Nat], base' \in [Rank -> Nat],
             ls' \in [Rank -> [eta : Nat, trials : 0..LsMax]]
      PROVE  TypeOK' /\ CountedInv'
  <2>1. dX' \in [Rank -> Nat] /\ R' \in [Rank -> {0, 1}]
        /\ status' \in [Rank -> {"unknown", "converged", "divergedTol", "divergedIts"}]
    BY <1>4 DEF TypeOK
  <2>2. QED
    BY <1>1, <1>4, <2>1, OneTyped
<1>5. CASE TakeWhole(p)
  <2>1. X' \in [Rank -> Nat] /\ base' \in [Rank -> Nat]
    BY <1>2, <1>5, TriedNat DEF TakeWhole, TypeOK
  <2>2. pc' = [pc EXCEPT ![p] = "lastForces"]
    BY <1>5 DEF TakeWhole, Goto
  <2>3. QED
    BY <1>3, <1>4, <1>5, <2>1, <2>2 DEF TakeWhole, TypeOK, loads
<1>6. CASE StartSearch(p)
  <2>1. X' \in [Rank -> Nat] /\ base' \in [Rank -> Nat]
    BY <1>2, <1>6, TriedNat DEF StartSearch, TypeOK
  <2>2. pc' = [pc EXCEPT ![p] = "trialForces"]
    BY <1>6 DEF StartSearch, Goto
  <2>3. ls' \in [Rank -> [eta : Nat, trials : 0..LsMax]]
    BY <1>6, NumberAssumption DEF StartSearch, TypeOK
  <2>4. QED
    BY <1>3, <1>4, <1>6, <2>1, <2>2, <2>3 DEF StartSearch, TypeOK, loads
<1>7. CASE AcceptStep(p)
  <2>1. ddX[p] * ls[p].eta \in Nat /\ ddMax[p] * ls[p].eta \in Nat
    BY <1>2, NaturalNumbers
  <2>2. ddX' \in [Rank -> Nat] /\ ddMax' \in [Rank -> Nat]
    BY <1>7, <2>1 DEF AcceptStep, TypeOK
  <2>3. pc' = [pc EXCEPT ![p] = "update"]
    BY <1>7 DEF AcceptStep, Goto
  <2>4. QED
    BY <1>3, <1>4, <1>7, <2>2, <2>3 DEF AcceptStep, TypeOK, loads
<1>8. CASE TryNext(p)
  <2>1. PICK eta \in Etas : /\ ls' = [ls EXCEPT ![p] = [eta |-> eta, trials |-> ls[p].trials + 1]]
                            /\ TryStep(p, base[p], eta)
    BY <1>8 DEF TryNext
  <2>2. eta \in Nat /\ ls[p].trials + 1 \in 0..LsMax
    BY <1>2, <1>8, NumberAssumption DEF TryNext
  <2>3. X' \in [Rank -> Nat]
    BY <1>2, <2>1, <2>2, TriedNat
  <2>4. pc' = [pc EXCEPT ![p] = "trialForces"]
    BY <1>8 DEF TryNext, Goto
  <2>5. ls' \in [Rank -> [eta : Nat, trials : 0..LsMax]]
    BY <2>1, <2>2 DEF TypeOK
  <2>6. QED
    BY <1>3, <1>4, <1>8, <2>3, <2>4, <2>5 DEF TryNext, TypeOK, loads
<1>9. CASE GiveUp(p)
  <2>1. X' \in [Rank -> Nat]
    BY <1>2, <1>9, TriedNat DEF GiveUp
  <2>2. pc' = [pc EXCEPT ![p] = "lastForces"]
    BY <1>9 DEF GiveUp, Goto
  <2>3. QED
    BY <1>3, <1>4, <1>9, <2>1, <2>2 DEF GiveUp, TypeOK, loads
<1>10. QED
  BY <1>5, <1>6, <1>7, <1>8, <1>9

\* No load increment, or the update of the solution, which counts the iteration.
LEMMA UpdateTyped ==
  ASSUME TypeOK, CountedInv, NEW p \in Rank, Equilibrate(p) \/ Update(p)
  PROVE  TypeOK' /\ CountedInv'
<1>1. nite[p] < NsMax
  BY DEF Equilibrate, Update, CountedInv, Inside
<1>2. CASE Equilibrate(p)
  <2>1. ddX' \in [Rank -> Nat] /\ ddMax' \in [Rank -> Nat] /\ R' \in [Rank -> {0, 1}]
    BY <1>2 DEF Equilibrate, TypeOK
  <2>2. pc' = [pc EXCEPT ![p] = "update"] /\ "update" \in Places
    BY <1>2, AllPlaces DEF Equilibrate, Goto
  <2>3. QED
    BY <1>1, <1>2, <2>1, <2>2, OneTyped DEF Equilibrate, TypeOK
<1>3. CASE Update(p)
  <2>1. X[p] + Restricted(p) \in Nat /\ dX[p] + Restricted(p) \in Nat
    BY RestrictedNat DEF TypeOK
  <2>2. X' \in [Rank -> Nat] /\ dX' \in [Rank -> Nat]
    BY <1>3, <2>1 DEF Update, TypeOK
  <2>3. nite[p] + 1 \in 0..NsMax
    BY <1>1, NumberAssumption DEF TypeOK
  <2>4. nite' \in [Rank -> 0..NsMax] /\ \A q \in Rank : q # p => nite'[q] = nite[q]
    BY <1>3, <2>3 DEF Update, TypeOK
  <2>5. /\ pc' \in [Rank -> Places] /\ pc'[p] \notin Inside
        /\ \A q \in Rank : q # p => pc'[q] = pc[q]
    BY <1>3, AllPlaces DEF Update, Goto, TypeOK, Inside
  <2>6. TypeOK'
    BY <1>3, <2>2, <2>4, <2>5 DEF Update, TypeOK, loads
  <2>7. CountedInv'
    BY <2>4, <2>5 DEF CountedInv
  <2>8. QED
    BY <2>6, <2>7
<1>4. QED
  BY <1>2, <1>3

\* A collective operation the processes go through.
LEMMA PassTyped ==
  ASSUME TypeOK, CountedInv, LoadNorm \/ AssembleStiffness \/ AssembleForces
  PROVE  TypeOK' /\ CountedInv'
<1>1. \A p \in Rank : pc[p] \in Waits /\ Operation[pc[p]] \in {"norm", "assemble", "forces"}
  BY DEF LoadNorm, AssembleStiffness, AssembleForces, Meet
<1>2. pc' = [p \in Rank |-> After(p)] /\ nite' = nite
  BY DEF LoadNorm, AssembleStiffness, AssembleForces, Meet
<1>3. pc' \in [Rank -> Places] /\ CountedInv'
  BY <1>1, <1>2, AfterWhere DEF CountedInv
<1>4. /\ R' \in [Rank -> {0, 1}] /\ RT' \in [Rank -> {0, 1}]
      /\ forcesAt' \in [Rank -> Nat] /\ loadAt' \in [Rank -> Nat]
  <2>1. CASE LoadNorm \/ AssembleStiffness
    BY <2>1 DEF LoadNorm, AssembleStiffness, loads, TypeOK
  <2>2. CASE AssembleForces
    <3>1. R' \in [Rank -> {0, 1}] /\ RT' \in [Rank -> {0, 1}]
      BY <2>2 DEF AssembleForces, TypeOK
    <3>2. forcesAt' \in [Rank -> Nat]
      BY <2>2 DEF AssembleForces, TypeOK
    <3>3. loadAt' \in [Rank -> Nat]
      BY <2>2 DEF AssembleForces, TypeOK
    <3>4. QED
      BY <3>1, <3>2, <3>3
  <2>3. QED
    BY <2>1, <2>2
<1>5. /\ config' = config /\ inUse' = inUse /\ err' = err /\ X' = X /\ dX' = dX /\ ddX' = ddX
      /\ ddMax' = ddMax /\ base' = base /\ ls' = ls /\ status' = status
  BY DEF LoadNorm, AssembleStiffness, AssembleForces, iterate
<1>6. TypeOK'
  BY <1>2, <1>3, <1>4, <1>5 DEF TypeOK
<1>7. QED
  BY <1>3, <1>6

\* The operations that bring something back: the errors, and the increment.
LEMMA ResultTyped ==
  ASSUME TypeOK, CountedInv, AccumulateErrors \/ Solve
  PROVE  TypeOK' /\ CountedInv'
<1>1. CASE AccumulateErrors
  <2>1. err' \in [Group -> AllClasses] /\ pc' = [p \in Rank |-> "decide"]
    BY <1>1, ClassAssumption DEF AccumulateErrors, Meet
  <2>2. pc' \in [Rank -> Places] /\ CountedInv'
    BY <2>1, AllPlaces DEF CountedInv, Inside
  <2>3. QED
    BY <1>1, <2>1, <2>2 DEF AccumulateErrors, TypeOK, iterate, loads
<1>2. CASE Solve
  <2>1. PICK v \in Increments, m \in [Rank -> Increments] :
              /\ ddX' = [p \in Rank |-> v]
              /\ ddMax' = [p \in Rank |-> IF m[p] > v THEN m[p] ELSE v]
    BY <1>2 DEF Solve
  <2>2. ddX' \in [Rank -> Nat] /\ ddMax' \in [Rank -> Nat]
    BY <2>1, NumberAssumption
  <2>3. \A p \in Rank : pc[p] = "solve"
    BY <1>2, AllPlaces DEF Solve, Meet, Operation
  <2>4. pc' \in [Rank -> Places] /\ nite' = nite
    BY <1>2, AllPlaces DEF Solve, Meet
  <2>5. CountedInv'
    BY <2>3, <2>4 DEF CountedInv, Inside
  <2>6. QED
    BY <1>2, <2>2, <2>4, <2>5 DEF Solve, TypeOK, loads
<1>3. QED
  BY <1>1, <1>2

\* Types and the count of iterations, together.
LEMMA TypedRun == Spec => [](TypeOK /\ CountedInv)
<1>1. Init => TypeOK /\ CountedInv
  <2> SUFFICES ASSUME Init
               PROVE  TypeOK /\ CountedInv
    OBVIOUS
  <2>1. config \in Config /\ err \in [Group -> AllClasses] /\ inUse \in [Rank -> SUBSET Group]
    BY ConfigAssumption DEF Init, AllClasses
  <2>2. pc \in [Rank -> Places] /\ nite \in [Rank -> 0..NsMax] /\ CountedInv
    BY AllPlaces, NumberAssumption DEF Init, CountedInv, Inside
  <2>3. ls \in [Rank -> [eta : Nat, trials : 0..LsMax]]
    BY NumberAssumption DEF Init
  <2>4. QED
    BY <2>1, <2>2, <2>3 DEF Init, TypeOK
<1>2. TypeOK /\ CountedInv /\ [Next]_vars => TypeOK' /\ CountedInv'
  <2> SUFFICES ASSUME TypeOK, CountedInv, [Next]_vars
               PROVE  TypeOK' /\ CountedInv'
    OBVIOUS
  <2>1. CASE Together
    BY <2>1, PassTyped, ResultTyped DEF Together
  <2>2. CASE \E p \in Rank : Alone(p)
    BY <2>2, DecisionTyped, SearchTyped, UpdateTyped DEF Alone
  <2>3. CASE UNCHANGED vars
    BY <2>3 DEF vars, iterate, loads, TypeOK, CountedInv
  <2>4. QED
    BY <2>1, <2>2, <2>3 DEF Next
<1>3. QED
  BY <1>1, <1>2, PTL DEF Spec

\* NRSolver::solve: every variable keeps its type; in particular no process counts
\* more than nsmax iterations, whatever parameters and groups it works with.
THEOREM NRTypeCorrect == Spec => []TypeOK
<1>1. QED
  BY TypedRun, PTL
-------------------------------------------------------------------------------
(* The line search *)

\* The parts of the search, from its start to the update of the solution: trials
\* evaluate the step length they record, the last forces the whole increment, and an
\* increment of nothing belongs to the first iteration.
SearchInv ==
  /\ \A p \in Rank : pc[p] = "equilibrate" => nite[p] = 0
  /\ \A p \in Rank : pc[p] \in {"trialForces", "trial"} => X[p] = base[p] + ls[p].eta * ddX[p]
  /\ \A p \in Rank : pc[p] = "lastForces" => X[p] = base[p] + ddX[p]
  /\ SearchConsistent

\* What SearchInv says of one process.
SearchAt(p) ==
  /\ pc[p] = "equilibrate" => nite[p] = 0
  /\ pc[p] \in {"trialForces", "trial"} => X[p] = base[p] + ls[p].eta * ddX[p]
  /\ pc[p] = "lastForces" => X[p] = base[p] + ddX[p]
  /\ pc[p] = "update" /\ config.lineSearch /\ nite[p] > 0 => X[p] = base[p] + ddX[p]

\* SearchInv is about each process alone.
LEMMA SearchOfEach == SearchInv <=> \A p \in Rank : SearchAt(p)
BY DEF SearchInv, SearchAt, SearchConsistent

\* The same in the next state.
LEMMA SearchOfEachNext == SearchInv' <=> \A p \in Rank : SearchAt(p)'
BY DEF SearchInv, SearchAt, SearchConsistent

\* Only the process that takes the step has something to show.
LEMMA OneSearches ==
  ASSUME SearchInv, NEW p \in Rank, config' = config,
         \A q \in Rank : q # p => /\ pc'[q] = pc[q] /\ nite'[q] = nite[q] /\ X'[q] = X[q]
                                  /\ base'[q] = base[q] /\ ls'[q] = ls[q] /\ ddX'[q] = ddX[q],
         SearchAt(p)'
  PROVE  SearchInv'
<1>1. \A q \in Rank : q # p => SearchAt(q)'
  BY SearchOfEach DEF SearchAt
<1>2. QED
  BY <1>1, SearchOfEachNext

\* The search itself.
LEMMA SearchStep ==
  ASSUME TypeOK, SearchInv, NEW p \in Rank,
         TakeWhole(p) \/ StartSearch(p) \/ AcceptStep(p) \/ TryNext(p) \/ GiveUp(p)
  PROVE  SearchInv'
<1>1. /\ X[p] \in Nat /\ base[p] \in Nat /\ ddX[p] \in Nat /\ ls[p].eta \in Nat
      /\ config' = config /\ nite' = nite
  BY DEF TypeOK, TakeWhole, StartSearch, AcceptStep, TryNext, GiveUp
<1>2. ASSUME NEW from \in Nat, NEW eta \in Nat, TryStep(p, from, eta)
      PROVE  X'[p] = from + eta * ddX[p] /\ \A q \in Rank : q # p => X'[q] = X[q]
  BY <1>2, TriedNat DEF TryStep, TypeOK
<1>3. 1 * ddX[p] = ddX[p]
  BY <1>1
<1>4. CASE TakeWhole(p)
  <2>1. X'[p] = X[p] + ddX[p] /\ \A q \in Rank : q # p => X'[q] = X[q]
    BY <1>1, <1>2, <1>3, <1>4 DEF TakeWhole
  <2>2. /\ pc'[p] = "lastForces" /\ base'[p] = X[p] /\ ddX' = ddX /\ ls' = ls
        /\ \A q \in Rank : q # p => pc'[q] = pc[q] /\ base'[q] = base[q]
    BY <1>4 DEF TakeWhole, Goto, TypeOK
  <2>3. SearchAt(p)'
    BY <2>1, <2>2 DEF SearchAt
  <2>4. QED
    BY <1>1, <2>1, <2>2, <2>3, OneSearches
<1>5. CASE StartSearch(p)
  <2>1. X'[p] = X[p] + ddX[p] /\ \A q \in Rank : q # p => X'[q] = X[q]
    BY <1>1, <1>2, <1>3, <1>5 DEF StartSearch
  <2>2. /\ pc'[p] = "trialForces" /\ base'[p] = X[p] /\ ddX' = ddX /\ ls'[p].eta = 1
        /\ \A q \in Rank : q # p => pc'[q] = pc[q] /\ base'[q] = base[q] /\ ls'[q] = ls[q]
    BY <1>5 DEF StartSearch, Goto, TypeOK
  <2>3. SearchAt(p)'
    BY <1>3, <2>1, <2>2 DEF SearchAt
  <2>4. QED
    BY <1>1, <2>1, <2>2, <2>3, OneSearches
<1>6. CASE AcceptStep(p)
  <2>1. /\ pc'[p] = "update" /\ X' = X /\ base' = base /\ ls' = ls /\ ddX'[p] = ddX[p] * ls[p].eta
        /\ \A q \in Rank : q # p => pc'[q] = pc[q] /\ ddX'[q] = ddX[q]
    BY <1>6 DEF AcceptStep, Goto, TypeOK
  <2>2. X[p] = base[p] + ls[p].eta * ddX[p]
    BY <1>6 DEF AcceptStep, SearchInv
  <2>3. ls[p].eta * ddX[p] = ddX[p] * ls[p].eta
    BY <1>1
  <2>4. SearchAt(p)'
    BY <2>1, <2>2, <2>3 DEF SearchAt
  <2>5. QED
    BY <1>1, <2>1, <2>4, OneSearches
<1>7. CASE TryNext(p)
  <2>1. PICK eta \in Etas : /\ ls' = [ls EXCEPT ![p] = [eta |-> eta, trials |-> ls[p].trials + 1]]
                            /\ TryStep(p, base[p], eta)
    BY <1>7 DEF TryNext
  <2>2. X'[p] = base[p] + eta * ddX[p] /\ \A q \in Rank : q # p => X'[q] = X[q]
    BY <1>1, <1>2, <2>1, NumberAssumption
  <2>3. /\ pc'[p] = "trialForces" /\ base' = base /\ ddX' = ddX /\ ls'[p].eta = eta
        /\ \A q \in Rank : q # p => pc'[q] = pc[q] /\ ls'[q] = ls[q]
    BY <1>7, <2>1 DEF TryNext, Goto, TypeOK
  <2>4. SearchAt(p)'
    BY <2>2, <2>3 DEF SearchAt
  <2>5. QED
    BY <1>1, <2>2, <2>3, <2>4, OneSearches
<1>8. CASE GiveUp(p)
  <2>1. X'[p] = base[p] + ddX[p] /\ \A q \in Rank : q # p => X'[q] = X[q]
    BY <1>1, <1>2, <1>3, <1>8 DEF GiveUp
  <2>2. /\ pc'[p] = "lastForces" /\ base' = base /\ ddX' = ddX /\ ls' = ls
        /\ \A q \in Rank : q # p => pc'[q] = pc[q]
    BY <1>8 DEF GiveUp, Goto, TypeOK
  <2>3. SearchAt(p)'
    BY <2>1, <2>2 DEF SearchAt
  <2>4. QED
    BY <1>1, <2>1, <2>2, <2>3, OneSearches
<1>9. QED
  BY <1>4, <1>5, <1>6, <1>7, <1>8

\* The other steps of one process.
LEMMA OutsideSearchStep ==
  ASSUME TypeOK, SearchInv, NEW p \in Rank, Finish(p) \/ Continue(p) \/ Equilibrate(p) \/ Update(p)
  PROVE  SearchInv'
<1>1. CASE Finish(p) \/ Continue(p)
  <2>1. /\ config' = config /\ nite' = nite /\ X' = X /\ base' = base /\ ls' = ls /\ ddX' = ddX
        /\ \A q \in Rank : q # p => pc'[q] = pc[q]
    BY <1>1 DEF Finish, Continue, Goto, TypeOK, iterate
  <2>2. pc'[p] \in {"end", "stiffness", "equilibrate", "solve"}
    BY <1>1 DEF Finish, Continue, Goto, TypeOK
  <2>3. pc'[p] = "equilibrate" => nite[p] = 0
    BY <1>1 DEF Finish, Continue, Goto, TypeOK, NoIncrement
  <2>4. SearchAt(p)'
    BY <2>1, <2>2, <2>3 DEF SearchAt
  <2>5. QED
    BY <2>1, <2>4, OneSearches
<1>2. CASE Equilibrate(p)
  <2>1. /\ config' = config /\ nite' = nite /\ X' = X /\ base' = base /\ ls' = ls
        /\ \A q \in Rank : q # p => pc'[q] = pc[q] /\ ddX'[q] = ddX[q]
        /\ pc'[p] = "update" /\ nite[p] = 0
    BY <1>2 DEF Equilibrate, Goto, TypeOK, SearchInv
  <2>2. SearchAt(p)'
    BY <2>1 DEF SearchAt
  <2>3. QED
    BY <2>1, <2>2, OneSearches
<1>3. CASE Update(p)
  <2>1. /\ config' = config /\ base' = base /\ ls' = ls /\ ddX' = ddX
        /\ \A q \in Rank : q # p => pc'[q] = pc[q] /\ nite'[q] = nite[q] /\ X'[q] = X[q]
        /\ pc'[p] \in {"external", "residual"}
    BY <1>3 DEF Update, Goto, TypeOK
  <2>2. SearchAt(p)'
    BY <2>1 DEF SearchAt
  <2>3. QED
    BY <2>1, <2>2, OneSearches
<1>4. QED
  BY <1>1, <1>2, <1>3

\* The collective operations: trial forces lead to the decision about the trial, the
\* last forces to the update; solving leads there only without a search.
LEMMA CollectiveSearchStep ==
  ASSUME TypeOK, SearchInv, Together
  PROVE  SearchInv'
<1>1. ASSUME NEW op \in {"norm", "assemble", "forces"}, Meet(op, [p \in Rank |-> After(p)]),
             UNCHANGED <<config, nite, iterate>>
      PROVE  SearchInv'
  <2>1. /\ \A p \in Rank : pc[p] \in {"norm", "firstStiffness", "stiffness", "residual",
                                      "trialForces", "lastForces", "external"}
        /\ \A p \in Rank : pc'[p] = After(p)
    BY <1>1, AllPlaces DEF Meet, Operation
  <2>2. config' = config /\ nite' = nite /\ X' = X /\ base' = base /\ ls' = ls /\ ddX' = ddX
    BY <1>1 DEF iterate
  <2>3. ASSUME NEW p \in Rank
        PROVE  SearchAt(p)'
    <3>1. pc'[p] \in {"firstStiffness", "equilibrate", "solve", "errors", "trial", "update", "residual"}
      BY <2>1 DEF After
    <3>2. pc'[p] = "equilibrate" => nite[p] = 0
      BY <2>1 DEF After, NoIncrement
    <3>3. pc'[p] = "trial" => pc[p] = "trialForces"
      BY <2>1 DEF After
    <3>4. pc'[p] = "update" => pc[p] = "lastForces"
      BY <2>1 DEF After
    <3>5. QED
      BY <2>2, <3>1, <3>2, <3>3, <3>4 DEF SearchAt, SearchInv
  <2>4. QED
    BY <2>3, SearchOfEachNext
<1>2. CASE LoadNorm \/ AssembleStiffness \/ AssembleForces
  BY <1>1, <1>2 DEF LoadNorm, AssembleStiffness, AssembleForces
<1>3. CASE AccumulateErrors
  <2>1. \A p \in Rank : pc'[p] = "decide"
    BY <1>3 DEF AccumulateErrors, Meet
  <2>2. QED
    BY <2>1 DEF SearchInv, SearchConsistent
<1>4. CASE Solve
  <2>1. \A p \in Rank : pc'[p] = IF config.lineSearch /\ nite[p] > 0 THEN "lineSearch" ELSE "update"
    BY <1>4 DEF Solve, Meet
  <2>2. config' = config /\ nite' = nite
    BY <1>4 DEF Solve
  <2>3. QED
    BY <2>1, <2>2 DEF SearchInv, SearchConsistent
<1>5. QED
  BY <1>2, <1>3, <1>4 DEF Together

\* LineSearchNM::solve: however the search ends, by the whole increment, an accepted
\* trial or exhaustion, the total solution it leaves is where it started plus the
\* increment it returns; for all parameters and numbers of processes.
THEOREM SearchStaysConsistent == Spec => []SearchConsistent
<1>1. Init => SearchInv
  BY DEF Init, SearchInv, SearchConsistent
<1>2. TypeOK /\ SearchInv /\ [Next]_vars => SearchInv'
  <2> SUFFICES ASSUME TypeOK, SearchInv, [Next]_vars
               PROVE  SearchInv'
    OBVIOUS
  <2>1. CASE Together
    BY <2>1, CollectiveSearchStep
  <2>2. CASE \E p \in Rank : Alone(p)
    BY <2>2, SearchStep, OutsideSearchStep DEF Alone
  <2>3. CASE UNCHANGED vars
    BY <2>3 DEF vars, iterate, loads, SearchInv, SearchConsistent
  <2>4. QED
    BY <2>1, <2>2, <2>3 DEF Next
<1>3. SearchInv => SearchConsistent
  BY DEF SearchInv
<1>4. QED
  BY <1>1, <1>2, <1>3, NRTypeCorrect, PTL DEF Spec
-------------------------------------------------------------------------------
(* What is judged *)

\* From the residual on the forces are those of the current solution; a load that
\* depends on the solution is up to date from its assembly on, before the residual.
AssembledAt(p) ==
  /\ pc[p] \in {"errors", "decide", "end"} => forcesAt[p] = X[p]
  /\ config.solDep /\ pc[p] \in {"norm", "firstStiffness", "residual", "errors", "decide", "end"}
       => loadAt[p] = X[p]

AssembledInv == \A p \in Rank : AssembledAt(p)

\* The same in the next state.
LEMMA AssembledNext == AssembledInv' <=> \A p \in Rank : AssembledAt(p)'
BY DEF AssembledInv, AssembledAt

\* A step of one process leaves the others as they are; if it moves the solution, the
\* process goes where forces are assembled again.
LEMMA AloneAssembled ==
  ASSUME TypeOK, AssembledInv, NEW p \in Rank, Alone(p)
  PROVE  AssembledInv'
<1>1. config' = config /\ forcesAt' = forcesAt /\ loadAt' = loadAt
  BY DEF Alone, Finish, Continue, Equilibrate, Update, TakeWhole, StartSearch, AcceptStep,
         TryNext, GiveUp, loads
<1>2. PICK l \in {"end", "stiffness", "equilibrate", "solve", "update", "external", "residual",
                   "lastForces", "trialForces"} : pc' = [pc EXCEPT ![p] = l]
  BY DEF Alone, Finish, Continue, Equilibrate, Update, TakeWhole, StartSearch, AcceptStep,
         TryNext, GiveUp, Goto
<1>3. pc'[p] = l /\ \A q \in Rank : q # p => pc'[q] = pc[q]
  BY <1>2 DEF TypeOK
<1>4. \A q \in Rank : q # p => X'[q] = X[q]
  BY DEF Alone, Finish, Continue, Equilibrate, Update, TakeWhole, StartSearch, AcceptStep,
         TryNext, GiveUp, TryStep, iterate, TypeOK
<1>5. l = "end" => X' = X /\ pc[p] = "decide"
  BY <1>3 DEF Alone, Finish, Continue, Equilibrate, Update, TakeWhole, StartSearch, AcceptStep,
              TryNext, GiveUp, Goto, iterate, TypeOK
<1>6. l = "residual" => ~config.solDep
  BY <1>3 DEF Alone, Finish, Continue, Equilibrate, Update, TakeWhole, StartSearch, AcceptStep,
              TryNext, GiveUp, Goto, TypeOK
<1>7. AssembledAt(p)'
  BY <1>1, <1>3, <1>5, <1>6 DEF AssembledAt, AssembledInv
<1>8. \A q \in Rank : q # p => AssembledAt(q)'
  BY <1>1, <1>3, <1>4 DEF AssembledAt, AssembledInv
<1>9. QED
  BY <1>7, <1>8, AssembledNext

\* The collective operations: only the assembly of forces changes what is assembled.
LEMMA TogetherAssembled ==
  ASSUME TypeOK, AssembledInv, Together
  PROVE  AssembledInv'
<1>1. config' = config /\ X' = X
  BY DEF Together, LoadNorm, AssembleStiffness, AssembleForces, AccumulateErrors, Solve, iterate
<1>2. ASSUME NEW p \in Rank, LoadNorm \/ AssembleStiffness
      PROVE  AssembledAt(p)'
  <2>1. /\ pc[p] \in {"norm", "firstStiffness", "stiffness"} /\ pc'[p] = After(p)
        /\ loadAt' = loadAt
    BY <1>2, AllPlaces DEF LoadNorm, AssembleStiffness, Meet, Operation, loads
  <2>2. \/ pc[p] = "norm" /\ pc'[p] = "firstStiffness"
        \/ pc[p] = "firstStiffness" /\ pc'[p] = "residual"
        \/ pc'[p] \in {"equilibrate", "solve"}
    BY <2>1 DEF After
  <2>3. QED
    BY <1>1, <2>1, <2>2 DEF AssembledAt, AssembledInv
<1>3. ASSUME NEW p \in Rank, AssembleForces
      PROVE  AssembledAt(p)'
  <2>1. /\ pc[p] \in {"residual", "trialForces", "lastForces", "external"} /\ pc'[p] = After(p)
        /\ forcesAt'[p] = IF pc[p] = "external" THEN forcesAt[p] ELSE X[p]
        /\ loadAt'[p] = IF pc[p] = "external" THEN X[p] ELSE loadAt[p]
    BY <1>3, AllPlaces DEF AssembleForces, Meet, Operation
  <2>2. \/ pc[p] = "external" /\ pc'[p] = "residual"
        \/ pc[p] = "residual" /\ pc'[p] = "errors"
        \/ pc'[p] \in {"trial", "update"}
    BY <2>1 DEF After
  <2>3. QED
    BY <1>1, <2>1, <2>2 DEF AssembledAt, AssembledInv
<1>4. ASSUME NEW p \in Rank, AccumulateErrors
      PROVE  AssembledAt(p)'
  <2>1. pc[p] = "errors" /\ pc'[p] = "decide" /\ forcesAt' = forcesAt /\ loadAt' = loadAt
    BY <1>4, AllPlaces DEF AccumulateErrors, Meet, Operation, loads
  <2>2. QED
    BY <1>1, <2>1 DEF AssembledAt, AssembledInv
<1>5. ASSUME NEW p \in Rank, Solve
      PROVE  AssembledAt(p)'
  <2>1. pc'[p] \in {"lineSearch", "update"}
    BY <1>5 DEF Solve, Meet
  <2>2. QED
    BY <2>1 DEF AssembledAt
<1>6. QED
  BY <1>2, <1>3, <1>4, <1>5, AssembledNext DEF Together

\* NRSolver::solve: the verdict is about the solution the step ends with.  However a
\* line search has moved the total and whatever it has assembled, the residual that is
\* judged is of forces, and where it depends on the solution of a load, assembled for
\* the X that is left behind; for all parameters, residuals and numbers of processes.
THEOREM VerdictStaysOnLastIterate == Spec => []VerdictOnLastIterate
<1>1. Init => AssembledInv
  BY DEF Init, AssembledInv, AssembledAt
<1>2. TypeOK /\ AssembledInv /\ [Next]_vars => AssembledInv'
  <2> SUFFICES ASSUME TypeOK, AssembledInv, [Next]_vars
               PROVE  AssembledInv'
    OBVIOUS
  <2>1. CASE Together
    BY <2>1, TogetherAssembled
  <2>2. CASE \E p \in Rank : Alone(p)
    BY <2>2, AloneAssembled
  <2>3. CASE UNCHANGED vars
    BY <2>3 DEF vars, iterate, loads, AssembledInv, AssembledAt
  <2>4. QED
    BY <2>1, <2>2, <2>3 DEF Next
<1>3. AssembledInv => VerdictOnLastIterate
  BY DEF AssembledInv, AssembledAt, VerdictOnLastIterate
<1>4. QED
  BY <1>1, <1>2, <1>3, NRTypeCorrect, PTL DEF Spec
===============================================================================
