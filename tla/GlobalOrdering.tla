---------------------------- MODULE GlobalOrdering ----------------------------
(***************************************************************************)
(* Natural2GlobalOrdering and Natural2LocalOrdering: every process numbers *)
(* the equations of the dof managers it owns, starting behind those of the *)
(* lower ranks, and tells the other processes that share a dof manager its *)
(* numbers.  Afterwards the local numbering is set up without              *)
(* communication (ParallelContext::init runs both).                        *)
(*                                                                         *)
(* The mesh is partitioned by node cut: a dof manager that several         *)
(* partitions hold is shared, and its partition list names the others.     *)
(* Null dof managers carry no equation and are left out.  An equation is   *)
(* named by its dof manager (global number) and the place of its dof;      *)
(* dof managers are stored in the order of their global numbers.           *)
(*                                                                         *)
(* The messages use static buffers of known size, one message per pair,    *)
(* so a message is received as a whole.  MPI may copy a message when the   *)
(* send starts, or read the sender's buffer when the receiver gets to it.  *)
(* A process deletes its send buffers as soon as it has received from all, *)
(* without testing its sends, so whoever has not received from it by then  *)
(* may read the message or anything else.                                  *)
(***************************************************************************)
EXTENDS Integers, FiniteSets

CONSTANTS Rank,  \* MPI ranks
          Node,  \* global numbers of the dof managers
          Dofs   \* Dofs[n]: number of equations of dof manager n

ASSUME RankAssumption == Rank \subseteq Nat /\ IsFiniteSet(Rank) /\ Rank # {}
ASSUME NodeAssumption == Node \subseteq Nat /\ IsFiniteSet(Node)
ASSUME DofsAssumption == Dofs \in [Node -> Nat]

VARIABLES
  sharers,    \* sharers[n]: the partitions that hold dof manager n
  pc,         \* pc[p]: what p does next
  lneqs,      \* lneqs[p]: l_neqs, known to everybody after the gather
  locGlob,    \* locGlob[p]: locGlobMap, 0-based global numbers of p's equations
  posted,     \* posted[p]: the processes p has started a send to
  message,    \* message[p][q]: numbers packed by p for q
  freed,      \* the processes that have deleted their send buffers
  received,   \* received[p]: the processes p has received from
  n2l         \* n2l[p]: local numbers of p's equations, 0 if another rank owns them

vars == <<sharers, pc, lneqs, locGlob, posted, message, freed, received, n2l>>
-------------------------------------------------------------------------------
(* Equations and their owners *)

Eqs(n) == {n} \X (1..Dofs[n])
EqsOf(N) == UNION {Eqs(n) : n \in N}

Held(p) == {n \in Node : p \in sharers[n]}
Shared(p) == {n \in Held(p) : sharers[n] # {p}}

\* Mutant of Owned: the highest rank answers for the node on one side only.
OwnedLoose(p) == {n \in Held(p) : n \notin Shared(p) \/ \E q \in sharers[n] \ {p} : p <= q}

\* ParallelOrdering::isLocal: not shared, or shared with higher ranks only.
Owned(p) == {n \in Held(p) : \A q \in sharers[n] : p <= q}

\* The natural order of p's equations.
Before(d, e) == d[1] < e[1] \/ (d[1] = e[1] /\ d[2] < e[2])
Position(e, E) == Cardinality({d \in E : Before(d, e)})

\* Mutant of Offset: the own equations are counted too.
OffsetInclusive(p) == Cardinality(UNION {{q} \X (1..lneqs[q]) : q \in {r \in Rank : r <= p}})

\* The sum of the gathered counts of the lower ranks (of all ranks).
Offset(p) == Cardinality(UNION {{q} \X (1..lneqs[q]) : q \in {r \in Rank : r < p}})
GlobalNeqs == Cardinality(UNION {{q} \X (1..lneqs[q]) : q \in Rank})
-------------------------------------------------------------------------------
Init ==
  /\ sharers \in [Node -> (SUBSET Rank) \ {{}}]
  /\ pc = [p \in Rank |-> "count"]
  /\ lneqs = [p \in Rank |-> 0]
  /\ locGlob = [p \in Rank |-> [e \in EqsOf(Held(p)) |-> 0]]
  /\ posted = [p \in Rank |-> {}]
  /\ message = [p \in Rank |-> [q \in Rank |-> <<>>]]
  /\ freed = {}
  /\ received = [p \in Rank |-> {}]
  /\ n2l = [p \in Rank |-> [e \in EqsOf(Held(p)) |-> 0]]

Goto(p, l) == pc' = [pc EXCEPT ![p] = l]

\* p counts the equations it owns and enters MPI_Allgather.
Count(p) ==
  /\ pc[p] = "count"
  /\ lneqs' = [lneqs EXCEPT ![p] = Cardinality(EqsOf(Owned(p)))]
  /\ Goto(p, "number")
  /\ UNCHANGED <<sharers, locGlob, posted, message, freed, received, n2l>>

\* A shared dof manager is numbered by the lowest rank, any other by its holder.
NumberedBy(p) == {n \in Held(p) : n \in Shared(p) => n \in Owned(p)}

\* Once every count has arrived, p numbers its equations behind the lower ranks.
Number(p) ==
  /\ pc[p] = "number"
  /\ \A q \in Rank : pc[q] # "count"
  /\ LET E == EqsOf(NumberedBy(p))
     IN locGlob' = [locGlob EXCEPT ![p] =
                      [e \in DOMAIN @ |-> IF e \in E THEN Offset(p) + Position(e, E) ELSE @[e]]]
  /\ Goto(p, "send")
  /\ UNCHANGED <<sharers, lneqs, posted, message, freed, received, n2l>>

\* The dof managers whose numbers p sends to q.
SentNodes(p, q) == {n \in Shared(p) \cap Owned(p) : q \in sharers[n]}

\* Mutant of Receivers: no message is sent to a process that shares nothing.
SharingReceivers(p) == {q \in Rank \ {p} : SentNodes(p, q) # {}}
\* A message goes to every other process, even if it is empty.
Receivers(p) == Rank \ {p}

\* p packs the numbers for each other process and starts the sends and receives.
Send(p) ==
  /\ pc[p] = "send"
  /\ message' = [message EXCEPT ![p] =
                   [q \in Rank |-> [e \in EqsOf(SentNodes(p, q)) |-> locGlob[p][e]]]]
  /\ posted' = [posted EXCEPT ![p] = Receivers(p)]
  /\ Goto(p, "receive")
  /\ UNCHANGED <<sharers, lneqs, locGlob, freed, received, n2l>>

\* What is left of a deleted send buffer; no number the code assigns.
Garbage == -1

\* Mutants of Merge: the message replaces the map; numbers p had already are kept.
MergeWhole(old, new) == new
MergeKeepsOld(old, new) == [e \in DOMAIN old |-> old[e]]
\* The received numbers replace those of the same equations.
Merge(old, new) == [e \in DOMAIN old |-> IF e \in DOMAIN new THEN new[e] ELSE old[e]]

\* p tests its receive from q with success and unpacks the records.  If q has deleted
\* its buffers and MPI had not copied the data, anything may have been read.
Receive(p, q) ==
  /\ pc[p] = "receive" /\ q \in Rank \ ({p} \union received[p])
  /\ p \in posted[q]
  /\ \/ locGlob' = [locGlob EXCEPT ![p] = Merge(@, message[q][p])]
     \/ /\ q \in freed
        /\ locGlob' = [locGlob EXCEPT ![p] =
                         Merge(@, [e \in DOMAIN message[q][p] |-> Garbage])]
  /\ received' = [received EXCEPT ![p] = @ \union {q}]
  /\ UNCHANGED <<sharers, pc, lneqs, posted, message, freed, n2l>>

\* All data have come: p deletes its buffers and goes to the final barrier.
Delete(p) ==
  /\ pc[p] = "receive" /\ received[p] = Rank \ {p}
  /\ freed' = freed \union {p}
  /\ Goto(p, "barrier")
  /\ UNCHANGED <<sharers, lneqs, locGlob, posted, message, received, n2l>>

LeaveBarrier(p) ==
  /\ pc[p] = "barrier"
  /\ \A q \in Rank : pc[q] \in {"barrier", "local", "done"}
  /\ Goto(p, "local")
  /\ UNCHANGED <<sharers, lneqs, locGlob, posted, message, freed, received, n2l>>

\* Mutant of LocalNumbers: the local number is the place among all of p's equations.
LocalNumbersOfAll(p) ==
  [e \in EqsOf(Held(p)) |-> IF e \in EqsOf(Owned(p)) THEN Position(e, EqsOf(Held(p))) + 1 ELSE 0]
\* Natural2LocalOrdering::init: owned equations count up from 1.
LocalNumbers(p) ==
  [e \in EqsOf(Held(p)) |-> IF e \in EqsOf(Owned(p)) THEN Position(e, EqsOf(Owned(p))) + 1 ELSE 0]

InitLocal(p) ==
  /\ pc[p] = "local"
  /\ n2l' = [n2l EXCEPT ![p] = LocalNumbers(p)]
  /\ Goto(p, "done")
  /\ UNCHANGED <<sharers, lneqs, locGlob, posted, message, freed, received>>

Process(p) == \/ Count(p) \/ Number(p) \/ Send(p) \/ Delete(p) \/ LeaveBarrier(p) \/ InitLocal(p)
              \/ \E q \in Rank : Receive(p, q)

Next == \E p \in Rank : Process(p)

Spec == Init /\ [][Next]_vars

\* The processes run on their own and their waits are busy loops.
FairSpec == Spec /\ \A p \in Rank : WF_vars(Process(p))
-------------------------------------------------------------------------------
(* ParallelContext: the entries of a distributed vector that p adds up before *)
(* the sums of all processes are added by MPI_Allreduce.                      *)

\* Mutant of NormEqs: the n2l map is not consulted.
NormEqsNatural(p) == DOMAIN n2l[p]

\* localNorm and localDotProduct take the equations that have a local number.
NormEqs(p) == {e \in DOMAIN n2l[p] : n2l[p][e] > 0}

\* The solvers that keep a norm per group of dofs take the dof managers for which
\* ParallelContext::isLocal answers true; its parallel branch is compiled only
\* under __PARALLE_MODE, a name no build defines, so that is every dof manager.
GroupNormEqs(p) == EqsOf(Held(p))
-------------------------------------------------------------------------------
(* Properties *)

States == {"count", "number", "send", "receive", "barrier", "local", "done"}

\* Every variable has its type.
TypeOK ==
  /\ sharers \in [Node -> (SUBSET Rank) \ {{}}]
  /\ pc \in [Rank -> States]
  /\ lneqs \in [Rank -> Nat]
  /\ \A p \in Rank : locGlob[p] \in [EqsOf(Held(p)) -> Int] /\ n2l[p] \in [EqsOf(Held(p)) -> Nat]
  /\ posted \in [Rank -> SUBSET Rank] /\ received \in [Rank -> SUBSET Rank]
  /\ freed \in SUBSET Rank
  /\ \A p, q \in Rank : message[p][q] \in [DOMAIN message[p][q] -> Int]

\* The global numbering of p is complete.
Ordered(p) == pc[p] \in {"barrier", "local", "done"}

\* p's number of e was not read from a deleted send buffer.
Known(p, e) == locGlob[p][e] # Garbage
KnownEqs(p) == {e \in EqsOf(Held(p)) : Known(p, e)}

\* All processes that share a dof manager end up with the same global numbers for
\* its equations, though only one of them assigned the numbers, unless one of the
\* two was read from a deleted send buffer.
SharersAgree ==
  \A p, q \in Rank : Ordered(p) /\ Ordered(q) =>
    \A e \in KnownEqs(p) \cap KnownEqs(q) : locGlob[p][e] = locGlob[q][e]

\* No two equations get the same global number, on whatever processes they live,
\* numbers read from a deleted send buffer excepted.
NumbersUnique ==
  \A p, q \in Rank : Ordered(p) /\ Ordered(q) =>
    \A d \in KnownEqs(p), e \in KnownEqs(q) : d # e => locGlob[p][d] # locGlob[q][e]

\* Once all are through, the numbers in use are exactly 0 .. g_neqs-1, the rows
\* the solver allocates for the global system, whatever became of the copies that
\* were read too late.
NumbersDense ==
  (\A p \in Rank : Ordered(p)) =>
    UNION {{locGlob[p][e] : e \in KnownEqs(p)} : p \in Rank} = 0..(GlobalNeqs - 1)

\* The two orderings fit: p's owned equations are one block of the global system,
\* in the order of their local numbers, and exactly they have a local number.
BlocksFit ==
  \A p \in Rank : pc[p] = "done" =>
    \A e \in KnownEqs(p) :
      /\ n2l[p][e] > 0 <=> locGlob[p][e] \in Offset(p)..(Offset(p) + lneqs[p] - 1)
      /\ n2l[p][e] > 0 => locGlob[p][e] = Offset(p) + n2l[p][e] - 1

CountsOnce(counted) ==
  (\A p \in Rank : pc[p] = "done") =>
    \A e \in EqsOf(Node) : Cardinality({p \in Rank : e \in counted[p]}) = 1

\* A norm or a dot product of the whole system counts every equation exactly once,
\* also those that several processes hold.
NormCountsOnce == CountsOnce([p \in Rank |-> NormEqs(p)])

\* parallelordering.h says that isLocal is true of the dof managers maintained by
\* this process; norms per group of dofs would then count every equation once, too.
GroupNormCountsOnce == CountsOnce([p \in Rank |-> GroupNormEqs(p)])

\* combuff.h says of a completed send that the sender is now free to update the
\* buffer.  A process deletes its send buffers only when the data are out of them.
SendBufferKept ==
  \A p \in freed : \A q \in posted[p] : p \in received[q]

\* The numbering ends on every process: nobody waits for a message that is not sent.
OrderingEnds == \A p \in Rank : <>(pc[p] = "done")
===============================================================================
