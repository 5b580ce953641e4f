------------------------------- MODULE FETISolver -------------------------------
(***************************************************************************)
(* FETISolver::solve: domain decomposition with Lagrange multipliers.      *)
(* Process 0, the master, iterates on the multipliers; the others, its     *)
(* slaves, solve their partitions.  Both run the same function, in         *)
(* branches of their own that have to fit together: the master gathers a   *)
(* message of every slave or gives every slave one, and a barrier ends     *)
(* every such exchange.  Barriers have no names, the tags of the set-up    *)
(* are those of later messages again, and some messages are received from  *)
(* any source.                                                             *)
(*                                                                         *)
(* The branches are written down as lists of operations.  A message that   *)
(* was sent and not received yet is a reference to the buffer it was       *)
(* packed in, so a buffer packed too early spoils it.                      *)
(*                                                                         *)
(* A vector is known by how it depends on unknowns: the displacement of    *)
(* dof d of dof manager n on process q is <<q, n, d>>, mode r of q there   *)
(* <<q, n, d, r>>, the load on that mode <<q, r>>; multipliers go by their *)
(* code numbers.                                                           *)
(***************************************************************************)
EXTENDS Integers, SequencesExt

CONSTANTS
  Proc,      \* the ranks, from 0
  Node,      \* global numbers of the boundary dof managers
  Meshes,    \* the partitioned problems
  MaxIter,   \* ni
  MaxSolves  \* how many times the solver is called

\* parts: who shares a dof manager; dofs: how many of its dofs have equations; modes: the
\* rigid body modes of a partition; energy: energyNorm_comput_flag; prescribed: how many
\* dofs without equation each dof manager of the master's domain has.
Mesh == [parts : [Node -> SUBSET Proc], dofs : [Node -> Nat], modes : [Proc -> 0..6],
         energy : BOOLEAN, prescribed : Seq(Nat)]

ASSUME ProcAssumption == Proc \subseteq Nat /\ IsFiniteSet(Proc) /\ 0 \in Proc
ASSUME MeshAssumption ==
  /\ Node \subseteq Nat /\ IsFiniteSet(Node) /\ Meshes \subseteq Mesh
  /\ \A m \in Meshes : \A n \in Node : Cardinality(m.parts[n]) >= 2
ASSUME BoundAssumption == MaxIter \in Nat /\ MaxSolves \in Nat

VARIABLES
  mesh,
  at,        \* at[p]: the operation p is at, and in which solve and iteration
  up, down,  \* up[q], down[q]: messages between q and the master on their way, oldest first
  buf,       \* buf[q]: the buffers the messages are packed in
  cast,      \* cast[q]: broadcasts that q has not taken
  got,       \* whose messages the master has taken in the exchange going on
  count,     \* count[q]: numberOfPartitionBoundaryDofMans
  recs,      \* boundaryDofManList
  cmap,      \* cmap[q]: the communication map of q at the master, places in recs
  nsem,      \* nsem[q]: the number of rigid body modes of q
  l, loads,  \* matrix L, loads on the modes (q)
  g, pv,     \* gradient and K.d (p): terms of a displacement in an equation
  dd,        \* dd[q]: multipliers that load the boundary dofs of q
  gammas     \* gammas[q]: which coefficients q takes for its modes

Slave == Proc \ {0}
wires == <<up, down, buf, cast>>
lists == <<count, recs, cmap>>
results == <<nsem, l, loads, g, pv, dd, gammas>>
vars == <<mesh, at, wires, got, lists, results>>
-------------------------------------------------------------------------------
(* What each branch does, in order *)

Do(op, what) == [do |-> op, what |-> what]
\* Barriers have no names; here each has that of the exchange it ends.
Barrier(what) == Do("barrier", what)

\* Mutant of SlaveSetUp: the records follow at once, before the master has all the numbers.
SlaveSetUpEarly ==
  <<Do("send", "boundary"), Do("send", "records"), Barrier("boundary"), Barrier("records"),
    Barrier("maps"), Barrier("start"), Do("send", "modes"), Barrier("modes"), Do("send", "RBM"),
    Barrier("RBM"), Do("send", "QQ"), Barrier("QQ"), Do("receive", "Solution"), Barrier("Solution"),
    Do("send", "Residual"), Barrier("Residual")>>
\* Mutant of SlaveSetUp: one barrier after the records, as after the other messages.
SlaveSetUpShort ==
  <<Do("send", "boundary"), Barrier("boundary"), Do("send", "records"), Barrier("records"),
    Barrier("start"), Do("send", "modes"), Barrier("modes"), Do("send", "RBM"), Barrier("RBM"),
    Do("send", "QQ"), Barrier("QQ"), Do("receive", "Solution"), Barrier("Solution"),
    Do("send", "Residual"), Barrier("Residual")>>
SlaveSetUp ==
  <<Do("send", "boundary"), Barrier("boundary"), Do("send", "records"), Barrier("records"),
    Barrier("maps"), Barrier("start"), Do("send", "modes"), Barrier("modes"), Do("send", "RBM"),
    Barrier("RBM"), Do("send", "QQ"), Barrier("QQ"), Do("receive", "Solution"), Barrier("Solution"),
    Do("send", "Residual"), Barrier("Residual")>>

\* Mutant of SlaveStep: no barrier after the contribution.
SlaveStepOpen == <<Do("receive", "Direction"), Barrier("Direction"), Do("send", "PP"), Do("hear", "stop")>>
SlaveStep ==
  <<Do("receive", "Direction"), Barrier("Direction"), Do("send", "PP"), Barrier("PP"), Do("hear", "stop")>>

SlaveCode ==
  [setup  |-> SlaveSetUp,
   step   |-> SlaveStep,
   energy |-> <<Do("receive", "Solution"), Barrier("Solution"), Do("send", "PP"), Barrier("PP")>>,
   finish |-> <<Do("receive", "Solution"), Barrier("Solution"), Do("send", "Residual"),
                Barrier("Residual"), Do("receive", "Gammas"), Barrier("Gammas")>>]

\* unpackAllData ends with a barrier; what the master has itself is mapped after it.
MasterCode ==
  [setup  |-> <<Do("take", "boundary"), Barrier("boundary"), Do("own", "records"), Do("take", "records"),
                Barrier("records"), Do("number", "equations"), Barrier("maps"), Barrier("start"),
                Do("take", "modes"), Do("own", "modes"), Barrier("modes"),
                Do("clear", "RBM"), Do("take", "RBM"), Barrier("RBM"), Do("own", "RBM"),
                Do("clear", "QQ"), Do("take", "QQ"), Barrier("QQ"), Do("own", "QQ"),
                Do("give", "Solution"), Barrier("Solution"),
                Do("take", "Residual"), Barrier("Residual"), Do("own", "Residual")>>,
   step   |-> <<Do("give", "Direction"), Barrier("Direction"), Do("clear", "PP"), Do("take", "PP"),
                Barrier("PP"), Do("own", "PP"), Do("broadcast", "stop")>>,
   energy |-> <<Do("give", "Solution"), Barrier("Solution"), Do("clear", "PP"), Do("take", "PP"),
                Barrier("PP"), Do("own", "PP")>>,
   finish |-> <<Do("give", "Solution"), Barrier("Solution"), Do("clear", "Residual"),
                Do("take", "Residual"), Barrier("Residual"), Do("own", "Residual"),
                Do("give", "Gammas"), Barrier("Gammas")>>]

\* The message tags of FETICommunicator and FETISolver: two of them occur twice.
Tag == [boundary |-> 1, records |-> 2, modes |-> 1, RBM |-> 2, QQ |-> 3, Solution |-> 4,
        Residual |-> 5, Direction |-> 6, PP |-> 7, Gammas |-> 8]

Code(p) == IF p = 0 THEN MasterCode ELSE SlaveCode
Running(p) == at[p].part \in DOMAIN Code(p)
\* p is at operation op.
At(p, op) == Running(p) /\ Code(p)[at[p].part][at[p].i].do = op
What(p) == Code(p)[at[p].part][at[p].i].what

Enter(a, part) == [a EXCEPT !.part = part, !.i = 1]
\* The loop of the iterations, from iteration n on.
Loop(a, n) == IF n < MaxIter THEN Enter([a EXCEPT !.iter = n], "step") ELSE Enter(a, "finish")

\* Where p goes on after its operation; stop: the master has broken off the iteration.
After(p, stop) ==
  LET a == at[p]
  IN IF a.i < Len(Code(p)[a.part]) THEN [a EXCEPT !.i = @ + 1]
     ELSE CASE a.part = "setup" -> Loop(a, 0)
            [] a.part = "step" /\ stop -> Enter(a, "finish")
            [] a.part = "step" /\ ~stop /\ mesh.energy -> Enter(a, "energy")
            [] a.part = "step" /\ ~stop /\ ~mesh.energy -> Loop(a, a.iter + 1)
            [] a.part = "energy" -> Loop(a, a.iter + 1)
            [] a.part = "finish" /\ a.solve < MaxSolves ->
                 [part |-> "setup", i |-> 1, iter |-> 0, solve |-> a.solve + 1]
            [] a.part = "finish" /\ a.solve = MaxSolves -> Enter(a, "done")

GoOn(p) == at' = [at EXCEPT ![p] = After(p, FALSE)]
Abort == at' = [at EXCEPT ![0] = Enter(@, "aborted")]
Stamp(p) == <<at[p].solve, at[p].iter>>
-------------------------------------------------------------------------------
(* Boundary dofs, as a slave and as the master list them *)

\* The shared dof managers of p in the order of its local numbers: here ascending on even
\* ranks and descending on odd ones.
Held(p) ==
  LET S == {n \in Node : p \in mesh.parts[n]}
      Index(n) == Cardinality({m \in S : IF p % 2 = 0 THEN m <= n ELSE m >= n})
  IN [i \in 1..Cardinality(S) |-> CHOOSE n \in S : Index(n) = i]

WithDofs(list, dofs) == FlattenSeq([i \in DOMAIN list |-> [d \in 1..dofs[list[i]] |-> <<list[i], d>>]])

\* Mutant of Local: in the order of the global numbers.
LocalByLabel(p) == WithDofs(SetToSortSeq({n \in Node : p \in mesh.parts[n]}, <), mesh.dofs)
Local(p) == WithDofs(Held(p), mesh.dofs)
Listed(q) == WithDofs(cmap[q], [b \in DOMAIN recs |-> recs[b].ndofs])

\* FETIBoundaryDofManager::addPartition, for a new record too; the first number of its
\* equations comes later.
AddPartition(q, rec) == [rec EXCEPT !.parts = Append(@, q),
                                    !.ref = IF rec.parts = <<>> \/ q < @ THEN q ELSE @]
NewRecord(label, ndofs) == [label |-> label, ndofs |-> ndofs, parts |-> <<>>, ref |-> 0, first |-> 0]

Place(list, label) == {b \in DOMAIN list : list[b].label = label}

\* The records of q: boundaryDofManList and the map of q after them.  The communicator is a
\* new one in every solve, and the records of the master are its first.  The program's error
\* when two partitions differ in the dofs of a dof manager (feticommunicator.C:169, 208)
\* cannot arise: the mesh has one number of dofs per dof manager.
AddRecords(q, values) ==
  LET old == IF q = 0 THEN <<>> ELSE recs
      new == SelectSeq(values, LAMBDA r : Place(old, r[1]) = {})
      list == [b \in DOMAIN old |-> IF \E i \in DOMAIN values : values[i][1] = old[b].label
                                    THEN AddPartition(q, old[b]) ELSE old[b]]
              \o [i \in DOMAIN new |-> AddPartition(q, NewRecord(new[i][1], new[i][2]))]
  IN [list |-> list, map |-> [i \in DOMAIN values |-> CHOOSE b \in Place(list, values[i][1]) : TRUE]]

\* setCodeNumbers: every partition but the reference one has a number per dof.
Numbers(rec) == (Len(rec.parts) - 1) * rec.ndofs
Before(list, b) == FoldLeft(LAMBDA n, c : IF c < b THEN n + Numbers(list[c]) ELSE n, 0, [c \in DOMAIN list |-> c])

\* Mutant of CodeNumber: the reference partition is counted, too.
CodeNumberAll(rec, part, d) ==
  LET index == CHOOSE i \in DOMAIN rec.parts : rec.parts[i] = part
  IN rec.first + (index - 1) * rec.ndofs + d
\* giveCodeNumber, for a partition that is not the reference one.
CodeNumber(rec, part, d) ==
  LET index == CHOOSE i \in DOMAIN rec.parts : rec.parts[i] = part
      linked == Cardinality({i \in 1..index : rec.parts[i] # rec.ref})
  IN rec.first + (linked - 1) * rec.ndofs + d

Others(rec, q) == {rec.parts[i] : i \in DOMAIN rec.parts} \ {q}

\* Dof d of record b on q: the equations it takes part in, and its sign there.
Links(q, b, d) == IF recs[b].ref = q
                  THEN {<<CodeNumber(recs[b], part, d), 1>> : part \in Others(recs[b], q)}
                  ELSE {<<CodeNumber(recs[b], q, d), -1>>}

\* Mutant of rbmAddr: the modes of the partition itself are counted.
rbmAddrNext(q) == FoldLeft(LAMBDA n, o : n + nsem[o], 1, SetToSeq({o \in Proc : o <= q}))
\* The first column of the modes of q.
rbmAddr(q) == FoldLeft(LAMBDA n, o : n + nsem[o], 1, SetToSeq({o \in Proc : o < q}))
-------------------------------------------------------------------------------
(* Packing and unpacking *)

Content(p, what, values) == [what |-> what, stamp |-> Stamp(p), values |-> values]

\* What q packs, and what the master has itself: packRBM (which packs a zero for every dof
\* if there are no modes), packQQProducts, packResiduals, packPPVector.
Packed(q, what) ==
  CASE what = "boundary" -> <<Len(Held(q))>>
    [] what = "records" -> [i \in DOMAIN Held(q) |-> <<Held(q)[i], mesh.dofs[Held(q)[i]]>>]
    [] what = "modes" -> <<mesh.modes[q]>>
    [] what = "RBM" -> FlattenSeq([i \in DOMAIN Local(q) |->
                         IF mesh.modes[q] = 0 THEN <<<<>>>>
                         ELSE [r \in 1..mesh.modes[q] |-> <<q>> \o Local(q)[i] \o <<r>>]])
    [] what = "QQ" -> [r \in 1..mesh.modes[q] |-> <<q, r>>]
    [] what \in {"Residual", "PP"} -> [i \in DOMAIN Local(q) |-> <<q>> \o Local(q)[i]]

\* How many values the master reads from a message of q.
Read(q, what) ==
  CASE what \in {"boundary", "modes"} -> 1
    [] what = "records" -> count[q]
    [] what = "RBM" -> Len(Listed(q)) * nsem[q]
    [] what = "QQ" -> nsem[q]
    [] what \in {"Residual", "PP"} -> Len(Listed(q))

\* masterUnpackRBM and masterMapRBM: mode r of dof i is value (i - 1) * nsem[q] + r.
Modes(q, values) ==
  UNION {{<<t[1], rbmAddr(q) + r - 1, values[(i - 1) * nsem[q] + r], t[2]>> :
            t \in Links(q, Listed(q)[i][1], Listed(q)[i][2])} :
         i \in DOMAIN Listed(q), r \in 1..nsem[q]}

\* unpackResiduals, unpackPPVector and their counterparts for the master's own values.
Terms(q, values, stamp) ==
  UNION {{<<t[1], values[i], t[2], stamp>> : t \in Links(q, Listed(q)[i][1], Listed(q)[i][2])} :
         i \in DOMAIN Listed(q)}

Negated(terms) == {[t EXCEPT ![4] = -@] : t \in terms}

\* The master's state after the values of q.  Its own come last (its own records first) and
\* l is negated then.
Unpack(q, what, values, stamp) ==
  /\ count' = IF what = "boundary" THEN [count EXCEPT ![q] = values[1]] ELSE count
  /\ LET new == AddRecords(q, values)
     IN IF what = "records"
        THEN /\ recs' = new.list
             /\ cmap' = [p \in Proc |-> IF p = q THEN new.map ELSE IF q = 0 THEN <<>> ELSE cmap[p]]
        ELSE UNCHANGED <<recs, cmap>>
  /\ nsem' = IF what = "modes" THEN [nsem EXCEPT ![q] = values[1]] ELSE nsem
  /\ l' = IF what # "RBM" THEN l
          ELSE IF q = 0 THEN Negated(l \union Modes(q, values)) ELSE l \union Modes(q, values)
  /\ loads' = IF what = "QQ" THEN loads \union {<<rbmAddr(q) + r - 1, values[r]>> : r \in 1..nsem[q]}
              ELSE loads
  /\ g' = IF what = "Residual" THEN g \union Terms(q, values, stamp) ELSE g
  /\ pv' = IF what = "PP" THEN pv \union Terms(q, values, stamp) ELSE pv
  /\ UNCHANGED <<dd, gammas>>

\* packSolution, packDirectionVector and packGammas for q.
PackedFor(q, what) ==
  IF what = "Gammas" THEN [r \in 1..nsem[q] |-> rbmAddr(q) + r - 1]
  ELSE [i \in DOMAIN Listed(q) |-> Links(q, Listed(q)[i][1], Listed(q)[i][2])]

\* unpackSolution, unpackDirectionVector, unpackGammas and their counterparts.
Load(q, what, values) ==
  /\ dd' = IF what = "Gammas" THEN dd
           ELSE [dd EXCEPT ![q] = [i \in DOMAIN Local(q) |-> values[i]]]
  /\ gammas' = IF what = "Gammas" THEN [gammas EXCEPT ![q] = [r \in 1..mesh.modes[q] |-> values[r]]]
               ELSE gammas

\* setToSendArry(engngModel, ...): the buffers of q at the master are as large as the
\* engineering model estimates for the dof managers of its domain that have these numbers.
Room(q) == FoldLeft(LAMBDA n, b : n + mesh.prescribed[b], 0, cmap[q])
\* A static buffer takes no more.
Fitting(q, values) == SubSeq(values, 1, IF Len(values) < Room(q) THEN Len(values) ELSE Room(q))
-------------------------------------------------------------------------------
(* The operations *)

\* Sent with a buffer of their own and received from any source; the other messages go
\* between processes whose maps are not empty.
AnySource == {"boundary", "records", "modes"}
Shares(q) == Held(q) # <<>>
Buffer(what) == IF what = "modes" THEN "comm" ELSE IF what \in AnySource THEN "maps" ELSE "out"

WithTag(wire, what) == {i \in DOMAIN wire : wire[i].tag = Tag[what]}
\* Messages of one tag do not overtake each other.
First(wire, what) == CHOOSE i \in WithTag(wire, what) : \A j \in WithTag(wire, what) : i <= j
Message(what, b) == [tag |-> Tag[what], buf |-> b]

NoContent == [what |-> "none", stamp |-> <<0, 0>>, values |-> <<>>]

Init ==
  /\ mesh \in Meshes
  /\ at = [p \in Proc |-> [part |-> IF MaxSolves = 0 THEN "done" ELSE "setup", i |-> 1, iter |-> 0, solve |-> 1]]
  /\ up = [q \in Slave |-> <<>>] /\ down = [q \in Slave |-> <<>>] /\ cast = [q \in Slave |-> <<>>]
  /\ buf = [q \in Slave |-> [b \in {"maps", "comm", "out", "in"} |-> NoContent]]
  /\ got = <<>>
  /\ count = [q \in Proc |-> 0] /\ recs = <<>> /\ cmap = [q \in Proc |-> <<>>]
  /\ nsem = [q \in Proc |-> 0]
  /\ l = {} /\ loads = {} /\ g = {} /\ pv = {}
  /\ dd = [q \in Proc |-> <<>>] /\ gammas = [q \in Proc |-> <<>>]

\* A slave packs and sends.
Send(q) ==
  /\ At(q, "send")
  /\ LET what == What(q)
         b == Buffer(what)
     IN IF what \in AnySource \/ Shares(q)
        THEN /\ buf' = [buf EXCEPT ![q][b] = Content(q, what, Packed(q, what))]
             /\ up' = [up EXCEPT ![q] = Append(@, Message(what, b))]
        ELSE UNCHANGED <<buf, up>>
  /\ GoOn(q)
  /\ UNCHANGED <<mesh, down, cast, got, lists, results>>

\* A slave waits for a message of the master and unpacks it.
Receive(q) ==
  /\ At(q, "receive")
  /\ LET what == What(q)
     IN IF Shares(q)
        THEN /\ WithTag(down[q], what) # {}
             /\ down' = [down EXCEPT ![q] = RemoveAt(@, First(@, what))]
             /\ Load(q, what, buf[q]["in"].values)
        ELSE UNCHANGED <<down, dd, gammas>>
  /\ GoOn(q)
  /\ UNCHANGED <<mesh, up, buf, cast, got, lists, nsem, l, loads, g, pv>>

\* A slave takes the broadcast: does the iteration go on?
Hear(q) ==
  /\ At(q, "hear") /\ cast[q] # <<>>
  /\ at' = [at EXCEPT ![q] = After(q, Head(cast[q]))]
  /\ cast' = [cast EXCEPT ![q] = Tail(@)]
  /\ UNCHANGED <<mesh, up, down, buf, got, lists, results>>

\* Whose message the master still waits for; from any source it only counts them.
Awaits(q) ==
  IF What(0) \in AnySource THEN Len(got) < Cardinality(Slave)
  ELSE cmap[q] # <<>> /\ q \notin Range(got)

\* The master receives and unpacks a message of q; one that does not fit ends the program.
Take(q) ==
  /\ At(0, "take") /\ Awaits(q) /\ WithTag(up[q], What(0)) # {}
  /\ LET what == What(0)
         i == First(up[q], what)
         m == buf[q][up[q][i].buf]
     IN /\ up' = [up EXCEPT ![q] = RemoveAt(@, i)]
        /\ IF what \notin AnySource /\ Len(m.values) > Room(q)
           THEN Abort /\ UNCHANGED <<got, lists, results>>
           ELSE /\ got' = Append(got, q)
                /\ Unpack(q, what, m.values, m.stamp)
                /\ UNCHANGED at
  /\ UNCHANGED <<mesh, down, buf, cast>>

AllTaken ==
  /\ At(0, "take") /\ \A q \in Slave : ~Awaits(q)
  /\ got' = <<>>
  /\ GoOn(0)
  /\ UNCHANGED <<mesh, wires, lists, results>>

\* The master maps its own values.
Own ==
  /\ At(0, "own")
  /\ Unpack(0, What(0), Packed(0, What(0)), Stamp(0))
  /\ GoOn(0)
  /\ UNCHANGED <<mesh, wires, got>>

Clear ==
  /\ At(0, "clear")
  /\ l' = IF What(0) = "RBM" THEN {} ELSE l
  /\ loads' = IF What(0) = "QQ" THEN {} ELSE loads
  /\ pv' = IF What(0) = "PP" THEN {} ELSE pv
  /\ g' = IF What(0) = "Residual" THEN {} ELSE g
  /\ GoOn(0)
  /\ UNCHANGED <<mesh, wires, got, lists, nsem, dd, gammas>>

\* setCodeNumbers for every record; then the maps get buffers.
Number ==
  /\ At(0, "number")
  /\ recs' = [b \in DOMAIN recs |-> [recs[b] EXCEPT !.first = Before(recs, b)]]
  /\ IF \A q \in Slave : Range(cmap[q]) \subseteq DOMAIN mesh.prescribed THEN GoOn(0) ELSE Abort
  /\ UNCHANGED <<mesh, wires, got, count, cmap, results>>

\* The master packs and sends to every slave, and maps what is its own.
Give ==
  /\ At(0, "give")
  /\ LET what == What(0)
         To == {q \in Slave : cmap[q] # <<>>}
         packed(q) == Content(0, what, Fitting(q, PackedFor(q, what)))
     IN /\ buf' = [q \in Slave |-> IF q \in To THEN [buf[q] EXCEPT !["in"] = packed(q)] ELSE buf[q]]
        /\ down' = [q \in Slave |-> IF q \in To THEN Append(down[q], Message(what, "in")) ELSE down[q]]
        /\ Load(0, what, PackedFor(0, what))
  /\ GoOn(0)
  /\ UNCHANGED <<mesh, up, cast, got, lists, nsem, l, loads, g, pv>>

\* The master tells the slaves whether it breaks off; the norms that decide are not modelled.
Broadcast ==
  /\ At(0, "broadcast")
  /\ \E stop \in BOOLEAN :
       /\ cast' = [q \in Slave |-> Append(cast[q], stop)]
       /\ at' = [at EXCEPT ![0] = After(0, stop)]
  /\ UNCHANGED <<mesh, up, down, buf, got, lists, results>>

\* MPI_Barrier: all processes leave it together.
Pass ==
  /\ \A p \in Proc : At(p, "barrier")
  /\ at' = [p \in Proc |-> After(p, FALSE)]
  /\ UNCHANGED <<mesh, wires, got, lists, results>>

Next ==
  \/ \E q \in Slave : Send(q) \/ Receive(q) \/ Hear(q) \/ Take(q)
  \/ AllTaken \/ Own \/ Clear \/ Number \/ Give \/ Broadcast \/ Pass

Spec == Init /\ [][Next]_vars
\* Whatever a process can do it does in the end; MPI delivers what is received.
FairSpec == Spec /\ WF_vars(Next)
-------------------------------------------------------------------------------
(* Properties *)

\* Every variable has its type.
TypeOK ==
  /\ mesh \in Meshes
  /\ DOMAIN at = Proc
  /\ \A p \in Proc : at[p].part \in DOMAIN Code(p) \union {"done", "aborted"} /\ at[p].solve \in 1..MaxSolves + 1
  /\ Range(got) \subseteq Slave /\ Len(got) <= Cardinality(Slave)
  /\ \A q \in Slave : up[q] \in Seq([tag : Range(Tag), buf : {"maps", "comm", "out"}])
  /\ \A q \in Slave : down[q] \in Seq([tag : Range(Tag), buf : {"in"}])
  /\ \A q \in Proc : cmap[q] \in Seq(DOMAIN recs) /\ count[q] \in Nat /\ nsem[q] \in 0..6
  /\ Before(recs, Len(recs) + 1) \in Nat

\* Value k of a message, and the dof read from it.
SameDof(value, link) == <<value[2], value[3]>> = <<recs[link[1]].label, link[2]>>

\* The message of q with the tag the master waits for, or that of the master for q.
ForMaster(q) == buf[q][up[q][First(up[q], What(0))].buf]
MasterTakes(q) == At(0, "take") /\ Awaits(q) /\ WithTag(up[q], What(0)) # {}
SlaveTakes(q) == At(q, "receive") /\ Shares(q) /\ WithTag(down[q], What(q)) # {}

\* Two processes that wait in a barrier wait in the same one: that of the same exchange of
\* the same iteration of the same solve (hand-counted calls of MPI_Barrier in both branches
\* of solve, in setUpCommunicationMaps of both classes and in unpackAllData).
BarriersMatch ==
  \A p, q \in Proc : At(p, "barrier") /\ At(q, "barrier") =>
    at[p].part = at[q].part /\ What(p) = What(q) /\ Stamp(p) = Stamp(q)

\* A message of the awaited tag is the one meant, by its kind and by the solve and iteration
\* it was packed in (tags reused, fetisolver.C:1095-1330 with the enums of both classes; the
\* buffers packed again).
MessagesMeant ==
  \A q \in Slave :
    /\ MasterTakes(q) => ForMaster(q).what = What(0) /\ ForMaster(q).stamp = Stamp(0)
    /\ SlaveTakes(q) => buf[q]["in"].what = What(q) /\ buf[q]["in"].stamp = Stamp(q)

\* It has all the values that will be read, and value k is that of dof k in the list of the
\* reader (packResiduals, packPPVector and their counterparts; readers go by their own lists).
MessagesFit ==
  \A q \in Slave :
    /\ MasterTakes(q) =>
         /\ Len(ForMaster(q).values) >= Read(q, What(0))
         /\ What(0) \in {"Residual", "PP"} =>
              \A k \in 1..Read(q, What(0)) : SameDof(ForMaster(q).values[k], Listed(q)[k])
    /\ SlaveTakes(q) =>
         Len(buf[q]["in"].values) = IF What(q) = "Gammas" THEN mesh.modes[q] ELSE Len(Local(q))

\* The signs with which boundary dof i of q takes part in the equations, and the equations.
Part(q, i) == {<<t[1], t[3]>> : t \in {u \in pv : u[2] = <<q>> \o Local(q)[i]}}
Joined(e) == {<<t[2], t[3]>> : t \in {u \in pv : u[1] = e}}
Total == Before(recs, Len(recs) + 1)

\* When K.d is assembled, every equation is the difference of one dof on two partitions,
\* the equations of a dof join all its partitions, all terms are of this iteration, and the
\* multipliers loaded each partition in the same equations with the same signs: p is
\* B K^+ B^T d with one B (unpackPPVector, packDirectionVector, giveCodeNumber).
MultipliersJoin ==
  At(0, "broadcast") =>
    /\ \A t \in pv : t[4] = Stamp(0) /\ t[1] \in 1..Total
    /\ \A e \in 1..Total : \E n \in Node : \E d \in 1..mesh.dofs[n], p, q \in mesh.parts[n] :
         p # q /\ Joined(e) = {<<<<p, n, d>>, 1>>, <<<<q, n, d>>, -1>>}
    /\ \A n \in Node : \A d \in 1..mesh.dofs[n] : \E p \in mesh.parts[n] : \A q \in mesh.parts[n] \ {p} :
         \E e \in 1..Total : <<<<p, n, d>>, 1>> \in Joined(e) /\ <<<<q, n, d>>, -1>> \in Joined(e)
    /\ \A q \in Proc : \A i \in DOMAIN Local(q) : dd[q][i] = Part(q, i)

\* The column of mode r of q.
Column(q, r) == CHOOSE c \in 1..6 * Cardinality(Proc) : <<c, <<q, r>>>> \in loads

\* What L is to hold for q.
ModesOf(q) ==
  UNION {{<<t[1], Column(q, r), <<q>> \o Local(q)[i] \o <<r>>, -t[3]>> :
            t \in {u \in g : u[2] = <<q>> \o Local(q)[i]}} : i \in DOMAIN Local(q), r \in 1..mesh.modes[q]}

\* At the end of a solve matrix L holds every mode of every partition at its boundary dofs in
\* the equations they take part in, negated, in the column where its load is; the columns are
\* one to the number of modes; and each partition adds its modes by the coefficients of these
\* columns (rbmAddr, masterUnpackRBM, masterUnpackQQProduct, packGammas).
ModesRight ==
  /\ At(0, "give") /\ What(0) = "Gammas" =>
       /\ l = UNION {ModesOf(q) : q \in Proc}
       /\ {t[1] : t \in loads} = 1..Cardinality(loads)
  /\ \A q \in Proc : At(q, "barrier") /\ at[q].part = "finish" /\ at[q].i = Len(Code(q).finish) =>
       gammas[q] = [r \in 1..mesh.modes[q] |-> Column(q, r)]

\* Every solve ends, whenever the master breaks off the iteration.
SolveEnds == <>(\A p \in Proc : at[p].part = "done")

\* What solve relies on when it resizes g ("Array is zeroed", floatarray.h:226-229): before
\* the first residuals are added to the gradient, it is empty.
GradientFresh == At(0, "take") /\ What(0) = "Residual" /\ got = <<>> => g = {}
\* The buffers of the master are sized for boundary dof managers (fetisolver.C:75-79).
NeverAborts == \A p \in Proc : at[p].part # "aborted"
===============================================================================
