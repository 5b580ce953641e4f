----------------------------- MODULE LoadBalancing -----------------------------
(***************************************************************************)
(* EngngModel::balanceLoad with the ParMETIS balancer, LoadBalancer::      *)
(* migrateLoad and the nonlocal work transfer plugin: the processes agree  *)
(* on new partitions, move dof managers and elements, mirror the remote    *)
(* elements that nonlocal averaging needs and set up the communication     *)
(* maps again.                                                             *)
(*                                                                         *)
(* Domain::dofManagerList and elementList are sequences of records.  A     *)
(* label is a global number; everything inside a domain refers to a dof    *)
(* manager by its local number, its place in the list.  In the messages of *)
(* a migration and in its open transactions the numbers are labels.        *)
(*                                                                         *)
(* A mesh gives the labels of the nodes of every element, the masters of   *)
(* every dof manager (none, if its dofs are primary) and the elements      *)
(* every element averages over (near).                                     *)
(*                                                                         *)
(* The exchanges are the rounds of BulkExchange: all processes pack, each  *)
(* takes the messages of the others in any order, nobody goes on before    *)
(* all have taken all.  ParMETIS may return any of a set of partitionings. *)
(***************************************************************************)
EXTENDS Integers, Sequences, FiniteSets

CONSTANTS
  Proc,      \* the processes: ranks from 0
  Elem,      \* the labels of the elements
  Meshes,    \* the meshes to balance
  Owners,    \* the partitionings the analysis may start from
  Plans,     \* the partitionings ParMETIS may return
  MaxRounds  \* how many times the load is balanced

ASSUME ProcAssumption == Proc \subseteq Nat /\ IsFiniteSet(Proc) /\ 0 \in Proc
ASSUME RoundsAssumption == MaxRounds \in Nat
ASSUME MeshAssumption ==
  /\ Elem \subseteq Nat /\ IsFiniteSet(Elem)
  /\ \A m \in Meshes :
       /\ m.nodes \in [Elem -> Seq(DOMAIN m.masters)] /\ m.near \in [Elem -> SUBSET Elem]
       /\ m.masters \in [DOMAIN m.masters -> SUBSET DOMAIN m.masters]
       /\ DOMAIN m.masters \subseteq Nat /\ IsFiniteSet(DOMAIN m.masters)
  /\ Owners \union Plans \subseteq [Elem -> Proc]

VARIABLES
  mesh,      \* the mesh
  dom,       \* dom[p]: dof managers and elements of p
  plan,      \* the partitions ParMETIS has assigned to the elements
  newParts,  \* newParts[p]: dofManPartitions, by local number
  deps,      \* deps[p]: nonlocElementDependencyMap, by label
  trans,     \* trans[p]: the open transactions of the domain, by label
  mail,      \* mail[p][q]: what p has packed for q in the exchange going on
  got,       \* got[p]: the processes whose message p has unpacked
  maps,      \* maps[p]: the communication maps of p
  pc,        \* pc[p]: what p does next
  round      \* how many times the load was balanced

vars == <<mesh, dom, plan, newParts, deps, trans, mail, got, maps, pc, round>>
-------------------------------------------------------------------------------
(* Lists of records that have a label *)

Labels(list) == {list[i].label : i \in DOMAIN list}

\* The local number of a label, 0 if it is unknown (dofmanGlobal2Local).
NumberOf(list, l) == IF l \in Labels(list) THEN CHOOSE i \in DOMAIN list : list[i].label = l ELSE 0

\* A set of labels as a sequence in ascending order.
Ascending(S) == [i \in 1..Cardinality(S) |->
                   CHOOSE l \in S : Cardinality({k \in S : k <= l}) = i]

Empty == [l \in {} |-> 0]

\* Mutant of Put: the first record stays.
PutFirst(f, S) == LET new == {r.label : r \in S} \ DOMAIN f
                  IN [l \in DOMAIN f \union new |-> IF l \in new THEN CHOOSE r \in S : r.label = l ELSE f[l]]
\* DomainTransactionManager: the records of S replace what f has for their labels.
Put(f, S) == LET new == {r.label : r \in S}
             IN [l \in DOMAIN f \union new |-> IF l \in new THEN CHOOSE r \in S : r.label = l ELSE f[l]]

Gone(l) == [label |-> l, mode |-> "gone"]

LocalElems(p) == {i \in DOMAIN dom[p].elems : dom[p].elems[i].mode = "local"}
OwnLabels(p) == {dom[p].elems[i].label : i \in LocalElems(p)}
-------------------------------------------------------------------------------
(* The partitioned mesh the analysis starts from *)

\* Dof managers with all their masters, directly or through other slaves.
WithMasters(S) ==
  LET up[i \in 0..Cardinality(DOMAIN mesh.masters)] ==
        IF i = 0 THEN S ELSE up[i - 1] \union UNION {mesh.masters[n] : n \in up[i - 1]}
  IN up[Cardinality(DOMAIN mesh.masters)]

NodesOf(E) == UNION {{mesh.nodes[e][i] : i \in DOMAIN mesh.nodes[e]} : e \in E}

\* What a process needs to hold the elements E, and to average over them.
Needs(E) == WithMasters(NodesOf(E))
Mirrors(E) == (UNION {mesh.near[e] : e \in E}) \ E

\* Input files list entities in any order: here in one order on even ranks and in
\* the other on odd ones.  The partition list of an input file leaves out the
\* process itself.
InitialDomain(p, owner) ==
  LET own(q) == {e \in Elem : owner[e] = q}
      held == Needs(own(p)) \union Needs(Mirrors(own(p)))
      asListed(S) == LET a == Ascending(S)
                     IN IF p % 2 = 0 THEN a ELSE [i \in DOMAIN a |-> a[Len(a) + 1 - i]]
      order == asListed(held)
      number(l) == CHOOSE i \in DOMAIN order : order[i] = l
      sharers(l) == {q \in Proc \ {p} : l \in Needs(own(q))}
      eOrder == asListed(own(p) \union Mirrors(own(p)))
  IN [dmans |-> [i \in DOMAIN order |->
        [label |-> order[i],
         mode |-> IF order[i] \notin Needs(own(p)) THEN "null"
                  ELSE IF sharers(order[i]) = {} THEN "local" ELSE "shared",
         parts |-> IF order[i] \in Needs(own(p)) THEN sharers(order[i]) ELSE {},
         masters |-> {number(m) : m \in mesh.masters[order[i]]}]],
      elems |-> [i \in DOMAIN eOrder |->
        [label |-> eOrder[i],
         mode |-> IF owner[eOrder[i]] = p THEN "local" ELSE "remote",
         parts |-> IF owner[eOrder[i]] = p THEN {} ELSE {owner[eOrder[i]]},
         nodes |-> [k \in DOMAIN mesh.nodes[eOrder[i]] |-> number(mesh.nodes[eOrder[i]][k])],
         table |-> IF owner[eOrder[i]] = p THEN mesh.near[eOrder[i]] ELSE {}]]]

NoMaps == [nodes |-> [q \in Proc |-> <<>>], send |-> [q \in Proc |-> <<>>], recv |-> [q \in Proc |-> <<>>]]
NoMessage == [dmans |-> {}, elems |-> {}]
NoMail == [p \in Proc |-> [q \in Proc |-> NoMessage]]

Init ==
  /\ mesh \in Meshes
  /\ \E owner \in Owners : /\ dom = [p \in Proc |-> InitialDomain(p, owner)]
                           /\ plan = owner
  /\ newParts = [p \in Proc |-> <<>>]
  /\ deps = [p \in Proc |-> Empty]
  /\ trans = [p \in Proc |-> [dmans |-> Empty, elems |-> Empty]]
  /\ mail = NoMail
  /\ got = [p \in Proc |-> {}]
  /\ maps = [p \in Proc |-> NoMaps]
  /\ pc = [p \in Proc |-> "maps"]
  /\ round = 0
-------------------------------------------------------------------------------
(* Steps of all processes together *)

AllAt(l) == \A p \in Proc : pc[p] = l
AllGoto(l) == pc' = [p \in Proc |-> l]
Goto(p, l) == pc' = [pc EXCEPT ![p] = l]

\* A communication map: the numbers in S in the order of their labels.
Sorted(list, S) == LET a == Ascending({list[i].label : i \in S})
                   IN [k \in DOMAIN a |-> NumberOf(list, a[k])]

\* Mutant of CommMap: the map is left in the order of the local numbers.
CommMapUnsorted(list, S) == Ascending(S)
CommMap(list, S) == Sorted(list, S)

\* NodeCommunicator: one map for sending and receiving, from p's own partition lists.
NodeMap(p, q) ==
  IF p = q THEN <<>>
  ELSE CommMap(dom[p].dmans, {i \in DOMAIN dom[p].dmans :
                                dom[p].dmans[i].mode = "shared" /\ q \in dom[p].dmans[i].parts})

\* ElementCommunicator: what p receives are its remote elements; it broadcasts their
\* labels, and every process sends those that are local to it.
RemoteOn(p) == {i \in DOMAIN dom[p].elems : dom[p].elems[i].mode = "remote"}
RecvMap(p, q) == CommMap(dom[p].elems, {i \in RemoteOn(p) : q \in dom[p].elems[i].parts})
SendMap(p, q) ==
  IF p = q THEN <<>>
  ELSE CommMap(dom[p].elems, {i \in LocalElems(p) :
         dom[p].elems[i].label \in {dom[q].elems[k].label : k \in RemoteOn(q)}})

\* initializeCommMaps(true), before the first step and after a migration.
SetUpMaps ==
  /\ AllAt("maps")
  /\ maps' = [p \in Proc |-> [nodes |-> [q \in Proc |-> NodeMap(p, q)],
                              send |-> [q \in Proc |-> SendMap(p, q)],
                              recv |-> [q \in Proc |-> RecvMap(p, q)]]]
  /\ AllGoto("solve")
  /\ UNCHANGED <<mesh, dom, plan, newParts, deps, trans, mail, got, round>>

\* The monitor has decided to recover the balance; ParMETIS assigns a partition to
\* every element.
CalculateLoadTransfer ==
  /\ AllAt("solve") /\ round < MaxRounds
  /\ round' = round + 1
  /\ plan' \in Plans
  /\ AllGoto("label")
  /\ UNCHANGED <<mesh, dom, newParts, deps, trans, mail, got, maps>>

\* Where the processes go on after an exchange.
After == [shared |-> "depend", depends |-> "migrate", migrating |-> "commit", mirroring |-> "commitMirrors"]

FinishExchange ==
  \E l \in DOMAIN After :
    /\ AllAt(l) /\ \A p \in Proc : got[p] = Proc \ {p}
    /\ AllGoto(After[l])
    /\ got' = [p \in Proc |-> {}]
    /\ mail' = NoMail
    /\ UNCHANGED <<mesh, dom, plan, newParts, deps, trans, maps, round>>

\* p may unpack the message of q in the exchange l.
MayUnpack(p, q, l) == p # q /\ q \notin got[p] /\ pc[p] = l /\ pc[q] = l
-------------------------------------------------------------------------------
(* ParmetisLoadBalancer::labelDofManagers *)

\* The processes that get a local element at dof manager i of p.
ElementParts(p, i) ==
  IF dom[p].dmans[i].mode = "null" THEN {}
  ELSE {plan[dom[p].elems[k].label] : k \in {k \in LocalElems(p) :
          \E n \in DOMAIN dom[p].elems[k].nodes : dom[p].elems[k].nodes[n] = i}}

\* giveMasterDofMans: the primary masters, also when there are slaves in between.
PrimaryMasters(p, i) ==
  LET d == dom[p].dmans
      up[k \in DOMAIN d] == IF k = 1 THEN d[i].masters
        ELSE UNION {IF d[m].masters = {} THEN {m} ELSE d[m].masters : m \in up[k - 1]}
  IN IF d = <<>> THEN {} ELSE up[Len(d)]

\* Mutant of WithSlaves: masters are not given the partitions of their slaves.
WithSlavesNot(p, own) == own

\* handleMasterSlaveDofManLinks: slaves in the order of their numbers add their
\* partitions to their masters.
WithSlaves(p, own) ==
  LET linked[i \in 0..Len(own)] ==
        IF i = 0 THEN own
        ELSE [m \in DOMAIN own |-> IF m \in PrimaryMasters(p, i)
                                   THEN linked[i - 1][m] \union linked[i - 1][i]
                                   ELSE linked[i - 1][m]]
  IN linked[Len(own)]

\* The new partitions as p sees them, and packSharedDmanPartitions.
PackSharedPartitions(p) ==
  /\ pc[p] = "label"
  /\ LET parts == WithSlaves(p, [i \in DOMAIN dom[p].dmans |-> ElementParts(p, i)])
     IN /\ newParts' = [newParts EXCEPT ![p] = parts]
        /\ mail' = [mail EXCEPT ![p] = [q \in Proc |-> [NoMessage EXCEPT !.dmans =
             {[label |-> dom[p].dmans[i].label, parts |-> parts[i]] :
               i \in {i \in DOMAIN dom[p].dmans : /\ dom[p].dmans[i].mode = "shared"
                                                 /\ q # p /\ q \in dom[p].dmans[i].parts}}]]]
  /\ Goto(p, "shared")
  /\ UNCHANGED <<mesh, dom, plan, deps, trans, got, maps, round>>

\* Mutant of MergedParts: the list received last wins.
MergedPartsLast(old, new) == new
MergedParts(old, new) == old \union new

\* unpackSharedDmanPartitions; an unknown dof manager is an error.
UnpackSharedPartitions(p, q) ==
  /\ MayUnpack(p, q, "shared")
  /\ LET msg == mail[q][p].dmans
         list(l) == (CHOOSE r \in msg : r.label = l).parts
         known == {r.label : r \in msg} \subseteq Labels(dom[p].dmans)
     IN /\ newParts' = [newParts EXCEPT ![p] = [i \in DOMAIN @ |->
             IF dom[p].dmans[i].label \in {r.label : r \in msg}
             THEN MergedParts(@[i], list(dom[p].dmans[i].label)) ELSE @[i]]]
        /\ got' = [got EXCEPT ![p] = @ \union {q}]
        /\ IF known THEN UNCHANGED pc ELSE Goto(p, "aborted")
  /\ UNCHANGED <<mesh, dom, plan, deps, trans, mail, maps, round>>

\* determineDofManState; a dof manager without any partition counts as shared.
DofManState(p, i) ==
  IF dom[p].dmans[i].mode = "null" THEN "DM_NULL"
  ELSE IF newParts[p][i] = {p} THEN "DM_Local"
  ELSE IF Cardinality(newParts[p][i]) = 1 THEN "DM_Remote" ELSE "DM_Shared"
-------------------------------------------------------------------------------
(* NonlocalMaterialWTP::init *)

PackDependencies(p) ==
  /\ pc[p] = "depend"
  /\ LET own == {dom[p].elems[i] : i \in LocalElems(p)}
     IN /\ deps' = [deps EXCEPT ![p] = [l \in OwnLabels(p) |-> (CHOOSE e \in own : e.label = l).table]]
        /\ mail' = [mail EXCEPT ![p] = [q \in Proc |-> [NoMessage EXCEPT !.elems =
             {[label |-> e.label, near |-> e.table] : e \in {e \in own : q # p /\ plan[e.label] = q}}]]]
  /\ Goto(p, "depends")
  /\ UNCHANGED <<mesh, dom, plan, newParts, trans, got, maps, round>>

UnpackDependencies(p, q) ==
  /\ MayUnpack(p, q, "depends")
  /\ LET msg == mail[q][p].elems
     IN deps' = [deps EXCEPT ![p] = [l \in DOMAIN @ \union {r.label : r \in msg} |->
                   IF \E r \in msg : r.label = l THEN (CHOOSE r \in msg : r.label = l).near ELSE @[l]]]
  /\ got' = [got EXCEPT ![p] = @ \union {q}]
  /\ UNCHANGED <<mesh, dom, plan, newParts, trans, mail, maps, pc, round>>
-------------------------------------------------------------------------------
(* LoadBalancer::migrateLoad *)

LabelOf(p, num) == dom[p].dmans[num].label

\* saveContext with CM_DefinitionGlobal: numbers become labels.
GlobalDofMan(p, i) == [dom[p].dmans[i] EXCEPT !.masters = {LabelOf(p, m) : m \in @}]
GlobalElem(p, i) == [dom[p].elems[i] EXCEPT !.nodes = [k \in DOMAIN @ |-> LabelOf(p, @[k])]]

\* Mutant of Migrates: a dof manager that stays here as well is not sent.
MigratesAlone(p, i, q) == newParts[p][i] = {q} /\ q \notin dom[p].dmans[i].parts
\* Sent: what becomes present on q and was not before.
Migrates(p, i, q) == q \in newParts[p][i] /\ q \notin dom[p].dmans[i].parts

MigratingData(p, q) ==
  [dmans |-> {[GlobalDofMan(p, i) EXCEPT !.parts = newParts[p][i], !.mode = DofManState(p, i)] :
                i \in {i \in DOMAIN dom[p].dmans : Migrates(p, i, q)}},
   elems |-> {[GlobalElem(p, i) EXCEPT !.table = {}] :
                i \in {i \in LocalElems(p) : plan[dom[p].elems[i].label] = q}}]

\* Mutant of Kept: the balancer's state is taken for the mode.
KeptState(p, i) == [dom[p].dmans[i] EXCEPT
  !.parts = IF DofManState(p, i) = "DM_Shared" THEN newParts[p][i] ELSE {},
  !.mode = DofManState(p, i)]
\* What deleteRemoteDofManagers makes of a dof manager it does not remove.
Kept(p, i) == [dom[p].dmans[i] EXCEPT
  !.parts = IF DofManState(p, i) = "DM_Shared" THEN newParts[p][i] ELSE {},
  !.mode = IF DofManState(p, i) = "DM_Shared" THEN "shared" ELSE "local"]

Removed(p, i) == \/ DofManState(p, i) \in {"DM_Remote", "DM_NULL"}
                 \/ DofManState(p, i) = "DM_Shared" /\ p \notin newParts[p][i]

RemovedElem(p, i) == dom[p].elems[i].mode # "local" \/ plan[dom[p].elems[i].label] # p

\* packMigratingData for all others, then deleteRemoteDofManagers and
\* deleteRemoteElements, which change lists and open transactions.
PackMigrating(p) ==
  /\ pc[p] = "migrate"
  /\ mail' = [mail EXCEPT ![p] = [q \in Proc |-> IF q = p THEN NoMessage ELSE MigratingData(p, q)]]
  /\ LET gone == {i \in DOMAIN dom[p].dmans : Removed(p, i)}
         goneElems == {i \in DOMAIN dom[p].elems : RemovedElem(p, i)}
     IN /\ dom' = [dom EXCEPT ![p].dmans = [i \in DOMAIN @ |-> IF i \in gone THEN @[i] ELSE Kept(p, i)]]
        /\ trans' = [trans EXCEPT ![p] =
             [dmans |-> Put(@.dmans, {Gone(LabelOf(p, i)) : i \in gone}),
              elems |-> Put(@.elems, {Gone(dom[p].elems[i].label) : i \in goneElems})]]
  /\ Goto(p, "migrating")
  /\ UNCHANGED <<mesh, plan, newParts, deps, got, maps, round>>

\* unpackMigratingData: additions override what is on record for their labels.
UnpackMigrating(p, q) ==
  /\ MayUnpack(p, q, "migrating")
  /\ LET msg == mail[q][p]
         expected == \A r \in msg.dmans : r.mode \in {"DM_Remote", "DM_Shared"}
     IN /\ trans' = [trans EXCEPT ![p] =
             [dmans |-> Put(@.dmans, {[r EXCEPT !.mode = IF r.mode = "DM_Remote" THEN "local" ELSE "shared"] :
                                       r \in msg.dmans}),
              elems |-> Put(@.elems, msg.elems)]]
        /\ IF expected THEN UNCHANGED pc ELSE Goto(p, "aborted")
  /\ got' = [got EXCEPT ![p] = @ \union {q}]
  /\ UNCHANGED <<mesh, dom, plan, newParts, deps, mail, maps, round>>
-------------------------------------------------------------------------------
(* Domain::commitTransactions *)

\* The labels in a list after the transactions t.
Remaining(list, t) == {l \in Labels(list) \union DOMAIN t : l \in DOMAIN t => t[l].mode # "gone"}

\* Mutant of Renumbered: numbers of received entities are taken for local ones.
RenumberedLocal(d, t, received, num) ==
  IF num \in DOMAIN d.dmans /\ d.dmans[num].label \notin DOMAIN t
  THEN Cardinality({k \in Remaining(d.dmans, t) : k <= d.dmans[num].label}) ELSE 0

\* LB_giveUpdatedGlobalNumber for received entities, LB_giveUpdatedLocalNumber for
\* others; 0 where the code reports that the dof manager is not available.
Renumbered(d, t, received, num) ==
  LET l == IF received THEN num ELSE d.dmans[num].label
      there == IF received THEN l \in Remaining(d.dmans, t) ELSE l \notin DOMAIN t
  IN IF there THEN Cardinality({k \in Remaining(d.dmans, t) : k <= l}) ELSE 0

\* The domain d after the transactions t: both lists in the order of the labels.
Committed(d, t) ==
  LET place(list, tt, l) == IF l \in DOMAIN tt THEN tt[l] ELSE list[NumberOf(list, l)]
      dman(l) == [place(d.dmans, t.dmans, l) EXCEPT
                    !.masters = {Renumbered(d, t.dmans, l \in DOMAIN t.dmans, m) : m \in @}]
      elem(l) == [place(d.elems, t.elems, l) EXCEPT
                    !.nodes = [k \in DOMAIN @ |-> Renumbered(d, t.dmans, l \in DOMAIN t.elems, @[k])]]
      dLabels == Ascending(Remaining(d.dmans, t.dmans))
      eLabels == Ascending(Remaining(d.elems, t.elems))
  IN IF t.dmans = Empty /\ t.elems = Empty THEN d
     ELSE [dmans |-> [i \in DOMAIN dLabels |-> dman(dLabels[i])],
           elems |-> [i \in DOMAIN eLabels |-> elem(eLabels[i])]]

Incomplete(d) == \/ \E i \in DOMAIN d.dmans : 0 \in d.dmans[i].masters
                 \/ \E i \in DOMAIN d.elems : \E k \in DOMAIN d.elems[i].nodes : d.elems[i].nodes[k] = 0

NoTransactions == [dmans |-> Empty, elems |-> Empty]

\* The partitions, not read any more, are dropped here and not at the next labelling.
Commit(p) ==
  /\ pc[p] = "commit"
  /\ newParts' = [newParts EXCEPT ![p] = <<>>]
  /\ dom' = [dom EXCEPT ![p] = Committed(@, trans[p])]
  /\ trans' = [trans EXCEPT ![p] = NoTransactions]
  /\ Goto(p, IF Incomplete(dom'[p]) THEN "aborted" ELSE "wish")
  /\ UNCHANGED <<mesh, plan, deps, mail, got, maps, round>>
-------------------------------------------------------------------------------
(* NonlocalMaterialWTP::migrate and update *)

\* The elements p depends on that are not local to it.
Wishes(p) == (UNION {deps[p][l] : l \in OwnLabels(p)}) \ OwnLabels(p)

\* The nodes of the elements to be mirrored on q that q does not share.  They are
\* saved without CM_DefinitionGlobal: masters go as local numbers.
RemoteElements(p, q) ==
  LET toSend == {i \in LocalElems(p) : dom[p].elems[i].label \in Wishes(q)}
      nodes == UNION {{dom[p].elems[i].nodes[k] : k \in DOMAIN dom[p].elems[i].nodes} : i \in toSend}
  IN [dmans |-> {dom[p].dmans[n] : n \in {n \in nodes :
                   \/ dom[p].dmans[n].mode = "local"
                   \/ dom[p].dmans[n].mode = "shared" /\ q \notin dom[p].dmans[n].parts}},
      elems |-> {[GlobalElem(p, i) EXCEPT !.table = {}] : i \in toSend}]

\* Every process broadcasts its wishes and packs what the others wish.
PackRemoteElements ==
  /\ AllAt("wish")
  /\ mail' = [p \in Proc |-> [q \in Proc |-> IF p = q THEN NoMessage ELSE RemoteElements(p, q)]]
  /\ AllGoto("mirroring")
  /\ UNCHANGED <<mesh, dom, plan, newParts, deps, trans, got, maps, round>>

\* Mutant of MirrorOwner: the mirror keeps the partition list of the original.
MirrorOwnerKept(r, q) == r.parts
MirrorOwner(r, q) == {q}

\* unpackRemoteElements: unknown nodes become null dof managers, elements remote ones.
UnpackRemoteElements(p, q) ==
  /\ MayUnpack(p, q, "mirroring")
  /\ LET msg == mail[q][p]
         new == {r \in msg.dmans : r.label \notin Labels(dom[p].dmans)}
     IN trans' = [trans EXCEPT ![p] =
          [dmans |-> Put(@.dmans, {[r EXCEPT !.mode = "null"] : r \in new}),
           elems |-> Put(@.elems, {[r EXCEPT !.mode = "remote", !.parts = MirrorOwner(r, q)] : r \in msg.elems})]]
  /\ got' = [got EXCEPT ![p] = @ \union {q}]
  /\ UNCHANGED <<mesh, dom, plan, newParts, deps, mail, maps, pc, round>>

\* The second commit, and fastRebuildNonlocalTables from elementGlobal2Local; an
\* element that is not there is an error.
CommitRemoteElements(p) ==
  /\ pc[p] = "commitMirrors"
  /\ LET d == Committed(dom[p], trans[p])
         missing == \E l \in OwnLabels(p) : ~deps[p][l] \subseteq Labels(d.elems)
         rebuilt(e) == IF e.mode = "local" THEN [e EXCEPT !.table = deps[p][e.label]] ELSE e
     IN /\ dom' = [dom EXCEPT ![p] = [d EXCEPT !.elems = [i \in DOMAIN @ |-> rebuilt(@[i])]]]
        /\ Goto(p, IF Incomplete(d) \/ missing THEN "aborted" ELSE "maps")
  /\ trans' = [trans EXCEPT ![p] = NoTransactions]
  /\ deps' = [deps EXCEPT ![p] = Empty]
  /\ UNCHANGED <<mesh, plan, newParts, mail, got, maps, round>>
-------------------------------------------------------------------------------
LocalStep(p) ==
  \/ PackSharedPartitions(p) \/ PackDependencies(p) \/ PackMigrating(p)
  \/ Commit(p) \/ CommitRemoteElements(p)
  \/ \E q \in Proc : \/ UnpackSharedPartitions(p, q) \/ UnpackDependencies(p, q)
                     \/ UnpackMigrating(p, q) \/ UnpackRemoteElements(p, q)

Next == \/ SetUpMaps \/ CalculateLoadTransfer \/ FinishExchange \/ PackRemoteElements
        \/ \E p \in Proc : LocalStep(p)

Spec == Init /\ [][Next]_vars

\* Balancing is up to the monitor; once it is decided, MPI delivers every message and
\* no process stops.
FairSpec == /\ Spec
            /\ WF_vars(SetUpMaps) /\ WF_vars(FinishExchange) /\ WF_vars(PackRemoteElements)
            /\ \A p \in Proc : WF_vars(LocalStep(p))
-------------------------------------------------------------------------------
DofManagers == DOMAIN mesh.masters
Steps == {"maps", "solve", "label", "wish", "aborted"} \union UNION {{l, After[l]} : l \in DOMAIN After}

\* Type invariant: lists of labelled records, open transactions by label.
TypeOK ==
  /\ mesh \in Meshes /\ plan \in [Elem -> Proc] /\ round \in 0..MaxRounds
  /\ pc \in [Proc -> Steps] /\ got \in [Proc -> SUBSET Proc]
  /\ \A p \in Proc :
       /\ Labels(dom[p].dmans) \subseteq DofManagers /\ Labels(dom[p].elems) \subseteq Elem
       /\ \A i \in DOMAIN dom[p].dmans : dom[p].dmans[i].mode \in {"local", "shared", "null"}
       /\ \A i \in DOMAIN dom[p].elems : dom[p].elems[i].mode \in {"local", "remote"}
       /\ DOMAIN trans[p].dmans \subseteq DofManagers /\ DOMAIN trans[p].elems \subseteq Elem
       /\ DOMAIN deps[p] \subseteq Elem

\* The places where element e is the working copy: local and not to be removed,
\* received and not committed, or on its way.
Copies(e) ==
  {<<p, "here">> : p \in {p \in Proc : e \in OwnLabels(p) /\ e \notin DOMAIN trans[p].elems}}
  \union {<<p, "received">> : p \in {p \in Proc : /\ e \in DOMAIN trans[p].elems
                                                  /\ trans[p].elems[e].mode = "local"}}
  \union {x \in Proc \X Proc :
            /\ x[1] # x[2] /\ pc[x[1]] = "migrating" /\ x[1] \notin got[x[2]]
            /\ e \in {r.label : r \in mail[x[1]][x[2]].elems}}

\* In every state of a migration each element has exactly one working copy: in a domain,
\* in an open transaction or in a message (migrateLoad with commitTransactions).
ElementsOnce == \A e \in Elem : Cardinality(Copies(e)) = 1

\* No process meets one of the errors the code stops at: an unknown dof manager in a list
\* of partitions, an unexpected state in a message, a dof manager or element that is not
\* available when the numbers of the new lists are filled in.
EntitiesAvailable == \A p \in Proc : pc[p] # "aborted"

Quiet == AllAt("maps") \/ AllAt("solve")
Planned(p) == {e \in Elem : plan[e] = p}
Sharers(l) == {p \in Proc : l \in Needs(Planned(p))}

\* Between migrations the elements are where they were planned to be, and every process
\* has the dof managers these need and lists the same other processes for each of them:
\* all partition lists of a dof manager agree (labelDofManagers, deleteRemoteDofManagers).
ListsExact ==
  Quiet => \A p \in Proc :
    LET held == {dom[p].dmans[i] : i \in {i \in DOMAIN dom[p].dmans : dom[p].dmans[i].mode # "null"}}
    IN /\ OwnLabels(p) = Planned(p)
       /\ {r.label : r \in held} = Needs(Planned(p))
       /\ \A r \in held : /\ r.parts \ {p} = Sharers(r.label) \ {p}
                          /\ r.mode = "shared" <=> Sharers(r.label) # {p}

\* Between migrations the local numbers in elements and slaves lead to the dof managers
\* the mesh has there, mirrored elements included (renumberDofManData, renumberElementData).
NumbersRight ==
  Quiet => \A p \in Proc :
    /\ \A i \in DOMAIN dom[p].elems :
         LET e == dom[p].elems[i]
         IN [k \in DOMAIN e.nodes |-> LabelOf(p, e.nodes[k])] = mesh.nodes[e.label]
    /\ \A i \in DOMAIN dom[p].dmans :
         LET r == dom[p].dmans[i]
         IN {LabelOf(p, m) : m \in r.masters} = mesh.masters[r.label]

\* Between migrations each local element averages over the elements the mesh gives it, and
\* the process holds exactly these as mirrors of the present owner, with null dof
\* managers for no more than their nodes (NonlocalMaterialWTP).
MirrorsExact ==
  Quiet => \A p \in Proc :
    LET remote == {dom[p].elems[i] : i \in RemoteOn(p)}
        nulls == {dom[p].dmans[i].label : i \in {i \in DOMAIN dom[p].dmans : dom[p].dmans[i].mode = "null"}}
    IN /\ \A i \in LocalElems(p) : dom[p].elems[i].table = mesh.near[dom[p].elems[i].label]
       /\ {r.label : r \in remote} = Mirrors(Planned(p))
       /\ \A r \in remote : r.parts = {plan[r.label]}
       /\ nulls = Needs(Mirrors(Planned(p))) \ Needs(Planned(p))

\* Whenever the solution goes on, the k-th value one process packs for another is the k-th
\* one the other unpacks, and every shared dof manager and mirrored element is covered
\* (NodeCommunicator, ElementCommunicator: nothing in the messages names the entities).
MapsMatch ==
  LET dl(p, map) == [k \in DOMAIN map |-> dom[p].dmans[map[k]].label]
      el(p, map) == [k \in DOMAIN map |-> dom[p].elems[map[k]].label]
      in(s) == {s[k] : k \in DOMAIN s}
      valid(p, q) == /\ in(maps[p].nodes[q]) \subseteq DOMAIN dom[p].dmans
                     /\ in(maps[p].send[q]) \union in(maps[p].recv[q]) \subseteq DOMAIN dom[p].elems
  IN AllAt("solve") => \A p \in Proc : \A q \in Proc \ {p} :
       /\ valid(p, q) /\ valid(q, p)
       /\ dl(p, maps[p].nodes[q]) = dl(q, maps[q].nodes[p])
       /\ el(p, maps[p].send[q]) = el(q, maps[q].recv[p])
       /\ in(dl(p, maps[p].nodes[q])) = Needs(Planned(p)) \cap Needs(Planned(q))
       /\ in(el(p, maps[p].recv[q])) = Mirrors(Planned(p)) \cap Planned(q)

\* A migration that has begun ends with all processes solving again: no process waits for
\* ever in one of the four exchanges of a migration.
MigrationEnds == AllAt("label") ~> AllAt("solve")
===============================================================================
