-------------------------- MODULE LoadBalancingProofs --------------------------
(***************************************************************************)
(* Migrations, for any number of processes and elements, any               *)
(* partitionings, any number of migrations and any order of messages.      *)
(*                                                                         *)
(* On every mesh a migration neither loses an element nor makes two        *)
(* working copies of it, as long as no process meets an error that stops   *)
(* the program (first part, MigrationInv).  If masters are primary and     *)
(* mirrored elements have no slave nodes, there is no such error, and      *)
(* between migrations all lists, local numbers, mirrors and communication  *)
(* maps are what the mesh and the partitioning ask for (second part,       *)
(* LayoutInv).                                                             *)
(***************************************************************************)
EXTENDS LoadBalancing, FiniteSetTheorems, TLAPS

-------------------------------------------------------------------------------
(* Sets of labels in ascending order *)

\* The place of l in the order of S.
Rank(S, l) == Cardinality({k \in S : k <= l})

LEMMA RankTyped ==
  ASSUME NEW S \in SUBSET Nat, IsFiniteSet(S), NEW l \in S
  PROVE  Rank(S, l) \in 1 .. Cardinality(S)
PROOF
<1>. DEFINE below == {k \in S : k <= l}
<1>1. IsFiniteSet(below) /\ Cardinality(below) <= Cardinality(S)
  BY FS_Subset
<1>2. Cardinality(below) \in Nat /\ Cardinality(S) \in Nat
  BY <1>1, FS_CardinalityType
<1>3. below # {}
  <2>1. l \in below
    OBVIOUS
  <2>. QED
    BY <2>1
<1>4. Cardinality(below) # 0
  BY <1>1, <1>3, FS_EmptySet
<1>. QED
  BY <1>1, <1>2, <1>4 DEF Rank

LEMMA RankIncreases ==
  ASSUME NEW S \in SUBSET Nat, IsFiniteSet(S), NEW l \in S, NEW m \in S, l < m
  PROVE  Rank(S, l) # Rank(S, m)
PROOF
<1>. DEFINE below(n) == {k \in S : k <= n}
<1>1. IsFiniteSet(below(m))
  BY FS_Subset
<1>2. below(l) \in SUBSET below(m)
  <2>1. \A k \in S : k <= l => k <= m
    BY S \subseteq Nat
  <2>. QED
    BY <2>1
<1>3. m \in below(m) /\ m \notin below(l)
  OBVIOUS
<1>4. below(l) # below(m)
  BY <1>3
<1>5. Cardinality(below(m)) # Cardinality(below(l))
  BY <1>1, <1>2, <1>4, FS_Subset
<1>. QED
  BY <1>5 DEF Rank

\* Every rank is that of exactly one member.
LEMMA RankOnto ==
  ASSUME NEW S \in SUBSET Nat, IsFiniteSet(S), NEW i \in 1 .. Cardinality(S)
  PROVE  \E l \in S : Rank(S, l) = i
PROOF
<1>. DEFINE n == Cardinality(S)
            r == [l \in S |-> Rank(S, l)]
<1>1. n \in Nat
  BY FS_CardinalityType
<1>2. r \in [S -> 1 .. n]
  BY RankTyped
<1>3. ASSUME NEW l \in S, NEW m \in S, r[l] = r[m]
      PROVE  l = m
  <2>1. ~(l < m) /\ ~(m < l)
    BY <1>3, RankIncreases
  <2>. QED
    BY <2>1
<1>4. r \in Injection(S, 1 .. n)
  BY <1>2, <1>3 DEF Injection, IsInjective
<1>5. IsFiniteSet(1 .. n) /\ Cardinality(1 .. n) = n
  BY <1>1, FS_Interval
<1>6. r \in Surjection(S, 1 .. n)
  BY <1>4, <1>5, FS_Injection
<1>7. PICK l \in S : r[l] = i
  BY <1>6 DEF Surjection
<1>. QED
  BY <1>7

\* Ascending lists exactly the members.
LEMMA AscendingLists ==
  ASSUME NEW S \in SUBSET Nat, IsFiniteSet(S)
  PROVE  /\ Cardinality(S) \in Nat
         /\ Ascending(S) \in [1 .. Cardinality(S) -> S]
         /\ \A l \in S : \E i \in 1 .. Cardinality(S) : Ascending(S)[i] = l
PROOF
<1>. DEFINE n == Cardinality(S)
<1>1. n \in Nat
  BY FS_CardinalityType
<1>2. ASSUME NEW i \in 1 .. n
      PROVE  /\ Ascending(S)[i] \in S
             /\ Rank(S, Ascending(S)[i]) = i
  <2>1. \E l \in S : Cardinality({k \in S : k <= l}) = i
    BY RankOnto DEF Rank
  <2>. QED
    BY <2>1 DEF Ascending, Rank
<1>3. Ascending(S) \in [1 .. n -> S]
  BY <1>2 DEF Ascending
<1>4. ASSUME NEW l \in S
      PROVE  Ascending(S)[Rank(S, l)] = l
  <2>. DEFINE i == Rank(S, l)
  <2>1. i \in 1 .. n
    BY RankTyped
  <2>2. Ascending(S)[i] \in S /\ Rank(S, Ascending(S)[i]) = i
    BY <1>2, <2>1
  <2>3. ~(Ascending(S)[i] < l) /\ ~(l < Ascending(S)[i])
    BY <2>2, RankIncreases
  <2>4. Ascending(S)[i] \in Nat /\ l \in Nat
    BY <2>2
  <2>. QED
    BY <2>3, <2>4
<1>. QED
  BY <1>1, <1>3, <1>4, RankTyped

-------------------------------------------------------------------------------
(* Open transactions *)

LabelsIn(S) == {r.label : r \in S}

LEMMA PutNew ==
  ASSUME NEW f, NEW S, NEW l \in LabelsIn(S)
  PROVE  Put(f, S)[l] \in S /\ Put(f, S)[l].label = l
PROOF
<1>1. \E r \in S : r.label = l
  BY DEF LabelsIn
<1>. QED
  BY <1>1 DEF Put, LabelsIn

LEMMA PutOld ==
  ASSUME NEW f, NEW S
  PROVE  /\ DOMAIN Put(f, S) = DOMAIN f \union LabelsIn(S)
         /\ \A l \in DOMAIN f \ LabelsIn(S) : Put(f, S)[l] = f[l]
PROOF BY DEF Put, LabelsIn

LEMMA GoneIs ==
  ASSUME NEW l
  PROVE  DOMAIN Gone(l) = {"label", "mode"} /\ Gone(l).label = l /\ Gone(l).mode = "gone"
PROOF BY DEF Gone

-------------------------------------------------------------------------------
(* Where the elements are *)

Of(owner, p) == {e \in Elem : owner[e] = p}

Entry(r) == {"label", "mode"} \subseteq DOMAIN r /\ r.label \in Elem

\* Lists and transactions hold records of elements.
ShapedAt(p) ==
  /\ DOMAIN dom[p] = {"dmans", "elems"} /\ DOMAIN trans[p] = {"dmans", "elems"}
  /\ \A i \in DOMAIN dom[p].elems : Entry(dom[p].elems[i])
  /\ \A l \in DOMAIN trans[p].elems : Entry(trans[p].elems[l]) /\ trans[p].elems[l].label = l

AllLocal(p) == \A i \in DOMAIN dom[p].elems : dom[p].elems[i].mode = "local"
RemoteApart(p) ==
  \A i \in DOMAIN dom[p].elems : dom[p].elems[i].mode # "local" =>
    dom[p].elems[i].label \notin OwnLabels(p)

\* Before p packs, its elements are those it owns.
Untouched == {"label", "shared", "depend", "depends", "migrate"}
BeforeAt(p, owner) ==
  pc[p] \in Untouched =>
    OwnLabels(p) = Of(owner, p) /\ DOMAIN trans[p].elems = {} /\ RemoteApart(p)

\* Until p commits, its transactions take away what leaves and add what has arrived.
Received(p) == IF pc[p] = "migrating" THEN got[p] ELSE Proc
MovingAt(p, owner) ==
  pc[p] \in {"migrating", "commit"} =>
    LET t == trans[p].elems
    IN /\ OwnLabels(p) = Of(owner, p)
       /\ \A e \in Of(owner, p) : e \in DOMAIN t <=> plan[e] # p
       /\ \A e \in Of(owner, p) : e \in DOMAIN t => t[e].mode = "gone"
       /\ \A e \in Elem \ Of(owner, p) :
            (e \in DOMAIN t /\ t[e].mode = "local") <=> (plan[e] = p /\ owner[e] \in Received(p))
       /\ \A e \in DOMAIN t : t[e].mode \in {"gone", "local"}
       /\ \A i \in DOMAIN dom[p].elems : dom[p].elems[i].label \notin DOMAIN t =>
            dom[p].elems[i].mode = "local"

\* What p has packed for q are the elements that go from p to q.
MailAt(p, owner) ==
  pc[p] = "migrating" => \A q \in Proc \ {p} :
    /\ {r.label : r \in mail[p][q].elems} = {e \in Of(owner, p) : plan[e] = q}
    /\ \A r \in mail[p][q].elems : Entry(r) /\ r.mode = "local"

\* After the commit p has what was planned; mirrors of other elements are on their way.
SettledAt(p) ==
  pc[p] \in {"wish", "mirroring", "commitMirrors", "maps", "solve"} =>
    /\ OwnLabels(p) = Of(plan, p) /\ RemoteApart(p)
    /\ \A e \in DOMAIN trans[p].elems : trans[p].elems[e].mode = "remote" /\ e \notin Of(plan, p)
    /\ pc[p] \in {"wish", "maps", "solve"} => DOMAIN trans[p].elems = {}
    /\ pc[p] \in {"wish", "mirroring", "commitMirrors"} => AllLocal(p)
    /\ pc[p] = "mirroring" => \A q \in Proc \ {p} : \A r \in mail[p][q].elems :
         Entry(r) /\ r.label \in Of(plan, p)

PlacedAt(p, owner) ==
  ShapedAt(p) /\ BeforeAt(p, owner) /\ MovingAt(p, owner) /\ MailAt(p, owner) /\ SettledAt(p)

\* Nobody has a message of a process that has not packed it.
RoundAt(p) ==
  /\ pc[p] = "migrate" => got[p] = {}
  /\ pc[p] = "migrating" => \A q \in got[p] : q # p /\ pc[q] = "migrating"

\* The processes are at most one step apart.
Phases == {{"label", "shared"}, {"depend", "depends"}, {"migrate", "migrating"}, {"commit", "wish"},
           {"mirroring"}, {"commitMirrors", "maps"}, {"solve"}}
Together == \E G \in Phases : \A p \in Proc : pc[p] \in G

TypeInv ==
  /\ DOMAIN dom = Proc /\ DOMAIN trans = Proc /\ DOMAIN mail = Proc /\ DOMAIN pc = Proc
  /\ got \in [Proc -> SUBSET Proc]
  /\ plan \in [Elem -> Proc]

Placed(owner) == \A p \in Proc : PlacedAt(p, owner)
RoundsInv == Together /\ \A p \in Proc : RoundAt(p)

MigrationInv == TypeInv /\ RoundsInv /\ \E owner \in [Elem -> Proc] : Placed(owner)

-------------------------------------------------------------------------------
(* The partitioned mesh the analysis starts from *)

LEMMA StartList ==
  ASSUME mesh \in Meshes, NEW p \in Proc, NEW owner \in [Elem -> Proc],
         NEW d, d = InitialDomain(p, owner)
  PROVE  /\ DOMAIN d = {"dmans", "elems"}
         /\ \A i \in DOMAIN d.elems :
              /\ Entry(d.elems[i])
              /\ d.elems[i].mode = "local" <=> owner[d.elems[i].label] = p
         /\ \A e \in Of(owner, p) : \E i \in DOMAIN d.elems : d.elems[i].label = e
PROOF
<1>. DEFINE own == {e \in Elem : owner[e] = p}
            S == own \union Mirrors(own)
            a == Ascending(S)
            n == Cardinality(S)
            eOrder == IF p % 2 = 0 THEN a ELSE [i \in DOMAIN a |-> a[Len(a) + 1 - i]]
<1>0. Mirrors(own) \subseteq Elem
  <2>1. \A e \in own : mesh.near[e] \subseteq Elem
    BY MeshAssumption
  <2>2. QED
    BY <2>1 DEF Mirrors
<1>1. S \in SUBSET Elem
  BY <1>0
<1>2. S \subseteq Nat /\ IsFiniteSet(S)
  BY <1>1, FS_Subset, MeshAssumption
<1>3. /\ n \in Nat
      /\ a \in [1 .. n -> S]
      /\ \A l \in S : \E i \in 1 .. n : a[i] = l
  BY <1>1, <1>2, AscendingLists
<1>. HIDE DEF a, n
<1>4. DOMAIN a = 1 .. n /\ Len(a) = n
  BY <1>3
<1>5. /\ eOrder \in [1 .. n -> S]
      /\ \A l \in S : \E i \in 1 .. n : eOrder[i] = l
  <2>1. CASE p % 2 = 0
    BY <1>3, <2>1
  <2>2. CASE p % 2 # 0
    <3>1. eOrder = [i \in 1 .. n |-> a[n + 1 - i]]
      BY <1>4, <2>2
    <3>2. \A i \in 1 .. n : n + 1 - i \in 1 .. n /\ n + 1 - (n + 1 - i) = i
      BY <1>3
    <3>3. eOrder \in [1 .. n -> S]
      BY <1>3, <3>1, <3>2
    <3>4. ASSUME NEW l \in S
          PROVE  \E i \in 1 .. n : eOrder[i] = l
      <4>1. PICK k \in 1 .. n : a[k] = l
        BY <1>3
      <4>2. n + 1 - k \in 1 .. n /\ eOrder[n + 1 - k] = a[k]
        BY <3>1, <3>2
      <4>. QED
        BY <4>1, <4>2
    <3>. QED
      BY <3>3, <3>4
  <2>. QED
    BY <2>1, <2>2
<1>6. /\ DOMAIN d = {"dmans", "elems"}
      /\ DOMAIN d.elems = DOMAIN eOrder
      /\ \A i \in DOMAIN eOrder :
           /\ {"label", "mode"} \subseteq DOMAIN d.elems[i]
           /\ d.elems[i].label = eOrder[i]
           /\ d.elems[i].mode = IF owner[eOrder[i]] = p THEN "local" ELSE "remote"
  BY DEF InitialDomain, a
<1>7. Of(owner, p) \subseteq S
  BY DEF Of
<1>. HIDE DEF eOrder, S
<1>8. ASSUME NEW i \in DOMAIN d.elems
      PROVE  /\ Entry(d.elems[i])
             /\ d.elems[i].mode = "local" <=> owner[d.elems[i].label] = p
  <2>1. i \in DOMAIN eOrder /\ i \in 1 .. n
    BY <1>5, <1>6
  <2>2. eOrder[i] \in Elem
    BY <1>1, <1>5, <2>1
  <2>3. d.elems[i].label = eOrder[i] /\ {"label", "mode"} \subseteq DOMAIN d.elems[i]
    BY <1>6, <2>1
  <2>4. Entry(d.elems[i])
    BY <2>2, <2>3 DEF Entry
  <2>5. d.elems[i].mode = "local" <=> owner[eOrder[i]] = p
    BY <1>6, <2>1
  <2>. QED
    BY <2>3, <2>4, <2>5
<1>9. ASSUME NEW e \in Of(owner, p)
      PROVE  \E i \in DOMAIN d.elems : d.elems[i].label = e
  <2>1. PICK i \in 1 .. n : eOrder[i] = e
    BY <1>5, <1>7
  <2>2. i \in DOMAIN d.elems /\ d.elems[i].label = eOrder[i]
    BY <1>5, <1>6, <2>1
  <2>. QED
    BY <2>1, <2>2
<1>. QED
  BY <1>6, <1>8, <1>9

LEMMA PlacedInit == Init => MigrationInv
PROOF
<1>. SUFFICES ASSUME Init
              PROVE  MigrationInv
  OBVIOUS
<1>1. PICK owner \in Owners : dom = [p \in Proc |-> InitialDomain(p, owner)] /\ plan = owner
  BY DEF Init
<1>2. mesh \in Meshes /\ owner \in [Elem -> Proc]
  BY MeshAssumption DEF Init
<1>3. pc = [p \in Proc |-> "maps"]
  BY DEF Init
<1>4. TypeInv
  BY <1>1, <1>2 DEF Init, TypeInv, NoMail
<1>5. RoundsInv
  BY <1>3 DEF RoundsInv, Together, Phases, RoundAt
<1>6. ASSUME NEW p \in Proc
      PROVE  PlacedAt(p, owner)
  <2>1. PICK d : d = InitialDomain(p, owner) /\ d = dom[p]
    BY <1>1
  <2>2. /\ DOMAIN d = {"dmans", "elems"}
        /\ \A i \in DOMAIN d.elems :
             /\ Entry(d.elems[i])
             /\ d.elems[i].mode = "local" <=> owner[d.elems[i].label] = p
        /\ \A e \in Of(owner, p) : \E i \in DOMAIN d.elems : d.elems[i].label = e
    <3>1. \A x : x = InitialDomain(p, owner) =>
            /\ DOMAIN x = {"dmans", "elems"}
            /\ \A i \in DOMAIN x.elems :
                 /\ Entry(x.elems[i])
                 /\ x.elems[i].mode = "local" <=> owner[x.elems[i].label] = p
            /\ \A e \in Of(owner, p) : \E i \in DOMAIN x.elems : x.elems[i].label = e
      BY <1>2, StartList
    <3>. QED
      BY <2>1, <3>1
  <2>3. trans[p] = [dmans |-> Empty, elems |-> Empty] /\ DOMAIN trans[p].elems = {}
    BY DEF Init, Empty
  <2>4. ShapedAt(p)
    BY <2>1, <2>2, <2>3 DEF ShapedAt
  <2>5. OwnLabels(p) = Of(owner, p)
    <3>. USE <2>1
    <3>1. ASSUME NEW i \in LocalElems(p)
          PROVE  d.elems[i].label \in Of(owner, p)
      BY <2>2 DEF LocalElems, Entry, Of
    <3>2. ASSUME NEW e \in Of(owner, p)
          PROVE  \E i \in LocalElems(p) : d.elems[i].label = e
      <4>1. PICK i \in DOMAIN d.elems : d.elems[i].label = e
        BY <2>2
      <4>2. d.elems[i].mode = "local"
        BY <2>2, <4>1 DEF Of
      <4>. QED
        BY <4>1, <4>2 DEF LocalElems
    <3>. QED
      BY <3>1, <3>2 DEF OwnLabels
  <2>6. RemoteApart(p)
    BY <2>1, <2>2, <2>5 DEF RemoteApart, Of
  <2>. QED
    BY <1>1, <1>3, <2>3, <2>4, <2>5, <2>6
       DEF PlacedAt, BeforeAt, Untouched, MovingAt, MailAt, SettledAt
<1>. QED
  BY <1>2, <1>4, <1>5, <1>6 DEF MigrationInv, Placed

-------------------------------------------------------------------------------
(* One working copy of every element *)

HereAt(p, e) == e \in OwnLabels(p) /\ e \notin DOMAIN trans[p].elems
ReceivedAt(p, e) == e \in DOMAIN trans[p].elems /\ trans[p].elems[e].mode = "local"
OnItsWay(p, q, e) ==
  p # q /\ pc[p] = "migrating" /\ p \notin got[q] /\ e \in {r.label : r \in mail[p][q].elems}

\* The three kinds of places follow from owner and plan.
LEMMA PlacesKnown ==
  ASSUME TypeInv, Together, NEW owner \in [Elem -> Proc], Placed(owner), NEW p \in Proc, NEW e \in Elem
  PROVE  /\ HereAt(p, e) <=> IF pc[p] \in Untouched THEN owner[e] = p
                             ELSE IF pc[p] \in {"migrating", "commit"} THEN owner[e] = p /\ plan[e] = p
                             ELSE plan[e] = p
         /\ ReceivedAt(p, e) <=> /\ pc[p] \in {"migrating", "commit"}
                                /\ owner[e] # p /\ plan[e] = p /\ owner[e] \in Received(p)
         /\ \A q \in Proc : OnItsWay(p, q, e) <=>
              p # q /\ pc[p] = "migrating" /\ p \notin got[q] /\ owner[e] = p /\ plan[e] = q
PROOF
<1>1. PlacedAt(p, owner)
  BY DEF Placed
<1>2. pc[p] \in Untouched \union {"migrating", "commit"}
                 \union {"wish", "mirroring", "commitMirrors", "maps", "solve"}
  BY DEF Together, Phases, Untouched
<1>3. CASE pc[p] \in Untouched
  <2>1. OwnLabels(p) = Of(owner, p) /\ DOMAIN trans[p].elems = {}
    BY <1>1, <1>3 DEF PlacedAt, BeforeAt
  <2>2. pc[p] \notin {"migrating", "commit"}
    BY <1>3 DEF Untouched
  <2>. QED
    BY <1>3, <2>1, <2>2 DEF HereAt, ReceivedAt, OnItsWay, Of
<1>4. CASE pc[p] \in {"migrating", "commit"}
  <2>. DEFINE t == trans[p].elems
  <2>1. /\ OwnLabels(p) = Of(owner, p)
        /\ \A f \in Of(owner, p) : f \in DOMAIN t <=> plan[f] # p
        /\ \A f \in Of(owner, p) : f \in DOMAIN t => t[f].mode = "gone"
        /\ \A f \in Elem \ Of(owner, p) :
             (f \in DOMAIN t /\ t[f].mode = "local") <=> (plan[f] = p /\ owner[f] \in Received(p))
    BY <1>1, <1>4 DEF PlacedAt, MovingAt
  <2>2. pc[p] = "migrating" => \A q \in Proc \ {p} :
          {r.label : r \in mail[p][q].elems} = {f \in Of(owner, p) : plan[f] = q}
    BY <1>1 DEF PlacedAt, MailAt
  <2>3. pc[p] \notin Untouched
    BY <1>4 DEF Untouched
  <2>4. e \in Of(owner, p) <=> owner[e] = p
    BY DEF Of
  <2>5. HereAt(p, e) <=> owner[e] = p /\ plan[e] = p
    BY <2>1, <2>4 DEF HereAt
  <2>6. ReceivedAt(p, e) <=> owner[e] # p /\ plan[e] = p /\ owner[e] \in Received(p)
    BY <2>1, <2>4 DEF ReceivedAt
  <2>7. ASSUME NEW q \in Proc
        PROVE  OnItsWay(p, q, e) <=>
                 p # q /\ pc[p] = "migrating" /\ p \notin got[q] /\ owner[e] = p /\ plan[e] = q
    <3>1. CASE p # q /\ pc[p] = "migrating"
      <4>1. e \in {r.label : r \in mail[p][q].elems} <=> e \in Of(owner, p) /\ plan[e] = q
        BY <2>2, <3>1
      <4>. QED
        BY <2>4, <3>1, <4>1 DEF OnItsWay
    <3>2. CASE ~(p # q /\ pc[p] = "migrating")
      BY <3>2 DEF OnItsWay
    <3>. QED
      BY <3>1, <3>2
  <2>. QED
    BY <1>4, <2>3, <2>5, <2>6, <2>7
<1>5. CASE pc[p] \in {"wish", "mirroring", "commitMirrors", "maps", "solve"}
  <2>1. /\ OwnLabels(p) = Of(plan, p)
        /\ \A f \in DOMAIN trans[p].elems : trans[p].elems[f].mode = "remote" /\ f \notin Of(plan, p)
    BY <1>1, <1>5 DEF PlacedAt, SettledAt
  <2>2. pc[p] \notin Untouched /\ pc[p] \notin {"migrating", "commit"}
    BY <1>5 DEF Untouched
  <2>. QED
    BY <1>5, <2>1, <2>2 DEF HereAt, ReceivedAt, OnItsWay, Of
<1>. QED
  BY <1>2, <1>3, <1>4, <1>5

LEMMA OneCopy == MigrationInv => ElementsOnce
PROOF
<1>. SUFFICES ASSUME MigrationInv, NEW e \in Elem
              PROVE  Cardinality(Copies(e)) = 1
  BY DEF ElementsOnce
<1>1. TypeInv /\ Together /\ \A p \in Proc : RoundAt(p)
  BY DEF MigrationInv, RoundsInv
<1>2. PICK owner \in [Elem -> Proc] : Placed(owner)
  BY DEF MigrationInv
<1>. DEFINE a == owner[e]
            b == plan[e]
<1>3. a \in Proc /\ b \in Proc
  BY <1>1 DEF TypeInv
<1>4. Copies(e) = {<<p, "here">> : p \in {p \in Proc : HereAt(p, e)}}
                  \union {<<p, "received">> : p \in {p \in Proc : ReceivedAt(p, e)}}
                  \union {x \in Proc \X Proc : OnItsWay(x[1], x[2], e)}
  BY DEF Copies, HereAt, ReceivedAt, OnItsWay
<1>5. ASSUME NEW p \in Proc
      PROVE  /\ HereAt(p, e) <=> IF pc[p] \in Untouched THEN a = p
                                 ELSE IF pc[p] \in {"migrating", "commit"} THEN a = p /\ b = p
                                 ELSE b = p
             /\ ReceivedAt(p, e) <=> /\ pc[p] \in {"migrating", "commit"}
                                    /\ a # p /\ b = p /\ a \in Received(p)
             /\ \A q \in Proc : OnItsWay(p, q, e) <=>
                  p # q /\ pc[p] = "migrating" /\ p \notin got[q] /\ a = p /\ b = q
  BY <1>1, <1>2, PlacesKnown
<1>. HIDE DEF a, b
<1>6. ASSUME NEW c \in Proc,
             \A p \in Proc : /\ HereAt(p, e) <=> p = c
                             /\ ~ReceivedAt(p, e)
                             /\ \A q \in Proc : ~OnItsWay(p, q, e)
      PROVE  Cardinality(Copies(e)) = 1
  <2>1. Copies(e) = {<<c, "here">>}
    BY <1>4, <1>6
  <2>. QED
    BY <2>1, FS_Singleton
<1>7. ASSUME NEW c \in Proc,
             \A p \in Proc : /\ ~HereAt(p, e)
                             /\ ReceivedAt(p, e) <=> p = c
                             /\ \A q \in Proc : ~OnItsWay(p, q, e)
      PROVE  Cardinality(Copies(e)) = 1
  <2>1. Copies(e) = {<<c, "received">>}
    BY <1>4, <1>7
  <2>. QED
    BY <2>1, FS_Singleton
<1>8. ASSUME \A p \in Proc : /\ ~HereAt(p, e) /\ ~ReceivedAt(p, e)
                           /\ \A q \in Proc : OnItsWay(p, q, e) <=> p = a /\ q = b
      PROVE  Cardinality(Copies(e)) = 1
  <2>1. ASSUME NEW x \in Proc \X Proc
        PROVE  OnItsWay(x[1], x[2], e) <=> x = <<a, b>>
    <3>1. x[1] \in Proc /\ x[2] \in Proc /\ x = <<x[1], x[2]>>
      OBVIOUS
    <3>2. OnItsWay(x[1], x[2], e) <=> x[1] = a /\ x[2] = b
      BY <1>8, <3>1
    <3>. QED
      BY <3>1, <3>2
  <2>2. {x \in Proc \X Proc : OnItsWay(x[1], x[2], e)} = {<<a, b>>}
    BY <1>3, <2>1, <<a, b>> \in Proc \X Proc
  <2>3. {p \in Proc : HereAt(p, e)} = {} /\ {p \in Proc : ReceivedAt(p, e)} = {}
    BY <1>8
  <2>4. Copies(e) = {<<a, b>>}
    BY <1>4, <2>2, <2>3
  <2>. QED
    BY <2>4, FS_Singleton
<1>9. PICK G \in Phases : \A p \in Proc : pc[p] \in G
  BY <1>1 DEF Together
<1>10. CASE G \in {{"label", "shared"}, {"depend", "depends"}}
  <2>1. ASSUME NEW p \in Proc
        PROVE  pc[p] \in Untouched /\ pc[p] \notin {"migrating", "commit"}
    BY <1>9, <1>10 DEF Untouched
  <2>. QED
    BY <1>3, <1>5, <1>6, <2>1
<1>11. CASE G \in {{"mirroring"}, {"commitMirrors", "maps"}, {"solve"}}
  <2>1. ASSUME NEW p \in Proc
        PROVE  pc[p] \notin Untouched /\ pc[p] \notin {"migrating", "commit"}
    BY <1>9, <1>11 DEF Untouched
  <2>. QED
    BY <1>3, <1>5, <1>6, <2>1
<1>12. CASE G = {"migrate", "migrating"}
  <2>1. ASSUME NEW p \in Proc
        PROVE  /\ pc[p] \in Untouched <=> pc[p] = "migrate"
               /\ pc[p] \in {"migrating", "commit"} <=> pc[p] = "migrating"
               /\ pc[p] \in {"migrate", "migrating"}
               /\ pc[p] = "migrate" => got[p] = {}
               /\ pc[p] = "migrating" => Received(p) = got[p] /\ \A q \in got[p] : pc[q] = "migrating"
    BY <1>1, <1>9, <1>12 DEF Untouched, RoundAt, Received
  <2>2. ASSUME NEW p \in Proc
        PROVE  /\ HereAt(p, e) <=> a = p /\ (pc[a] = "migrate" \/ a = b)
               /\ ReceivedAt(p, e) <=> a # p /\ b = p /\ a \in got[p]
               /\ \A q \in Proc : OnItsWay(p, q, e) <=>
                    a = p /\ b = q /\ p # q /\ pc[p] = "migrating" /\ p \notin got[q]
    <3>1. HereAt(p, e) <=> a = p /\ (pc[a] = "migrate" \/ a = b)
      BY <1>5, <2>1
    <3>2. ReceivedAt(p, e) <=> a # p /\ b = p /\ a \in got[p]
      BY <1>5, <2>1
    <3>. QED
      BY <1>5, <3>1, <3>2
  <2>3. CASE pc[a] = "migrate"
    <3>1. \A p \in Proc : a \notin got[p]
      BY <1>3, <2>1, <2>3
    <3>. QED
      BY <1>3, <1>6, <2>2, <2>3, <3>1
  <2>4. CASE pc[a] # "migrate" /\ a = b
    BY <1>3, <1>6, <2>2, <2>4
  <2>5. CASE pc[a] # "migrate" /\ a # b /\ a \notin got[b]
    <3>1. pc[a] = "migrating"
      BY <1>3, <2>1, <2>5
    <3>2. ASSUME NEW p \in Proc
          PROVE  ~HereAt(p, e) /\ ~ReceivedAt(p, e)
      BY <2>2, <2>5
    <3>3. ASSUME NEW p \in Proc, NEW q \in Proc
          PROVE  OnItsWay(p, q, e) <=> p = a /\ q = b
      BY <2>2, <2>5, <3>1
    <3>4. \A p \in Proc : /\ ~HereAt(p, e) /\ ~ReceivedAt(p, e)
                          /\ \A q \in Proc : OnItsWay(p, q, e) <=> p = a /\ q = b
      BY <3>2, <3>3
    <3>. QED
      BY <1>8, <3>4
  <2>6. CASE pc[a] # "migrate" /\ a # b /\ a \in got[b]
    <3>1. ASSUME NEW p \in Proc
          PROVE  ~HereAt(p, e) /\ (ReceivedAt(p, e) <=> p = b)
      BY <2>2, <2>6
    <3>2. ASSUME NEW p \in Proc, NEW q \in Proc
          PROVE  ~OnItsWay(p, q, e)
      BY <2>2, <2>6
    <3>. QED
      BY <1>3, <1>7, <3>1, <3>2
  <2>. QED
    BY <2>3, <2>4, <2>5, <2>6
<1>13. CASE G = {"commit", "wish"}
  <2>1. ASSUME NEW p \in Proc
        PROVE  /\ HereAt(p, e) <=> b = p /\ (pc[b] = "commit" => a = b)
               /\ ReceivedAt(p, e) <=> b = p /\ pc[b] = "commit" /\ a # b
               /\ \A q \in Proc : ~OnItsWay(p, q, e)
    <3>1. /\ pc[p] \notin Untouched /\ pc[p] # "migrating"
          /\ pc[p] \in {"migrating", "commit"} <=> pc[p] = "commit"
          /\ Received(p) = Proc
      BY <1>9, <1>13 DEF Untouched, Received
    <3>. QED
      BY <1>3, <1>5, <3>1
  <2>2. CASE pc[b] = "commit" /\ a # b
    BY <1>3, <1>7, <2>1, <2>2
  <2>3. CASE ~(pc[b] = "commit" /\ a # b)
    BY <1>3, <1>6, <2>1, <2>3
  <2>. QED
    BY <2>2, <2>3
<1>. QED
  BY <1>9, <1>10, <1>11, <1>12, <1>13 DEF Phases

-------------------------------------------------------------------------------
(* Steps of one process *)

LEMMA OthersStay ==
  ASSUME NEW q \in Proc, NEW owner, PlacedAt(q, owner), plan' = plan,
         dom'[q] = dom[q], trans'[q] = trans[q], mail'[q] = mail[q], got'[q] = got[q], pc'[q] = pc[q]
  PROVE  PlacedAt(q, owner)'
PROOF
<1>1. OwnLabels(q)' = OwnLabels(q)
  BY DEF OwnLabels, LocalElems
<1>2. ShapedAt(q)' /\ (AllLocal(q) => AllLocal(q)') /\ (RemoteApart(q) => RemoteApart(q)')
  BY <1>1 DEF PlacedAt, ShapedAt, AllLocal, RemoteApart
<1>3. BeforeAt(q, owner)'
  BY <1>1, <1>2 DEF PlacedAt, BeforeAt
<1>4. Received(q)' = Received(q)
  BY DEF Received
<1>5. MovingAt(q, owner)'
  BY <1>1, <1>4 DEF PlacedAt, MovingAt
<1>6. MailAt(q, owner)'
  BY DEF PlacedAt, MailAt
<1>7. SettledAt(q)'
  BY <1>1, <1>2 DEF PlacedAt, SettledAt
<1>. QED
  BY <1>2, <1>3, <1>5, <1>6, <1>7 DEF PlacedAt

\* The steps a process takes on its own; they do not leave its phase.
Within == {<<"label", "shared">>, <<"depend", "depends">>, <<"migrate", "migrating">>,
           <<"commit", "wish">>, <<"commitMirrors", "maps">>}

LEMMA OneMoves ==
  ASSUME TypeInv, TypeInv', RoundsInv, NEW owner \in [Elem -> Proc], Placed(owner), NEW p \in Proc,
         plan' = plan,
         \A q \in Proc \ {p} : /\ dom'[q] = dom[q] /\ trans'[q] = trans[q] /\ mail'[q] = mail[q]
                               /\ got'[q] = got[q] /\ pc'[q] = pc[q],
         pc'[p] = pc[p] \/ <<pc[p], pc'[p]>> \in Within,
         PlacedAt(p, owner)', RoundAt(p)'
  PROVE  MigrationInv'
PROOF
<1>1. Placed(owner)'
  <2>1. ASSUME NEW q \in Proc
        PROVE  PlacedAt(q, owner)'
    BY OthersStay DEF Placed
  <2>. QED
    BY <2>1 DEF Placed
<1>2. Together'
  <2>1. PICK G \in Phases : \A q \in Proc : pc[q] \in G
    BY DEF RoundsInv, Together
  <2>2. pc'[p] \in G
    BY <2>1 DEF Phases, Within
  <2>3. \A q \in Proc : pc'[q] \in G
    BY <2>1, <2>2
  <2>. QED
    BY <2>3 DEF Together
<1>3. ASSUME NEW q \in Proc
      PROVE  RoundAt(q)'
  <2>1. CASE q = p
    BY <2>1
  <2>2. CASE q # p
    <3>1. pc[p] = "migrating" => pc'[p] = "migrating"
      BY DEF Within
    <3>2. \A r \in Proc : pc[r] = "migrating" => pc'[r] = "migrating"
      BY <3>1
    <3>3. got[q] \subseteq Proc /\ got'[q] = got[q] /\ pc'[q] = pc[q]
      BY <2>2 DEF TypeInv
    <3>. QED
      BY <3>2, <3>3 DEF RoundsInv, RoundAt
  <2>. QED
    BY <2>1, <2>2
<1>. QED
  BY <1>1, <1>2, <1>3 DEF MigrationInv, RoundsInv

LEMMA UntouchedStays ==
  ASSUME NEW p \in Proc, NEW owner, PlacedAt(p, owner), pc[p] \in Untouched,
         pc'[p] \in Untouched, dom'[p] = dom[p], trans'[p] = trans[p]
  PROVE  PlacedAt(p, owner)'
PROOF
<1>1. OwnLabels(p)' = OwnLabels(p)
  BY DEF OwnLabels, LocalElems
<1>2. ShapedAt(p)' /\ (RemoteApart(p) => RemoteApart(p)')
  BY <1>1 DEF PlacedAt, ShapedAt, RemoteApart
<1>3. BeforeAt(p, owner)'
  BY <1>1, <1>2 DEF PlacedAt, BeforeAt
<1>4. MovingAt(p, owner)' /\ MailAt(p, owner)' /\ SettledAt(p)'
  BY DEF MovingAt, MailAt, SettledAt, Untouched
<1>. QED
  BY <1>2, <1>3, <1>4 DEF PlacedAt

\* Labelling and the exchange of dependencies leave the elements alone.
LEMMA LabelStep ==
  ASSUME MigrationInv, EntitiesAvailable', NEW p \in Proc,
         \/ PackSharedPartitions(p) \/ PackDependencies(p)
         \/ \E q \in Proc : UnpackSharedPartitions(p, q) \/ UnpackDependencies(p, q)
  PROVE  MigrationInv'
PROOF
<1>1. TypeInv /\ RoundsInv
  BY DEF MigrationInv
<1>2. PICK owner \in [Elem -> Proc] : Placed(owner)
  BY DEF MigrationInv
<1>3. DOMAIN pc = Proc /\ DOMAIN mail = Proc /\ got \in [Proc -> SUBSET Proc]
  BY <1>1 DEF TypeInv
<1>4. dom' = dom /\ trans' = trans /\ plan' = plan
  BY DEF PackSharedPartitions, PackDependencies, UnpackSharedPartitions, UnpackDependencies
<1>5. /\ DOMAIN mail' = Proc /\ \A q \in Proc \ {p} : mail'[q] = mail[q]
      /\ got' \in [Proc -> SUBSET Proc] /\ \A q \in Proc \ {p} : got'[q] = got[q]
  <2>1. CASE PackSharedPartitions(p)
    BY <1>3, <2>1 DEF PackSharedPartitions
  <2>2. CASE PackDependencies(p)
    BY <1>3, <2>2 DEF PackDependencies
  <2>3. CASE \E q \in Proc : UnpackSharedPartitions(p, q)
    <3>1. PICK q \in Proc : UnpackSharedPartitions(p, q)
      BY <2>3
    <3>2. mail' = mail /\ got' = [got EXCEPT ![p] = @ \union {q}]
      BY <3>1 DEF UnpackSharedPartitions
    <3>. QED
      BY <1>3, <3>2
  <2>4. CASE \E q \in Proc : UnpackDependencies(p, q)
    BY <1>3, <2>4 DEF UnpackDependencies
  <2>. QED
    BY <2>1, <2>2, <2>3, <2>4
<1>6. /\ DOMAIN pc' = Proc /\ \A q \in Proc \ {p} : pc'[q] = pc[q]
      /\ pc[p] \in Untouched /\ pc'[p] \in {"shared", "depends"}
      /\ pc'[p] = pc[p] \/ <<pc[p], pc'[p]>> \in Within
  <2>1. CASE PackSharedPartitions(p)
    BY <1>3, <2>1 DEF PackSharedPartitions, Goto, Untouched, Within
  <2>2. CASE PackDependencies(p)
    BY <1>3, <2>2 DEF PackDependencies, Goto, Untouched, Within
  <2>3. CASE \E q \in Proc : UnpackSharedPartitions(p, q)
    <3>1. pc[p] = "shared" /\ (UNCHANGED pc \/ Goto(p, "aborted"))
      BY <2>3 DEF UnpackSharedPartitions, MayUnpack
    <3>2. pc'[p] # "aborted"
      BY DEF EntitiesAvailable
    <3>. QED
      BY <1>3, <3>1, <3>2 DEF Goto, Untouched
  <2>4. CASE \E q \in Proc : UnpackDependencies(p, q)
    BY <1>3, <2>4 DEF UnpackDependencies, MayUnpack, Untouched
  <2>. QED
    BY <2>1, <2>2, <2>3, <2>4
<1>7. PlacedAt(p, owner)'
  BY <1>2, <1>4, <1>6, UntouchedStays DEF Placed, Untouched
<1>8. RoundAt(p)'
  BY <1>6 DEF RoundAt
<1>9. TypeInv'
  BY <1>1, <1>4, <1>5, <1>6 DEF TypeInv
<1>. QED
  BY <1>1, <1>2, <1>4, <1>5, <1>6, <1>7, <1>8, <1>9, OneMoves

\* What is sent of an element is its record with its label and its mode.
LEMMA SentElement ==
  ASSUME NEW p \in Proc, ShapedAt(p), NEW i \in DOMAIN dom[p].elems,
         NEW r, r = [GlobalElem(p, i) EXCEPT !.table = {}]
  PROVE  Entry(r) /\ r.label = dom[p].elems[i].label /\ r.mode = dom[p].elems[i].mode
PROOF
<1>. DEFINE x == dom[p].elems[i]
<1>1. {"label", "mode"} \subseteq DOMAIN x /\ x.label \in Elem
  BY DEF ShapedAt, Entry
<1>2. PICK y : y = GlobalElem(p, i)
  OBVIOUS
<1>3. DOMAIN y = DOMAIN x /\ y.label = x.label /\ y.mode = x.mode
  BY <1>1, <1>2 DEF GlobalElem
<1>. HIDE DEF x
<1>4. r = [y EXCEPT !.table = {}]
  BY <1>2
<1>5. DOMAIN r = DOMAIN y /\ r.label = y.label /\ r.mode = y.mode
  BY <1>1, <1>3, <1>4
<1>. QED
  BY <1>1, <1>3, <1>5 DEF Entry, x

\* p sends its elements that are planned for q.
LEMMA MessageIs ==
  ASSUME NEW p \in Proc, ShapedAt(p), NEW q \in Proc
  PROVE  /\ {r.label : r \in MigratingData(p, q).elems} = {e \in OwnLabels(p) : plan[e] = q}
         /\ \A r \in MigratingData(p, q).elems : Entry(r) /\ r.mode = "local"
PROOF
<1>. DEFINE I == {i \in LocalElems(p) : plan[dom[p].elems[i].label] = q}
            Sent(i) == [GlobalElem(p, i) EXCEPT !.table = {}]
<1>1. MigratingData(p, q).elems = {Sent(i) : i \in I}
  BY DEF MigratingData
<1>2. ASSUME NEW i \in I
      PROVE  Entry(Sent(i)) /\ Sent(i).label = dom[p].elems[i].label /\ Sent(i).mode = "local"
  <2>1. i \in DOMAIN dom[p].elems /\ dom[p].elems[i].mode = "local"
    BY DEF LocalElems
  <2>2. PICK r : r = Sent(i)
    OBVIOUS
  <2>. QED
    BY <2>1, <2>2, SentElement
<1>. HIDE DEF Sent
<1>3. {e \in OwnLabels(p) : plan[e] = q} = {dom[p].elems[i].label : i \in I}
  BY DEF OwnLabels
<1>. HIDE DEF I
<1>4. {r.label : r \in {Sent(i) : i \in I}} = {Sent(i).label : i \in I}
  OBVIOUS
<1>5. {Sent(i).label : i \in I} = {dom[p].elems[i].label : i \in I}
  BY <1>2
<1>. QED
  BY <1>1, <1>2, <1>3, <1>4, <1>5

LEMMA PackMigratingStep ==
  ASSUME MigrationInv, NEW p \in Proc, PackMigrating(p)
  PROVE  MigrationInv'
PROOF
<1>1. TypeInv /\ RoundsInv
  BY DEF MigrationInv
<1>2. PICK owner \in [Elem -> Proc] : Placed(owner)
  BY DEF MigrationInv
<1>3. DOMAIN pc = Proc /\ DOMAIN mail = Proc /\ DOMAIN dom = Proc /\ DOMAIN trans = Proc
  BY <1>1 DEF TypeInv
<1>4. pc[p] = "migrate" /\ pc' = [pc EXCEPT ![p] = "migrating"]
  BY DEF PackMigrating, Goto
<1>5. /\ OwnLabels(p) = Of(owner, p) /\ DOMAIN trans[p].elems = {}
      /\ RemoteApart(p) /\ ShapedAt(p) /\ got[p] = {}
  BY <1>1, <1>2, <1>4 DEF Placed, PlacedAt, BeforeAt, Untouched, RoundsInv, RoundAt
<1>. DEFINE L == dom[p].elems
            goneElems == {i \in DOMAIN L : RemovedElem(p, i)}
            t == trans'[p].elems
<1>6. /\ plan' = plan /\ got' = got
      /\ DOMAIN dom' = Proc /\ DOMAIN dom'[p] = {"dmans", "elems"} /\ dom'[p].elems = L
      /\ \A q \in Proc \ {p} : dom'[q] = dom[q]
  BY <1>3, <1>5 DEF PackMigrating, ShapedAt
<1>7. /\ DOMAIN mail' = Proc /\ \A q \in Proc \ {p} : mail'[q] = mail[q]
      /\ \A q \in Proc \ {p} : mail'[p][q] = MigratingData(p, q)
  BY <1>3 DEF PackMigrating
<1>8. /\ DOMAIN trans' = Proc /\ \A q \in Proc \ {p} : trans'[q] = trans[q]
      /\ DOMAIN trans'[p] = {"dmans", "elems"}
      /\ t = Put(trans[p].elems, {Gone(L[i].label) : i \in goneElems})
  BY <1>3 DEF PackMigrating
<1>. HIDE DEF t
<1>9. /\ DOMAIN t = {L[i].label : i \in goneElems}
      /\ \A e \in DOMAIN t : e \in Elem /\ t[e] = Gone(e)
  <2>. DEFINE S == {Gone(L[i].label) : i \in goneElems}
  <2>1. \A r \in S : r = Gone(r.label)
    BY GoneIs
  <2>2. LabelsIn(S) = {L[i].label : i \in goneElems}
    <3>1. \A i \in goneElems : Gone(L[i].label).label = L[i].label
      BY GoneIs
    <3>. QED
      BY <3>1 DEF LabelsIn
  <2>. HIDE DEF S
  <2>3. /\ DOMAIN t = DOMAIN trans[p].elems \union {L[i].label : i \in goneElems}
        /\ \A e \in {L[i].label : i \in goneElems} : t[e] \in S /\ t[e].label = e
    <3>1. t = Put(trans[p].elems, S)
      BY <1>8 DEF S
    <3>2. DOMAIN t = DOMAIN trans[p].elems \union LabelsIn(S)
      BY <3>1, PutOld
    <3>3. \A e \in LabelsIn(S) : t[e] \in S /\ t[e].label = e
      BY <3>1, PutNew
    <3>. HIDE DEF goneElems, L
    <3>. QED
      BY <2>2, <3>2, <3>3
  <2>4. \A i \in DOMAIN L : L[i].label \in Elem
    BY <1>5 DEF ShapedAt, Entry
  <2>. QED
    BY <1>5, <2>1, <2>2, <2>3, <2>4
<1>10. OwnLabels(p)' = Of(owner, p)
  BY <1>5, <1>6 DEF OwnLabels, LocalElems
<1>11. ShapedAt(p)'
  <2>1. \A e \in DOMAIN t : Entry(t[e]) /\ t[e].label = e
    BY <1>9, GoneIs DEF Entry
  <2>. QED
    BY <1>5, <1>6, <1>8, <2>1 DEF ShapedAt, t
<1>12. ASSUME NEW e \in Of(owner, p)
       PROVE  e \in DOMAIN t <=> plan[e] # p
  <2>1. ASSUME NEW i \in goneElems, L[i].label = e
        PROVE  plan[e] # p
    <3>1. L[i].mode = "local"
      BY <1>5, <2>1 DEF RemoteApart
    <3>. QED
      BY <2>1, <3>1 DEF RemovedElem
  <2>2. ASSUME plan[e] # p
        PROVE  e \in {L[i].label : i \in goneElems}
    <3>1. PICK i \in LocalElems(p) : L[i].label = e
      BY <1>5 DEF OwnLabels
    <3>. QED
      BY <2>2, <3>1 DEF RemovedElem, LocalElems
  <2>. QED
    BY <1>9, <2>1, <2>2
<1>13. \A i \in DOMAIN L : L[i].label \notin DOMAIN t => L[i].mode = "local"
  BY <1>9 DEF RemovedElem
<1>14. MovingAt(p, owner)'
  <2>1. Received(p)' = {}
    BY <1>3, <1>4, <1>5, <1>6 DEF Received
  <2>2. \A e \in DOMAIN t : t[e].mode = "gone"
    BY <1>9, GoneIs
  <2>. QED
    BY <1>6, <1>10, <1>12, <1>13, <2>1, <2>2 DEF MovingAt, t
<1>15. MailAt(p, owner)'
  <2>1. ASSUME NEW q \in Proc \ {p}
        PROVE  /\ {r.label : r \in mail'[p][q].elems} = {e \in Of(owner, p) : plan'[e] = q}
               /\ \A r \in mail'[p][q].elems : Entry(r) /\ r.mode = "local"
    BY <1>5, <1>6, <1>7, MessageIs
  <2>. QED
    BY <2>1 DEF MailAt
<1>16. PlacedAt(p, owner)'
  BY <1>3, <1>4, <1>11, <1>14, <1>15 DEF PlacedAt, BeforeAt, SettledAt, Untouched
<1>17. RoundAt(p)'
  BY <1>3, <1>4, <1>5, <1>6 DEF RoundAt
<1>18. TypeInv'
  BY <1>1, <1>3, <1>4, <1>6, <1>7, <1>8 DEF TypeInv
<1>19. /\ \A q \in Proc \ {p} : pc'[q] = pc[q]
       /\ <<pc[p], pc'[p]>> \in Within
  BY <1>3, <1>4 DEF Within
<1>. QED
  BY <1>1, <1>2, <1>6, <1>7, <1>8, <1>16, <1>17, <1>18, <1>19, OneMoves

LEMMA UnpackMigratingStep ==
  ASSUME MigrationInv, EntitiesAvailable', NEW p \in Proc, NEW q \in Proc, UnpackMigrating(p, q)
  PROVE  MigrationInv'
PROOF
<1>1. TypeInv /\ RoundsInv
  BY DEF MigrationInv
<1>2. PICK owner \in [Elem -> Proc] : Placed(owner)
  BY DEF MigrationInv
<1>3. /\ DOMAIN pc = Proc /\ DOMAIN dom = Proc /\ DOMAIN trans = Proc
      /\ got \in [Proc -> SUBSET Proc]
  BY <1>1 DEF TypeInv
<1>4. p # q /\ q \notin got[p] /\ pc[p] = "migrating" /\ pc[q] = "migrating"
  BY DEF UnpackMigrating, MayUnpack
<1>5. pc' = pc
  <2>1. UNCHANGED pc \/ Goto(p, "aborted")
    BY DEF UnpackMigrating
  <2>. QED
    BY <1>3, <2>1 DEF Goto, EntitiesAvailable
<1>. DEFINE t == trans[p].elems
            u == trans'[p].elems
            M == mail[q][p].elems
            L == {e \in Of(owner, q) : plan[e] = p}
<1>6. /\ ShapedAt(p) /\ MovingAt(p, owner) /\ MailAt(p, owner) /\ MailAt(q, owner)
  BY <1>2 DEF Placed, PlacedAt
<1>7. /\ {r.label : r \in M} = L
      /\ \A r \in M : Entry(r) /\ r.mode = "local"
  BY <1>4, <1>6 DEF MailAt
<1>8. /\ dom' = dom /\ plan' = plan /\ mail' = mail
      /\ got' = [got EXCEPT ![p] = @ \union {q}]
  BY DEF UnpackMigrating
<1>9. /\ DOMAIN trans' = Proc /\ \A o \in Proc \ {p} : trans'[o] = trans[o]
      /\ DOMAIN trans'[p] = {"dmans", "elems"}
      /\ u = Put(t, M)
  BY <1>3 DEF UnpackMigrating
<1>. HIDE DEF u, M
<1>10. /\ DOMAIN u = DOMAIN t \union L
       /\ \A e \in L : Entry(u[e]) /\ u[e].label = e /\ u[e].mode = "local"
       /\ \A e \in DOMAIN t \ L : u[e] = t[e]
  <2>1. L = LabelsIn(M)
    BY <1>7 DEF LabelsIn
  <2>. HIDE DEF t, L
  <2>2. /\ DOMAIN u = DOMAIN t \union L
        /\ \A e \in L : u[e] \in M /\ u[e].label = e
        /\ \A e \in DOMAIN t \ L : u[e] = t[e]
    <3>1. u = Put(t, M)
      BY <1>9
    <3>2. DOMAIN u = DOMAIN t \union L
      BY <2>1, <3>1, PutOld
    <3>3. \A e \in DOMAIN t \ L : u[e] = t[e]
      BY <2>1, <3>1, PutOld
    <3>4. \A e \in L : u[e] \in M /\ u[e].label = e
      BY <2>1, <3>1, PutNew
    <3>. QED
      BY <3>2, <3>3, <3>4
  <2>. QED
    BY <1>7, <2>2
<1>11. ShapedAt(p)'
  <2>1. \A e \in DOMAIN u : Entry(u[e]) /\ u[e].label = e
    BY <1>6, <1>10 DEF ShapedAt
  <2>. QED
    BY <1>6, <1>8, <1>9, <2>1 DEF ShapedAt, u
<1>12. OwnLabels(p)' = OwnLabels(p)
  BY <1>8 DEF OwnLabels, LocalElems
<1>13. Received(p) = got[p] /\ Received(p)' = got[p] \union {q}
  BY <1>3, <1>4, <1>5, <1>8 DEF Received
<1>14. MovingAt(p, owner)'
  <2>1. /\ OwnLabels(p) = Of(owner, p)
        /\ \A e \in Of(owner, p) : e \in DOMAIN t <=> plan[e] # p
        /\ \A e \in Of(owner, p) : e \in DOMAIN t => t[e].mode = "gone"
        /\ \A e \in Elem \ Of(owner, p) :
             (e \in DOMAIN t /\ t[e].mode = "local") <=> (plan[e] = p /\ owner[e] \in got[p])
        /\ \A e \in DOMAIN t : t[e].mode \in {"gone", "local"}
        /\ \A i \in DOMAIN dom[p].elems : dom[p].elems[i].label \notin DOMAIN t =>
             dom[p].elems[i].mode = "local"
    BY <1>4, <1>6, <1>13 DEF MovingAt
  <2>. HIDE DEF t
  <2>2. \A e \in Of(owner, p) : e \notin L
    BY <1>4 DEF Of
  <2>3. \A e \in Of(owner, p) : e \in DOMAIN u <=> plan[e] # p
    BY <1>10, <2>1, <2>2
  <2>4. \A e \in Of(owner, p) : e \in DOMAIN u => u[e].mode = "gone"
    BY <1>10, <2>1, <2>2
  <2>5. ASSUME NEW e \in Elem \ Of(owner, p)
        PROVE  (e \in DOMAIN u /\ u[e].mode = "local")
                 <=> (plan[e] = p /\ owner[e] \in got[p] \union {q})
    <3>1. e \in L <=> owner[e] = q /\ plan[e] = p
      BY DEF Of
    <3>2. CASE e \in L
      BY <1>10, <3>1, <3>2
    <3>3. CASE e \notin L
      BY <1>10, <2>1, <3>1, <3>3
    <3>. QED
      BY <3>2, <3>3
  <2>6. \A e \in DOMAIN u : u[e].mode \in {"gone", "local"}
    BY <1>10, <2>1
  <2>7. \A i \in DOMAIN dom[p].elems : dom[p].elems[i].label \notin DOMAIN u =>
          dom[p].elems[i].mode = "local"
    BY <1>10, <2>1
  <2>. QED
    BY <1>8, <1>12, <1>13, <2>1, <2>3, <2>4, <2>5, <2>6, <2>7 DEF MovingAt, u
<1>15. MailAt(p, owner)'
  BY <1>5, <1>6, <1>8 DEF MailAt
<1>16. PlacedAt(p, owner)'
  BY <1>4, <1>5, <1>11, <1>14, <1>15 DEF PlacedAt, BeforeAt, SettledAt, Untouched
<1>17. RoundAt(p)'
  BY <1>1, <1>3, <1>4, <1>5, <1>8 DEF RoundAt, RoundsInv
<1>18. TypeInv'
  BY <1>1, <1>3, <1>5, <1>8, <1>9 DEF TypeInv
<1>19. \A o \in Proc \ {p} : got'[o] = got[o]
  BY <1>3, <1>8
<1>. QED
  BY <1>1, <1>2, <1>5, <1>8, <1>9, <1>16, <1>17, <1>18, <1>19, OneMoves

-------------------------------------------------------------------------------
(* Commits *)

Entries(list) == \A i \in DOMAIN list : Entry(list[i])
Keyed(u) == \A l \in DOMAIN u : Entry(u[l]) /\ u[l].label = l

\* After the transactions u of a list, each element of c is as its transaction says, or as it
\* was, and every element that remains is there.
Follows(c, list, u) ==
  /\ \A k \in DOMAIN c :
       /\ Entry(c[k])
       /\ \/ /\ c[k].label \in DOMAIN u
             /\ u[c[k].label].mode # "gone" /\ c[k].mode = u[c[k].label].mode
          \/ /\ c[k].label \notin DOMAIN u
             /\ \E i \in DOMAIN list : list[i].label = c[k].label /\ list[i].mode = c[k].mode
  /\ \A l \in Remaining(list, u) : \E k \in DOMAIN c : c[k].label = l

LEMMA CommittedElems ==
  ASSUME NEW d, NEW t, NEW c, c = Committed(d, t), DOMAIN d = {"dmans", "elems"},
         Entries(d.elems), Keyed(t.elems)
  PROVE  DOMAIN c = {"dmans", "elems"} /\ Follows(c.elems, d.elems, t.elems)
PROOF
<1>. DEFINE L == d.elems
            u == t.elems
            R == Remaining(L, u)
<1>1. CASE t.dmans = Empty /\ t.elems = Empty
  <2>1. c = d
    BY <1>1 DEF Committed
  <2>2. DOMAIN u = {}
    BY <1>1 DEF Empty
  <2>3. R = {L[i].label : i \in DOMAIN L}
    BY <2>2 DEF Remaining, Labels
  <2>. QED
    BY <2>1, <2>2, <2>3 DEF Follows, Entries
<1>2. CASE ~(t.dmans = Empty /\ t.elems = Empty)
  <2>. DEFINE place(l) == IF l \in DOMAIN u THEN u[l] ELSE L[NumberOf(L, l)]
              nodes(l) == [k \in DOMAIN place(l).nodes |->
                             Renumbered(d, t.dmans, l \in DOMAIN u, place(l).nodes[k])]
              elem(l) == [place(l) EXCEPT !.nodes = nodes(l)]
              order == Ascending(R)
  <2>1. DOMAIN c = {"dmans", "elems"} /\ c.elems = [k \in DOMAIN order |-> elem(order[k])]
    BY <1>2 DEF Committed
  <2>2. ASSUME NEW l \in R
        PROVE  /\ Entry(place(l)) /\ place(l).label = l
               /\ \/ l \in DOMAIN u /\ u[l].mode # "gone" /\ place(l).mode = u[l].mode
                  \/ /\ l \notin DOMAIN u
                     /\ \E i \in DOMAIN L : L[i].label = l /\ L[i].mode = place(l).mode
    <3>1. CASE l \in DOMAIN u
      BY <3>1 DEF Remaining, Keyed
    <3>2. CASE l \notin DOMAIN u
      <4>1. \E i \in DOMAIN L : L[i].label = l
        BY <3>2 DEF Remaining, Labels
      <4>2. NumberOf(L, l) \in DOMAIN L /\ L[NumberOf(L, l)].label = l
        BY <4>1 DEF NumberOf, Labels
      <4>. QED
        BY <3>2, <4>2 DEF Entries
    <3>. QED
      BY <3>1, <3>2
  <2>3. ASSUME NEW r, Entry(r), NEW n
        PROVE  /\ Entry([r EXCEPT !.nodes = n])
               /\ [r EXCEPT !.nodes = n].label = r.label /\ [r EXCEPT !.nodes = n].mode = r.mode
    BY <2>3 DEF Entry
  <2>. HIDE DEF place, nodes
  <2>4. ASSUME NEW l \in R
        PROVE  Entry(elem(l)) /\ elem(l).label = l /\ elem(l).mode = place(l).mode
    BY <2>2, <2>3
  <2>5. R \subseteq Elem /\ Elem \subseteq Nat /\ IsFiniteSet(R)
    <3>1. R \subseteq Elem
      BY DEF Remaining, Labels, Entries, Keyed, Entry
    <3>. QED
      BY <3>1, MeshAssumption, FS_Subset
  <2>6. /\ order \in [1 .. Cardinality(R) -> R]
        /\ \A l \in R : \E k \in 1 .. Cardinality(R) : order[k] = l
    BY <2>5, AscendingLists
  <2>. HIDE DEF order, elem, R
  <2>7. ASSUME NEW k \in DOMAIN c.elems
        PROVE  /\ Entry(c.elems[k]) /\ c.elems[k].label \in R
               /\ c.elems[k].mode = place(c.elems[k].label).mode
    BY <2>1, <2>4, <2>6
  <2>8. ASSUME NEW l \in R
        PROVE  \E k \in DOMAIN c.elems : c.elems[k].label = l
    BY <2>1, <2>4, <2>6
  <2>9. R = Remaining(d.elems, t.elems)
    BY DEF R
  <2>. QED
    BY <2>1, <2>2, <2>7, <2>8, <2>9 DEF Follows
<1>. QED
  BY <1>1, <1>2

LEMMA CommitStep ==
  ASSUME MigrationInv, EntitiesAvailable', NEW p \in Proc, Commit(p)
  PROVE  MigrationInv'
PROOF
<1>1. TypeInv /\ RoundsInv
  BY DEF MigrationInv
<1>2. PICK owner \in [Elem -> Proc] : Placed(owner)
  BY DEF MigrationInv
<1>3. /\ DOMAIN pc = Proc /\ DOMAIN dom = Proc /\ DOMAIN trans = Proc
      /\ plan \in [Elem -> Proc]
  BY <1>1 DEF TypeInv
<1>4. pc[p] = "commit" /\ pc' = [pc EXCEPT ![p] = "wish"]
  <2>1. pc[p] = "commit" /\ (Goto(p, "aborted") \/ Goto(p, "wish"))
    BY DEF Commit
  <2>2. pc'[p] # "aborted"
    BY DEF EntitiesAvailable
  <2>. QED
    BY <1>3, <2>1, <2>2 DEF Goto
<1>. DEFINE t == trans[p].elems
            d == dom[p]
            c == dom'[p]
<1>5. /\ plan' = plan /\ mail' = mail /\ got' = got
      /\ DOMAIN dom' = Proc /\ DOMAIN trans' = Proc
      /\ c = Committed(d, trans[p]) /\ trans'[p] = NoTransactions
      /\ \A q \in Proc \ {p} : dom'[q] = dom[q] /\ trans'[q] = trans[q]
  BY <1>3 DEF Commit
<1>6. DOMAIN trans'[p] = {"dmans", "elems"} /\ DOMAIN trans'[p].elems = {}
  BY <1>5 DEF NoTransactions, Empty
<1>. HIDE DEF c
<1>7. ShapedAt(p) /\ MovingAt(p, owner)
  BY <1>2 DEF Placed, PlacedAt
<1>8. DOMAIN c = {"dmans", "elems"} /\ Follows(c.elems, d.elems, t)
  <2>1. DOMAIN d = {"dmans", "elems"} /\ Entries(d.elems) /\ Keyed(t)
    BY <1>7 DEF ShapedAt, Entries, Keyed
  <2>. QED
    BY <1>5, <2>1, CommittedElems
<1>9. /\ OwnLabels(p) = Of(owner, p)
      /\ \A e \in Of(owner, p) : e \in DOMAIN t <=> plan[e] # p
      /\ \A e \in Of(owner, p) : e \in DOMAIN t => t[e].mode = "gone"
      /\ \A e \in Elem \ Of(owner, p) : (e \in DOMAIN t /\ t[e].mode = "local") <=> plan[e] = p
      /\ \A e \in DOMAIN t : t[e].mode \in {"gone", "local"}
      /\ \A i \in DOMAIN d.elems : d.elems[i].label \notin DOMAIN t => d.elems[i].mode = "local"
  BY <1>4, <1>7 DEF MovingAt, Received
<1>10. \A i \in DOMAIN d.elems : d.elems[i].mode = "local" => d.elems[i].label \in Of(owner, p)
  BY <1>9 DEF OwnLabels, LocalElems
<1>. HIDE DEF t, d
<1>11. ASSUME NEW k \in DOMAIN c.elems
       PROVE  c.elems[k].mode = "local" /\ c.elems[k].label \in Of(plan, p)
  <2>. DEFINE l == c.elems[k].label
  <2>1. l \in Elem
    BY <1>8 DEF Follows, Entry
  <2>2. CASE l \in DOMAIN t
    <3>1. t[l].mode = "local" /\ c.elems[k].mode = "local"
      BY <1>8, <1>9, <2>2 DEF Follows
    <3>2. plan[l] = p
      BY <1>9, <2>1, <2>2, <3>1
    <3>. QED
      BY <2>1, <3>1, <3>2 DEF Of
  <2>3. CASE l \notin DOMAIN t
    <3>1. PICK i \in DOMAIN d.elems : d.elems[i].label = l /\ d.elems[i].mode = c.elems[k].mode
      BY <1>8, <2>3 DEF Follows
    <3>2. c.elems[k].mode = "local" /\ l \in Of(owner, p)
      BY <1>9, <1>10, <2>3, <3>1
    <3>3. plan[l] = p
      BY <1>9, <2>3, <3>2
    <3>. QED
      BY <2>1, <3>2, <3>3 DEF Of
  <2>. QED
    BY <2>2, <2>3
<1>12. ASSUME NEW e \in Of(plan, p)
       PROVE  e \in Remaining(d.elems, t)
  <2>1. e \in Elem /\ plan[e] = p
    BY DEF Of
  <2>2. CASE e \in Of(owner, p)
    <3>1. e \notin DOMAIN t
      BY <1>9, <2>1, <2>2
    <3>2. e \in OwnLabels(p)
      BY <1>9, <2>2
    <3>3. e \in Labels(d.elems)
      BY <3>2 DEF OwnLabels, LocalElems, Labels, d
    <3>. QED
      BY <3>1, <3>3 DEF Remaining
  <2>3. CASE e \notin Of(owner, p)
    BY <1>9, <2>1, <2>3 DEF Remaining
  <2>. QED
    BY <2>2, <2>3
<1>13. OwnLabels(p)' = Of(plan, p)
  <2>1. OwnLabels(p)' = {c.elems[k].label : k \in {k \in DOMAIN c.elems : c.elems[k].mode = "local"}}
    BY DEF OwnLabels, LocalElems, c
  <2>2. \A e \in Of(plan, p) : \E k \in DOMAIN c.elems : c.elems[k].label = e
    BY <1>8, <1>12 DEF Follows
  <2>. QED
    BY <1>11, <2>1, <2>2
<1>14. AllLocal(p)' /\ RemoteApart(p)'
  BY <1>11 DEF AllLocal, RemoteApart, c
<1>15. ShapedAt(p)'
  BY <1>6, <1>8 DEF ShapedAt, Follows, c
<1>16. SettledAt(p)'
  BY <1>3, <1>4, <1>5, <1>6, <1>13, <1>14 DEF SettledAt
<1>17. PlacedAt(p, owner)'
  BY <1>3, <1>4, <1>15, <1>16 DEF PlacedAt, BeforeAt, MovingAt, MailAt, Untouched
<1>18. RoundAt(p)'
  BY <1>3, <1>4 DEF RoundAt
<1>19. TypeInv'
  BY <1>1, <1>3, <1>4, <1>5 DEF TypeInv
<1>20. /\ \A q \in Proc \ {p} : pc'[q] = pc[q]
       /\ <<pc[p], pc'[p]>> \in Within
  BY <1>3, <1>4 DEF Within
<1>. QED
  BY <1>1, <1>2, <1>5, <1>17, <1>18, <1>19, <1>20, OneMoves

LEMMA MirrorElement ==
  ASSUME NEW x, Entry(x), NEW parts, NEW r, r = [x EXCEPT !.mode = "remote", !.parts = parts]
  PROVE  Entry(r) /\ r.label = x.label /\ r.mode = "remote"
PROOF BY DEF Entry

LEMMA UnpackRemoteStep ==
  ASSUME MigrationInv, NEW p \in Proc, NEW q \in Proc, UnpackRemoteElements(p, q)
  PROVE  MigrationInv'
PROOF
<1>1. TypeInv /\ RoundsInv
  BY DEF MigrationInv
<1>2. PICK owner \in [Elem -> Proc] : Placed(owner)
  BY DEF MigrationInv
<1>3. /\ DOMAIN pc = Proc /\ DOMAIN dom = Proc /\ DOMAIN trans = Proc
      /\ got \in [Proc -> SUBSET Proc]
  BY <1>1 DEF TypeInv
<1>4. p # q /\ pc[p] = "mirroring" /\ pc[q] = "mirroring"
  BY DEF UnpackRemoteElements, MayUnpack
<1>. DEFINE t == trans[p].elems
            u == trans'[p].elems
            M == mail[q][p].elems
            Mirror(r) == [r EXCEPT !.mode = "remote", !.parts = MirrorOwner(r, q)]
            S == {Mirror(r) : r \in M}
<1>5. ShapedAt(p) /\ SettledAt(p) /\ SettledAt(q)
  BY <1>2 DEF Placed, PlacedAt
<1>6. \A r \in M : Entry(r) /\ r.label \in Of(plan, q)
  BY <1>4, <1>5 DEF SettledAt
<1>7. /\ dom' = dom /\ plan' = plan /\ mail' = mail /\ pc' = pc
      /\ got' = [got EXCEPT ![p] = @ \union {q}]
  BY DEF UnpackRemoteElements
<1>8. /\ DOMAIN trans' = Proc /\ \A o \in Proc \ {p} : trans'[o] = trans[o]
      /\ DOMAIN trans'[p] = {"dmans", "elems"}
      /\ u = Put(t, S)
  BY <1>3 DEF UnpackRemoteElements
<1>. HIDE DEF u
<1>9. ASSUME NEW s \in S
      PROVE  Entry(s) /\ s.mode = "remote" /\ s.label \notin Of(plan, p)
  <2>1. PICK r \in M : s = Mirror(r)
    OBVIOUS
  <2>2. Entry(s) /\ s.mode = "remote" /\ s.label = r.label
    BY <1>6, <2>1, MirrorElement
  <2>3. s.label \notin Of(plan, p)
    BY <1>4, <1>6, <2>2 DEF Of
  <2>. QED
    BY <2>2, <2>3
<1>10. /\ \A e \in DOMAIN t : Entry(t[e]) /\ t[e].label = e
       /\ \A e \in DOMAIN t : t[e].mode = "remote" /\ e \notin Of(plan, p)
  BY <1>4, <1>5 DEF ShapedAt, SettledAt
<1>. HIDE DEF t, S
<1>11. ASSUME NEW e \in DOMAIN u
       PROVE  Entry(u[e]) /\ u[e].label = e /\ u[e].mode = "remote" /\ e \notin Of(plan, p)
  <2>1. CASE e \in LabelsIn(S)
    <3>1. u[e] \in S /\ u[e].label = e
      BY <1>8, <2>1, PutNew
    <3>. QED
      BY <1>9, <3>1
  <2>2. CASE e \notin LabelsIn(S)
    <3>1. e \in DOMAIN t /\ u[e] = t[e]
      BY <1>8, <2>2, PutOld
    <3>. QED
      BY <1>10, <3>1
  <2>. QED
    BY <2>1, <2>2
<1>12. OwnLabels(p)' = OwnLabels(p)
  BY <1>7 DEF OwnLabels, LocalElems
<1>13. ShapedAt(p)'
  BY <1>5, <1>7, <1>8, <1>11 DEF ShapedAt, u
<1>14. SettledAt(p)'
  <2>1. (RemoteApart(p) => RemoteApart(p)') /\ (AllLocal(p) => AllLocal(p)')
    BY <1>7, <1>12 DEF RemoteApart, AllLocal
  <2>. QED
    BY <1>4, <1>5, <1>7, <1>11, <1>12, <2>1 DEF SettledAt, u
<1>15. PlacedAt(p, owner)'
  BY <1>4, <1>7, <1>13, <1>14 DEF PlacedAt, BeforeAt, MovingAt, MailAt, Untouched
<1>16. RoundAt(p)'
  BY <1>4, <1>7 DEF RoundAt
<1>17. TypeInv'
  BY <1>1, <1>3, <1>7, <1>8 DEF TypeInv
<1>18. \A o \in Proc \ {p} : got'[o] = got[o]
  BY <1>3, <1>7
<1>. QED
  BY <1>1, <1>2, <1>7, <1>8, <1>15, <1>16, <1>17, <1>18, OneMoves

LEMMA CommitRemoteStep ==
  ASSUME MigrationInv, EntitiesAvailable', NEW p \in Proc, CommitRemoteElements(p)
  PROVE  MigrationInv'
PROOF
<1>1. TypeInv /\ RoundsInv
  BY DEF MigrationInv
<1>2. PICK owner \in [Elem -> Proc] : Placed(owner)
  BY DEF MigrationInv
<1>3. DOMAIN pc = Proc /\ DOMAIN dom = Proc /\ DOMAIN trans = Proc
  BY <1>1 DEF TypeInv
<1>4. pc[p] = "commitMirrors" /\ pc' = [pc EXCEPT ![p] = "maps"]
  <2>1. pc[p] = "commitMirrors" /\ (Goto(p, "aborted") \/ Goto(p, "maps"))
    BY DEF CommitRemoteElements
  <2>2. pc'[p] # "aborted"
    BY DEF EntitiesAvailable
  <2>. QED
    BY <1>3, <2>1, <2>2 DEF Goto
<1>. DEFINE t == trans[p].elems
            d == dom[p]
            c == Committed(d, trans[p])
            rebuilt(e) == IF e.mode = "local" THEN [e EXCEPT !.table = deps[p][e.label]] ELSE e
            f == dom'[p]
<1>5. /\ plan' = plan /\ mail' = mail /\ got' = got
      /\ DOMAIN dom' = Proc /\ DOMAIN trans' = Proc /\ trans'[p] = NoTransactions
      /\ \A q \in Proc \ {p} : dom'[q] = dom[q] /\ trans'[q] = trans[q]
  BY <1>3 DEF CommitRemoteElements
<1>6. f = [c EXCEPT !.elems = [i \in DOMAIN @ |-> rebuilt(@[i])]]
  BY <1>3 DEF CommitRemoteElements
<1>. HIDE DEF f
<1>7. DOMAIN trans'[p] = {"dmans", "elems"} /\ DOMAIN trans'[p].elems = {}
  BY <1>5 DEF NoTransactions, Empty
<1>8. /\ ShapedAt(p) /\ OwnLabels(p) = Of(plan, p) /\ AllLocal(p)
      /\ \A e \in DOMAIN t : t[e].mode = "remote" /\ e \notin Of(plan, p)
  BY <1>2, <1>4 DEF Placed, PlacedAt, SettledAt
<1>9. /\ \A i \in DOMAIN d.elems : d.elems[i].mode = "local" /\ d.elems[i].label \in Of(plan, p)
      /\ \A e \in Of(plan, p) : e \in Labels(d.elems)
  BY <1>8 DEF AllLocal, OwnLabels, LocalElems, Labels
<1>10. DOMAIN c = {"dmans", "elems"} /\ Follows(c.elems, d.elems, t)
  <2>1. DOMAIN d = {"dmans", "elems"} /\ Entries(d.elems) /\ Keyed(t)
    BY <1>8 DEF ShapedAt, Entries, Keyed
  <2>. HIDE DEF d, t
  <2>2. PICK x : x = c
    OBVIOUS
  <2>. QED
    BY <2>1, <2>2, CommittedElems DEF t
<1>. HIDE DEF c, d, t
<1>11. ASSUME NEW k \in DOMAIN c.elems
       PROVE  c.elems[k].mode = "local" <=> c.elems[k].label \in Of(plan, p)
  <2>1. CASE c.elems[k].label \in DOMAIN t
    BY <1>8, <1>10, <2>1 DEF Follows
  <2>2. CASE c.elems[k].label \notin DOMAIN t
    BY <1>9, <1>10, <2>2 DEF Follows
  <2>. QED
    BY <2>1, <2>2
<1>12. ASSUME NEW e \in Of(plan, p)
       PROVE  \E k \in DOMAIN c.elems : c.elems[k].label = e
  <2>1. e \in Remaining(d.elems, t)
    BY <1>8, <1>9 DEF Remaining
  <2>. QED
    BY <1>10, <2>1 DEF Follows
<1>13. ASSUME NEW e, Entry(e)
       PROVE  Entry(rebuilt(e)) /\ rebuilt(e).label = e.label /\ rebuilt(e).mode = e.mode
  BY <1>13 DEF Entry
<1>14. DOMAIN f = {"dmans", "elems"} /\ f.elems = [k \in DOMAIN c.elems |-> rebuilt(c.elems[k])]
  BY <1>6, <1>10
<1>. HIDE DEF rebuilt
<1>15. /\ DOMAIN f.elems = DOMAIN c.elems
       /\ \A k \in DOMAIN f.elems :
            /\ Entry(f.elems[k])
            /\ f.elems[k].label = c.elems[k].label /\ f.elems[k].mode = c.elems[k].mode
  BY <1>10, <1>13, <1>14 DEF Follows
<1>16. OwnLabels(p)' = Of(plan, p)
  <2>1. OwnLabels(p)' = {f.elems[k].label : k \in {k \in DOMAIN f.elems : f.elems[k].mode = "local"}}
    BY DEF OwnLabels, LocalElems, f
  <2>2. ASSUME NEW e \in Of(plan, p)
        PROVE  \E k \in DOMAIN f.elems : f.elems[k].mode = "local" /\ f.elems[k].label = e
    BY <1>11, <1>12, <1>15
  <2>3. ASSUME NEW k \in DOMAIN f.elems, f.elems[k].mode = "local"
        PROVE  f.elems[k].label \in Of(plan, p)
    BY <1>11, <1>15, <2>3
  <2>. QED
    BY <2>1, <2>2, <2>3
<1>17. RemoteApart(p)'
  <2>1. ASSUME NEW k \in DOMAIN f.elems, f.elems[k].mode # "local"
        PROVE  f.elems[k].label \notin Of(plan, p)
    BY <1>11, <1>15, <2>1
  <2>. QED
    BY <1>16, <2>1 DEF RemoteApart, f
<1>18. ShapedAt(p)'
  BY <1>7, <1>14, <1>15 DEF ShapedAt, f
<1>19. SettledAt(p)'
  BY <1>3, <1>4, <1>5, <1>7, <1>16, <1>17 DEF SettledAt
<1>20. PlacedAt(p, owner)'
  BY <1>3, <1>4, <1>18, <1>19 DEF PlacedAt, BeforeAt, MovingAt, MailAt, Untouched
<1>21. RoundAt(p)'
  BY <1>3, <1>4 DEF RoundAt
<1>22. TypeInv'
  BY <1>1, <1>3, <1>4, <1>5 DEF TypeInv
<1>23. /\ \A q \in Proc \ {p} : pc'[q] = pc[q]
       /\ <<pc[p], pc'[p]>> \in Within
  BY <1>3, <1>4 DEF Within
<1>. QED
  BY <1>1, <1>2, <1>5, <1>20, <1>21, <1>22, <1>23, OneMoves

-------------------------------------------------------------------------------
(* Steps of all processes *)

LEMMA DomainStays ==
  ASSUME NEW p \in Proc, dom' = dom
  PROVE  /\ OwnLabels(p)' = OwnLabels(p)
         /\ RemoteApart(p) => RemoteApart(p)'
         /\ AllLocal(p) => AllLocal(p)'
         /\ ShapedAt(p) /\ trans' = trans => ShapedAt(p)'
PROOF
<1>1. OwnLabels(p)' = OwnLabels(p)
  BY DEF OwnLabels, LocalElems
<1>. QED
  BY <1>1 DEF RemoteApart, AllLocal, ShapedAt

\* All processes go to one place of another phase.
LEMMA AllMove ==
  ASSUME TypeInv', NEW l, {l} \in SUBSET {"solve", "label", "depend", "migrate", "commit", "mirroring",
                                          "commitMirrors"},
         pc' = [p \in Proc |-> l], l = "migrate" => got' = [p \in Proc |-> {}],
         NEW owner \in [Elem -> Proc], Placed(owner)'
  PROVE  MigrationInv'
PROOF
<1>1. Together'
  <2>1. PICK G \in Phases : l \in G
    BY DEF Phases
  <2>. QED
    BY <2>1 DEF Together
<1>2. \A p \in Proc : RoundAt(p)'
  BY DEF RoundAt
<1>. QED
  BY <1>1, <1>2 DEF MigrationInv, RoundsInv

LEMMA SetUpMapsStep ==
  ASSUME MigrationInv, SetUpMaps
  PROVE  MigrationInv'
PROOF
<1>1. PICK owner \in [Elem -> Proc] : TypeInv /\ Placed(owner)
  BY DEF MigrationInv
<1>2. /\ \A p \in Proc : pc[p] = "maps"
      /\ pc' = [p \in Proc |-> "solve"]
      /\ dom' = dom /\ trans' = trans /\ plan' = plan /\ mail' = mail /\ got' = got
  BY DEF SetUpMaps, AllAt, AllGoto
<1>3. TypeInv'
  BY <1>1, <1>2 DEF TypeInv
<1>4. ASSUME NEW p \in Proc
      PROVE  PlacedAt(p, owner)'
  <2>1. ShapedAt(p) /\ SettledAt(p)
    BY <1>1 DEF Placed, PlacedAt
  <2>2. SettledAt(p)'
    BY <1>2, <2>1, DomainStays DEF SettledAt
  <2>3. ShapedAt(p)'
    BY <1>2, <2>1, DomainStays
  <2>. QED
    BY <1>2, <2>2, <2>3 DEF PlacedAt, BeforeAt, MovingAt, MailAt, Untouched
<1>. QED
  BY <1>1, <1>2, <1>3, <1>4, AllMove DEF Placed

LEMMA CalculateStep ==
  ASSUME MigrationInv, CalculateLoadTransfer
  PROVE  MigrationInv'
PROOF
<1>1. TypeInv /\ \E owner \in [Elem -> Proc] : Placed(owner)
  BY DEF MigrationInv
<1>2. /\ \A p \in Proc : pc[p] = "solve"
      /\ pc' = [p \in Proc |-> "label"] /\ plan' \in Plans
      /\ dom' = dom /\ trans' = trans /\ mail' = mail /\ got' = got
  BY DEF CalculateLoadTransfer, AllAt, AllGoto
<1>3. TypeInv'
  BY <1>1, <1>2, MeshAssumption DEF TypeInv
<1>4. PICK old \in [Elem -> Proc] : old = plan
  BY <1>1 DEF TypeInv
<1>5. ASSUME NEW p \in Proc
      PROVE  PlacedAt(p, old)'
  <2>1. ShapedAt(p) /\ SettledAt(p)
    BY <1>1 DEF Placed, PlacedAt
  <2>2. /\ OwnLabels(p)' = Of(old, p) /\ DOMAIN trans'[p].elems = {} /\ RemoteApart(p)'
        /\ ShapedAt(p)'
    BY <1>2, <1>4, <2>1, DomainStays DEF SettledAt
  <2>3. BeforeAt(p, old)'
    BY <2>2 DEF BeforeAt
  <2>. QED
    BY <1>2, <2>2, <2>3 DEF PlacedAt, MovingAt, MailAt, SettledAt
<1>. QED
  BY <1>2, <1>3, <1>4, <1>5, AllMove DEF Placed

LEMMA FinishExchangeStep ==
  ASSUME MigrationInv, FinishExchange
  PROVE  MigrationInv'
PROOF
<1>1. PICK owner \in [Elem -> Proc] : TypeInv /\ Placed(owner)
  BY DEF MigrationInv
<1>2. PICK l \in {"shared", "depends", "migrating", "mirroring"} :
        /\ \A p \in Proc : pc[p] = l /\ got[p] = Proc \ {p}
        /\ pc' = [p \in Proc |-> After[l]]
  BY DEF FinishExchange, AllAt, AllGoto, After
<1>3. /\ got' = [p \in Proc |-> {}] /\ mail' = NoMail
      /\ dom' = dom /\ trans' = trans /\ plan' = plan
  BY DEF FinishExchange
<1>4. TypeInv'
  BY <1>1, <1>2, <1>3 DEF TypeInv, NoMail
<1>5. ASSUME NEW p \in Proc
      PROVE  PlacedAt(p, owner)'
  <2>1. PlacedAt(p, owner)
    BY <1>1 DEF Placed
  <2>2. /\ OwnLabels(p)' = OwnLabels(p)
        /\ RemoteApart(p) => RemoteApart(p)'
        /\ AllLocal(p) => AllLocal(p)'
    BY <1>3, DomainStays
  <2>3. ShapedAt(p)'
    BY <1>3, <2>1, DomainStays DEF PlacedAt
  <2>4. CASE l \in {"shared", "depends"}
    <3>1. pc'[p] \in {"depend", "migrate"} /\ pc[p] \in Untouched
      BY <1>2, <2>4 DEF After, Untouched
    <3>2. BeforeAt(p, owner)'
      BY <1>3, <2>1, <2>2, <3>1 DEF PlacedAt, BeforeAt
    <3>. QED
      BY <2>3, <3>1, <3>2 DEF PlacedAt, MovingAt, MailAt, SettledAt
  <2>5. CASE l = "migrating"
    <3>1. pc[p] = "migrating" /\ pc'[p] = "commit"
      BY <1>2, <2>5 DEF After
    <3>2. Received(p) = Proc \ {p} /\ Received(p)' = Proc
      BY <1>2, <3>1 DEF Received
    <3>. DEFINE t == trans[p].elems
    <3>3. /\ OwnLabels(p) = Of(owner, p)
          /\ \A e \in Of(owner, p) : e \in DOMAIN t <=> plan[e] # p
          /\ \A e \in Of(owner, p) : e \in DOMAIN t => t[e].mode = "gone"
          /\ \A e \in Elem \ Of(owner, p) :
               (e \in DOMAIN t /\ t[e].mode = "local") <=> (plan[e] = p /\ owner[e] \in Proc \ {p})
          /\ \A e \in DOMAIN t : t[e].mode \in {"gone", "local"}
          /\ \A i \in DOMAIN dom[p].elems : dom[p].elems[i].label \notin DOMAIN t =>
               dom[p].elems[i].mode = "local"
      BY <2>1, <3>1, <3>2 DEF PlacedAt, MovingAt
    <3>4. \A e \in Elem \ Of(owner, p) : owner[e] \in Proc \ {p}
      BY DEF Of
    <3>5. \A e \in Elem \ Of(owner, p) :
            (e \in DOMAIN t /\ t[e].mode = "local") <=> (plan[e] = p /\ owner[e] \in Proc)
      BY <3>3, <3>4
    <3>6. MovingAt(p, owner)'
      BY <1>3, <2>2, <3>2, <3>3, <3>5 DEF MovingAt
    <3>. QED
      BY <2>3, <3>1, <3>6 DEF PlacedAt, BeforeAt, MailAt, SettledAt, Untouched
  <2>6. CASE l = "mirroring"
    <3>1. pc[p] = "mirroring" /\ pc'[p] = "commitMirrors"
      BY <1>2, <2>6 DEF After
    <3>2. SettledAt(p)'
      BY <1>3, <2>1, <2>2, <3>1 DEF PlacedAt, SettledAt
    <3>. QED
      BY <2>3, <3>1, <3>2 DEF PlacedAt, BeforeAt, MovingAt, MailAt, Untouched
  <2>. QED
    BY <2>4, <2>5, <2>6
<1>6. After[l] \in {"depend", "migrate", "commit", "commitMirrors"}
  BY DEF After
<1>. QED
  BY <1>1, <1>2, <1>3, <1>4, <1>5, <1>6, AllMove DEF Placed

\* What p packs for q are elements of its own.
LEMMA RemoteMessageIs ==
  ASSUME NEW p \in Proc, ShapedAt(p), NEW q \in Proc
  PROVE  \A r \in RemoteElements(p, q).elems : Entry(r) /\ r.label \in OwnLabels(p)
PROOF
<1>. DEFINE I == {i \in LocalElems(p) : dom[p].elems[i].label \in Wishes(q)}
            Sent(i) == [GlobalElem(p, i) EXCEPT !.table = {}]
<1>1. RemoteElements(p, q).elems = {Sent(i) : i \in I}
  BY DEF RemoteElements
<1>2. ASSUME NEW i \in I
      PROVE  Entry(Sent(i)) /\ Sent(i).label \in OwnLabels(p)
  <2>1. i \in DOMAIN dom[p].elems /\ dom[p].elems[i].label \in OwnLabels(p)
    BY DEF LocalElems, OwnLabels
  <2>2. PICK r : r = Sent(i)
    OBVIOUS
  <2>. QED
    BY <2>1, <2>2, SentElement
<1>. QED
  BY <1>1, <1>2

LEMMA PackRemoteStep ==
  ASSUME MigrationInv, PackRemoteElements
  PROVE  MigrationInv'
PROOF
<1>1. PICK owner \in [Elem -> Proc] : TypeInv /\ Placed(owner)
  BY DEF MigrationInv
<1>2. /\ \A p \in Proc : pc[p] = "wish"
      /\ pc' = [p \in Proc |-> "mirroring"]
      /\ dom' = dom /\ trans' = trans /\ plan' = plan /\ got' = got
      /\ mail' = [p \in Proc |-> [q \in Proc |-> IF p = q THEN NoMessage ELSE RemoteElements(p, q)]]
  BY DEF PackRemoteElements, AllAt, AllGoto
<1>3. TypeInv'
  BY <1>1, <1>2 DEF TypeInv
<1>4. ASSUME NEW p \in Proc
      PROVE  PlacedAt(p, owner)'
  <2>1. ShapedAt(p) /\ SettledAt(p)
    BY <1>1 DEF Placed, PlacedAt
  <2>2. OwnLabels(p) = Of(plan, p)
    BY <1>2, <2>1 DEF SettledAt
  <2>3. ASSUME NEW q \in Proc \ {p}, NEW r \in mail'[p][q].elems
        PROVE  Entry(r) /\ r.label \in Of(plan, p)
    <3>1. mail'[p][q] = RemoteElements(p, q)
      BY <1>2
    <3>. QED
      BY <2>1, <2>2, <3>1, RemoteMessageIs
  <2>4. SettledAt(p)'
    BY <1>2, <2>1, <2>3, DomainStays DEF SettledAt
  <2>5. ShapedAt(p)'
    BY <1>2, <2>1, DomainStays
  <2>. QED
    BY <1>2, <2>4, <2>5 DEF PlacedAt, BeforeAt, MovingAt, MailAt, Untouched
<1>. QED
  BY <1>1, <1>2, <1>3, <1>4, AllMove DEF Placed

LEMMA StutterStep ==
  ASSUME MigrationInv, UNCHANGED vars
  PROVE  MigrationInv'
PROOF
<1>1. /\ dom' = dom /\ trans' = trans /\ plan' = plan /\ mail' = mail /\ got' = got /\ pc' = pc
  BY DEF vars
<1>2. PICK owner \in [Elem -> Proc] : TypeInv /\ RoundsInv /\ Placed(owner)
  BY DEF MigrationInv
<1>3. Placed(owner)'
  BY <1>1, <1>2, OthersStay DEF Placed
<1>4. TypeInv' /\ RoundsInv'
  BY <1>1, <1>2 DEF TypeInv, RoundsInv, Together, RoundAt
<1>. QED
  BY <1>3, <1>4 DEF MigrationInv

LEMMA MigrationStep == MigrationInv /\ EntitiesAvailable' /\ [Next]_vars => MigrationInv'
PROOF
<1>. SUFFICES ASSUME MigrationInv, EntitiesAvailable', [Next]_vars
              PROVE  MigrationInv'
  OBVIOUS
<1>1. CASE SetUpMaps
  BY <1>1, SetUpMapsStep
<1>2. CASE CalculateLoadTransfer
  BY <1>2, CalculateStep
<1>3. CASE FinishExchange
  BY <1>3, FinishExchangeStep
<1>4. CASE PackRemoteElements
  BY <1>4, PackRemoteStep
<1>5. ASSUME NEW p \in Proc, LocalStep(p)
      PROVE  MigrationInv'
  <2>1. CASE \/ PackSharedPartitions(p) \/ PackDependencies(p)
             \/ \E q \in Proc : UnpackSharedPartitions(p, q) \/ UnpackDependencies(p, q)
    BY <2>1, LabelStep
  <2>2. CASE PackMigrating(p)
    BY <2>2, PackMigratingStep
  <2>3. CASE \E q \in Proc : UnpackMigrating(p, q)
    BY <2>3, UnpackMigratingStep
  <2>4. CASE Commit(p)
    BY <2>4, CommitStep
  <2>5. CASE \E q \in Proc : UnpackRemoteElements(p, q)
    BY <2>5, UnpackRemoteStep
  <2>6. CASE CommitRemoteElements(p)
    BY <2>6, CommitRemoteStep
  <2>. QED
    BY <1>5, <2>1, <2>2, <2>3, <2>4, <2>5, <2>6 DEF LocalStep
<1>6. CASE UNCHANGED vars
  BY <1>6, StutterStep
<1>. QED
  BY <1>1, <1>2, <1>3, <1>4, <1>5, <1>6 DEF Next

-------------------------------------------------------------------------------
(* What a migration does to the lists of a process, for a mesh m and the      *)
(* partitionings a before and b after it: every value a state holds is given  *)
(* in terms of these three.                                                   *)

\* Dof managers are slaves of primary ones only.
MastersPrimary == \A m \in Meshes : \A n \in DOMAIN m.masters : \A k \in m.masters[n] : m.masters[k] = {}

\* Elements that others average over have no slave nodes.
MirrorsPrimary ==
  \A m \in Meshes : \A e \in Elem : \A f \in m.near[e] \ {e} :
    \A i \in DOMAIN m.nodes[f] : m.masters[m.nodes[f][i]] = {}

NodesIn(m, e) == {m.nodes[e][i] : i \in DOMAIN m.nodes[e]}
Needed(m, e) == NodesIn(m, e) \union UNION {m.masters[n] : n \in NodesIn(m, e)}
NeededBy(m, E) == UNION {Needed(m, e) : e \in E}
Around(m, E) == (UNION {m.near[e] : e \in E}) \ E

\* The dof managers p has under the partitioning w, and the processes that have l.
Own(m, w, p) == NeededBy(m, Of(w, p))
Users(m, w, l) == {w[e] : e \in {e \in Elem : l \in Needed(m, e)}}
\* What p mirrors.
Mirrored(m, w, p) == Around(m, Of(w, p))
AllDofMen(m, w, p) == Own(m, w, p) \union NeededBy(m, Mirrored(m, w, p))
AllElems(m, w, p) == Of(w, p) \union Mirrored(m, w, p)

DofMen(m) == [label : DOMAIN m.masters, mode : {"local", "shared", "null"},
              parts : SUBSET Proc, masters : SUBSET Nat]
Elements == [label : Elem, mode : {"local", "remote"}, parts : SUBSET Proc,
             nodes : Seq(Nat), table : SUBSET Elem]
Domains(m) == [dmans : Seq(DofMen(m)), elems : Seq(Elements)]

Distinct(list) == \A i \in DOMAIN list : \A j \in DOMAIN list : list[i].label = list[j].label => i = j

\* Local numbers lead to what the mesh says.
MastersLinked(d, m, i) ==
  /\ d.dmans[i].masters \subseteq DOMAIN d.dmans
  /\ {d.dmans[k].label : k \in d.dmans[i].masters} = m.masters[d.dmans[i].label]
NodesLinked(d, m, i) ==
  /\ DOMAIN d.elems[i].nodes = DOMAIN m.nodes[d.elems[i].label]
  /\ \A k \in DOMAIN d.elems[i].nodes :
       /\ d.elems[i].nodes[k] \in DOMAIN d.dmans
       /\ d.dmans[d.elems[i].nodes[k]].label = m.nodes[d.elems[i].label][k]
Linked(d, m) == (\A i \in DOMAIN d.dmans : MastersLinked(d, m, i)) /\ (\A i \in DOMAIN d.elems : NodesLinked(d, m, i))

\* d lists the dof managers D and the elements E, each once.
Lists(d, m, D, E) ==
  /\ d \in Domains(m) /\ Distinct(d.dmans) /\ Distinct(d.elems)
  /\ Labels(d.dmans) = D /\ Labels(d.elems) = E
  /\ Linked(d, m)

SharedMode(p, users) == IF users = {p} THEN "local" ELSE "shared"
UsersListed(r, p, users) == r.mode = SharedMode(p, users) /\ r.parts \ {p} = users \ {p}
\* The partition lists of the labels in S are those of w; null dof managers are the others.
Shares(d, m, w, p, S) ==
  \A i \in DOMAIN d.dmans : d.dmans[i].label \in S => UsersListed(d.dmans[i], p, Users(m, w, d.dmans[i].label))
NullOutside(d, S) == \A i \in DOMAIN d.dmans : d.dmans[i].label \notin S => d.dmans[i].mode = "null"
\* Elements of p are local, the others mirrors of what their owner has.
Owned(d, w, p) ==
  \A i \in DOMAIN d.elems :
    IF w[d.elems[i].label] = p THEN d.elems[i].mode = "local" /\ d.elems[i].parts = {}
    ELSE d.elems[i].mode = "remote" /\ d.elems[i].parts = {w[d.elems[i].label]}
Averages(d, m) == \A i \in DOMAIN d.elems : d.elems[i].mode = "local" => d.elems[i].table = m.near[d.elems[i].label]

\* Between migrations.
Complete(d, m, w, p) ==
  /\ Lists(d, m, AllDofMen(m, w, p), AllElems(m, w, p))
  /\ Shares(d, m, w, p, Own(m, w, p)) /\ NullOutside(d, Own(m, w, p))
  /\ Owned(d, w, p) /\ Averages(d, m)
\* Nothing but what the elements of p need.
Bare(d, m, w, p) ==
  /\ Lists(d, m, Own(m, w, p), Of(w, p)) /\ Shares(d, m, w, p, Own(m, w, p)) /\ Owned(d, w, p)
\* Still with what leaves.
Packed(d, m, a, b, p) ==
  /\ Lists(d, m, AllDofMen(m, a, p), AllElems(m, a, p))
  /\ Shares(d, m, b, p, Own(m, a, p) \intersect Own(m, b, p)) /\ Owned(d, a, p)

\* The processes that the elements of those in R bring to l.
Brought(m, a, b, R, l) == {b[e] : e \in {e \in Elem : a[e] \in R /\ l \in Needed(m, e)}}
NewParts(np, d, m, a, b, p, R) ==
  /\ DOMAIN np = DOMAIN d.dmans
  /\ \A i \in DOMAIN d.dmans :
       np[i] = IF d.dmans[i].label \in Own(m, a, p) THEN Brought(m, a, b, {p} \union R, d.dmans[i].label) ELSE {}

Dependencies(m, a, b, p, R) ==
  [e \in Of(a, p) \union {f \in Of(b, p) : a[f] \in R} |-> m.near[e]]

\* Messages of p to q.
SharedMail(m, a, b, p, q) ==
  {[label |-> l, parts |-> Brought(m, a, b, {p}, l)] : l \in Own(m, a, p) \intersect Own(m, a, q)}
DependMail(m, a, b, p, q) == {[label |-> e, near |-> m.near[e]] : e \in Of(a, p) \intersect Of(b, q)}
SentDofMan(m, b, q, l) ==
  [label |-> l, mode |-> IF Users(m, b, l) = {q} THEN "DM_Remote" ELSE "DM_Shared",
   parts |-> Users(m, b, l), masters |-> m.masters[l]]
SentElem(m, e) == [label |-> e, mode |-> "local", parts |-> {}, nodes |-> m.nodes[e], table |-> {}]
MovingMail(mail1, m, a, b, p, q) ==
  /\ mail1.dmans = {SentDofMan(m, b, q, l) : l \in (Own(m, a, p) \intersect Own(m, b, q)) \ Own(m, a, q)}
  /\ mail1.elems = {SentElem(m, e) : e \in Of(a, p) \intersect Of(b, q)}
Lent(m, b, p, q) == Of(b, p) \intersect Mirrored(m, b, q)
LentDofMen(m, b, p, q) == NeededBy(m, Lent(m, b, p, q)) \ Own(m, b, q)
MirrorMail(mail1, m, b, p, q) ==
  /\ mail1.dmans \subseteq DofMen(m) /\ \A r \in mail1.dmans : r.masters = {} /\ m.masters[r.label] = {}
  /\ {r.label : r \in mail1.dmans} = LentDofMen(m, b, p, q)
  /\ mail1.elems = {SentElem(m, e) : e \in Lent(m, b, p, q)}

\* Open transactions of p when the messages of R are in.
ArrivedDofMan(m, b, p, l) ==
  [label |-> l, mode |-> SharedMode(p, Users(m, b, l)), parts |-> Users(m, b, l), masters |-> m.masters[l]]
ArrivingDofMen(m, a, b, p, R) ==
  {l \in Own(m, b, p) \ Own(m, a, p) : \E q \in R \ {p} : l \in Own(m, a, q)}
ArrivingElems(a, b, p, R) == {e \in Of(b, p) \ Of(a, p) : a[e] \in R}
Moves(t, m, a, b, p, R) ==
  /\ t.dmans = [l \in (AllDofMen(m, a, p) \ (Own(m, a, p) \intersect Own(m, b, p)))
                        \union ArrivingDofMen(m, a, b, p, R) |->
                  IF l \in ArrivingDofMen(m, a, b, p, R) THEN ArrivedDofMan(m, b, p, l) ELSE Gone(l)]
  /\ t.elems = [e \in (AllElems(m, a, p) \ (Of(a, p) \intersect Of(b, p))) \union ArrivingElems(a, b, p, R) |->
                  IF e \in ArrivingElems(a, b, p, R) THEN SentElem(m, e) ELSE Gone(e)]

Borrowed(m, b, p, R) == {e \in Mirrored(m, b, p) : b[e] \in R}
MirrorElem(m, b, e) == [SentElem(m, e) EXCEPT !.mode = "remote", !.parts = {b[e]}]
Borrows(t, m, b, p, R) ==
  /\ DOMAIN t = {"dmans", "elems"}
  /\ DOMAIN t.dmans = NeededBy(m, Borrowed(m, b, p, R)) \ Own(m, b, p)
  /\ \A l \in DOMAIN t.dmans :
       /\ t.dmans[l] \in DofMen(m) /\ t.dmans[l].label = l /\ t.dmans[l].mode = "null"
       /\ t.dmans[l].masters = {} /\ m.masters[l] = {}
  /\ t.elems = [e \in Borrowed(m, b, p, R) |-> MirrorElem(m, b, e)]

\* What p has at each of its steps.
AtRest(p, m, b, s) == s.pc \in {"maps", "solve"} => Complete(s.dom, m, b, p) /\ s.trans = NoTransactions
Before(p, m, a, s) ==
  s.pc \in Untouched => Complete(s.dom, m, a, p) /\ s.trans = NoTransactions
Labelled(p, m, a, b, s) ==
  /\ s.pc = "shared" => NewParts(s.new, s.dom, m, a, b, p, s.got)
  /\ s.pc \in {"depend", "depends", "migrate"} => NewParts(s.new, s.dom, m, a, b, p, Proc)
Depending(p, m, a, b, s) ==
  /\ s.pc = "depends" => s.deps = Dependencies(m, a, b, p, s.got)
  /\ s.pc \in {"migrate", "migrating", "commit", "wish", "mirroring", "commitMirrors"} =>
       s.deps = Dependencies(m, a, b, p, Proc)
Moving(p, m, a, b, s) ==
  /\ s.pc \in {"migrating", "commit"} => Packed(s.dom, m, a, b, p) /\ DOMAIN s.trans = {"dmans", "elems"}
  /\ s.pc = "migrating" => Moves(s.trans, m, a, b, p, s.got)
  /\ s.pc = "commit" => Moves(s.trans, m, a, b, p, Proc)
Mirroring(p, m, b, s) ==
  /\ s.pc \in {"wish", "mirroring", "commitMirrors"} => Bare(s.dom, m, b, p)
  /\ s.pc = "wish" => s.trans = NoTransactions
  /\ s.pc = "mirroring" => Borrows(s.trans, m, b, p, s.got)
  /\ s.pc = "commitMirrors" => Borrows(s.trans, m, b, p, Proc)
Posted(p, m, a, b, s) ==
  \A q \in Proc \ {p} :
    /\ s.pc = "shared" => s.mail[q].dmans = SharedMail(m, a, b, p, q)
    /\ s.pc = "depends" => s.mail[q].elems = DependMail(m, a, b, p, q)
    /\ s.pc = "migrating" => MovingMail(s.mail[q], m, a, b, p, q)
    /\ s.pc = "mirroring" => MirrorMail(s.mail[q], m, b, p, q)
Waits(s) == /\ s.pc \in Steps \ {"aborted"} /\ s.got \subseteq Proc
            /\ s.pc \notin DOMAIN After => s.got = {}

Laid(p, m, a, b, s) ==
  /\ AtRest(p, m, b, s) /\ Before(p, m, a, s) /\ Labelled(p, m, a, b, s) /\ Depending(p, m, a, b, s)
  /\ Moving(p, m, a, b, s) /\ Mirroring(p, m, b, s) /\ Posted(p, m, a, b, s) /\ Waits(s)

StateOf(p) == [pc |-> pc[p], dom |-> dom[p], new |-> newParts[p], deps |-> deps[p], trans |-> trans[p],
               mail |-> mail[p], got |-> got[p]]

Indexed == /\ DOMAIN dom = Proc /\ DOMAIN newParts = Proc /\ DOMAIN deps = Proc /\ DOMAIN trans = Proc
           /\ DOMAIN mail = Proc /\ DOMAIN got = Proc /\ DOMAIN pc = Proc
LayoutOf(m, a, b) == mesh = m /\ plan = b /\ Indexed /\ \A p \in Proc : Laid(p, m, a, b, StateOf(p))
LayoutInv == \E m \in Meshes : \E a \in [Elem -> Proc] : \E b \in [Elem -> Proc] : LayoutOf(m, a, b)

-------------------------------------------------------------------------------
(* Functions given by recursion: the first place where two solutions differ *)

LEMMA LeastMember ==
  ASSUME NEW S \in SUBSET Nat, IsFiniteSet(S), S # {}
  PROVE  \E l \in S : \A k \in S : l <= k
PROOF
<1>. DEFINE below(n) == {k \in S : k <= n}
<1>1. Cardinality(S) \in Nat /\ Cardinality(S) # 0
  BY FS_CardinalityType, FS_EmptySet
<1>2. 1 \in 1 .. Cardinality(S)
  BY <1>1
<1>3. PICK l \in S : Rank(S, l) = 1
  BY <1>2, RankOnto
<1>4. ASSUME NEW k \in S, k < l
      PROVE  FALSE
  <2>1. IsFiniteSet(below(l))
    BY FS_Subset
  <2>2. below(k) \in SUBSET below(l)
    <3>1. \A n \in S : n <= k => n <= l
      BY <1>4, S \subseteq Nat
    <3>. QED
      BY <3>1
  <2>3. Cardinality(below(k)) <= Cardinality(below(l))
    BY <2>1, <2>2, FS_Subset
  <2>4. Rank(S, k) \in 1 .. Cardinality(S)
    BY RankTyped
  <2>5. Rank(S, k) <= 1 /\ Rank(S, k) = 1
    BY <1>1, <1>3, <2>3, <2>4 DEF Rank
  <2>. QED
    BY <1>3, <1>4, <2>5, RankIncreases
<1>. QED
  BY <1>3, <1>4

LEMMA LeastInInterval ==
  ASSUME NEW lo \in Nat, NEW hi \in Nat, NEW B \in SUBSET (lo .. hi), B # {}
  PROVE  \E l \in B : \A k \in B : l <= k
PROOF
<1>1. IsFiniteSet(lo .. hi)
  BY FS_Interval
<1>2. IsFiniteSet(B)
  BY <1>1, FS_Subset
<1>3. B \in SUBSET Nat
  OBVIOUS
<1>. QED
  BY <1>2, <1>3, LeastMember

-------------------------------------------------------------------------------
(* Masters and slaves *)

MeshTyped(m) ==
  /\ m.nodes \in [Elem -> Seq(DOMAIN m.masters)] /\ m.near \in [Elem -> SUBSET Elem]
  /\ m.masters \in [DOMAIN m.masters -> SUBSET DOMAIN m.masters]
  /\ DOMAIN m.masters \subseteq Nat /\ IsFiniteSet(DOMAIN m.masters)

LEMMA MeshIs ==
  ASSUME NEW m \in Meshes
  PROVE  MeshTyped(m)
PROOF BY MeshAssumption DEF MeshTyped

\* With primary masters only one step adds anything.
LEMMA MastersAdded ==
  ASSUME MastersPrimary, mesh \in Meshes, NEW S \in SUBSET DOMAIN mesh.masters
  PROVE  WithMasters(S) = S \union UNION {mesh.masters[n] : n \in S}
PROOF
<1>. DEFINE C == Cardinality(DOMAIN mesh.masters)
            T == S \union UNION {mesh.masters[n] : n \in S}
            Add(X) == X \union UNION {mesh.masters[n] : n \in X}
            Is(up) == up = [i \in 0 .. C |-> IF i = 0 THEN S ELSE Add(up[i - 1])]
            f == [i \in 0 .. C |-> IF i = 0 THEN S ELSE T]
            g == CHOOSE up : Is(up)
<1>1. C \in Nat /\ (C = 0 => DOMAIN mesh.masters = {})
  BY MeshIs, FS_CardinalityType, FS_EmptySet DEF MeshTyped
<1>2. Add(S) = T /\ Add(T) = T
  <2>1. \A n \in S : mesh.masters[n] \subseteq DOMAIN mesh.masters /\ \A k \in mesh.masters[n] : mesh.masters[k] = {}
    BY MeshIs DEF MastersPrimary, MeshTyped
  <2>. QED
    BY <2>1
<1>. HIDE DEF T, Add, C
<1>3. Is(f)
  <2>1. ASSUME NEW i \in 0 .. C
        PROVE  f[i] = IF i = 0 THEN S ELSE Add(f[i - 1])
    <3>1. CASE i = 0
      BY <3>1
    <3>2. CASE i # 0
      <4>1. i - 1 \in 0 .. C /\ (f[i - 1] = S \/ f[i - 1] = T)
        BY <1>1, <3>2
      <4>. QED
        BY <1>2, <3>2, <4>1
    <3>. QED
      BY <3>1, <3>2
  <2>. QED
    BY <2>1
<1>4. Is(g)
  BY <1>3
<1>. HIDE DEF f, g
<1>5. f = [i \in 0 .. C |-> IF i = 0 THEN S ELSE T]
  BY DEF f
<1>. DEFINE B == {i \in 0 .. C : g[i] # f[i]}
<1>6. B = {}
  <2>. SUFFICES ASSUME B # {}
                PROVE  FALSE
    OBVIOUS
  <2>1. PICK i \in B : \A j \in B : i <= j
    BY <1>1, LeastInInterval
  <2>2. f[i] = (IF i = 0 THEN S ELSE Add(f[i - 1])) /\ g[i] = (IF i = 0 THEN S ELSE Add(g[i - 1]))
    BY <1>3, <1>4
  <2>3. i # 0 => i - 1 \in 0 .. C /\ i - 1 \notin B
    BY <1>1, <2>1
  <2>. QED
    BY <2>2, <2>3
<1>7. g[C] = f[C]
  BY <1>1, <1>6
<1>8. WithMasters(S) = g[C]
  BY DEF WithMasters, g, C, Add
<1>9. f[C] = T
  <2>1. CASE C = 0
    BY <1>1, <1>5, <2>1 DEF T
  <2>2. CASE C # 0
    BY <1>1, <1>5, <2>2
  <2>. QED
    BY <2>1, <2>2
<1>. QED
  BY <1>7, <1>8, <1>9 DEF T

\* No master of a dof manager in the list d has masters itself.
OneLevel(d) ==
  \A i \in DOMAIN d : \A k \in d[i].masters : k \in DOMAIN d /\ d[k].masters = {}

LEMMA MastersArePrimary ==
  ASSUME NEW p \in Proc, NEW m, NEW d \in Seq(DofMen(m)), d = dom[p].dmans, OneLevel(d), NEW i \in DOMAIN d
  PROVE  PrimaryMasters(p, i) = d[i].masters
PROOF
<1>. DEFINE Step(X) == UNION {IF d[k].masters = {} THEN {k} ELSE d[k].masters : k \in X}
            Is(up) == up = [k \in DOMAIN d |-> IF k = 1 THEN d[i].masters ELSE Step(up[k - 1])]
            f == [k \in DOMAIN d |-> d[i].masters]
            g == CHOOSE up : Is(up)
            n == Len(d)
<1>1. n \in Nat /\ DOMAIN d = 1 .. n /\ n \in 1 .. n
  OBVIOUS
<1>2. Step(d[i].masters) = d[i].masters
  <2>1. \A k \in d[i].masters : (IF d[k].masters = {} THEN {k} ELSE d[k].masters) = {k}
    BY DEF OneLevel
  <2>. QED
    BY <2>1
<1>. HIDE DEF Step, n
<1>3. Is(f)
  <2>1. ASSUME NEW k \in DOMAIN d
        PROVE  f[k] = IF k = 1 THEN d[i].masters ELSE Step(f[k - 1])
    <3>1. CASE k = 1
      BY <3>1
    <3>2. CASE k # 1
      <4>1. k - 1 \in DOMAIN d
        BY <1>1, <3>2
      <4>. QED
        BY <1>2, <3>2, <4>1
    <3>. QED
      BY <3>1, <3>2
  <2>. QED
    BY <2>1
<1>4. Is(g)
  BY <1>3
<1>5. f[n] = d[i].masters
  BY <1>1
<1>. HIDE DEF f, g
<1>. DEFINE B == {k \in 1 .. n : g[k] # f[k]}
<1>6. B = {}
  <2>. SUFFICES ASSUME B # {}
                PROVE  FALSE
    OBVIOUS
  <2>1. PICK k \in B : \A j \in B : k <= j
    BY <1>1, LeastInInterval
  <2>2. /\ f[k] = IF k = 1 THEN d[i].masters ELSE Step(f[k - 1])
        /\ g[k] = IF k = 1 THEN d[i].masters ELSE Step(g[k - 1])
    BY <1>1, <1>3, <1>4
  <2>3. k # 1 => k - 1 \in 1 .. n /\ k - 1 \notin B
    BY <1>1, <2>1
  <2>. QED
    BY <2>2, <2>3
<1>7. PrimaryMasters(p, i) = g[n]
  <2>1. d # <<>>
    BY <1>1
  <2>. QED
    BY <2>1 DEF PrimaryMasters, g, n, Step
<1>. QED
  BY <1>1, <1>5, <1>6, <1>7

\* Masters get the partitions of all their slaves.
LEMMA SlavesAdded ==
  ASSUME NEW p \in Proc, NEW m, NEW d \in Seq(DofMen(m)), d = dom[p].dmans, OneLevel(d),
         NEW own \in [DOMAIN d -> SUBSET Proc]
  PROVE  WithSlaves(p, own) =
           [i \in DOMAIN d |-> own[i] \union UNION {own[k] : k \in {k \in DOMAIN d : i \in d[k].masters}}]
PROOF
<1>. DEFINE n == Len(d)
            Add(X, j) == [i \in DOMAIN own |-> IF i \in PrimaryMasters(p, j) THEN X[i] \union X[j] ELSE X[i]]
            Is(up) == up = [j \in 0 .. n |-> IF j = 0 THEN own ELSE Add(up[j - 1], j)]
            Upto(j, i) == own[i] \union UNION {own[k] : k \in {k \in 1 .. j : i \in d[k].masters}}
            f == [j \in 0 .. n |-> [i \in DOMAIN d |-> Upto(j, i)]]
            g == CHOOSE up : Is(up)
<1>1. n \in Nat /\ DOMAIN d = 1 .. n /\ DOMAIN own = 1 .. n /\ Len(own) = n
  OBVIOUS
<1>2. \A j \in DOMAIN d : PrimaryMasters(p, j) = d[j].masters
  BY MastersArePrimary
<1>. HIDE DEF n
<1>3. ASSUME NEW j \in 1 .. n, NEW i \in DOMAIN d
      PROVE  Upto(j, i) = IF i \in d[j].masters THEN Upto(j - 1, i) \union Upto(j - 1, j) ELSE Upto(j - 1, i)
  <2>1. 1 .. j = (1 .. (j - 1)) \union {j} /\ j - 1 \in Nat /\ 1 .. (j - 1) \subseteq DOMAIN d
    BY <1>1
  <2>2. CASE i \in d[j].masters
    <3>1. \A k \in 1 .. (j - 1) : j \notin d[k].masters
      BY <2>1, <2>2 DEF OneLevel
    <3>2. Upto(j - 1, j) = own[j]
      BY <3>1
    <3>3. {k \in 1 .. j : i \in d[k].masters} = {k \in 1 .. (j - 1) : i \in d[k].masters} \union {j}
      BY <2>1, <2>2
    <3>4. Upto(j, i) = Upto(j - 1, i) \union own[j]
      BY <3>3
    <3>. QED
      BY <2>2, <3>2, <3>4
  <2>3. CASE i \notin d[j].masters
    <3>1. {k \in 1 .. j : i \in d[k].masters} = {k \in 1 .. (j - 1) : i \in d[k].masters}
      BY <2>1, <2>3
    <3>. QED
      BY <2>3, <3>1
  <2>. QED
    BY <2>2, <2>3
<1>4. \A i \in DOMAIN d : Upto(0, i) = own[i]
  OBVIOUS
<1>. HIDE DEF Upto
<1>5. Is(f)
  <2>1. f[0] = own
    BY <1>1, <1>4
  <2>2. ASSUME NEW j \in 1 .. n
        PROVE  f[j] = Add(f[j - 1], j)
    <3>1. j - 1 \in 0 .. n /\ j \in 0 .. n /\ j \in DOMAIN d
      BY <1>1
    <3>2. \A i \in DOMAIN d : f[j][i] = Upto(j, i) /\ f[j - 1][i] = Upto(j - 1, i)
      BY <3>1
    <3>3. f[j] = [i \in DOMAIN d |-> Upto(j, i)]
      BY <3>1
    <3>4. Add(f[j - 1], j) = [i \in DOMAIN d |-> IF i \in d[j].masters THEN Upto(j - 1, i) \union Upto(j - 1, j)
                                                 ELSE Upto(j - 1, i)]
      BY <1>1, <1>2, <3>1, <3>2
    <3>. QED
      BY <1>3, <3>3, <3>4
  <2>3. \A j \in 0 .. n : f[j] = IF j = 0 THEN own ELSE Add(f[j - 1], j)
    <3>1. \A j \in 0 .. n : j = 0 \/ j \in 1 .. n
      BY <1>1
    <3>. QED
      BY <2>1, <2>2, <3>1
  <2>. HIDE DEF Add
  <2>. QED
    BY <2>3
<1>6. Is(g)
  BY <1>5
<1>7. f[n] = [i \in DOMAIN d |-> own[i] \union UNION {own[k] : k \in {k \in DOMAIN d : i \in d[k].masters}}]
  BY <1>1 DEF Upto
<1>8. WithSlaves(p, own) = g[n]
  BY <1>1 DEF WithSlaves
<1>. HIDE DEF f, g, Add
<1>. DEFINE B == {j \in 0 .. n : g[j] # f[j]}
<1>9. B = {}
  <2>. SUFFICES ASSUME B # {}
                PROVE  FALSE
    OBVIOUS
  <2>1. PICK k \in B : \A j \in B : k <= j
    BY <1>1, LeastInInterval
  <2>2. /\ f[k] = IF k = 0 THEN own ELSE Add(f[k - 1], k)
        /\ g[k] = IF k = 0 THEN own ELSE Add(g[k - 1], k)
    BY <1>5, <1>6
  <2>3. k # 0 => k - 1 \in 0 .. n /\ k - 1 \notin B
    BY <1>1, <2>1
  <2>. QED
    BY <2>2, <2>3
<1>. QED
  BY <1>1, <1>7, <1>8, <1>9

-------------------------------------------------------------------------------
(* What elements need *)

LEMMA NeededIn ==
  ASSUME NEW m \in Meshes, NEW e \in Elem
  PROVE  /\ NodesIn(m, e) \subseteq DOMAIN m.masters /\ Needed(m, e) \subseteq DOMAIN m.masters
         /\ m.near[e] \subseteq Elem
         /\ \A k \in DOMAIN m.nodes[e] : m.nodes[e][k] \in NodesIn(m, e)
         /\ \A l \in Needed(m, e) : m.masters[l] \subseteq DOMAIN m.masters
PROOF
<1>1. MeshTyped(m)
  BY MeshIs
<1>2. m.nodes[e] \in Seq(DOMAIN m.masters) /\ \A n \in DOMAIN m.masters : m.masters[n] \subseteq DOMAIN m.masters
  BY <1>1 DEF MeshTyped
<1>3. \A i \in DOMAIN m.nodes[e] : m.nodes[e][i] \in DOMAIN m.masters
  BY <1>2
<1>4. NodesIn(m, e) \subseteq DOMAIN m.masters
  BY <1>3 DEF NodesIn
<1>5. Needed(m, e) \subseteq DOMAIN m.masters
  BY <1>2, <1>4 DEF Needed
<1>6. m.near[e] \subseteq Elem
  BY <1>1 DEF MeshTyped
<1>7. \A k \in DOMAIN m.nodes[e] : m.nodes[e][k] \in NodesIn(m, e)
  BY DEF NodesIn
<1>. QED
  BY <1>2, <1>4, <1>5, <1>6, <1>7

\* The masters of what an element needs are among it.
LEMMA MastersNeeded ==
  ASSUME MastersPrimary, NEW m \in Meshes, NEW e \in Elem, NEW l \in Needed(m, e)
  PROVE  m.masters[l] \subseteq Needed(m, e) /\ (m.masters[l] # {} => l \in NodesIn(m, e))
PROOF
<1>1. CASE l \in NodesIn(m, e)
  BY <1>1 DEF Needed
<1>2. CASE l \notin NodesIn(m, e)
  <2>1. PICK n \in NodesIn(m, e) : l \in m.masters[n]
    BY <1>2 DEF Needed
  <2>2. m.masters[l] = {}
    BY <2>1, NeededIn DEF MastersPrimary
  <2>. QED
    BY <2>2
<1>. QED
  BY <1>1, <1>2

LEMMA NeedsAre ==
  ASSUME MastersPrimary, NEW m \in Meshes, mesh = m, NEW E \in SUBSET Elem
  PROVE  Needs(E) = NeededBy(m, E) /\ Mirrors(E) = Around(m, E)
PROOF
<1>1. NodesOf(E) = UNION {NodesIn(m, e) : e \in E}
  BY DEF NodesOf, NodesIn
<1>2. NodesOf(E) \in SUBSET DOMAIN m.masters
  BY <1>1, NeededIn
<1>3. Needs(E) = NodesOf(E) \union UNION {m.masters[n] : n \in NodesOf(E)}
  BY <1>2, MastersAdded DEF Needs
<1>4. Needs(E) = NeededBy(m, E)
  BY <1>1, <1>3 DEF NeededBy, Needed
<1>5. Mirrors(E) = Around(m, E)
  BY DEF Mirrors, Around
<1>. QED
  BY <1>4, <1>5

LEMMA OwnIs ==
  ASSUME NEW m \in Meshes, NEW w \in [Elem -> Proc], NEW p \in Proc
  PROVE  /\ \A l : l \in Own(m, w, p) <=> \E e \in Elem : w[e] = p /\ l \in Needed(m, e)
         /\ \A l : l \in Own(m, w, p) <=> p \in Users(m, w, l)
         /\ Own(m, w, p) \subseteq DOMAIN m.masters
         /\ AllDofMen(m, w, p) \subseteq DOMAIN m.masters /\ Own(m, w, p) \subseteq AllDofMen(m, w, p)
         /\ Of(w, p) \subseteq Elem /\ Mirrored(m, w, p) \subseteq Elem \ Of(w, p) /\ AllElems(m, w, p) \subseteq Elem
PROOF
<1>1. \A l : l \in Own(m, w, p) <=> \E e \in Elem : w[e] = p /\ l \in Needed(m, e)
  BY DEF Own, NeededBy, Of
<1>2. \A l : l \in Own(m, w, p) <=> p \in Users(m, w, l)
  BY <1>1 DEF Users
<1>3. Of(w, p) \subseteq Elem
  BY DEF Of
<1>4. Mirrored(m, w, p) \subseteq Elem \ Of(w, p)
  BY <1>3, NeededIn DEF Mirrored, Around
<1>5. NeededBy(m, Mirrored(m, w, p)) \subseteq DOMAIN m.masters
  BY <1>4, NeededIn DEF NeededBy
<1>6. Own(m, w, p) \subseteq DOMAIN m.masters
  BY <1>1, NeededIn
<1>. QED
  BY <1>1, <1>2, <1>3, <1>4, <1>5, <1>6 DEF AllDofMen, AllElems

LEMMA OwnMasters ==
  ASSUME MastersPrimary, NEW m \in Meshes, NEW w \in [Elem -> Proc], NEW p \in Proc, NEW l \in Own(m, w, p)
  PROVE  m.masters[l] \subseteq Own(m, w, p)
PROOF
<1>1. PICK e \in Elem : w[e] = p /\ l \in Needed(m, e)
  BY OwnIs
<1>2. m.masters[l] \subseteq Needed(m, e)
  BY <1>1, MastersNeeded
<1>. QED
  BY <1>1, <1>2, OwnIs

LEMMA UsersAre ==
  ASSUME NEW m \in Meshes, NEW w \in [Elem -> Proc], NEW l
  PROVE  Users(m, w, l) \subseteq Proc /\ \A p \in Proc : p \in Users(m, w, l) <=> l \in Own(m, w, p)
PROOF BY OwnIs DEF Users

LEMMA BroughtIs ==
  ASSUME NEW m \in Meshes, NEW a \in [Elem -> Proc], NEW b \in [Elem -> Proc], NEW l
  PROVE  /\ Brought(m, a, b, Proc, l) = Users(m, b, l)
         /\ \A q \in Proc : l \notin Own(m, a, q) => Brought(m, a, b, {q}, l) = {}
PROOF
<1>1. Brought(m, a, b, Proc, l) = Users(m, b, l)
  BY DEF Brought, Users
<1>2. ASSUME NEW q \in Proc, l \notin Own(m, a, q)
      PROVE  Brought(m, a, b, {q}, l) = {}
  BY <1>2, OwnIs DEF Brought
<1>. QED
  BY <1>1, <1>2

LEMMA BroughtMore ==
  ASSUME NEW m, NEW a, NEW b, NEW l, NEW R, NEW S
  PROVE  Brought(m, a, b, R \union S, l) = Brought(m, a, b, R, l) \union Brought(m, a, b, S, l)
PROOF BY DEF Brought

-------------------------------------------------------------------------------
(* Lists *)

LEMMA ListTyped ==
  ASSUME NEW m \in Meshes, NEW D, NEW E, NEW d, Lists(d, m, D, E)
  PROVE  /\ DOMAIN d = {"dmans", "elems"} /\ d.dmans \in Seq(DofMen(m)) /\ d.elems \in Seq(Elements)
         /\ \A i \in DOMAIN d.dmans : d.dmans[i] \in DofMen(m) /\ d.dmans[i].label \in D
         /\ \A i \in DOMAIN d.elems : d.elems[i] \in Elements /\ d.elems[i].label \in E
         /\ \A l \in D : \E i \in DOMAIN d.dmans : d.dmans[i].label = l
         /\ \A e \in E : \E i \in DOMAIN d.elems : d.elems[i].label = e
         /\ d = [dmans |-> d.dmans, elems |-> d.elems]
PROOF
<1>1. d \in Domains(m)
  BY DEF Lists
<1>2. /\ DOMAIN d = {"dmans", "elems"} /\ d.dmans \in Seq(DofMen(m)) /\ d.elems \in Seq(Elements)
      /\ d = [dmans |-> d.dmans, elems |-> d.elems]
  BY <1>1 DEF Domains
<1>3. (\A i \in DOMAIN d.dmans : d.dmans[i] \in DofMen(m)) /\ (\A i \in DOMAIN d.elems : d.elems[i] \in Elements)
  BY <1>2
<1>4. /\ D = {d.dmans[i].label : i \in DOMAIN d.dmans}
      /\ E = {d.elems[i].label : i \in DOMAIN d.elems}
  BY DEF Lists, Labels
<1>. QED
  BY <1>2, <1>3, <1>4

LEMMA ListOneLevel ==
  ASSUME MastersPrimary, NEW m \in Meshes, NEW D, NEW E, NEW d, Lists(d, m, D, E)
  PROVE  OneLevel(d.dmans)
PROOF
<1>. SUFFICES ASSUME NEW i \in DOMAIN d.dmans, NEW k \in d.dmans[i].masters
              PROVE  k \in DOMAIN d.dmans /\ d.dmans[k].masters = {}
  BY DEF OneLevel
<1>1. /\ d.dmans[i].masters \subseteq DOMAIN d.dmans
      /\ {d.dmans[j].label : j \in d.dmans[i].masters} = m.masters[d.dmans[i].label]
  BY DEF Lists, Linked, MastersLinked
<1>2. k \in DOMAIN d.dmans /\ d.dmans[k].label \in m.masters[d.dmans[i].label]
  BY <1>1
<1>3. d.dmans[i].label \in DOMAIN m.masters
  BY ListTyped DEF DofMen
<1>4. m.masters[d.dmans[k].label] = {}
  BY <1>2, <1>3 DEF MastersPrimary
<1>5. {d.dmans[j].label : j \in d.dmans[k].masters} = m.masters[d.dmans[k].label]
  BY <1>2 DEF Lists, Linked, MastersLinked
<1>. QED
  BY <1>2, <1>4, <1>5

\* The local elements of a list are those of the process.
LEMMA LocalElemsAre ==
  ASSUME NEW m \in Meshes, NEW w \in [Elem -> Proc], NEW p \in Proc, NEW D, NEW E, NEW d,
         Lists(d, m, D, E), Owned(d, w, p), Of(w, p) \subseteq E
  PROVE  /\ \A i \in DOMAIN d.elems : d.elems[i].mode = "local" <=> d.elems[i].label \in Of(w, p)
         /\ \A e \in Of(w, p) : \E i \in DOMAIN d.elems : d.elems[i].label = e /\ d.elems[i].mode = "local"
PROOF
<1>1. /\ \A i \in DOMAIN d.elems : d.elems[i].label \in Elem
      /\ \A e \in E : \E i \in DOMAIN d.elems : d.elems[i].label = e
  BY ListTyped DEF Elements
<1>2. \A i \in DOMAIN d.elems : d.elems[i].mode = "local" <=> d.elems[i].label \in Of(w, p)
  BY <1>1 DEF Owned, Of
<1>. QED
  BY <1>1, <1>2

\* Element nodes and the numbers of dof managers.
LEMMA NodesAre ==
  ASSUME NEW m, NEW D, NEW E, NEW d, Lists(d, m, D, E), NEW i \in DOMAIN d.dmans, NEW k \in DOMAIN d.elems
  PROVE  (\E n \in DOMAIN d.elems[k].nodes : d.elems[k].nodes[n] = i) <=>
           d.dmans[i].label \in NodesIn(m, d.elems[k].label)
PROOF
<1>1. /\ DOMAIN d.elems[k].nodes = DOMAIN m.nodes[d.elems[k].label]
      /\ \A n \in DOMAIN d.elems[k].nodes :
           /\ d.elems[k].nodes[n] \in DOMAIN d.dmans
           /\ d.dmans[d.elems[k].nodes[n]].label = m.nodes[d.elems[k].label][n]
  BY DEF Lists, Linked, NodesLinked
<1>2. \A j \in DOMAIN d.dmans : d.dmans[i].label = d.dmans[j].label => i = j
  BY DEF Lists, Distinct
<1>3. PICK us : us = d.elems[k].nodes
  OBVIOUS
<1>4. PICK ns : ns = m.nodes[d.elems[k].label]
  OBVIOUS
<1>5. DOMAIN us = DOMAIN ns /\ \A n \in DOMAIN us : us[n] \in DOMAIN d.dmans /\ d.dmans[us[n]].label = ns[n]
  BY <1>1, <1>3, <1>4
<1>6. NodesIn(m, d.elems[k].label) = {ns[n] : n \in DOMAIN ns}
  BY <1>4 DEF NodesIn
<1>7. ASSUME NEW n \in DOMAIN us, us[n] = i
      PROVE  d.dmans[i].label \in {ns[x] : x \in DOMAIN ns}
  BY <1>5, <1>7
<1>8. ASSUME NEW n \in DOMAIN ns, d.dmans[i].label = ns[n]
      PROVE  us[n] = i
  BY <1>2, <1>5, <1>8
<1>. QED
  BY <1>3, <1>5, <1>6, <1>7, <1>8

LEMMA CompleteIs ==
  ASSUME NEW m \in Meshes, NEW w \in [Elem -> Proc], NEW p \in Proc, NEW d, Complete(d, m, w, p)
  PROVE  /\ Lists(d, m, AllDofMen(m, w, p), AllElems(m, w, p))
         /\ \A i \in DOMAIN d.elems : d.elems[i].mode = "local" <=> d.elems[i].label \in Of(w, p)
         /\ \A e \in Of(w, p) : \E i \in DOMAIN d.elems : d.elems[i].label = e /\ d.elems[i].mode = "local"
         /\ \A l \in AllDofMen(m, w, p) : \E i \in DOMAIN d.dmans : d.dmans[i].label = l
         /\ \A l \in Own(m, w, p) : \E i \in DOMAIN d.dmans : d.dmans[i].label = l
         /\ \A i \in DOMAIN d.dmans : d.dmans[i].label \in Own(m, w, p) <=> d.dmans[i].mode # "null"
         /\ \A i \in DOMAIN d.dmans : \A q \in Proc \ {p} :
              (d.dmans[i].mode = "shared" /\ q \in d.dmans[i].parts) <=>
                d.dmans[i].label \in Own(m, w, p) \intersect Own(m, w, q)
PROOF
<1>1. /\ Lists(d, m, AllDofMen(m, w, p), AllElems(m, w, p))
      /\ Shares(d, m, w, p, Own(m, w, p)) /\ NullOutside(d, Own(m, w, p)) /\ Owned(d, w, p)
  BY DEF Complete
<1>2. Of(w, p) \subseteq AllElems(m, w, p) /\ Own(m, w, p) \subseteq AllDofMen(m, w, p)
  BY DEF AllElems, AllDofMen
<1>3. \A l \in AllDofMen(m, w, p) : \E i \in DOMAIN d.dmans : d.dmans[i].label = l
  BY <1>1, ListTyped
<1>4. ASSUME NEW i \in DOMAIN d.dmans
      PROVE  /\ d.dmans[i].label \in Own(m, w, p) <=> d.dmans[i].mode # "null"
             /\ \A q \in Proc \ {p} :
                  (d.dmans[i].mode = "shared" /\ q \in d.dmans[i].parts) <=>
                    d.dmans[i].label \in Own(m, w, p) \intersect Own(m, w, q)
  <2>. DEFINE l == d.dmans[i].label
  <2>1. CASE l \in Own(m, w, p)
    <3>1. UsersListed(d.dmans[i], p, Users(m, w, l))
      BY <1>1, <2>1 DEF Shares
    <3>2. \A q \in Proc : q \in Users(m, w, l) <=> l \in Own(m, w, q)
      BY UsersAre
    <3>3. \A q \in Proc \ {p} : q \in d.dmans[i].parts <=> l \in Own(m, w, q)
      BY <3>1, <3>2 DEF UsersListed
    <3>4. \A q \in Proc \ {p} : l \in Own(m, w, q) => d.dmans[i].mode = "shared"
      BY <3>1, <3>2 DEF UsersListed, SharedMode
    <3>5. d.dmans[i].mode # "null"
      BY <3>1 DEF UsersListed, SharedMode
    <3>. QED
      BY <2>1, <3>3, <3>4, <3>5
  <2>2. CASE l \notin Own(m, w, p)
    BY <1>1, <2>2 DEF NullOutside
  <2>. QED
    BY <2>1, <2>2
<1>5. /\ \A i \in DOMAIN d.elems : d.elems[i].mode = "local" <=> d.elems[i].label \in Of(w, p)
      /\ \A e \in Of(w, p) : \E i \in DOMAIN d.elems : d.elems[i].label = e /\ d.elems[i].mode = "local"
  BY <1>1, <1>2, LocalElemsAre
<1>. QED
  BY <1>1, <1>2, <1>3, <1>4, <1>5

-------------------------------------------------------------------------------
(* Labelling: the new partitions of the dof managers *)

LEMMA ElementPartsAre ==
  ASSUME NEW m \in Meshes, NEW a \in [Elem -> Proc], NEW b \in [Elem -> Proc], plan = b,
         NEW p \in Proc, NEW d, d = dom[p], Complete(d, m, a, p), NEW i \in DOMAIN d.dmans
  PROVE  ElementParts(p, i) = IF d.dmans[i].label \in Own(m, a, p)
                              THEN {b[e] : e \in {e \in Of(a, p) : d.dmans[i].label \in NodesIn(m, e)}} ELSE {}
PROOF
<1>. DEFINE l == d.dmans[i].label
            K == {k \in LocalElems(p) : \E n \in DOMAIN d.elems[k].nodes : d.elems[k].nodes[n] = i}
<1>1. /\ Lists(d, m, AllDofMen(m, a, p), AllElems(m, a, p))
      /\ \A k \in DOMAIN d.elems : d.elems[k].mode = "local" <=> d.elems[k].label \in Of(a, p)
      /\ \A e \in Of(a, p) : \E k \in DOMAIN d.elems : d.elems[k].label = e /\ d.elems[k].mode = "local"
      /\ l \in Own(m, a, p) <=> d.dmans[i].mode # "null"
  BY CompleteIs
<1>2. LocalElems(p) = {k \in DOMAIN d.elems : d.elems[k].mode = "local"}
  BY DEF LocalElems
<1>3. ElementParts(p, i) = IF d.dmans[i].mode = "null" THEN {} ELSE {b[d.elems[k].label] : k \in K}
  BY DEF ElementParts
<1>4. \A k \in DOMAIN d.elems : (\E n \in DOMAIN d.elems[k].nodes : d.elems[k].nodes[n] = i) <=>
        l \in NodesIn(m, d.elems[k].label)
  BY <1>1, NodesAre
<1>5. \A k \in K : d.elems[k].label \in {e \in Of(a, p) : l \in NodesIn(m, e)}
  BY <1>1, <1>2, <1>4
<1>6. \A e \in {e \in Of(a, p) : l \in NodesIn(m, e)} : \E k \in K : d.elems[k].label = e
  BY <1>1, <1>2, <1>4
<1>7. {b[d.elems[k].label] : k \in K} = {b[e] : e \in {e \in Of(a, p) : l \in NodesIn(m, e)}}
  <2>. HIDE DEF K, l
  <2>. QED
    BY <1>5, <1>6
<1>. QED
  BY <1>1, <1>3, <1>7

\* What a process finds out by itself: the partitions its own elements bring.
LEMMA FirstParts ==
  ASSUME MastersPrimary, NEW m \in Meshes, NEW a \in [Elem -> Proc], NEW b \in [Elem -> Proc], plan = b,
         NEW p \in Proc, NEW d, d = dom[p], Complete(d, m, a, p)
  PROVE  NewParts(WithSlaves(p, [i \in DOMAIN d.dmans |-> ElementParts(p, i)]), d, m, a, b, p, {})
PROOF
<1>. DEFINE L == d.dmans
            own == [i \in DOMAIN L |-> ElementParts(p, i)]
            At(i) == {b[e] : e \in {e \in Of(a, p) : L[i].label \in NodesIn(m, e)}}
<1>1. /\ Lists(d, m, AllDofMen(m, a, p), AllElems(m, a, p)) /\ L \in Seq(DofMen(m))
      /\ \A i \in DOMAIN L : L[i].label \in DOMAIN m.masters
  BY ListTyped DEF Complete, DofMen
<1>2. \A i \in DOMAIN L : own[i] = IF L[i].label \in Own(m, a, p) THEN At(i) ELSE {}
  <2>1. \A i \in DOMAIN L : ElementParts(p, i) = IF L[i].label \in Own(m, a, p) THEN At(i) ELSE {}
    BY ElementPartsAre
  <2>. HIDE DEF At
  <2>. QED
    BY <2>1
<1>3. own \in [DOMAIN L -> SUBSET Proc]
  <2>1. \A i \in DOMAIN L : At(i) \subseteq Proc
    BY DEF Of
  <2>. HIDE DEF At
  <2>2. \A i \in DOMAIN L : own[i] \subseteq Proc
    BY <1>2, <2>1
  <2>. HIDE DEF L
  <2>. QED
    BY <2>2
<1>12. \A n \in Own(m, a, p) : \E k \in DOMAIN L : L[k].label = n
  BY CompleteIs
<1>4. OneLevel(L)
  BY <1>1, ListOneLevel
<1>. DEFINE np == WithSlaves(p, own)
<1>5. np = [i \in DOMAIN L |-> own[i] \union UNION {own[k] : k \in {k \in DOMAIN L : i \in L[k].masters}}]
  <2>. HIDE DEF own
  <2>1. L = dom[p].dmans
    OBVIOUS
  <2>. HIDE DEF L
  <2>. QED
    BY <1>1, <1>3, <1>4, <2>1, SlavesAdded
<1>11. DOMAIN own = DOMAIN L
  OBVIOUS
<1>. HIDE DEF own, np
<1>6. ASSUME NEW i \in DOMAIN L, NEW k \in DOMAIN L
      PROVE  i \in L[k].masters <=> L[i].label \in m.masters[L[k].label]
  <2>1. L[k].masters \subseteq DOMAIN L /\ {L[j].label : j \in L[k].masters} = m.masters[L[k].label]
    BY <1>1 DEF Lists, Linked, MastersLinked
  <2>2. Distinct(L)
    BY <1>1 DEF Lists
  <2>3. ASSUME L[i].label \in m.masters[L[k].label]
        PROVE  i \in L[k].masters
    <3>1. PICK j \in L[k].masters : L[j].label = L[i].label
      BY <2>1, <2>3
    <3>. QED
      BY <2>1, <2>2, <3>1 DEF Distinct
  <2>. QED
    BY <2>1, <2>3
<1>7. ASSUME NEW i \in DOMAIN L
      PROVE  np[i] = IF L[i].label \in Own(m, a, p) THEN Brought(m, a, b, {p}, L[i].label) ELSE {}
  <2>. DEFINE l == L[i].label
              Slaves == {k \in DOMAIN L : i \in L[k].masters}
  <2>1. np[i] = own[i] \union UNION {own[k] : k \in Slaves}
    BY <1>5
  <2>2. CASE l \notin Own(m, a, p)
    <3>1. \A k \in Slaves : L[k].label \notin Own(m, a, p)
      BY <1>6, <2>2, OwnMasters
    <3>2. \A k \in Slaves : own[k] = {}
      BY <1>2, <3>1
    <3>3. own[i] = {}
      BY <1>2, <2>2
    <3>. HIDE DEF Slaves
    <3>4. UNION {own[k] : k \in Slaves} = {}
      BY <3>2
    <3>. QED
      BY <2>1, <2>2, <3>3, <3>4
  <2>3. CASE l \in Own(m, a, p)
    <3>1. ASSUME NEW x \in np[i]
          PROVE  x \in Brought(m, a, b, {p}, l)
      <4>1. PICK k \in {i} \union Slaves : x \in own[k]
        BY <2>1
      <4>4. x \in At(k)
        BY <1>2, <4>1
      <4>2. PICK e \in Of(a, p) : L[k].label \in NodesIn(m, e) /\ x = b[e]
        BY <4>4
      <4>3. l \in Needed(m, e)
        BY <1>6, <4>1, <4>2 DEF Needed
      <4>. QED
        BY <4>2, <4>3 DEF Brought, Of
    <3>2. ASSUME NEW x \in Brought(m, a, b, {p}, l)
          PROVE  x \in np[i]
      <4>1. PICK e \in Elem : a[e] = p /\ l \in Needed(m, e) /\ x = b[e]
        BY DEF Brought
      <4>2. PICK n \in NodesIn(m, e) : n = l \/ l \in m.masters[n]
        BY <4>1 DEF Needed
      <4>3. n \in Own(m, a, p)
        BY <4>1, <4>2, OwnIs DEF Needed
      <4>4. PICK k \in DOMAIN L : L[k].label = n
        BY <1>12, <4>3
      <4>7. x \in At(k)
        BY <4>1, <4>2, <4>4 DEF Of
      <4>5. x \in own[k]
        BY <1>2, <4>3, <4>4, <4>7
      <4>6. k = i \/ k \in Slaves
        <5>1. CASE n = l
          BY <1>1, <4>4, <5>1 DEF Lists, Distinct
        <5>2. CASE l \in m.masters[n]
          BY <1>6, <4>4, <5>2
        <5>. QED
          BY <4>2, <5>1, <5>2
      <4>. QED
        BY <2>1, <4>5, <4>6
    <3>. QED
      BY <2>3, <3>1, <3>2
  <2>. QED
    BY <2>2, <2>3
<1>8. \A i \in DOMAIN L : Brought(m, a, b, {p} \union {}, L[i].label) = Brought(m, a, b, {p}, L[i].label)
  BY DEF Brought
<1>9. DOMAIN np = DOMAIN L
  BY <1>5
<1>10. NewParts(np, d, m, a, b, p, {})
  BY <1>7, <1>8, <1>9 DEF NewParts
<1>. QED
  BY <1>10 DEF np, own

\* What it packs for those that share the dof managers.
SharedMessage(p, q, np) ==
  {[label |-> dom[p].dmans[i].label, parts |-> np[i]] :
     i \in {i \in DOMAIN dom[p].dmans : dom[p].dmans[i].mode = "shared" /\ q # p /\ q \in dom[p].dmans[i].parts}}

LEMMA SharedMessageIs ==
  ASSUME NEW m \in Meshes, NEW a \in [Elem -> Proc], NEW b \in [Elem -> Proc],
         NEW p \in Proc, NEW q \in Proc \ {p}, NEW d, d = dom[p], Complete(d, m, a, p),
         NEW np, NewParts(np, d, m, a, b, p, {})
  PROVE  SharedMessage(p, q, np) = SharedMail(m, a, b, p, q)
PROOF
<1>. DEFINE L == d.dmans
            I == {i \in DOMAIN L : L[i].mode = "shared" /\ q # p /\ q \in L[i].parts}
            Both == Own(m, a, p) \intersect Own(m, a, q)
            Sent(l) == [label |-> l, parts |-> Brought(m, a, b, {p}, l)]
<1>1. /\ \A i \in DOMAIN L : i \in I <=> L[i].label \in Both
      /\ \A l \in Both : \E i \in DOMAIN L : L[i].label = l
  BY CompleteIs
<1>2. \A i \in I : np[i] = Brought(m, a, b, {p}, L[i].label)
  <2>1. \A i \in I : np[i] = Brought(m, a, b, {p} \union {}, L[i].label)
    BY <1>1 DEF NewParts
  <2>2. {p} \union {} = {p}
    OBVIOUS
  <2>. QED
    BY <2>1, <2>2
<1>3. SharedMessage(p, q, np) = {[label |-> L[i].label, parts |-> np[i]] : i \in I}
  BY DEF SharedMessage
<1>4. I \subseteq DOMAIN L
  OBVIOUS
<1>. HIDE DEF I, L, Both
<1>5. {[label |-> L[i].label, parts |-> np[i]] : i \in I} = {Sent(l) : l \in Both}
  <2>. DEFINE Rec(i) == [label |-> L[i].label, parts |-> np[i]]
  <2>1. \A i \in I : Rec(i) = Sent(L[i].label)
    BY <1>2
  <2>. HIDE DEF Sent, Rec
  <2>2. \A i \in I : L[i].label \in Both
    BY <1>1, <1>4
  <2>3. \A l \in Both : \E i \in I : L[i].label = l
    BY <1>1
  <2>4. {Rec(i) : i \in I} = {Sent(l) : l \in Both}
    BY <2>1, <2>2, <2>3
  <2>. QED
    BY <2>4 DEF Rec
<1>. QED
  BY <1>3, <1>5 DEF SharedMail, Both

-------------------------------------------------------------------------------
(* Steps of one process *)

\* Another process than p is at its place if p is.
LEMMA OneLaid ==
  ASSUME NEW m \in Meshes, NEW a \in [Elem -> Proc], NEW b \in [Elem -> Proc], LayoutOf(m, a, b), NEW p \in Proc,
         mesh' = mesh, plan' = plan, Indexed', \A q \in Proc \ {p} : StateOf(q)' = StateOf(q),
         NEW s, s = StateOf(p)', Laid(p, m, a, b, s)
  PROVE  LayoutInv'
PROOF
<1>1. \A q \in Proc : Laid(q, m, a, b, StateOf(q)')
  BY DEF LayoutOf
<1>2. LayoutOf(m, a, b)'
  BY <1>1 DEF LayoutOf
<1>. QED
  BY <1>2 DEF LayoutInv

\* What a process has, step by step.
LEMMA LaidLabel ==
  ASSUME NEW p, NEW m, NEW a, NEW b, NEW s, s.pc = "label"
  PROVE  Laid(p, m, a, b, s) <=> Complete(s.dom, m, a, p) /\ s.trans = NoTransactions /\ s.got = {}
PROOF
BY DEF Laid, AtRest, Before, Labelled, Depending, Moving, Mirroring,
     Posted, Waits, Untouched, Steps, After

LEMMA LaidShared ==
  ASSUME NEW p, NEW m, NEW a, NEW b, NEW s, s.pc = "shared"
  PROVE  Laid(p, m, a, b, s) <=>
            /\ Complete(s.dom, m, a, p) /\ s.trans = NoTransactions /\ s.got \subseteq Proc
            /\ NewParts(s.new, s.dom, m, a, b, p, s.got)
            /\ \A q \in Proc \ {p} : s.mail[q].dmans = SharedMail(m, a, b, p, q)
PROOF
BY DEF Laid, AtRest, Before, Labelled, Depending, Moving, Mirroring,
     Posted, Waits, Untouched, Steps, After

LEMMA LaidDepend ==
  ASSUME NEW p, NEW m, NEW a, NEW b, NEW s, s.pc = "depend"
  PROVE  Laid(p, m, a, b, s) <=>
            /\ Complete(s.dom, m, a, p) /\ s.trans = NoTransactions /\ s.got = {}
            /\ NewParts(s.new, s.dom, m, a, b, p, Proc)
PROOF
BY DEF Laid, AtRest, Before, Labelled, Depending, Moving, Mirroring,
     Posted, Waits, Untouched, Steps, After

LEMMA LaidDepends ==
  ASSUME NEW p, NEW m, NEW a, NEW b, NEW s, s.pc = "depends"
  PROVE  Laid(p, m, a, b, s) <=>
            /\ Complete(s.dom, m, a, p) /\ s.trans = NoTransactions /\ s.got \subseteq Proc
            /\ NewParts(s.new, s.dom, m, a, b, p, Proc)
            /\ s.deps = Dependencies(m, a, b, p, s.got)
            /\ \A q \in Proc \ {p} : s.mail[q].elems = DependMail(m, a, b, p, q)
PROOF
BY DEF Laid, AtRest, Before, Labelled, Depending, Moving, Mirroring,
     Posted, Waits, Untouched, Steps, After

LEMMA LaidMigrate ==
  ASSUME NEW p, NEW m, NEW a, NEW b, NEW s, s.pc = "migrate"
  PROVE  Laid(p, m, a, b, s) <=>
            /\ Complete(s.dom, m, a, p) /\ s.trans = NoTransactions /\ s.got = {}
            /\ NewParts(s.new, s.dom, m, a, b, p, Proc)
            /\ s.deps = Dependencies(m, a, b, p, Proc)
PROOF
BY DEF Laid, AtRest, Before, Labelled, Depending, Moving, Mirroring,
     Posted, Waits, Untouched, Steps, After

LEMMA LaidMigrating ==
  ASSUME NEW p, NEW m, NEW a, NEW b, NEW s, s.pc = "migrating"
  PROVE  Laid(p, m, a, b, s) <=>
            /\ Packed(s.dom, m, a, b, p) /\ DOMAIN s.trans = {"dmans", "elems"} /\ s.got \subseteq Proc
            /\ Moves(s.trans, m, a, b, p, s.got)
            /\ s.deps = Dependencies(m, a, b, p, Proc)
            /\ \A q \in Proc \ {p} : MovingMail(s.mail[q], m, a, b, p, q)
PROOF
BY DEF Laid, AtRest, Before, Labelled, Depending, Moving, Mirroring,
     Posted, Waits, Untouched, Steps, After

LEMMA LaidCommit ==
  ASSUME NEW p, NEW m, NEW a, NEW b, NEW s, s.pc = "commit"
  PROVE  Laid(p, m, a, b, s) <=>
            /\ Packed(s.dom, m, a, b, p) /\ DOMAIN s.trans = {"dmans", "elems"} /\ s.got = {}
            /\ Moves(s.trans, m, a, b, p, Proc)
            /\ s.deps = Dependencies(m, a, b, p, Proc)
PROOF
BY DEF Laid, AtRest, Before, Labelled, Depending, Moving, Mirroring,
     Posted, Waits, Untouched, Steps, After

LEMMA LaidWish ==
  ASSUME NEW p, NEW m, NEW a, NEW b, NEW s, s.pc = "wish"
  PROVE  Laid(p, m, a, b, s) <=>
            /\ Bare(s.dom, m, b, p) /\ s.trans = NoTransactions /\ s.got = {}
            /\ s.deps = Dependencies(m, a, b, p, Proc)
PROOF
BY DEF Laid, AtRest, Before, Labelled, Depending, Moving, Mirroring,
     Posted, Waits, Untouched, Steps, After

LEMMA LaidMirroring ==
  ASSUME NEW p, NEW m, NEW a, NEW b, NEW s, s.pc = "mirroring"
  PROVE  Laid(p, m, a, b, s) <=>
            /\ Bare(s.dom, m, b, p) /\ Borrows(s.trans, m, b, p, s.got) /\ s.got \subseteq Proc
            /\ s.deps = Dependencies(m, a, b, p, Proc)
            /\ \A q \in Proc \ {p} : MirrorMail(s.mail[q], m, b, p, q)
PROOF
BY DEF Laid, AtRest, Before, Labelled, Depending, Moving, Mirroring,
     Posted, Waits, Untouched, Steps, After

LEMMA LaidCommitMirrors ==
  ASSUME NEW p, NEW m, NEW a, NEW b, NEW s, s.pc = "commitMirrors"
  PROVE  Laid(p, m, a, b, s) <=>
            /\ Bare(s.dom, m, b, p) /\ Borrows(s.trans, m, b, p, Proc) /\ s.got = {}
            /\ s.deps = Dependencies(m, a, b, p, Proc)
PROOF
BY DEF Laid, AtRest, Before, Labelled, Depending, Moving, Mirroring,
     Posted, Waits, Untouched, Steps, After

LEMMA LaidQuiet ==
  ASSUME NEW p, NEW m, NEW a, NEW b, NEW s, s.pc \in {"maps", "solve"}
  PROVE  Laid(p, m, a, b, s) <=> Complete(s.dom, m, b, p) /\ s.trans = NoTransactions /\ s.got = {}
PROOF
BY DEF Laid, AtRest, Before, Labelled, Depending, Moving, Mirroring,
     Posted, Waits, Untouched, Steps, After

LEMMA LaidGoesOn ==
  ASSUME NEW p, NEW m, NEW a, NEW b, NEW s, Laid(p, m, a, b, s)
  PROVE  s.pc \in Steps \ {"aborted"} /\ s.got \subseteq Proc /\ (s.pc \notin DOMAIN After => s.got = {})
PROOF BY DEF Laid, Waits

LEMMA PackSharedLaid ==
  ASSUME MastersPrimary, NEW m \in Meshes, NEW a \in [Elem -> Proc], NEW b \in [Elem -> Proc], LayoutOf(m, a, b),
         NEW p \in Proc, PackSharedPartitions(p)
  PROVE  LayoutInv'
PROOF
<1>. DEFINE d == dom[p]
            np == WithSlaves(p, [i \in DOMAIN d.dmans |-> ElementParts(p, i)])
            sent == [q \in Proc |-> [NoMessage EXCEPT !.dmans = SharedMessage(p, q, np)]]
<1>1. mesh = m /\ plan = b /\ Indexed /\ Laid(p, m, a, b, StateOf(p))
  BY DEF LayoutOf
<1>2. /\ pc[p] = "label"
      /\ newParts' = [newParts EXCEPT ![p] = np] /\ mail' = [mail EXCEPT ![p] = sent]
      /\ pc' = [pc EXCEPT ![p] = "shared"]
      /\ UNCHANGED <<mesh, dom, plan, deps, trans, got>>
  BY DEF PackSharedPartitions, SharedMessage, Goto
<1>3. Complete(d, m, a, p) /\ trans[p] = NoTransactions /\ got[p] = {}
  BY <1>1, <1>2, LaidLabel DEF StateOf
<1>4. NewParts(np, d, m, a, b, p, {})
  BY <1>1, <1>3, FirstParts
<1>5. ASSUME NEW q \in Proc \ {p}
      PROVE  sent[q].dmans = SharedMail(m, a, b, p, q)
  <2>1. SharedMessage(p, q, np) = SharedMail(m, a, b, p, q)
    <3>. HIDE DEF np
    <3>. QED
      BY <1>3, <1>4, SharedMessageIs
  <2>. QED
    BY <2>1 DEF NoMessage
<1>. HIDE DEF np, sent
<1>6. PICK t : t = StateOf(p)'
  OBVIOUS
<1>9. /\ t.pc = "shared" /\ t.dom = d /\ t.trans = trans[p] /\ t.got = got[p] /\ t.new = np
      /\ t.mail = sent
  BY <1>1, <1>2, <1>6 DEF StateOf, Indexed
<1>7. Laid(p, m, a, b, t)
  BY <1>3, <1>4, <1>5, <1>9, LaidShared
<1>8. Indexed' /\ \A q \in Proc \ {p} : StateOf(q)' = StateOf(q)
  BY <1>1, <1>2 DEF Indexed, StateOf
<1>. QED
  BY <1>2, <1>6, <1>7, <1>8, OneLaid

LEMMA UnpackSharedLaid ==
  ASSUME NEW m \in Meshes, NEW a \in [Elem -> Proc], NEW b \in [Elem -> Proc], LayoutOf(m, a, b),
         NEW p \in Proc, NEW q \in Proc, UnpackSharedPartitions(p, q)
  PROVE  LayoutInv'
PROOF
<1>. DEFINE d == dom[p]
            np == newParts[p]
            R == got[p]
            msg == mail[q][p].dmans
            list(l) == (CHOOSE r \in msg : r.label = l).parts
            merged == [i \in DOMAIN np |-> IF d.dmans[i].label \in {r.label : r \in msg}
                                           THEN np[i] \union list(d.dmans[i].label) ELSE np[i]]
            Both == Own(m, a, q) \intersect Own(m, a, p)
<1>1. mesh = m /\ plan = b /\ Indexed /\ Laid(p, m, a, b, StateOf(p)) /\ Laid(q, m, a, b, StateOf(q))
  BY DEF LayoutOf
<1>2. /\ p # q /\ pc[p] = "shared" /\ pc[q] = "shared"
      /\ newParts' = [newParts EXCEPT ![p] = merged]
      /\ got' = [got EXCEPT ![p] = R \union {q}]
      /\ IF {r.label : r \in msg} \subseteq Labels(d.dmans) THEN UNCHANGED pc ELSE Goto(p, "aborted")
      /\ UNCHANGED <<mesh, dom, plan, deps, trans, mail>>
  BY DEF UnpackSharedPartitions, MayUnpack, MergedParts
<1>3. /\ Complete(d, m, a, p) /\ trans[p] = NoTransactions /\ R \subseteq Proc
      /\ NewParts(np, d, m, a, b, p, R)
      /\ \A x \in Proc \ {p} : mail[p][x].dmans = SharedMail(m, a, b, p, x)
  <2>1. StateOf(p).pc = "shared"
    BY <1>2 DEF StateOf
  <2>. QED
    BY <1>1, <2>1, LaidShared DEF StateOf
<1>4. msg = SharedMail(m, a, b, q, p)
  <2>1. StateOf(q).pc = "shared"
    BY <1>2 DEF StateOf
  <2>2. \A x \in Proc \ {q} : StateOf(q).mail[x].dmans = SharedMail(m, a, b, q, x)
    BY <1>1, <2>1, LaidShared
  <2>. QED
    BY <1>2, <2>2 DEF StateOf
<1>5. \A r \in msg : r.label \in Both /\ r.parts = Brought(m, a, b, {q}, r.label)
  BY <1>4 DEF SharedMail
<1>15. \A l \in Both : [label |-> l, parts |-> Brought(m, a, b, {q}, l)] \in msg
  BY <1>4 DEF SharedMail
<1>6. \A l \in Both : \E r \in msg : r.label = l
  BY <1>15
<1>. HIDE DEF msg
<1>7. {r.label : r \in msg} = Both /\ \A l \in Both : list(l) = Brought(m, a, b, {q}, l)
  BY <1>5, <1>6
<1>8. Both \subseteq Labels(d.dmans)
  BY <1>3, CompleteIs DEF Labels
<1>9. pc' = pc
  BY <1>2, <1>7, <1>8
<1>. HIDE DEF list
<1>10. NewParts(merged, d, m, a, b, p, R \union {q})
  <2>1. DOMAIN merged = DOMAIN d.dmans
    BY <1>3 DEF NewParts
  <2>2. ASSUME NEW i \in DOMAIN d.dmans
        PROVE  merged[i] = IF d.dmans[i].label \in Own(m, a, p)
                           THEN Brought(m, a, b, {p} \union (R \union {q}), d.dmans[i].label) ELSE {}
    <3>. DEFINE l == d.dmans[i].label
    <3>1. /\ np[i] = IF l \in Own(m, a, p) THEN Brought(m, a, b, {p} \union R, l) ELSE {}
          /\ merged[i] = IF l \in Both THEN np[i] \union Brought(m, a, b, {q}, l) ELSE np[i]
      BY <1>3, <1>7 DEF NewParts
    <3>2. Brought(m, a, b, ({p} \union R) \union {q}, l) =
            Brought(m, a, b, {p} \union R, l) \union Brought(m, a, b, {q}, l)
      BY BroughtMore
    <3>4. l \notin Own(m, a, q) => Brought(m, a, b, {q}, l) = {}
      BY BroughtIs
    <3>3. ({p} \union R) \union {q} = {p} \union (R \union {q})
      OBVIOUS
    <3>. QED
      BY <3>1, <3>2, <3>3, <3>4
  <2>. HIDE DEF merged
  <2>. QED
    BY <2>1, <2>2 DEF NewParts
<1>. HIDE DEF merged
<1>11. PICK t : t = StateOf(p)'
  OBVIOUS
<1>12. /\ t.pc = "shared" /\ t.dom = d /\ t.trans = trans[p] /\ t.got = R \union {q} /\ t.new = merged
       /\ t.mail = mail[p]
  BY <1>1, <1>2, <1>9, <1>11 DEF StateOf, Indexed
<1>13. Laid(p, m, a, b, t)
  <2>1. \A x \in Proc \ {p} : t.mail[x].dmans = SharedMail(m, a, b, p, x)
    BY <1>3, <1>12
  <2>2. t.got \subseteq Proc
    BY <1>3, <1>12
  <2>3. NewParts(t.new, t.dom, m, a, b, p, t.got)
    BY <1>10, <1>12
  <2>4. t.pc = "shared" /\ Complete(t.dom, m, a, p) /\ t.trans = NoTransactions
    BY <1>3, <1>12
  <2>. QED
    BY <2>1, <2>2, <2>3, <2>4, LaidShared
<1>14. Indexed' /\ \A x \in Proc \ {p} : StateOf(x)' = StateOf(x)
  BY <1>1, <1>2, <1>9 DEF Indexed, StateOf
<1>. QED
  BY <1>2, <1>11, <1>13, <1>14, OneLaid

LEMMA PackDependenciesLaid ==
  ASSUME NEW m \in Meshes, NEW a \in [Elem -> Proc], NEW b \in [Elem -> Proc], LayoutOf(m, a, b),
         NEW p \in Proc, PackDependencies(p)
  PROVE  LayoutInv'
PROOF
<1>. DEFINE d == dom[p]
            own == {d.elems[i] : i \in LocalElems(p)}
            tables == [l \in OwnLabels(p) |-> (CHOOSE e \in own : e.label = l).table]
            rec(e) == [label |-> e.label, near |-> e.table]
            sent == [q \in Proc |-> [NoMessage EXCEPT !.elems =
                       {rec(e) : e \in {e \in own : q # p /\ plan[e.label] = q}}]]
<1>1. mesh = m /\ plan = b /\ Indexed /\ Laid(p, m, a, b, StateOf(p))
  BY DEF LayoutOf
<1>2. /\ pc[p] = "depend"
      /\ deps' = [deps EXCEPT ![p] = tables] /\ mail' = [mail EXCEPT ![p] = sent]
      /\ pc' = [pc EXCEPT ![p] = "depends"]
      /\ UNCHANGED <<mesh, dom, plan, newParts, trans, got>>
  BY DEF PackDependencies, Goto
<1>3. /\ Complete(d, m, a, p) /\ trans[p] = NoTransactions /\ got[p] = {}
      /\ NewParts(newParts[p], d, m, a, b, p, Proc)
  <2>1. StateOf(p).pc = "depend"
    BY <1>2 DEF StateOf
  <2>. QED
    BY <1>1, <2>1, LaidDepend DEF StateOf
<1>4. /\ Lists(d, m, AllDofMen(m, a, p), AllElems(m, a, p)) /\ Averages(d, m)
      /\ \A i \in DOMAIN d.elems : d.elems[i].mode = "local" <=> d.elems[i].label \in Of(a, p)
      /\ \A e \in Of(a, p) : \E i \in DOMAIN d.elems : d.elems[i].label = e /\ d.elems[i].mode = "local"
  BY <1>3, CompleteIs DEF Complete
<1>5. LocalElems(p) = {i \in DOMAIN d.elems : d.elems[i].mode = "local"}
  BY DEF LocalElems
<1>6. OwnLabels(p) = Of(a, p)
  BY <1>4, <1>5 DEF OwnLabels
<1>7. \A r \in own : r.label \in Of(a, p) /\ r.table = m.near[r.label]
  BY <1>4, <1>5 DEF Averages
<1>8. \A e \in Of(a, p) : \E r \in own : r.label = e
  BY <1>4, <1>5
<1>. HIDE DEF own
<1>9. tables = Dependencies(m, a, b, p, {})
  <2>1. \A l \in Of(a, p) : (CHOOSE r \in own : r.label = l).table = m.near[l]
    BY <1>7, <1>8
  <2>2. Of(a, p) \union {f \in Of(b, p) : a[f] \in {}} = Of(a, p)
    OBVIOUS
  <2>. QED
    BY <1>6, <2>1, <2>2 DEF Dependencies
<1>10. ASSUME NEW q \in Proc \ {p}
       PROVE  sent[q].elems = DependMail(m, a, b, p, q)
  <2>. DEFINE Leaving == {e \in own : q # p /\ plan[e.label] = q}
              Dep(e) == [label |-> e, near |-> m.near[e]]
  <2>1. \A r \in Leaving : rec(r) = Dep(r.label) /\ r.label \in Of(a, p) \intersect Of(b, q)
    BY <1>1, <1>7 DEF Of
  <2>2. \A e \in Of(a, p) \intersect Of(b, q) : \E r \in Leaving : r.label = e
    BY <1>1, <1>8 DEF Of
  <2>3. sent[q].elems = {rec(r) : r \in Leaving}
    BY DEF NoMessage
  <2>. HIDE DEF Leaving, rec, Dep, sent
  <2>4. {rec(r) : r \in Leaving} = {Dep(e) : e \in Of(a, p) \intersect Of(b, q)}
    BY <2>1, <2>2
  <2>. QED
    BY <2>3, <2>4 DEF DependMail, Dep
<1>. HIDE DEF tables, sent
<1>11. PICK t : t = StateOf(p)'
  OBVIOUS
<1>12. /\ t.pc = "depends" /\ t.dom = d /\ t.trans = trans[p] /\ t.got = {} /\ t.new = newParts[p]
       /\ t.mail = sent /\ t.deps = tables
  BY <1>1, <1>2, <1>3, <1>11 DEF StateOf, Indexed
<1>13. Laid(p, m, a, b, t)
  <2>1. \A x \in Proc \ {p} : t.mail[x].elems = DependMail(m, a, b, p, x)
    BY <1>10, <1>12
  <2>2. t.pc = "depends" /\ Complete(t.dom, m, a, p) /\ t.trans = NoTransactions /\ t.got \subseteq Proc
    BY <1>3, <1>12
  <2>3. NewParts(t.new, t.dom, m, a, b, p, Proc) /\ t.deps = Dependencies(m, a, b, p, t.got)
    BY <1>3, <1>9, <1>12
  <2>. QED
    BY <2>1, <2>2, <2>3, LaidDepends
<1>14. Indexed' /\ \A x \in Proc \ {p} : StateOf(x)' = StateOf(x)
  BY <1>1, <1>2 DEF Indexed, StateOf
<1>. QED
  BY <1>2, <1>11, <1>13, <1>14, OneLaid

LEMMA UnpackDependenciesLaid ==
  ASSUME NEW m \in Meshes, NEW a \in [Elem -> Proc], NEW b \in [Elem -> Proc], LayoutOf(m, a, b),
         NEW p \in Proc, NEW q \in Proc, UnpackDependencies(p, q)
  PROVE  LayoutInv'
PROOF
<1>. DEFINE d == dom[p]
            R == got[p]
            msg == mail[q][p].elems
            f == deps[p]
            merged == [l \in DOMAIN f \union {r.label : r \in msg} |->
                         IF \E r \in msg : r.label = l THEN (CHOOSE r \in msg : r.label = l).near ELSE f[l]]
            Come == Of(a, q) \intersect Of(b, p)
<1>1. mesh = m /\ plan = b /\ Indexed /\ Laid(p, m, a, b, StateOf(p)) /\ Laid(q, m, a, b, StateOf(q))
  BY DEF LayoutOf
<1>2. /\ p # q /\ pc[p] = "depends" /\ pc[q] = "depends"
      /\ deps' = [deps EXCEPT ![p] = merged]
      /\ got' = [got EXCEPT ![p] = R \union {q}]
      /\ UNCHANGED <<mesh, dom, plan, newParts, trans, mail, pc>>
  BY DEF UnpackDependencies, MayUnpack
<1>3. /\ Complete(d, m, a, p) /\ trans[p] = NoTransactions /\ R \subseteq Proc
      /\ NewParts(newParts[p], d, m, a, b, p, Proc)
      /\ f = Dependencies(m, a, b, p, R)
      /\ \A x \in Proc \ {p} : mail[p][x].elems = DependMail(m, a, b, p, x)
  <2>1. StateOf(p).pc = "depends"
    BY <1>2 DEF StateOf
  <2>. QED
    BY <1>1, <2>1, LaidDepends DEF StateOf
<1>4. msg = DependMail(m, a, b, q, p)
  <2>1. StateOf(q).pc = "depends"
    BY <1>2 DEF StateOf
  <2>2. \A x \in Proc \ {q} : StateOf(q).mail[x].elems = DependMail(m, a, b, q, x)
    BY <1>1, <2>1, LaidDepends
  <2>. QED
    BY <1>2, <2>2 DEF StateOf
<1>5. \A r \in msg : r.label \in Come /\ r.near = m.near[r.label]
  BY <1>4 DEF DependMail
<1>6. \A l \in Come : [label |-> l, near |-> m.near[l]] \in msg
  BY <1>4 DEF DependMail
<1>7. \A l \in Come : \E r \in msg : r.label = l
  BY <1>6
<1>. HIDE DEF msg
<1>8. /\ {r.label : r \in msg} = Come
      /\ \A l : (\E r \in msg : r.label = l) <=> l \in Come
      /\ \A l \in Come : (CHOOSE r \in msg : r.label = l).near = m.near[l]
  BY <1>5, <1>7
<1>9. merged = Dependencies(m, a, b, p, R \union {q})
  <2>1. DOMAIN f = Of(a, p) \union {e \in Of(b, p) : a[e] \in R} /\ \A e \in DOMAIN f : f[e] = m.near[e]
    BY <1>3 DEF Dependencies
  <2>2. DOMAIN f \union Come = Of(a, p) \union {e \in Of(b, p) : a[e] \in R \union {q}}
    BY <2>1 DEF Of
  <2>3. merged = [l \in DOMAIN f \union Come |-> m.near[l]]
    <3>. HIDE DEF f, Come
    <3>. QED
      BY <1>8, <2>1
  <2>. QED
    BY <2>2, <2>3 DEF Dependencies
<1>. HIDE DEF merged
<1>11. PICK t : t = StateOf(p)'
  OBVIOUS
<1>12. /\ t.pc = "depends" /\ t.dom = d /\ t.trans = trans[p] /\ t.got = R \union {q} /\ t.new = newParts[p]
       /\ t.mail = mail[p] /\ t.deps = merged
  BY <1>1, <1>2, <1>11 DEF StateOf, Indexed
<1>13. Laid(p, m, a, b, t)
  <2>1. \A x \in Proc \ {p} : t.mail[x].elems = DependMail(m, a, b, p, x)
    BY <1>3, <1>12
  <2>2. t.pc = "depends" /\ Complete(t.dom, m, a, p) /\ t.trans = NoTransactions /\ t.got \subseteq Proc
    BY <1>3, <1>12
  <2>3. NewParts(t.new, t.dom, m, a, b, p, Proc) /\ t.deps = Dependencies(m, a, b, p, t.got)
    BY <1>3, <1>9, <1>12
  <2>. QED
    BY <2>1, <2>2, <2>3, LaidDepends
<1>14. Indexed' /\ \A x \in Proc \ {p} : StateOf(x)' = StateOf(x)
  BY <1>1, <1>2 DEF Indexed, StateOf
<1>. QED
  BY <1>2, <1>11, <1>13, <1>14, OneLaid

-------------------------------------------------------------------------------
(* What leaves and what stays *)

\* g has what f has, but for the labels in S the records of S.
Takes(g, f, S) ==
  /\ g = [l \in DOMAIN g |-> g[l]] /\ DOMAIN g = DOMAIN f \union LabelsIn(S)
  /\ \A r \in S : g[r.label] = r
  /\ \A l \in DOMAIN f \ LabelsIn(S) : g[l] = f[l]

LEMMA PutIs ==
  ASSUME NEW f, NEW S, NEW g, Takes(g, f, S)
  PROVE  Put(f, S) = g
PROOF
<1>. USE DEF Takes
<1>1. DOMAIN Put(f, S) = DOMAIN g /\ Put(f, S) = [l \in DOMAIN Put(f, S) |-> Put(f, S)[l]]
  BY PutOld DEF Put
<1>2. ASSUME NEW l \in DOMAIN g
      PROVE  Put(f, S)[l] = g[l]
  <2>1. CASE l \in LabelsIn(S)
    <3>1. Put(f, S)[l] \in S /\ Put(f, S)[l].label = l
      BY <2>1, PutNew
    <3>. QED
      BY <3>1
  <2>2. CASE l \notin LabelsIn(S)
    <3>1. \A k \in DOMAIN f \ LabelsIn(S) : Put(f, S)[k] = f[k]
      BY PutOld
    <3>. QED
      BY <2>2, <3>1
  <2>. QED
    BY <2>1, <2>2
<1>. QED
  BY <1>1, <1>2

LEMMA EmptyIs == DOMAIN Empty = {}
PROOF BY DEF Empty

LEMMA PutGone ==
  ASSUME NEW S
  PROVE  Put(Empty, {Gone(l) : l \in S}) = [l \in S |-> Gone(l)]
PROOF
<1>. DEFINE T == {Gone(l) : l \in S}
            g == [l \in S |-> Gone(l)]
<1>1. \A l : Gone(l).label = l
  BY GoneIs
<1>2. LabelsIn(T) = S
  BY <1>1 DEF LabelsIn
<1>3. \A r \in T : g[r.label] = r
  BY <1>1
<1>4. Takes(g, Empty, T)
  BY <1>2, <1>3, EmptyIs DEF Takes
<1>. HIDE DEF T, g
<1>5. Put(Empty, T) = g
  BY <1>4, PutIs
<1>. QED
  BY <1>5 DEF T, g

LEMMA UsersOne ==
  ASSUME NEW m \in Meshes, NEW w \in [Elem -> Proc], NEW l, NEW q \in Users(m, w, l)
  PROVE  Cardinality(Users(m, w, l)) = 1 <=> Users(m, w, l) = {q}
PROOF
<1>1. IsFiniteSet(Users(m, w, l))
  BY UsersAre, ProcAssumption, FS_Subset
<1>2. Cardinality(Users(m, w, l)) = 1 <=> \E x : Users(m, w, l) = {x}
  BY <1>1, FS_Singleton
<1>. QED
  BY <1>2

\* The state of a dof manager of p that U will have.
StateFor(p, U) == IF U = {p} THEN "DM_Local" ELSE IF Cardinality(U) = 1 THEN "DM_Remote" ELSE "DM_Shared"

LEMMA StatesAre ==
  ASSUME NEW m \in Meshes, NEW a \in [Elem -> Proc], NEW b \in [Elem -> Proc],
         NEW p \in Proc, Complete(dom[p], m, a, p), NewParts(newParts[p], dom[p], m, a, b, p, Proc),
         NEW i \in DOMAIN dom[p].dmans, NEW l, l = dom[p].dmans[i].label
  PROVE  /\ l \in Own(m, a, p) =>
              /\ newParts[p][i] = Users(m, b, l) /\ Users(m, b, l) # {}
              /\ DofManState(p, i) = StateFor(p, Users(m, b, l))
         /\ l \notin Own(m, a, p) => newParts[p][i] = {} /\ DofManState(p, i) = "DM_NULL"
         /\ Removed(p, i) <=> l \notin Own(m, a, p) \intersect Own(m, b, p)
PROOF
<1>1. l \in Own(m, a, p) <=> dom[p].dmans[i].mode # "null"
  BY CompleteIs
<1>2. {p} \union Proc = Proc /\ Brought(m, a, b, Proc, l) = Users(m, b, l)
  BY BroughtIs
<1>3. newParts[p][i] = IF l \in Own(m, a, p) THEN Users(m, b, l) ELSE {}
  <2>1. newParts[p][i] = IF l \in Own(m, a, p) THEN Brought(m, a, b, {p} \union Proc, l) ELSE {}
    BY DEF NewParts
  <2>. QED
    BY <1>2, <2>1
<1>4. CASE l \notin Own(m, a, p)
  <2>1. DofManState(p, i) = "DM_NULL"
    BY <1>1, <1>4 DEF DofManState
  <2>. QED
    BY <1>3, <1>4, <2>1 DEF Removed
<1>5. CASE l \in Own(m, a, p)
  <2>. DEFINE U == Users(m, b, l)
  <2>1. DofManState(p, i) = StateFor(p, U)
    BY <1>1, <1>3, <1>5 DEF DofManState, StateFor
  <2>2. PICK e \in Elem : a[e] = p /\ l \in Needed(m, e)
    BY <1>5, OwnIs
  <2>3. b[e] \in U
    BY <2>2 DEF Users
  <2>4. p \in U <=> l \in Own(m, b, p)
    BY UsersAre
  <2>5. p \in U => (Cardinality(U) = 1 <=> U = {p})
    BY UsersOne
  <2>. HIDE DEF U
  <2>6. Removed(p, i) <=> p \notin U
    <3>1. newParts[p][i] = U
      BY <1>3, <1>5 DEF U
    <3>2. CASE p \in U
      BY <2>1, <2>5, <3>1, <3>2 DEF Removed, StateFor
    <3>3. CASE p \notin U
      BY <2>1, <3>1, <3>3 DEF Removed, StateFor
    <3>. QED
      BY <3>2, <3>3
  <2>. QED
    BY <1>3, <1>5, <2>1, <2>3, <2>4, <2>6 DEF U
<1>. QED
  BY <1>4, <1>5

\* What deleteRemoteDofManagers leaves.
LEMMA KeptIs ==
  ASSUME NEW m \in Meshes, NEW a \in [Elem -> Proc], NEW b \in [Elem -> Proc],
         NEW p \in Proc, Complete(dom[p], m, a, p), NewParts(newParts[p], dom[p], m, a, b, p, Proc),
         NEW i \in DOMAIN dom[p].dmans, ~Removed(p, i), NEW r, r = dom[p].dmans[i]
  PROVE  /\ Kept(p, i) \in DofMen(m) /\ Kept(p, i).label = r.label /\ Kept(p, i).masters = r.masters
         /\ UsersListed(Kept(p, i), p, Users(m, b, r.label))
PROOF
<1>. DEFINE U == Users(m, b, r.label)
            shared == DofManState(p, i) = "DM_Shared"
<1>1. r \in DofMen(m)
  BY ListTyped DEF Complete
<1>2. newParts[p][i] = U /\ p \in U /\ U \subseteq Proc /\ DofManState(p, i) = StateFor(p, U)
  <2>1. r.label \in Own(m, a, p) \intersect Own(m, b, p)
    BY StatesAre
  <2>. QED
    BY <2>1, StatesAre, UsersAre
<1>3. Cardinality(U) = 1 <=> U = {p}
  BY <1>2, UsersOne
<1>. HIDE DEF U
<1>4. shared <=> U # {p}
  BY <1>2, <1>3 DEF StateFor
<1>. HIDE DEF shared
<1>5. Kept(p, i) = [r EXCEPT !.parts = IF shared THEN U ELSE {}, !.mode = IF shared THEN "shared" ELSE "local"]
  BY <1>2 DEF Kept, shared
<1>6. /\ Kept(p, i) \in DofMen(m) /\ Kept(p, i).label = r.label /\ Kept(p, i).masters = r.masters
      /\ Kept(p, i).parts = IF shared THEN U ELSE {}
      /\ Kept(p, i).mode = IF shared THEN "shared" ELSE "local"
  BY <1>1, <1>2, <1>5 DEF DofMen
<1>7. UsersListed(Kept(p, i), p, U)
  BY <1>4, <1>6 DEF UsersListed, SharedMode
<1>. QED
  BY <1>6, <1>7 DEF U

\* Global numbers: what a domain saves for others.
DofManFor(m, r) == [label |-> r.label, mode |-> r.mode, parts |-> r.parts, masters |-> m.masters[r.label]]
ElementFor(m, r) ==
  [label |-> r.label, mode |-> r.mode, parts |-> r.parts, nodes |-> m.nodes[r.label], table |-> r.table]

LEMMA SavedDofMan ==
  ASSUME NEW m \in Meshes, NEW D, NEW E, NEW p \in Proc, Lists(dom[p], m, D, E),
         NEW i \in DOMAIN dom[p].dmans, NEW r, r = dom[p].dmans[i]
  PROVE  r \in DofMen(m) /\ GlobalDofMan(p, i) = DofManFor(m, r)
PROOF
<1>1. r \in DofMen(m)
  BY ListTyped
<1>2. PICK x : x = {LabelOf(p, k) : k \in r.masters}
  OBVIOUS
<1>3. x = m.masters[r.label]
  BY <1>2 DEF Lists, Linked, MastersLinked, LabelOf
<1>4. GlobalDofMan(p, i) = [r EXCEPT !.masters = x]
  BY <1>1, <1>2 DEF GlobalDofMan, DofMen
<1>5. r = [label |-> r.label, mode |-> r.mode, parts |-> r.parts, masters |-> r.masters]
  BY <1>1 DEF DofMen
<1>6. GlobalDofMan(p, i) = [label |-> r.label, mode |-> r.mode, parts |-> r.parts, masters |-> x]
  BY <1>4, <1>5
<1>. QED
  BY <1>1, <1>3, <1>6 DEF DofManFor

LEMMA SavedComplete ==
  ASSUME NEW m \in Meshes, NEW w, NEW p \in Proc, Complete(dom[p], m, w, p), NEW i \in DOMAIN dom[p].dmans
  PROVE  GlobalDofMan(p, i) = DofManFor(m, dom[p].dmans[i])
PROOF BY SavedDofMan DEF Complete

NodeLabels(d, r) == [k \in DOMAIN r.nodes |-> d.dmans[r.nodes[k]].label]

LEMMA NodesSaved ==
  ASSUME NEW m \in Meshes, NEW D, NEW E, NEW d, Lists(d, m, D, E),
         NEW i \in DOMAIN d.elems, NEW r, r = d.elems[i]
  PROVE  r \in Elements /\ NodeLabels(d, r) = m.nodes[r.label]
PROOF
<1>1. r \in Elements
  BY ListTyped
<1>2. PICK ns : ns = m.nodes[r.label]
  OBVIOUS
<1>3. ns = [k \in DOMAIN ns |-> ns[k]]
  <2>1. r.label \in Elem
    BY <1>1 DEF Elements
  <2>2. ns \in Seq(DOMAIN m.masters)
    BY <1>2, <2>1, MeshIs DEF MeshTyped
  <2>. QED
    BY <2>2
<1>4. PICK us : us = r.nodes
  OBVIOUS
<1>5. NodesLinked(d, m, i)
  BY DEF Lists, Linked
<1>6. DOMAIN us = DOMAIN ns /\ \A k \in DOMAIN us : d.dmans[us[k]].label = ns[k]
  BY <1>2, <1>4, <1>5 DEF NodesLinked
<1>7. NodeLabels(d, r) = [k \in DOMAIN us |-> d.dmans[us[k]].label]
  BY <1>4 DEF NodeLabels
<1>8. NodeLabels(d, r) = ns
  BY <1>3, <1>6, <1>7
<1>. QED
  BY <1>1, <1>2, <1>8

LEMMA SavedElement ==
  ASSUME NEW m \in Meshes, NEW D, NEW E, NEW p \in Proc, Lists(dom[p], m, D, E),
         NEW i \in DOMAIN dom[p].elems, NEW r, r = dom[p].elems[i]
  PROVE  r \in Elements /\ GlobalElem(p, i) = ElementFor(m, r)
PROOF
<1>1. PICK x : x = NodeLabels(dom[p], r)
  OBVIOUS
<1>2. r \in Elements /\ x = m.nodes[r.label]
  BY <1>1, NodesSaved
<1>3. GlobalElem(p, i) = [r EXCEPT !.nodes = x]
  <2>1. GlobalElem(p, i) = [r EXCEPT !.nodes = [k \in DOMAIN r.nodes |-> LabelOf(p, r.nodes[k])]]
    BY <1>2 DEF GlobalElem, Elements
  <2>2. [k \in DOMAIN r.nodes |-> LabelOf(p, r.nodes[k])] = x
    BY <1>1 DEF LabelOf, NodeLabels
  <2>. QED
    BY <2>1, <2>2
<1>4. r = [label |-> r.label, mode |-> r.mode, parts |-> r.parts, nodes |-> r.nodes, table |-> r.table]
  BY <1>2 DEF Elements
<1>5. GlobalElem(p, i) = [label |-> r.label, mode |-> r.mode, parts |-> r.parts, nodes |-> x, table |-> r.table]
  BY <1>3, <1>4
<1>. QED
  BY <1>2, <1>5 DEF ElementFor

\* Local elements as they are saved.
SavedAs(p, i) == [GlobalElem(p, i) EXCEPT !.table = {}]

LEMMA SavedElem ==
  ASSUME NEW m \in Meshes, NEW w \in [Elem -> Proc], NEW p \in Proc, NEW D, NEW E, Lists(dom[p], m, D, E),
         Owned(dom[p], w, p), NEW i \in DOMAIN dom[p].elems, dom[p].elems[i].mode = "local"
  PROVE  SavedAs(p, i) = SentElem(m, dom[p].elems[i].label)
PROOF
<1>1. PICK r : r = dom[p].elems[i]
  OBVIOUS
<1>2. PICK g : g = GlobalElem(p, i)
  OBVIOUS
<1>3. r.parts = {} /\ r.mode = "local"
  BY <1>1 DEF Owned
<1>4. g = [label |-> r.label, mode |-> r.mode, parts |-> r.parts, nodes |-> m.nodes[r.label], table |-> r.table]
  BY <1>1, <1>2, SavedElement DEF ElementFor
<1>9. PICK u : u = SavedAs(p, i)
  OBVIOUS
<1>5. u = [g EXCEPT !.table = {}]
  BY <1>2, <1>9 DEF SavedAs
<1>6. DOMAIN u = {"label", "mode", "parts", "nodes", "table"} /\ u = [k \in DOMAIN u |-> u[k]]
  BY <1>4, <1>5
<1>7. u.label = r.label /\ u.mode = "local" /\ u.parts = {} /\ u.nodes = m.nodes[r.label] /\ u.table = {}
  BY <1>3, <1>4, <1>5
<1>8. u = [label |-> r.label, mode |-> "local", parts |-> {}, nodes |-> m.nodes[r.label], table |-> {}]
  BY <1>6, <1>7
<1>. QED
  BY <1>1, <1>8, <1>9 DEF SentElem

LEMMA MigratesIs ==
  ASSUME NEW m \in Meshes, NEW a \in [Elem -> Proc], NEW b \in [Elem -> Proc],
         NEW p \in Proc, Complete(dom[p], m, a, p), NewParts(newParts[p], dom[p], m, a, b, p, Proc),
         NEW i \in DOMAIN dom[p].dmans, NEW l, l = dom[p].dmans[i].label, NEW q \in Proc \ {p}
  PROVE  Migrates(p, i, q) <=> l \in (Own(m, a, p) \intersect Own(m, b, q)) \ Own(m, a, q)
PROOF
<1>1. l \notin Own(m, a, p) => newParts[p][i] = {}
  BY StatesAre
<1>2. l \in Own(m, a, p) => newParts[p][i] = Users(m, b, l)
  BY StatesAre
<1>3. q \in Users(m, b, l) <=> l \in Own(m, b, q)
  BY UsersAre
<1>4. l \in Own(m, a, p) => (q \in dom[p].dmans[i].parts <=> l \in Own(m, a, q))
  <2>1. l \in Own(m, a, p) => UsersListed(dom[p].dmans[i], p, Users(m, a, l))
    BY DEF Complete, Shares
  <2>2. q \in Users(m, a, l) <=> l \in Own(m, a, q)
    BY UsersAre
  <2>. QED
    BY <2>1, <2>2 DEF UsersListed
<1>. QED
  BY <1>1, <1>2, <1>3, <1>4 DEF Migrates

\* What is packed of a dof manager.
SentAs(p, i) == [GlobalDofMan(p, i) EXCEPT !.parts = newParts[p][i], !.mode = DofManState(p, i)]

LEMMA SentDofManIs ==
  ASSUME NEW m \in Meshes, NEW a \in [Elem -> Proc], NEW b \in [Elem -> Proc],
         NEW p \in Proc, Complete(dom[p], m, a, p), NewParts(newParts[p], dom[p], m, a, b, p, Proc),
         NEW i \in DOMAIN dom[p].dmans, NEW l, l = dom[p].dmans[i].label, NEW q \in Proc \ {p},
         l \in Own(m, a, p) \intersect Own(m, b, q)
  PROVE  SentAs(p, i) = SentDofMan(m, b, q, l)
PROOF
<1>1. PICK r : r = dom[p].dmans[i]
  OBVIOUS
<1>2. PICK g : g = GlobalDofMan(p, i)
  OBVIOUS
<1>3. PICK x : x = m.masters[l]
  OBVIOUS
<1>4. g = [label |-> r.label, mode |-> r.mode, parts |-> r.parts, masters |-> x]
  <2>1. GlobalDofMan(p, i) = DofManFor(m, r)
    BY <1>1, SavedComplete
  <2>. QED
    BY <1>1, <1>2, <1>3, <2>1 DEF DofManFor
<1>15. PICK u : u = SentAs(p, i)
  OBVIOUS
<1>5. PICK y : y = newParts[p][i]
  OBVIOUS
<1>6. PICK z : z = DofManState(p, i)
  OBVIOUS
<1>7. u = [g EXCEPT !.parts = y, !.mode = z]
  BY <1>2, <1>5, <1>6, <1>15 DEF SentAs
<1>8. DOMAIN u = {"label", "mode", "parts", "masters"} /\ u = [k \in DOMAIN u |-> u[k]]
  BY <1>4, <1>7
<1>9. u.label = l /\ u.mode = z /\ u.parts = y /\ u.masters = x
  BY <1>1, <1>4, <1>7
<1>10. u = [label |-> l, mode |-> z, parts |-> y, masters |-> x]
  BY <1>8, <1>9
<1>16. l \in Own(m, a, p)
  OBVIOUS
<1>11. newParts[p][i] = Users(m, b, l) /\ DofManState(p, i) = StateFor(p, Users(m, b, l))
  BY <1>16, StatesAre
<1>12. q \in Users(m, b, l) /\ (Cardinality(Users(m, b, l)) = 1 <=> Users(m, b, l) = {q})
  BY UsersAre, UsersOne
<1>13. z = IF Users(m, b, l) = {q} THEN "DM_Remote" ELSE "DM_Shared"
  BY <1>6, <1>11, <1>12 DEF StateFor
<1>. QED
  BY <1>3, <1>5, <1>10, <1>11, <1>13, <1>15 DEF SentDofMan

\* Modes and partition lists do not matter to a list.
LEMMA RelistedDofMen ==
  ASSUME NEW m \in Meshes, NEW D, NEW E, NEW d, Lists(d, m, D, E), NEW list \in Seq(DofMen(m)),
         DOMAIN list = DOMAIN d.dmans,
         \A i \in DOMAIN list : list[i].label = d.dmans[i].label /\ list[i].masters = d.dmans[i].masters,
         NEW c, c = [d EXCEPT !.dmans = list]
  PROVE  Lists(c, m, D, E) /\ c.dmans = list /\ c.elems = d.elems
PROOF
<1>1. /\ d = [dmans |-> d.dmans, elems |-> d.elems] /\ d.elems \in Seq(Elements)
  BY ListTyped
<1>2. c = [dmans |-> list, elems |-> d.elems] /\ c.dmans = list /\ c.elems = d.elems
  BY <1>1
<1>3. c \in Domains(m)
  BY <1>1, <1>2 DEF Domains
<1>4. Distinct(c.dmans) /\ Distinct(c.elems)
  BY <1>2 DEF Lists, Distinct
<1>5. Labels(c.dmans) = D /\ Labels(c.elems) = E
  BY <1>2 DEF Lists, Labels
<1>6. ASSUME NEW i \in DOMAIN c.dmans
      PROVE  MastersLinked(c, m, i)
  <2>1. MastersLinked(d, m, i)
    BY <1>2 DEF Lists, Linked
  <2>2. \A k \in DOMAIN c.dmans : c.dmans[k].label = d.dmans[k].label /\ c.dmans[k].masters = d.dmans[k].masters
    BY <1>2
  <2>3. DOMAIN c.dmans = DOMAIN d.dmans
    BY <1>2
  <2>. QED
    BY <2>1, <2>2, <2>3 DEF MastersLinked
<1>7. ASSUME NEW i \in DOMAIN c.elems
      PROVE  NodesLinked(c, m, i)
  <2>1. NodesLinked(d, m, i)
    BY <1>2 DEF Lists, Linked
  <2>2. \A k \in DOMAIN c.dmans : c.dmans[k].label = d.dmans[k].label
    BY <1>2
  <2>. QED
    BY <1>2, <2>1, <2>2 DEF NodesLinked
<1>. QED
  BY <1>2, <1>3, <1>4, <1>5, <1>6, <1>7 DEF Lists, Linked

\* What deleteRemoteDofManagers makes of the domain.
Reduced(p) == [dom[p] EXCEPT !.dmans = [i \in DOMAIN dom[p].dmans |->
                                           IF Removed(p, i) THEN dom[p].dmans[i] ELSE Kept(p, i)]]

LEMMA ReducedIs ==
  ASSUME NEW m \in Meshes, NEW a \in [Elem -> Proc], NEW b \in [Elem -> Proc],
         NEW p \in Proc, Complete(dom[p], m, a, p), NewParts(newParts[p], dom[p], m, a, b, p, Proc)
  PROVE  Packed(Reduced(p), m, a, b, p)
PROOF
<1>. DEFINE d == dom[p]
            list == [i \in DOMAIN d.dmans |-> IF Removed(p, i) THEN d.dmans[i] ELSE Kept(p, i)]
            D == AllDofMen(m, a, p)
            E == AllElems(m, a, p)
<1>1. Lists(d, m, D, E) /\ Owned(d, a, p)
  BY DEF Complete
<1>2. d.dmans \in Seq(DofMen(m)) /\ \A i \in DOMAIN d.dmans : d.dmans[i] \in DofMen(m)
  BY <1>1, ListTyped
<1>3. ASSUME NEW i \in DOMAIN d.dmans
      PROVE  /\ list[i] \in DofMen(m) /\ list[i].label = d.dmans[i].label /\ list[i].masters = d.dmans[i].masters
             /\ ~Removed(p, i) => UsersListed(list[i], p, Users(m, b, d.dmans[i].label))
  <2>1. CASE Removed(p, i)
    BY <1>2, <2>1
  <2>2. CASE ~Removed(p, i)
    <3>1. /\ Kept(p, i) \in DofMen(m) /\ Kept(p, i).label = d.dmans[i].label
          /\ Kept(p, i).masters = d.dmans[i].masters
          /\ UsersListed(Kept(p, i), p, Users(m, b, d.dmans[i].label))
      BY <2>2, KeptIs
    <3>2. list[i] = Kept(p, i)
      BY <2>2
    <3>. HIDE DEF list
    <3>. QED
      BY <3>1, <3>2
  <2>. QED
    BY <2>1, <2>2
<1>4. DOMAIN list = DOMAIN d.dmans
  OBVIOUS
<1>5. Reduced(p) = [d EXCEPT !.dmans = list]
  BY DEF Reduced
<1>6. list \in Seq(DofMen(m))
  <2>1. PICK n \in Nat : DOMAIN d.dmans = 1 .. n
    BY <1>2
  <2>2. list \in [1 .. n -> DofMen(m)]
    BY <1>3, <2>1
  <2>. HIDE DEF list
  <2>. QED
    BY <2>2
<1>. HIDE DEF list
<1>7. Lists(Reduced(p), m, D, E) /\ Reduced(p).dmans = list /\ Reduced(p).elems = d.elems
  BY <1>1, <1>3, <1>4, <1>5, <1>6, RelistedDofMen
<1>8. Shares(Reduced(p), m, b, p, Own(m, a, p) \intersect Own(m, b, p))
  <2>. SUFFICES ASSUME NEW i \in DOMAIN list, list[i].label \in Own(m, a, p) \intersect Own(m, b, p)
                PROVE  UsersListed(list[i], p, Users(m, b, list[i].label))
    BY <1>7 DEF Shares
  <2>1. list[i].label = d.dmans[i].label /\ i \in DOMAIN d.dmans
    BY <1>3, <1>4
  <2>2. ~Removed(p, i)
    BY <2>1, StatesAre
  <2>. QED
    BY <1>3, <2>1, <2>2
<1>9. Owned(Reduced(p), a, p)
  BY <1>1, <1>7 DEF Owned
<1>. QED
  BY <1>7, <1>8, <1>9 DEF Packed

LEMMA MigratingIs ==
  ASSUME NEW m \in Meshes, NEW a \in [Elem -> Proc], NEW b \in [Elem -> Proc], plan = b,
         NEW p \in Proc, Complete(dom[p], m, a, p), NEW d, d = dom[p],
         NewParts(newParts[p], dom[p], m, a, b, p, Proc), NEW q \in Proc \ {p}
  PROVE  MovingMail(MigratingData(p, q), m, a, b, p, q)
PROOF
<1>. DEFINE I == {i \in DOMAIN d.dmans : Migrates(p, i, q)}
            J == {i \in LocalElems(p) : plan[d.elems[i].label] = q}
            L == (Own(m, a, p) \intersect Own(m, b, q)) \ Own(m, a, q)
            F == Of(a, p) \intersect Of(b, q)
            msg == MigratingData(p, q)
<1>1. msg.dmans = {SentAs(p, i) : i \in I} /\ msg.elems = {SavedAs(p, i) : i \in J}
  BY DEF MigratingData, SentAs, SavedAs
<1>2. msg.dmans = {SentDofMan(m, b, q, l) : l \in L}
  <2>1. ASSUME NEW i \in I
        PROVE  d.dmans[i].label \in L /\ SentAs(p, i) = SentDofMan(m, b, q, d.dmans[i].label)
    <3>1. d.dmans[i].label \in L
      BY MigratesIs
    <3>. QED
      BY <3>1, SentDofManIs
  <2>2. ASSUME NEW l \in L
        PROVE  \E i \in I : d.dmans[i].label = l
    <3>1. PICK i \in DOMAIN d.dmans : d.dmans[i].label = l
      BY CompleteIs
    <3>2. Migrates(p, i, q)
      BY <3>1, MigratesIs
    <3>. QED
      BY <3>1, <3>2
  <2>. HIDE DEF msg, I, L
  <2>3. \A i \in I : d.dmans[i].label \in L
    BY <2>1
  <2>4. \A i \in I : SentAs(p, i) = SentDofMan(m, b, q, d.dmans[i].label)
    BY <2>1
  <2>. QED
    BY <1>1, <2>2, <2>3, <2>4
<1>3. msg.elems = {SentElem(m, e) : e \in F}
  <2>1. /\ Lists(d, m, AllDofMen(m, a, p), AllElems(m, a, p)) /\ Owned(d, a, p)
        /\ \A i \in DOMAIN d.elems : d.elems[i].mode = "local" <=> d.elems[i].label \in Of(a, p)
        /\ \A e \in Of(a, p) : \E i \in DOMAIN d.elems : d.elems[i].label = e /\ d.elems[i].mode = "local"
    BY CompleteIs DEF Complete
  <2>2. LocalElems(p) = {i \in DOMAIN d.elems : d.elems[i].mode = "local"}
    BY DEF LocalElems
  <2>3. \A i \in J : d.elems[i].label \in F
    BY <2>1, <2>2 DEF Of
  <2>4. \A e \in F : \E i \in J : d.elems[i].label = e
    BY <2>1, <2>2 DEF Of
  <2>5. ASSUME NEW i \in J
        PROVE  SavedAs(p, i) = SentElem(m, d.elems[i].label)
    <3>1. i \in DOMAIN d.elems /\ d.elems[i].mode = "local"
      BY <2>2
    <3>. QED
      BY <2>1, <3>1, SavedElem
  <2>. HIDE DEF msg, J, F
  <2>. QED
    BY <1>1, <2>3, <2>4, <2>5
<1>. HIDE DEF msg
<1>. QED
  BY <1>2, <1>3 DEF MovingMail, msg

\* The transactions that deleteRemoteDofManagers and deleteRemoteElements open.
Removals(p) ==
  [dmans |-> Put(trans[p].dmans, {Gone(LabelOf(p, i)) : i \in {i \in DOMAIN dom[p].dmans : Removed(p, i)}}),
   elems |-> Put(trans[p].elems, {Gone(dom[p].elems[i].label) : i \in {i \in DOMAIN dom[p].elems : RemovedElem(p, i)}})]

LEMMA RemovalsAre ==
  ASSUME NEW m \in Meshes, NEW a \in [Elem -> Proc], NEW b \in [Elem -> Proc], plan = b,
         NEW p \in Proc, Complete(dom[p], m, a, p), NEW d, d = dom[p], trans[p] = NoTransactions,
         NewParts(newParts[p], dom[p], m, a, b, p, Proc)
  PROVE  Moves(Removals(p), m, a, b, p, {}) /\ DOMAIN Removals(p) = {"dmans", "elems"}
PROOF
<1>. DEFINE I == {i \in DOMAIN d.dmans : Removed(p, i)}
            J == {i \in DOMAIN d.elems : RemovedElem(p, i)}
            L == AllDofMen(m, a, p) \ (Own(m, a, p) \intersect Own(m, b, p))
            F == AllElems(m, a, p) \ (Of(a, p) \intersect Of(b, p))
            t == Removals(p)
<1>1. /\ Lists(d, m, AllDofMen(m, a, p), AllElems(m, a, p))
      /\ \A i \in DOMAIN d.elems : d.elems[i].mode = "local" <=> d.elems[i].label \in Of(a, p)
  BY CompleteIs
<1>2. /\ \A i \in DOMAIN d.dmans : d.dmans[i].label \in AllDofMen(m, a, p)
      /\ \A i \in DOMAIN d.elems : d.elems[i].label \in AllElems(m, a, p) /\ d.elems[i].label \in Elem
      /\ \A l \in AllDofMen(m, a, p) : \E i \in DOMAIN d.dmans : d.dmans[i].label = l
      /\ \A e \in AllElems(m, a, p) : \E i \in DOMAIN d.elems : d.elems[i].label = e
  BY <1>1, ListTyped DEF Elements
<1>3. \A i \in DOMAIN d.dmans : Removed(p, i) <=> d.dmans[i].label \notin Own(m, a, p) \intersect Own(m, b, p)
  <2>. SUFFICES ASSUME NEW i \in DOMAIN d.dmans
                PROVE  Removed(p, i) <=> d.dmans[i].label \notin Own(m, a, p) \intersect Own(m, b, p)
    OBVIOUS
  <2>. QED
    BY StatesAre
<1>4. {Gone(LabelOf(p, i)) : i \in I} = {Gone(l) : l \in L}
  <2>1. \A i \in I : LabelOf(p, i) \in L
    BY <1>2, <1>3 DEF LabelOf
  <2>2. \A l \in L : \E i \in I : LabelOf(p, i) = l
    BY <1>2, <1>3 DEF LabelOf
  <2>. HIDE DEF I, L
  <2>. QED
    BY <2>1, <2>2
<1>5. {Gone(d.elems[i].label) : i \in J} = {Gone(e) : e \in F}
  <2>1. \A i \in J : d.elems[i].label \in F
    BY <1>1, <1>2 DEF RemovedElem, Of
  <2>2. \A e \in F : \E i \in J : d.elems[i].label = e
    BY <1>1, <1>2 DEF RemovedElem, Of
  <2>. HIDE DEF J, F
  <2>. QED
    BY <2>1, <2>2
<1>6. trans[p].dmans = Empty /\ trans[p].elems = Empty
  BY DEF NoTransactions
<1>7. /\ t = [dmans |-> Put(trans[p].dmans, {Gone(LabelOf(p, i)) : i \in I}),
              elems |-> Put(trans[p].elems, {Gone(d.elems[i].label) : i \in J})]
  BY DEF Removals
<1>12. /\ t.dmans = Put(trans[p].dmans, {Gone(LabelOf(p, i)) : i \in I})
       /\ t.elems = Put(trans[p].elems, {Gone(d.elems[i].label) : i \in J})
       /\ DOMAIN t = {"dmans", "elems"}
  <2>. HIDE DEF t, I, J
  <2>. QED
    BY <1>7
<1>8. /\ t.dmans = Put(Empty, {Gone(l) : l \in L}) /\ t.elems = Put(Empty, {Gone(e) : e \in F})
      /\ DOMAIN t = {"dmans", "elems"}
  <2>. HIDE DEF t, I, J, L, F
  <2>. QED
    BY <1>4, <1>5, <1>6, <1>12
<1>. HIDE DEF t
<1>9. t.dmans = [l \in L |-> Gone(l)] /\ t.elems = [e \in F |-> Gone(e)]
  BY <1>8, PutGone
<1>10. ArrivingDofMen(m, a, b, p, {}) = {} /\ ArrivingElems(a, b, p, {}) = {}
  BY DEF ArrivingDofMen, ArrivingElems
<1>11. Moves(t, m, a, b, p, {})
  <2>1. L \union {} = L /\ F \union {} = F
    OBVIOUS
  <2>. QED
    BY <1>9, <1>10, <2>1 DEF Moves
<1>. QED
  BY <1>8, <1>11 DEF t

LEMMA PackMigratingLaid ==
  ASSUME NEW m \in Meshes, NEW a \in [Elem -> Proc], NEW b \in [Elem -> Proc], LayoutOf(m, a, b),
         NEW p \in Proc, PackMigrating(p)
  PROVE  LayoutInv'
PROOF
<1>. DEFINE sent == [q \in Proc |-> IF q = p THEN NoMessage ELSE MigratingData(p, q)]
            list == [i \in DOMAIN dom[p].dmans |-> IF Removed(p, i) THEN dom[p].dmans[i] ELSE Kept(p, i)]
<1>1. mesh = m /\ plan = b /\ Indexed /\ Laid(p, m, a, b, StateOf(p))
  BY DEF LayoutOf
<1>2. /\ pc[p] = "migrate"
      /\ mail' = [mail EXCEPT ![p] = sent]
      /\ dom' = [dom EXCEPT ![p].dmans = list]
      /\ trans' = [trans EXCEPT ![p] = Removals(p)]
      /\ pc' = [pc EXCEPT ![p] = "migrating"]
      /\ UNCHANGED <<mesh, plan, newParts, deps, got>>
  <2>1. dom' = [dom EXCEPT ![p].dmans = list]
    BY <1>1 DEF PackMigrating, Indexed
  <2>2. trans' = [trans EXCEPT ![p] = Removals(p)]
    BY <1>1 DEF PackMigrating, Indexed, Removals
  <2>. QED
    BY <2>1, <2>2 DEF PackMigrating, Goto
<1>3. /\ Complete(dom[p], m, a, p) /\ trans[p] = NoTransactions /\ got[p] = {}
      /\ NewParts(newParts[p], dom[p], m, a, b, p, Proc) /\ deps[p] = Dependencies(m, a, b, p, Proc)
  <2>1. StateOf(p).pc = "migrate"
    BY <1>2 DEF StateOf
  <2>. QED
    BY <1>1, <2>1, LaidMigrate DEF StateOf
<1>4. dom' = [dom EXCEPT ![p] = Reduced(p)]
  <2>. HIDE DEF list
  <2>1. dom' = [dom EXCEPT ![p] = [dom[p] EXCEPT !.dmans = list]]
    BY <1>1, <1>2 DEF Indexed
  <2>. QED
    BY <2>1 DEF Reduced, list
<1>5. Packed(Reduced(p), m, a, b, p)
  BY <1>3, ReducedIs
<1>6. Moves(Removals(p), m, a, b, p, {}) /\ DOMAIN Removals(p) = {"dmans", "elems"}
  BY <1>1, <1>3, RemovalsAre
<1>7. \A q \in Proc \ {p} : MovingMail(sent[q], m, a, b, p, q)
  <2>. SUFFICES ASSUME NEW q \in Proc \ {p}
                PROVE  MovingMail(sent[q], m, a, b, p, q)
    OBVIOUS
  <2>1. MovingMail(MigratingData(p, q), m, a, b, p, q)
    BY <1>1, <1>3, MigratingIs
  <2>2. sent[q] = MigratingData(p, q)
    OBVIOUS
  <2>. QED
    BY <2>1, <2>2
<1>. HIDE DEF sent, list
<1>8. PICK t : t = StateOf(p)'
  OBVIOUS
<1>9. /\ t.pc = "migrating" /\ t.dom = Reduced(p) /\ t.trans = Removals(p) /\ t.got = {}
      /\ t.mail = sent /\ t.deps = deps[p]
  BY <1>1, <1>2, <1>3, <1>4, <1>8 DEF StateOf, Indexed
<1>10. Laid(p, m, a, b, t)
  <2>1. t.pc = "migrating" /\ Packed(t.dom, m, a, b, p) /\ DOMAIN t.trans = {"dmans", "elems"} /\ t.got \subseteq Proc
    BY <1>5, <1>6, <1>9
  <2>2. Moves(t.trans, m, a, b, p, t.got) /\ t.deps = Dependencies(m, a, b, p, Proc)
    BY <1>3, <1>6, <1>9
  <2>3. \A q \in Proc \ {p} : MovingMail(t.mail[q], m, a, b, p, q)
    BY <1>7, <1>9
  <2>. QED
    BY <2>1, <2>2, <2>3, LaidMigrating
<1>11. Indexed' /\ \A x \in Proc \ {p} : StateOf(x)' = StateOf(x)
  BY <1>1, <1>2, <1>4 DEF Indexed, StateOf
<1>. QED
  BY <1>2, <1>8, <1>10, <1>11, OneLaid

-------------------------------------------------------------------------------
(* What arrives *)

\* How a dof manager is taken from a message.
TakenAs(r) == [r EXCEPT !.mode = IF r.mode = "DM_Remote" THEN "local" ELSE "shared"]

LEMMA TakenIs ==
  ASSUME NEW m, NEW b, NEW p, NEW l
  PROVE  /\ TakenAs(SentDofMan(m, b, p, l)) = ArrivedDofMan(m, b, p, l)
         /\ SentDofMan(m, b, p, l).mode \in {"DM_Remote", "DM_Shared"}
         /\ ArrivedDofMan(m, b, p, l).label = l
PROOF
<1>1. PICK r : r = SentDofMan(m, b, p, l)
  OBVIOUS
<1>2. PICK U : U = Users(m, b, l)
  OBVIOUS
<1>3. r = [label |-> l, mode |-> IF U = {p} THEN "DM_Remote" ELSE "DM_Shared", parts |-> U, masters |-> m.masters[l]]
  BY <1>1, <1>2 DEF SentDofMan
<1>4. PICK u : u = TakenAs(r)
  OBVIOUS
<1>5. DOMAIN u = {"label", "mode", "parts", "masters"} /\ u = [k \in DOMAIN u |-> u[k]]
  BY <1>3, <1>4 DEF TakenAs
<1>6. u.label = l /\ u.mode = SharedMode(p, U) /\ u.parts = U /\ u.masters = m.masters[l]
  BY <1>3, <1>4 DEF TakenAs, SharedMode
<1>7. u = [label |-> l, mode |-> SharedMode(p, U), parts |-> U, masters |-> m.masters[l]]
  BY <1>5, <1>6
<1>8. u = ArrivedDofMan(m, b, p, l)
  BY <1>2, <1>7 DEF ArrivedDofMan
<1>9. r.mode \in {"DM_Remote", "DM_Shared"}
  BY <1>3
<1>10. ArrivedDofMan(m, b, p, l).label = l
  BY DEF ArrivedDofMan
<1>. QED
  BY <1>1, <1>4, <1>8, <1>9, <1>10

\* The transactions of p with a message of q put in.
Arrivals(p, q) == [dmans |-> Put(trans[p].dmans, {TakenAs(r) : r \in mail[q][p].dmans}),
                   elems |-> Put(trans[p].elems, mail[q][p].elems)]

LEMMA ArrivalsAre ==
  ASSUME NEW m \in Meshes, NEW a \in [Elem -> Proc], NEW b \in [Elem -> Proc], NEW p \in Proc, NEW q \in Proc \ {p},
         NEW R, Moves(trans[p], m, a, b, p, R), MovingMail(mail[q][p], m, a, b, q, p)
  PROVE  /\ Moves(Arrivals(p, q), m, a, b, p, R \union {q}) /\ DOMAIN Arrivals(p, q) = {"dmans", "elems"}
         /\ \A r \in mail[q][p].dmans : r.mode \in {"DM_Remote", "DM_Shared"}
PROOF
<1>. DEFINE NewL == (Own(m, a, q) \intersect Own(m, b, p)) \ Own(m, a, p)
            NewE == Of(a, q) \intersect Of(b, p)
            X == AllDofMen(m, a, p) \ (Own(m, a, p) \intersect Own(m, b, p))
            Y == AllElems(m, a, p) \ (Of(a, p) \intersect Of(b, p))
            L(S) == ArrivingDofMen(m, a, b, p, S)
            F(S) == ArrivingElems(a, b, p, S)
            Value(S, l) == IF l \in L(S) THEN ArrivedDofMan(m, b, p, l) ELSE Gone(l)
            ElemValue(S, e) == IF e \in F(S) THEN SentElem(m, e) ELSE Gone(e)
            dm == [l \in X \union L(R \union {q}) |-> Value(R \union {q}, l)]
            el == [e \in Y \union F(R \union {q}) |-> ElemValue(R \union {q}, e)]
            taken == {TakenAs(r) : r \in mail[q][p].dmans}
            brought == mail[q][p].elems
<1>1. trans[p].dmans = [l \in X \union L(R) |-> Value(R, l)] /\ trans[p].elems = [e \in Y \union F(R) |-> ElemValue(R, e)]
  BY DEF Moves
<1>2. L(R \union {q}) = L(R) \union NewL /\ F(R \union {q}) = F(R) \union NewE
  BY DEF ArrivingDofMen, ArrivingElems, Of
<1>3. taken = {ArrivedDofMan(m, b, p, l) : l \in NewL}
  <2>1. mail[q][p].dmans = {SentDofMan(m, b, p, l) : l \in NewL}
    BY DEF MovingMail
  <2>. HIDE DEF NewL
  <2>. QED
    BY <2>1, TakenIs
<1>4. brought = {SentElem(m, e) : e \in NewE}
  BY DEF MovingMail
<1>5. \A r \in mail[q][p].dmans : r.mode \in {"DM_Remote", "DM_Shared"}
  <2>1. mail[q][p].dmans = {SentDofMan(m, b, p, l) : l \in NewL}
    BY DEF MovingMail
  <2>. HIDE DEF NewL
  <2>. QED
    BY <2>1, TakenIs
<1>. HIDE DEF NewL, NewE, X, Y, L, F, taken, brought
<1>6. Put(trans[p].dmans, taken) = dm
  <2>1. \A l : ArrivedDofMan(m, b, p, l).label = l
    BY TakenIs
  <2>2. LabelsIn(taken) = NewL
    BY <1>3, <2>1 DEF LabelsIn
  <2>3. DOMAIN dm = DOMAIN trans[p].dmans \union NewL
    BY <1>1, <1>2
  <2>4. \A r \in taken : dm[r.label] = r
    <3>1. \A l \in NewL : dm[l] = ArrivedDofMan(m, b, p, l)
      BY <1>2
    <3>. HIDE DEF dm
    <3>. QED
      BY <1>3, <2>1, <3>1
  <2>5. \A l \in DOMAIN trans[p].dmans \ NewL : dm[l] = trans[p].dmans[l]
    BY <1>1, <1>2
  <2>6. dm = [l \in DOMAIN dm |-> dm[l]]
    OBVIOUS
  <2>. HIDE DEF dm
  <2>7. Takes(dm, trans[p].dmans, taken)
    BY <2>2, <2>3, <2>4, <2>5, <2>6 DEF Takes
  <2>. QED
    BY <2>7, PutIs
<1>7. Put(trans[p].elems, brought) = el
  <2>1. \A e : SentElem(m, e).label = e
    BY DEF SentElem
  <2>2. LabelsIn(brought) = NewE
    BY <1>4, <2>1 DEF LabelsIn
  <2>3. DOMAIN el = DOMAIN trans[p].elems \union NewE
    BY <1>1, <1>2
  <2>4. \A r \in brought : el[r.label] = r
    <3>1. \A e \in NewE : el[e] = SentElem(m, e)
      BY <1>2
    <3>. HIDE DEF el
    <3>. QED
      BY <1>4, <2>1, <3>1
  <2>5. \A e \in DOMAIN trans[p].elems \ NewE : el[e] = trans[p].elems[e]
    BY <1>1, <1>2
  <2>6. el = [e \in DOMAIN el |-> el[e]]
    OBVIOUS
  <2>. HIDE DEF el
  <2>7. Takes(el, trans[p].elems, brought)
    BY <2>2, <2>3, <2>4, <2>5, <2>6 DEF Takes
  <2>. QED
    BY <2>7, PutIs
<1>. DEFINE t == Arrivals(p, q)
<1>8. t.dmans = Put(trans[p].dmans, taken) /\ t.elems = Put(trans[p].elems, brought) /\ DOMAIN t = {"dmans", "elems"}
  BY DEF Arrivals, taken, brought
<1>. HIDE DEF t, dm, el
<1>9. t.dmans = dm /\ t.elems = el
  BY <1>6, <1>7, <1>8
<1>10. Moves(t, m, a, b, p, R \union {q})
  BY <1>9 DEF Moves, dm, el, X, Y, L, F
<1>. QED
  BY <1>5, <1>8, <1>10 DEF t

LEMMA UnpackMigratingLaid ==
  ASSUME NEW m \in Meshes, NEW a \in [Elem -> Proc], NEW b \in [Elem -> Proc], LayoutOf(m, a, b),
         NEW p \in Proc, NEW q \in Proc, UnpackMigrating(p, q)
  PROVE  LayoutInv'
PROOF
<1>1. mesh = m /\ plan = b /\ Indexed /\ Laid(p, m, a, b, StateOf(p)) /\ Laid(q, m, a, b, StateOf(q))
  BY DEF LayoutOf
<1>2. /\ p # q /\ pc[p] = "migrating" /\ pc[q] = "migrating"
      /\ trans' = [trans EXCEPT ![p] = Arrivals(p, q)]
      /\ got' = [got EXCEPT ![p] = got[p] \union {q}]
      /\ IF \A r \in mail[q][p].dmans : r.mode \in {"DM_Remote", "DM_Shared"} THEN UNCHANGED pc
         ELSE Goto(p, "aborted")
      /\ UNCHANGED <<mesh, dom, plan, newParts, deps, mail>>
  <2>1. trans' = [trans EXCEPT ![p] = Arrivals(p, q)]
    BY <1>1 DEF UnpackMigrating, Indexed, Arrivals, TakenAs
  <2>2. got' = [got EXCEPT ![p] = got[p] \union {q}]
    BY <1>1 DEF UnpackMigrating, Indexed
  <2>3. IF \A r \in mail[q][p].dmans : r.mode \in {"DM_Remote", "DM_Shared"} THEN UNCHANGED pc ELSE Goto(p, "aborted")
    BY DEF UnpackMigrating
  <2>. QED
    BY <2>1, <2>2, <2>3 DEF UnpackMigrating, MayUnpack
<1>3. /\ Packed(dom[p], m, a, b, p) /\ got[p] \subseteq Proc /\ Moves(trans[p], m, a, b, p, got[p])
      /\ deps[p] = Dependencies(m, a, b, p, Proc)
      /\ \A x \in Proc \ {p} : MovingMail(mail[p][x], m, a, b, p, x)
  <2>1. StateOf(p).pc = "migrating"
    BY <1>2 DEF StateOf
  <2>. QED
    BY <1>1, <2>1, LaidMigrating DEF StateOf
<1>4. MovingMail(mail[q][p], m, a, b, q, p)
  <2>1. StateOf(q).pc = "migrating"
    BY <1>2 DEF StateOf
  <2>2. \A x \in Proc \ {q} : MovingMail(StateOf(q).mail[x], m, a, b, q, x)
    BY <1>1, <2>1, LaidMigrating
  <2>. QED
    BY <1>2, <2>2 DEF StateOf
<1>5. /\ Moves(Arrivals(p, q), m, a, b, p, got[p] \union {q}) /\ DOMAIN Arrivals(p, q) = {"dmans", "elems"}
      /\ \A r \in mail[q][p].dmans : r.mode \in {"DM_Remote", "DM_Shared"}
  BY <1>2, <1>3, <1>4, ArrivalsAre
<1>6. pc' = pc
  BY <1>2, <1>5
<1>7. PICK t : t = StateOf(p)'
  OBVIOUS
<1>8. /\ t.pc = "migrating" /\ t.dom = dom[p] /\ t.trans = Arrivals(p, q) /\ t.got = got[p] \union {q}
      /\ t.mail = mail[p] /\ t.deps = deps[p]
  BY <1>1, <1>2, <1>6, <1>7 DEF StateOf, Indexed
<1>9. Laid(p, m, a, b, t)
  <2>1. t.pc = "migrating" /\ Packed(t.dom, m, a, b, p) /\ DOMAIN t.trans = {"dmans", "elems"} /\ t.got \subseteq Proc
    BY <1>3, <1>5, <1>8
  <2>2. Moves(t.trans, m, a, b, p, t.got) /\ t.deps = Dependencies(m, a, b, p, Proc)
    BY <1>3, <1>5, <1>8
  <2>3. \A x \in Proc \ {p} : MovingMail(t.mail[x], m, a, b, p, x)
    BY <1>3, <1>8
  <2>. QED
    BY <2>1, <2>2, <2>3, LaidMigrating
<1>10. Indexed' /\ \A x \in Proc \ {p} : StateOf(x)' = StateOf(x)
  BY <1>1, <1>2, <1>6 DEF Indexed, StateOf
<1>. QED
  BY <1>2, <1>7, <1>9, <1>10, OneLaid

-------------------------------------------------------------------------------
(* Committed lists *)

LEMMA AscendingIs ==
  ASSUME NEW S \in SUBSET Nat, IsFiniteSet(S)
  PROVE  /\ Cardinality(S) \in Nat /\ DOMAIN Ascending(S) = 1 .. Cardinality(S)
         /\ Ascending(S) \in [1 .. Cardinality(S) -> S]
         /\ \A i \in 1 .. Cardinality(S) : Ascending(S)[i] \in S /\ Rank(S, Ascending(S)[i]) = i
         /\ \A l \in S : Rank(S, l) \in 1 .. Cardinality(S) /\ Ascending(S)[Rank(S, l)] = l
PROOF
<1>1. Cardinality(S) \in Nat /\ Ascending(S) \in [1 .. Cardinality(S) -> S]
  BY AscendingLists
<1>2. ASSUME NEW i \in 1 .. Cardinality(S)
      PROVE  Rank(S, Ascending(S)[i]) = i
  <2>1. \E l \in S : Rank(S, l) = i
    BY RankOnto
  <2>. QED
    BY <2>1 DEF Ascending, Rank
<1>3. ASSUME NEW l \in S
      PROVE  Rank(S, l) \in 1 .. Cardinality(S) /\ Ascending(S)[Rank(S, l)] = l
  <2>1. Rank(S, l) \in 1 .. Cardinality(S)
    BY RankTyped
  <2>. DEFINE k == Ascending(S)[Rank(S, l)]
  <2>2. k \in S /\ Rank(S, k) = Rank(S, l)
    BY <1>1, <1>2, <2>1
  <2>. HIDE DEF k
  <2>3. ~(k < l) /\ ~(l < k)
    BY <2>2, RankIncreases
  <2>4. k = l
    BY <2>2, <2>3
  <2>. QED
    BY <2>1, <2>4 DEF k
<1>. QED
  BY <1>1, <1>2, <1>3

LEMMA NumberIs ==
  ASSUME NEW list, Distinct(list), NEW i \in DOMAIN list
  PROVE  NumberOf(list, list[i].label) = i
PROOF BY DEF NumberOf, Labels, Distinct

\* The record of l that a commit starts from, and what it makes of it.
Placing(list, tt, l) == IF l \in DOMAIN tt THEN tt[l] ELSE list[NumberOf(list, l)]
DofManAfter(d, t, l) ==
  [Placing(d.dmans, t.dmans, l) EXCEPT !.masters = {Renumbered(d, t.dmans, l \in DOMAIN t.dmans, x) : x \in @}]
ElemAfter(d, t, e) ==
  [Placing(d.elems, t.elems, e) EXCEPT !.nodes = [k \in DOMAIN @ |-> Renumbered(d, t.dmans, e \in DOMAIN t.elems, @[k])]]

DofMenLeft(d, t) == Remaining(d.dmans, t.dmans)
ElemsLeft(d, t) == Remaining(d.elems, t.elems)

\* What arrives is complete, what stays does not lose anything.
Fits(d, t, m) ==
  /\ Lists(d, m, Labels(d.dmans), Labels(d.elems))
  /\ DofMenLeft(d, t) \subseteq DOMAIN m.masters /\ ElemsLeft(d, t) \subseteq Elem
  /\ \A l \in DofMenLeft(d, t) :
       IF l \in DOMAIN t.dmans
       THEN /\ t.dmans[l] \in DofMen(m) /\ t.dmans[l].label = l /\ t.dmans[l].masters = m.masters[l]
            /\ m.masters[l] \subseteq DofMenLeft(d, t)
       ELSE m.masters[l] \intersect DOMAIN t.dmans = {}
  /\ \A e \in ElemsLeft(d, t) :
       IF e \in DOMAIN t.elems
       THEN /\ t.elems[e] \in Elements /\ t.elems[e].label = e /\ t.elems[e].nodes = m.nodes[e]
            /\ NodesIn(m, e) \subseteq DofMenLeft(d, t)
       ELSE NodesIn(m, e) \intersect DOMAIN t.dmans = {}

LEMMA CommittedAs ==
  ASSUME NEW d, NEW t, NEW c, c = Committed(d, t), ~(t.dmans = Empty /\ t.elems = Empty),
         NEW dl, dl = Ascending(DofMenLeft(d, t)), NEW el, el = Ascending(ElemsLeft(d, t))
  PROVE  c = [dmans |-> [i \in DOMAIN dl |-> DofManAfter(d, t, dl[i])],
              elems |-> [i \in DOMAIN el |-> ElemAfter(d, t, el[i])]]
PROOF BY DEF Committed, DofMenLeft, ElemsLeft, DofManAfter, ElemAfter, Placing

\* The local number of label x after the commit.
LEMMA PlacedRecord ==
  ASSUME NEW list, Distinct(list), NEW tt, NEW l \in Labels(list), l \notin DOMAIN tt
  PROVE  \E i \in DOMAIN list : list[i].label = l /\ Placing(list, tt, l) = list[i]
PROOF
<1>1. PICK i \in DOMAIN list : list[i].label = l
  BY DEF Labels
<1>2. NumberOf(list, l) = i
  BY <1>1, NumberIs
<1>. QED
  BY <1>1, <1>2 DEF Placing

LEMMA DofManPlaced ==
  ASSUME NEW m \in Meshes, NEW d, NEW t, Fits(d, t, m), NEW S, S = DofMenLeft(d, t), NEW l \in S,
         NEW r, r = Placing(d.dmans, t.dmans, l), NEW u, u = DofManAfter(d, t, l)
  PROVE  /\ m.masters[l] \subseteq S
         /\ u \in DofMen(m) /\ u.label = l /\ u.mode = r.mode /\ u.parts = r.parts
         /\ u.masters = {Rank(S, x) : x \in m.masters[l]}
PROOF
<1>. DEFINE N == {Renumbered(d, t.dmans, l \in DOMAIN t.dmans, x) : x \in r.masters}
            M == {Rank(S, x) : x \in m.masters[l]}
<1>1. l \in DOMAIN m.masters /\ S \in SUBSET Nat /\ IsFiniteSet(S)
  <2>1. S \subseteq DOMAIN m.masters
    BY DEF Fits
  <2>2. MeshTyped(m)
    BY MeshIs
  <2>. QED
    BY <2>1, <2>2, FS_Subset DEF MeshTyped
<1>2. r \in DofMen(m) /\ r.label = l /\ m.masters[l] \subseteq S /\ N = M
  <2>1. CASE l \in DOMAIN t.dmans
    <3>1. r \in DofMen(m) /\ r.label = l /\ r.masters = m.masters[l] /\ m.masters[l] \subseteq S
      BY <2>1 DEF Fits, Placing
    <3>2. \A x \in m.masters[l] : Renumbered(d, t.dmans, l \in DOMAIN t.dmans, x) = Rank(S, x)
      BY <2>1, <3>1 DEF Renumbered, Rank, DofMenLeft
    <3>. QED
      BY <3>1, <3>2
  <2>2. CASE l \notin DOMAIN t.dmans
    <3>1. l \in Labels(d.dmans)
      BY <2>2 DEF DofMenLeft, Remaining
    <3>2. Lists(d, m, Labels(d.dmans), Labels(d.elems)) /\ m.masters[l] \intersect DOMAIN t.dmans = {}
      BY <2>2 DEF Fits
    <3>3. PICK i \in DOMAIN d.dmans : d.dmans[i].label = l /\ r = d.dmans[i]
      BY <2>2, <3>1, <3>2, PlacedRecord DEF Lists
    <3>4. r \in DofMen(m)
      BY <3>2, <3>3, ListTyped
    <3>5. r.masters \subseteq DOMAIN d.dmans /\ {d.dmans[k].label : k \in r.masters} = m.masters[l]
      BY <3>2, <3>3 DEF Lists, Linked, MastersLinked
    <3>6. m.masters[l] \subseteq S
      BY <3>2, <3>5 DEF DofMenLeft, Remaining, Labels
    <3>7. \A k \in r.masters : Renumbered(d, t.dmans, l \in DOMAIN t.dmans, k) = Rank(S, d.dmans[k].label)
      <4>. SUFFICES ASSUME NEW k \in r.masters
                    PROVE  Renumbered(d, t.dmans, l \in DOMAIN t.dmans, k) = Rank(S, d.dmans[k].label)
        OBVIOUS
      <4>1. d.dmans[k].label \notin DOMAIN t.dmans
        BY <3>2, <3>5
      <4>. QED
        BY <2>2, <4>1 DEF Renumbered, Rank, DofMenLeft
    <3>8. N = M
      <4>1. N = {Rank(S, d.dmans[k].label) : k \in r.masters}
        BY <3>7
      <4>. HIDE DEF N
      <4>. QED
        BY <3>5, <4>1
    <3>. QED
      BY <3>3, <3>4, <3>6, <3>8
  <2>. QED
    BY <2>1, <2>2
<1>3. M \in SUBSET Nat
  <2>1. \A x \in S : Rank(S, x) \in Nat
    <3>1. \A x \in S : Rank(S, x) \in 1 .. Cardinality(S)
      BY <1>1, RankTyped
    <3>. QED
      BY <1>1, <3>1, FS_CardinalityType
  <2>. QED
    BY <1>2, <2>1
<1>4. u = [r EXCEPT !.masters = N]
  <2>1. r.masters = r["masters"]
    OBVIOUS
  <2>. QED
    BY DEF DofManAfter
<1>. HIDE DEF N, M
<1>5. u = [r EXCEPT !.masters = M]
  BY <1>2, <1>4
<1>6. u \in DofMen(m) /\ u.label = l /\ u.mode = r.mode /\ u.parts = r.parts /\ u.masters = M
  BY <1>2, <1>3, <1>5 DEF DofMen
<1>. QED
  BY <1>2, <1>6 DEF M

LEMMA ElemPlaced ==
  ASSUME NEW m \in Meshes, NEW d, NEW t, Fits(d, t, m), NEW S, S = DofMenLeft(d, t), NEW e \in ElemsLeft(d, t),
         NEW r, r = Placing(d.elems, t.elems, e), NEW u, u = ElemAfter(d, t, e)
  PROVE  /\ NodesIn(m, e) \subseteq S
         /\ u \in Elements /\ u.label = e /\ u.mode = r.mode /\ u.parts = r.parts /\ u.table = r.table
         /\ DOMAIN u.nodes = DOMAIN m.nodes[e] /\ \A k \in DOMAIN u.nodes : u.nodes[k] = Rank(S, m.nodes[e][k])
PROOF
<1>. DEFINE N == [k \in DOMAIN r.nodes |-> Renumbered(d, t.dmans, e \in DOMAIN t.elems, r.nodes[k])]
            M == [k \in DOMAIN m.nodes[e] |-> Rank(S, m.nodes[e][k])]
<1>1. e \in Elem /\ S \in SUBSET Nat /\ IsFiniteSet(S)
  <2>1. S \subseteq DOMAIN m.masters /\ e \in Elem
    BY DEF Fits
  <2>2. MeshTyped(m)
    BY MeshIs
  <2>. QED
    BY <2>1, <2>2, FS_Subset DEF MeshTyped
<1>7. \A k \in DOMAIN m.nodes[e] : m.nodes[e][k] \in NodesIn(m, e)
  BY DEF NodesIn
<1>2. r \in Elements /\ r.label = e /\ NodesIn(m, e) \subseteq S /\ N = M
  <2>1. CASE e \in DOMAIN t.elems
    <3>1. r \in Elements /\ r.label = e /\ r.nodes = m.nodes[e] /\ NodesIn(m, e) \subseteq S
      BY <2>1 DEF Fits, Placing
    <3>2. \A k \in DOMAIN m.nodes[e] : Renumbered(d, t.dmans, e \in DOMAIN t.elems, m.nodes[e][k]) = Rank(S, m.nodes[e][k])
      BY <1>7, <2>1, <3>1 DEF Renumbered, Rank, DofMenLeft
    <3>. QED
      BY <3>1, <3>2
  <2>2. CASE e \notin DOMAIN t.elems
    <3>1. e \in Labels(d.elems)
      BY <2>2 DEF ElemsLeft, Remaining
    <3>2. Lists(d, m, Labels(d.dmans), Labels(d.elems)) /\ NodesIn(m, e) \intersect DOMAIN t.dmans = {}
      BY <2>2 DEF Fits
    <3>3. PICK i \in DOMAIN d.elems : d.elems[i].label = e /\ r = d.elems[i]
      BY <2>2, <3>1, <3>2, PlacedRecord DEF Lists
    <3>4. r \in Elements
      BY <3>2, <3>3, ListTyped
    <3>5. /\ DOMAIN r.nodes = DOMAIN m.nodes[e]
          /\ \A k \in DOMAIN r.nodes : r.nodes[k] \in DOMAIN d.dmans /\ d.dmans[r.nodes[k]].label = m.nodes[e][k]
      BY <3>2, <3>3 DEF Lists, Linked, NodesLinked
    <3>6. NodesIn(m, e) \subseteq S
      BY <3>2, <3>5 DEF DofMenLeft, Remaining, Labels, NodesIn
    <3>7. \A k \in DOMAIN r.nodes : Renumbered(d, t.dmans, e \in DOMAIN t.elems, r.nodes[k]) = Rank(S, m.nodes[e][k])
      <4>. SUFFICES ASSUME NEW k \in DOMAIN r.nodes
                    PROVE  Renumbered(d, t.dmans, e \in DOMAIN t.elems, r.nodes[k]) = Rank(S, m.nodes[e][k])
        OBVIOUS
      <4>1. d.dmans[r.nodes[k]].label = m.nodes[e][k] /\ m.nodes[e][k] \notin DOMAIN t.dmans
        BY <1>7, <3>2, <3>5
      <4>. QED
        BY <2>2, <4>1 DEF Renumbered, Rank, DofMenLeft
    <3>. QED
      BY <3>3, <3>4, <3>5, <3>6, <3>7
  <2>. QED
    BY <2>1, <2>2
<1>3. M \in Seq(Nat)
  <2>1. \A x \in S : Rank(S, x) \in Nat
    <3>1. \A x \in S : Rank(S, x) \in 1 .. Cardinality(S)
      BY <1>1, RankTyped
    <3>. QED
      BY <1>1, <3>1, FS_CardinalityType
  <2>2. m.nodes[e] \in Seq(DOMAIN m.masters)
    BY <1>1, MeshIs DEF MeshTyped
  <2>3. PICK n \in Nat : DOMAIN m.nodes[e] = 1 .. n
    BY <2>2
  <2>4. \A k \in 1 .. n : M[k] \in Nat
    BY <1>2, <1>7, <2>1, <2>3
  <2>5. DOMAIN M = 1 .. n /\ M = [k \in DOMAIN M |-> M[k]]
    BY <2>3
  <2>. HIDE DEF M
  <2>6. M \in [1 .. n -> Nat]
    BY <2>4, <2>5
  <2>. QED
    BY <2>6
<1>4. u = [r EXCEPT !.nodes = N]
  BY DEF ElemAfter
<1>8. DOMAIN M = DOMAIN m.nodes[e] /\ \A k \in DOMAIN M : M[k] = Rank(S, m.nodes[e][k])
  OBVIOUS
<1>. HIDE DEF N, M
<1>5. u = [r EXCEPT !.nodes = M]
  BY <1>2, <1>4
<1>6. u \in Elements /\ u.label = e /\ u.mode = r.mode /\ u.parts = r.parts /\ u.table = r.table /\ u.nodes = M
  BY <1>2, <1>3, <1>5 DEF Elements
<1>. QED
  BY <1>2, <1>6, <1>8

\* Every entry has the mode and the partitions of the record it was made from.
SameModes(c, d, t) ==
  /\ \A i \in DOMAIN c.dmans : \A r : r = Placing(d.dmans, t.dmans, c.dmans[i].label) =>
       c.dmans[i].mode = r.mode /\ c.dmans[i].parts = r.parts
  /\ \A i \in DOMAIN c.elems : \A r : r = Placing(d.elems, t.elems, c.elems[i].label) =>
       c.elems[i].mode = r.mode /\ c.elems[i].parts = r.parts /\ c.elems[i].table = r.table

LEMMA LinkedComplete ==
  ASSUME NEW m \in Meshes, NEW D, NEW E, NEW d, Lists(d, m, D, E)
  PROVE  ~Incomplete(d)
PROOF
<1>1. d.dmans \in Seq(DofMen(m))
  BY ListTyped
<1>2. 0 \notin DOMAIN d.dmans
  BY <1>1
<1>3. \A i \in DOMAIN d.dmans : d.dmans[i].masters \subseteq DOMAIN d.dmans
  BY DEF Lists, Linked, MastersLinked
<1>4. \A i \in DOMAIN d.elems : \A k \in DOMAIN d.elems[i].nodes : d.elems[i].nodes[k] \in DOMAIN d.dmans
  BY DEF Lists, Linked, NodesLinked
<1>. QED
  BY <1>2, <1>3, <1>4 DEF Incomplete

LEMMA NothingCommitted ==
  ASSUME NEW m \in Meshes, NEW d, NEW t, Fits(d, t, m), t.dmans = Empty, t.elems = Empty
  PROVE  /\ Lists(d, m, DofMenLeft(d, t), ElemsLeft(d, t)) /\ SameModes(d, d, t)
PROOF
<1>1. DOMAIN t.dmans = {} /\ DOMAIN t.elems = {}
  BY EmptyIs
<1>2. DofMenLeft(d, t) = Labels(d.dmans) /\ ElemsLeft(d, t) = Labels(d.elems)
  BY <1>1 DEF DofMenLeft, ElemsLeft, Remaining
<1>3. Lists(d, m, DofMenLeft(d, t), ElemsLeft(d, t))
  BY <1>2 DEF Fits
<1>4. \A i \in DOMAIN d.dmans : Placing(d.dmans, t.dmans, d.dmans[i].label) = d.dmans[i]
  BY <1>1, <1>3, NumberIs DEF Placing, Lists
<1>5. \A i \in DOMAIN d.elems : Placing(d.elems, t.elems, d.elems[i].label) = d.elems[i]
  BY <1>1, <1>3, NumberIs DEF Placing, Lists
<1>. QED
  BY <1>3, <1>4, <1>5 DEF SameModes

LEMMA CommittedIs ==
  ASSUME NEW m \in Meshes, NEW d, NEW t, Fits(d, t, m), NEW c, c = Committed(d, t)
  PROVE  Lists(c, m, DofMenLeft(d, t), ElemsLeft(d, t)) /\ SameModes(c, d, t) /\ ~Incomplete(c)
PROOF
<1>. DEFINE S == DofMenLeft(d, t)
            F == ElemsLeft(d, t)
            n == Cardinality(S)
            k == Cardinality(F)
<1>1. CASE t.dmans = Empty /\ t.elems = Empty
  <2>1. c = d
    BY <1>1 DEF Committed
  <2>2. Lists(c, m, S, F) /\ SameModes(c, d, t)
    BY <1>1, <2>1, NothingCommitted
  <2>. QED
    BY <2>2, LinkedComplete
<1>2. CASE ~(t.dmans = Empty /\ t.elems = Empty)
  <2>1. PICK dl : dl = Ascending(S)
    OBVIOUS
  <2>2. PICK el : el = Ascending(F)
    OBVIOUS
  <2>3. S \in SUBSET Nat /\ IsFiniteSet(S) /\ F \in SUBSET Nat /\ IsFiniteSet(F)
    <3>1. MeshTyped(m) /\ S \subseteq DOMAIN m.masters /\ F \subseteq Elem
      BY MeshIs DEF Fits
    <3>2. DOMAIN m.masters \subseteq Nat /\ IsFiniteSet(DOMAIN m.masters) /\ Elem \subseteq Nat /\ IsFiniteSet(Elem)
      BY <3>1, MeshAssumption DEF MeshTyped
    <3>. HIDE DEF S, F
    <3>. QED
      BY <3>1, <3>2, FS_Subset
  <2>. HIDE DEF S, F
  <2>4. /\ n \in Nat /\ DOMAIN dl = 1 .. n /\ \A i \in 1 .. n : dl[i] \in S /\ Rank(S, dl[i]) = i
        /\ \A l \in S : Rank(S, l) \in 1 .. n /\ dl[Rank(S, l)] = l
    BY <2>1, <2>3, AscendingIs
  <2>5. /\ k \in Nat /\ DOMAIN el = 1 .. k /\ \A i \in 1 .. k : el[i] \in F /\ Rank(F, el[i]) = i
        /\ \A l \in F : Rank(F, l) \in 1 .. k /\ el[Rank(F, l)] = l
    BY <2>2, <2>3, AscendingIs
  <2>. HIDE DEF n, k
  <2>6. c = [dmans |-> [i \in DOMAIN dl |-> DofManAfter(d, t, dl[i])],
             elems |-> [i \in DOMAIN el |-> ElemAfter(d, t, el[i])]]
    BY <1>2, <2>1, <2>2, CommittedAs DEF S, F
  <2>7. PICK x : x = c.dmans
    OBVIOUS
  <2>8. PICK y : y = c.elems
    OBVIOUS
  <2>9. /\ x = [i \in 1 .. n |-> DofManAfter(d, t, dl[i])] /\ y = [i \in 1 .. k |-> ElemAfter(d, t, el[i])]
        /\ c = [dmans |-> x, elems |-> y]
    BY <2>4, <2>5, <2>6, <2>7, <2>8
  <2>10. ASSUME NEW i \in 1 .. n
         PROVE  /\ x[i] \in DofMen(m) /\ x[i].label = dl[i] /\ m.masters[dl[i]] \subseteq S
                /\ x[i].masters = {Rank(S, z) : z \in m.masters[dl[i]]}
                /\ \A r : r = Placing(d.dmans, t.dmans, dl[i]) => x[i].mode = r.mode /\ x[i].parts = r.parts
    <3>1. x[i] = DofManAfter(d, t, dl[i]) /\ dl[i] \in S
      BY <2>4, <2>9
    <3>. QED
      BY <3>1, DofManPlaced DEF S
  <2>11. ASSUME NEW i \in 1 .. k
         PROVE  /\ y[i] \in Elements /\ y[i].label = el[i] /\ NodesIn(m, el[i]) \subseteq S
                /\ DOMAIN y[i].nodes = DOMAIN m.nodes[el[i]]
                /\ \A z \in DOMAIN y[i].nodes : y[i].nodes[z] = Rank(S, m.nodes[el[i]][z])
                /\ \A r : r = Placing(d.elems, t.elems, el[i]) =>
                     y[i].mode = r.mode /\ y[i].parts = r.parts /\ y[i].table = r.table
    <3>1. y[i] = ElemAfter(d, t, el[i]) /\ el[i] \in F
      BY <2>5, <2>9
    <3>. QED
      BY <3>1, ElemPlaced DEF S, F
  <2>12. DOMAIN x = 1 .. n /\ DOMAIN y = 1 .. k
    BY <2>9
  <2>13. c \in Domains(m)
    <3>1. x \in [1 .. n -> DofMen(m)] /\ y \in [1 .. k -> Elements]
      <4>1. x = [i \in 1 .. n |-> x[i]] /\ y = [i \in 1 .. k |-> y[i]]
        BY <2>9
      <4>. QED
        BY <2>10, <2>11, <4>1
    <3>2. x \in Seq(DofMen(m)) /\ y \in Seq(Elements)
      BY <2>4, <2>5, <3>1
    <3>. QED
      BY <2>9, <3>2 DEF Domains
  <2>14. Distinct(x) /\ Distinct(y)
    BY <2>4, <2>5, <2>10, <2>11, <2>12 DEF Distinct
  <2>15. Labels(x) = S /\ Labels(y) = F
    <3>1. /\ \A i \in 1 .. n : x[i].label \in S
          /\ \A l \in S : Rank(S, l) \in 1 .. n /\ x[Rank(S, l)].label = l
      BY <2>4, <2>10
    <3>2. /\ \A i \in 1 .. k : y[i].label \in F
          /\ \A l \in F : Rank(F, l) \in 1 .. k /\ y[Rank(F, l)].label = l
      BY <2>5, <2>11
    <3>. QED
      BY <2>12, <3>1, <3>2 DEF Labels
  <2>16. ASSUME NEW i \in 1 .. n
         PROVE  MastersLinked(c, m, i)
    <3>1. \A z \in m.masters[dl[i]] : Rank(S, z) \in 1 .. n /\ x[Rank(S, z)].label = z
      BY <2>4, <2>10
    <3>2. x[i].masters \subseteq DOMAIN x /\ {x[j].label : j \in x[i].masters} = m.masters[x[i].label]
      BY <2>10, <2>12, <3>1
    <3>. QED
      BY <2>7, <3>2 DEF MastersLinked
  <2>17. ASSUME NEW i \in 1 .. k
         PROVE  NodesLinked(c, m, i)
    <3>1. DOMAIN y[i].nodes = DOMAIN m.nodes[y[i].label] /\ y[i].label = el[i]
      BY <2>11
    <3>2. \A z \in DOMAIN y[i].nodes : m.nodes[el[i]][z] \in S
      BY <2>11 DEF NodesIn
    <3>3. \A z \in DOMAIN y[i].nodes : y[i].nodes[z] \in 1 .. n /\ x[y[i].nodes[z]].label = m.nodes[el[i]][z]
      BY <2>4, <2>10, <2>11, <3>2
    <3>. QED
      BY <2>7, <2>8, <2>12, <3>1, <3>3 DEF NodesLinked
  <2>18. Lists(c, m, S, F)
    BY <2>7, <2>8, <2>12, <2>13, <2>14, <2>15, <2>16, <2>17 DEF Lists, Linked
  <2>19. SameModes(c, d, t)
    <3>1. \A i \in 1 .. n : \A r : r = Placing(d.dmans, t.dmans, x[i].label) => x[i].mode = r.mode /\ x[i].parts = r.parts
      BY <2>10
    <3>2. \A i \in 1 .. k : \A r : r = Placing(d.elems, t.elems, y[i].label) =>
            y[i].mode = r.mode /\ y[i].parts = r.parts /\ y[i].table = r.table
      BY <2>11
    <3>. QED
      BY <2>7, <2>8, <2>12, <3>1, <3>2 DEF SameModes
  <2>20. ~Incomplete(c)
    BY <2>18, LinkedComplete
  <2>. QED
    BY <2>18, <2>19, <2>20 DEF S, F
<1>. QED
  BY <1>1, <1>2

-------------------------------------------------------------------------------
(* The commit of what was migrated *)

LEMMA ArrivedTyped ==
  ASSUME NEW m \in Meshes, NEW b \in [Elem -> Proc], NEW p \in Proc, NEW l \in DOMAIN m.masters,
         NEW r, r = ArrivedDofMan(m, b, p, l)
  PROVE  /\ r \in DofMen(m) /\ r.label = l /\ r.masters = m.masters[l] /\ r.mode # "gone"
         /\ UsersListed(r, p, Users(m, b, l))
PROOF
<1>1. Users(m, b, l) \subseteq Proc
  BY UsersAre
<1>2. m.masters[l] \subseteq Nat
  BY MeshIs DEF MeshTyped
<1>3. PICK U : U = Users(m, b, l)
  OBVIOUS
<1>4. r = [label |-> l, mode |-> SharedMode(p, U), parts |-> U, masters |-> m.masters[l]]
  BY <1>3 DEF ArrivedDofMan
<1>5. SharedMode(p, U) \in {"local", "shared"}
  BY DEF SharedMode
<1>6. r \in DofMen(m) /\ r.label = l /\ r.masters = m.masters[l] /\ r.mode # "gone"
  BY <1>1, <1>2, <1>3, <1>4, <1>5 DEF DofMen
<1>7. UsersListed(r, p, U)
  BY <1>4 DEF UsersListed
<1>. QED
  BY <1>3, <1>6, <1>7

LEMMA SentTyped ==
  ASSUME NEW m \in Meshes, NEW e \in Elem, NEW r, r = SentElem(m, e)
  PROVE  r \in Elements /\ r.label = e /\ r.mode = "local" /\ r.parts = {} /\ r.nodes = m.nodes[e] /\ r.table = {}
PROOF
<1>1. m.nodes[e] \in Seq(DOMAIN m.masters) /\ DOMAIN m.masters \subseteq Nat
  BY MeshIs DEF MeshTyped
<1>2. m.nodes[e] \in Seq(Nat)
  BY <1>1
<1>. QED
  BY <1>2 DEF SentElem, Elements

\* The open transactions when every message is in.
LEMMA MovesAll ==
  ASSUME NEW m \in Meshes, NEW a \in [Elem -> Proc], NEW b \in [Elem -> Proc], NEW p \in Proc,
         NEW t, Moves(t, m, a, b, p, Proc)
  PROVE  /\ DOMAIN t.dmans = (AllDofMen(m, a, p) \union Own(m, b, p)) \ (Own(m, a, p) \intersect Own(m, b, p))
         /\ DOMAIN t.elems = (AllElems(m, a, p) \union Of(b, p)) \ (Of(a, p) \intersect Of(b, p))
         /\ \A l \in DOMAIN t.dmans : t.dmans[l] = IF l \in Own(m, b, p) THEN ArrivedDofMan(m, b, p, l) ELSE Gone(l)
         /\ \A e \in DOMAIN t.elems : t.elems[e] = IF e \in Of(b, p) THEN SentElem(m, e) ELSE Gone(e)
PROOF
<1>. DEFINE L == ArrivingDofMen(m, a, b, p, Proc)
            F == ArrivingElems(a, b, p, Proc)
<1>1. L = Own(m, b, p) \ Own(m, a, p)
  <2>1. ASSUME NEW l \in Own(m, b, p) \ Own(m, a, p)
        PROVE  \E q \in Proc \ {p} : l \in Own(m, a, q)
    <3>1. PICK e \in Elem : b[e] = p /\ l \in Needed(m, e)
      BY OwnIs
    <3>2. a[e] \in Proc /\ l \in Own(m, a, a[e])
      BY <3>1, OwnIs
    <3>. QED
      BY <3>2
  <2>. QED
    BY <2>1 DEF ArrivingDofMen
<1>2. F = Of(b, p) \ Of(a, p)
  BY DEF ArrivingElems, Of
<1>3. Own(m, a, p) \subseteq AllDofMen(m, a, p) /\ Of(a, p) \subseteq AllElems(m, a, p)
  BY DEF AllDofMen, AllElems
<1>. HIDE DEF L, F
<1>4. /\ t.dmans = [l \in (AllDofMen(m, a, p) \ (Own(m, a, p) \intersect Own(m, b, p))) \union L |->
                      IF l \in L THEN ArrivedDofMan(m, b, p, l) ELSE Gone(l)]
      /\ t.elems = [e \in (AllElems(m, a, p) \ (Of(a, p) \intersect Of(b, p))) \union F |->
                      IF e \in F THEN SentElem(m, e) ELSE Gone(e)]
  BY DEF Moves, L, F
<1>5. /\ (AllDofMen(m, a, p) \ (Own(m, a, p) \intersect Own(m, b, p))) \union L =
           (AllDofMen(m, a, p) \union Own(m, b, p)) \ (Own(m, a, p) \intersect Own(m, b, p))
      /\ (AllElems(m, a, p) \ (Of(a, p) \intersect Of(b, p))) \union F =
           (AllElems(m, a, p) \union Of(b, p)) \ (Of(a, p) \intersect Of(b, p))
  BY <1>1, <1>2, <1>3
<1>6. /\ \A l \in DOMAIN t.dmans : l \in L <=> l \in Own(m, b, p)
      /\ \A e \in DOMAIN t.elems : e \in F <=> e \in Of(b, p)
  BY <1>1, <1>2, <1>4, <1>5
<1>7. /\ \A l \in DOMAIN t.dmans : t.dmans[l] = IF l \in L THEN ArrivedDofMan(m, b, p, l) ELSE Gone(l)
      /\ \A e \in DOMAIN t.elems : t.elems[e] = IF e \in F THEN SentElem(m, e) ELSE Gone(e)
  BY <1>4
<1>. QED
  BY <1>4, <1>5, <1>6, <1>7

\* What is left: what the elements planned for p need.
LEMMA MovesLeave ==
  ASSUME NEW m \in Meshes, NEW a \in [Elem -> Proc], NEW b \in [Elem -> Proc], NEW p \in Proc,
         NEW d, Packed(d, m, a, b, p), NEW t, Moves(t, m, a, b, p, Proc)
  PROVE  DofMenLeft(d, t) = Own(m, b, p) /\ ElemsLeft(d, t) = Of(b, p)
PROOF
<1>1. Labels(d.dmans) = AllDofMen(m, a, p) /\ Labels(d.elems) = AllElems(m, a, p)
  BY DEF Packed, Lists
<1>2. Own(m, a, p) \subseteq AllDofMen(m, a, p) /\ Of(a, p) \subseteq AllElems(m, a, p)
  BY DEF AllDofMen, AllElems
<1>3. /\ Own(m, b, p) \subseteq DOMAIN m.masters /\ Of(b, p) \subseteq Elem
  BY OwnIs
<1>4. \A l \in DOMAIN t.dmans : t.dmans[l].mode # "gone" <=> l \in Own(m, b, p)
  <2>. SUFFICES ASSUME NEW l \in DOMAIN t.dmans
                PROVE  t.dmans[l].mode # "gone" <=> l \in Own(m, b, p)
    OBVIOUS
  <2>1. CASE l \in Own(m, b, p)
    <3>1. ArrivedDofMan(m, b, p, l).mode # "gone"
      BY <1>3, <2>1, ArrivedTyped
    <3>. QED
      BY <2>1, <3>1, MovesAll
  <2>2. CASE l \notin Own(m, b, p)
    BY <2>2, MovesAll, GoneIs
  <2>. QED
    BY <2>1, <2>2
<1>5. \A e \in DOMAIN t.elems : t.elems[e].mode # "gone" <=> e \in Of(b, p)
  <2>. SUFFICES ASSUME NEW e \in DOMAIN t.elems
                PROVE  t.elems[e].mode # "gone" <=> e \in Of(b, p)
    OBVIOUS
  <2>1. CASE e \in Of(b, p)
    <3>1. SentElem(m, e).mode # "gone"
      BY <1>3, <2>1, SentTyped
    <3>. QED
      BY <2>1, <3>1, MovesAll
  <2>2. CASE e \notin Of(b, p)
    BY <2>2, MovesAll, GoneIs
  <2>. QED
    BY <2>1, <2>2
<1>6. /\ DOMAIN t.dmans = (AllDofMen(m, a, p) \union Own(m, b, p)) \ (Own(m, a, p) \intersect Own(m, b, p))
      /\ DOMAIN t.elems = (AllElems(m, a, p) \union Of(b, p)) \ (Of(a, p) \intersect Of(b, p))
  BY MovesAll
<1>. QED
  BY <1>1, <1>2, <1>4, <1>5, <1>6 DEF DofMenLeft, ElemsLeft, Remaining

LEMMA MovesFit ==
  ASSUME MastersPrimary, NEW m \in Meshes, NEW a \in [Elem -> Proc], NEW b \in [Elem -> Proc], NEW p \in Proc,
         NEW d, Packed(d, m, a, b, p), NEW t, Moves(t, m, a, b, p, Proc)
  PROVE  Fits(d, t, m)
PROOF
<1>1. DofMenLeft(d, t) = Own(m, b, p) /\ ElemsLeft(d, t) = Of(b, p)
  BY MovesLeave
<1>2. Own(m, b, p) \subseteq DOMAIN m.masters /\ Of(b, p) \subseteq Elem /\ Of(a, p) \subseteq Elem
  BY OwnIs
<1>3. Lists(d, m, Labels(d.dmans), Labels(d.elems))
  BY DEF Packed, Lists
<1>4. /\ DOMAIN t.dmans = (AllDofMen(m, a, p) \union Own(m, b, p)) \ (Own(m, a, p) \intersect Own(m, b, p))
      /\ DOMAIN t.elems = (AllElems(m, a, p) \union Of(b, p)) \ (Of(a, p) \intersect Of(b, p))
  BY MovesAll
<1>5. ASSUME NEW e \in Elem, NEW w \in [Elem -> Proc], e \in Of(w, p)
      PROVE  NodesIn(m, e) \subseteq Own(m, w, p)
  BY <1>5, OwnIs DEF Of, Needed
<1>6. ASSUME NEW l \in Own(m, b, p)
      PROVE  IF l \in DOMAIN t.dmans
             THEN /\ t.dmans[l] \in DofMen(m) /\ t.dmans[l].label = l /\ t.dmans[l].masters = m.masters[l]
                  /\ m.masters[l] \subseteq Own(m, b, p)
             ELSE m.masters[l] \intersect DOMAIN t.dmans = {}
  <2>1. m.masters[l] \subseteq Own(m, b, p)
    BY OwnMasters
  <2>2. CASE l \in DOMAIN t.dmans
    <3>1. t.dmans[l] = ArrivedDofMan(m, b, p, l)
      BY <2>2, MovesAll
    <3>2. t.dmans[l] \in DofMen(m) /\ t.dmans[l].label = l /\ t.dmans[l].masters = m.masters[l]
      BY <1>2, <3>1, ArrivedTyped
    <3>. QED
      BY <2>1, <2>2, <3>2
  <2>3. CASE l \notin DOMAIN t.dmans
    <3>1. l \in Own(m, a, p)
      BY <1>4, <2>3
    <3>2. m.masters[l] \subseteq Own(m, a, p)
      BY <3>1, OwnMasters
    <3>. QED
      BY <1>4, <2>1, <2>3, <3>2
  <2>. QED
    BY <2>2, <2>3
<1>7. ASSUME NEW e \in Of(b, p)
      PROVE  IF e \in DOMAIN t.elems
             THEN /\ t.elems[e] \in Elements /\ t.elems[e].label = e /\ t.elems[e].nodes = m.nodes[e]
                  /\ NodesIn(m, e) \subseteq Own(m, b, p)
             ELSE NodesIn(m, e) \intersect DOMAIN t.dmans = {}
  <2>1. NodesIn(m, e) \subseteq Own(m, b, p)
    BY <1>2, <1>5
  <2>2. CASE e \in DOMAIN t.elems
    <3>1. t.elems[e] = SentElem(m, e)
      BY <2>2, MovesAll
    <3>2. t.elems[e] \in Elements /\ t.elems[e].label = e /\ t.elems[e].nodes = m.nodes[e]
      BY <1>2, <3>1, SentTyped
    <3>. QED
      BY <2>1, <2>2, <3>2
  <2>3. CASE e \notin DOMAIN t.elems
    <3>1. e \in Of(a, p)
      BY <1>4, <2>3
    <3>2. NodesIn(m, e) \subseteq Own(m, a, p)
      BY <1>2, <1>5, <3>1
    <3>. QED
      BY <1>4, <2>1, <2>3, <3>2
  <2>. QED
    BY <2>2, <2>3
<1>. QED
  BY <1>1, <1>2, <1>3, <1>6, <1>7 DEF Fits

LEMMA CommittedBare ==
  ASSUME MastersPrimary, NEW m \in Meshes, NEW a \in [Elem -> Proc], NEW b \in [Elem -> Proc], NEW p \in Proc,
         NEW d, Packed(d, m, a, b, p), NEW t, Moves(t, m, a, b, p, Proc), NEW c, c = Committed(d, t)
  PROVE  Bare(c, m, b, p) /\ ~Incomplete(c)
PROOF
<1>1. Lists(c, m, Own(m, b, p), Of(b, p)) /\ SameModes(c, d, t) /\ ~Incomplete(c)
  BY MovesFit, MovesLeave, CommittedIs
<1>2. /\ DOMAIN t.dmans = (AllDofMen(m, a, p) \union Own(m, b, p)) \ (Own(m, a, p) \intersect Own(m, b, p))
      /\ DOMAIN t.elems = (AllElems(m, a, p) \union Of(b, p)) \ (Of(a, p) \intersect Of(b, p))
  BY MovesAll
<1>3. /\ Distinct(d.dmans) /\ Distinct(d.elems)
      /\ Labels(d.dmans) = AllDofMen(m, a, p) /\ Labels(d.elems) = AllElems(m, a, p)
      /\ Shares(d, m, b, p, Own(m, a, p) \intersect Own(m, b, p)) /\ Owned(d, a, p)
      /\ Own(m, a, p) \subseteq AllDofMen(m, a, p) /\ Of(a, p) \subseteq AllElems(m, a, p)
      /\ Own(m, b, p) \subseteq DOMAIN m.masters /\ Of(b, p) \subseteq Elem
  BY OwnIs DEF Packed, Lists, AllElems
<1>4. ASSUME NEW i \in DOMAIN c.dmans, NEW l, l = c.dmans[i].label
      PROVE  UsersListed(c.dmans[i], p, Users(m, b, l))
  <2>1. PICK r : r = Placing(d.dmans, t.dmans, l)
    OBVIOUS
  <2>2. c.dmans[i].mode = r.mode /\ c.dmans[i].parts = r.parts
    BY <1>1, <1>4, <2>1 DEF SameModes
  <2>3. l \in Own(m, b, p)
    BY <1>1, <1>4, ListTyped
  <2>4. UsersListed(r, p, Users(m, b, l))
    <3>1. CASE l \in DOMAIN t.dmans
      <4>1. r = ArrivedDofMan(m, b, p, l)
        BY <2>1, <2>3, <3>1, MovesAll DEF Placing
      <4>. QED
        BY <1>3, <2>3, <4>1, ArrivedTyped
    <3>2. CASE l \notin DOMAIN t.dmans
      <4>1. l \in Own(m, a, p) \intersect Own(m, b, p) /\ l \in Labels(d.dmans)
        BY <1>2, <1>3, <2>3, <3>2
      <4>2. PICK j \in DOMAIN d.dmans : d.dmans[j].label = l /\ r = d.dmans[j]
        BY <1>3, <2>1, <3>2, <4>1, PlacedRecord
      <4>. QED
        BY <1>3, <4>1, <4>2 DEF Shares
    <3>. QED
      BY <3>1, <3>2
  <2>. QED
    BY <2>2, <2>4 DEF UsersListed
<1>5. ASSUME NEW i \in DOMAIN c.elems, NEW e, e = c.elems[i].label
      PROVE  b[e] = p /\ c.elems[i].mode = "local" /\ c.elems[i].parts = {}
  <2>1. PICK r : r = Placing(d.elems, t.elems, e)
    OBVIOUS
  <2>2. c.elems[i].mode = r.mode /\ c.elems[i].parts = r.parts
    BY <1>1, <1>5, <2>1 DEF SameModes
  <2>3. e \in Of(b, p) /\ e \in Elem
    BY <1>1, <1>3, <1>5, ListTyped
  <2>4. r.mode = "local" /\ r.parts = {}
    <3>1. CASE e \in DOMAIN t.elems
      <4>1. r = SentElem(m, e)
        BY <2>1, <2>3, <3>1, MovesAll DEF Placing
      <4>. QED
        BY <2>3, <4>1, SentTyped
    <3>2. CASE e \notin DOMAIN t.elems
      <4>1. e \in Of(a, p) /\ e \in Labels(d.elems)
        BY <1>2, <1>3, <2>3, <3>2
      <4>2. PICK j \in DOMAIN d.elems : d.elems[j].label = e /\ r = d.elems[j]
        BY <1>3, <2>1, <3>2, <4>1, PlacedRecord
      <4>. QED
        BY <1>3, <4>1, <4>2 DEF Owned, Of
    <3>. QED
      BY <3>1, <3>2
  <2>. QED
    BY <2>2, <2>3, <2>4 DEF Of
<1>6. Shares(c, m, b, p, Own(m, b, p)) /\ Owned(c, b, p)
  BY <1>4, <1>5 DEF Shares, Owned
<1>. QED
  BY <1>1, <1>6 DEF Bare

LEMMA CommitLaid ==
  ASSUME MastersPrimary, NEW m \in Meshes, NEW a \in [Elem -> Proc], NEW b \in [Elem -> Proc], LayoutOf(m, a, b),
         NEW p \in Proc, Commit(p)
  PROVE  LayoutInv'
PROOF
<1>1. mesh = m /\ plan = b /\ Indexed /\ Laid(p, m, a, b, StateOf(p))
  BY DEF LayoutOf
<1>2. PICK c : c = Committed(dom[p], trans[p])
  OBVIOUS
<1>3. /\ pc[p] = "commit"
      /\ newParts' = [newParts EXCEPT ![p] = <<>>]
      /\ dom' = [dom EXCEPT ![p] = c]
      /\ trans' = [trans EXCEPT ![p] = NoTransactions]
      /\ pc' = [pc EXCEPT ![p] = IF Incomplete(dom'[p]) THEN "aborted" ELSE "wish"]
      /\ UNCHANGED <<mesh, plan, deps, mail, got>>
  <2>1. dom' = [dom EXCEPT ![p] = c]
    BY <1>1, <1>2 DEF Commit, Indexed
  <2>. QED
    BY <2>1 DEF Commit, Goto
<1>4. /\ Packed(dom[p], m, a, b, p) /\ got[p] = {} /\ Moves(trans[p], m, a, b, p, Proc)
      /\ deps[p] = Dependencies(m, a, b, p, Proc)
  <2>1. StateOf(p).pc = "commit"
    BY <1>3 DEF StateOf
  <2>. QED
    BY <1>1, <2>1, LaidCommit DEF StateOf
<1>5. Bare(c, m, b, p) /\ ~Incomplete(c)
  BY <1>2, <1>4, CommittedBare
<1>6. pc' = [pc EXCEPT ![p] = "wish"]
  <2>1. dom'[p] = c
    BY <1>1, <1>3 DEF Indexed
  <2>. QED
    BY <1>3, <1>5, <2>1
<1>7. PICK t : t = StateOf(p)'
  OBVIOUS
<1>8. t.pc = "wish" /\ t.dom = c /\ t.trans = NoTransactions /\ t.got = {} /\ t.deps = deps[p]
  BY <1>1, <1>3, <1>4, <1>6, <1>7 DEF StateOf, Indexed
<1>9. Laid(p, m, a, b, t)
  <2>1. t.pc = "wish" /\ Bare(t.dom, m, b, p) /\ t.trans = NoTransactions /\ t.got = {}
    BY <1>5, <1>8
  <2>2. t.deps = Dependencies(m, a, b, p, Proc)
    BY <1>4, <1>8
  <2>. QED
    BY <2>1, <2>2, LaidWish
<1>10. Indexed' /\ \A x \in Proc \ {p} : StateOf(x)' = StateOf(x)
  BY <1>1, <1>3, <1>6 DEF Indexed, StateOf
<1>. QED
  BY <1>3, <1>7, <1>9, <1>10, OneLaid

-------------------------------------------------------------------------------
(* Mirrors: what is wished and what is packed *)

LEMMA LentPrimary ==
  ASSUME MirrorsPrimary, NEW m \in Meshes, NEW b \in [Elem -> Proc], NEW q \in Proc, NEW f \in Mirrored(m, b, q)
  PROVE  Needed(m, f) = NodesIn(m, f) /\ \A l \in Needed(m, f) : m.masters[l] = {}
PROOF
<1>1. PICK e \in Of(b, q) : f \in m.near[e] \ {e}
  BY DEF Mirrored, Around
<1>2. \A i \in DOMAIN m.nodes[f] : m.masters[m.nodes[f][i]] = {}
  BY <1>1 DEF MirrorsPrimary, Of
<1>3. \A l \in NodesIn(m, f) : m.masters[l] = {}
  BY <1>2 DEF NodesIn
<1>. QED
  BY <1>3 DEF Needed

LEMMA BareIs ==
  ASSUME NEW m \in Meshes, NEW b \in [Elem -> Proc], NEW p \in Proc, Bare(dom[p], m, b, p)
  PROVE  /\ LocalElems(p) = DOMAIN dom[p].elems /\ OwnLabels(p) = Of(b, p)
         /\ \A i \in DOMAIN dom[p].elems : dom[p].elems[i].mode = "local" /\ dom[p].elems[i].label \in Of(b, p)
         /\ \A e \in Of(b, p) : \E i \in DOMAIN dom[p].elems : dom[p].elems[i].label = e
         /\ \A l \in Own(m, b, p) : \E i \in DOMAIN dom[p].dmans : dom[p].dmans[i].label = l
PROOF
<1>1. Lists(dom[p], m, Own(m, b, p), Of(b, p)) /\ Owned(dom[p], b, p)
  BY DEF Bare
<1>2. /\ \A i \in DOMAIN dom[p].elems : dom[p].elems[i].mode = "local" <=> dom[p].elems[i].label \in Of(b, p)
      /\ \A i \in DOMAIN dom[p].elems : dom[p].elems[i].label \in Of(b, p)
  BY <1>1, LocalElemsAre, ListTyped
<1>3. /\ \A e \in Of(b, p) : \E i \in DOMAIN dom[p].elems : dom[p].elems[i].label = e
      /\ \A l \in Own(m, b, p) : \E i \in DOMAIN dom[p].dmans : dom[p].dmans[i].label = l
  BY <1>1, ListTyped
<1>4. LocalElems(p) = DOMAIN dom[p].elems
  BY <1>2 DEF LocalElems
<1>5. OwnLabels(p) = Of(b, p)
  BY <1>2, <1>3, <1>4 DEF OwnLabels
<1>. QED
  BY <1>2, <1>3, <1>4, <1>5

LEMMA WishesAre ==
  ASSUME NEW m \in Meshes, NEW a \in [Elem -> Proc], NEW b \in [Elem -> Proc], NEW p \in Proc,
         OwnLabels(p) = Of(b, p), deps[p] = Dependencies(m, a, b, p, Proc)
  PROVE  Wishes(p) = Mirrored(m, b, p) /\ \A l \in Of(b, p) : deps[p][l] = m.near[l]
PROOF
<1>1. {f \in Of(b, p) : a[f] \in Proc} = Of(b, p)
  BY DEF Of
<1>2. \A l \in Of(b, p) : deps[p][l] = m.near[l]
  BY <1>1 DEF Dependencies
<1>3. Wishes(p) = Mirrored(m, b, p)
  BY <1>2 DEF Wishes, Mirrored, Around
<1>. QED
  BY <1>2, <1>3

\* The nodes q does not share.
Unshared(p, q, nodes) ==
  {n \in nodes : \/ dom[p].dmans[n].mode = "local"
                 \/ dom[p].dmans[n].mode = "shared" /\ q \notin dom[p].dmans[n].parts}

LEMMA UnsharedAre ==
  ASSUME NEW m \in Meshes, NEW b \in [Elem -> Proc], NEW p \in Proc, NEW q \in Proc \ {p}, Bare(dom[p], m, b, p),
         NEW nodes \in SUBSET DOMAIN dom[p].dmans
  PROVE  Unshared(p, q, nodes) = {n \in nodes : dom[p].dmans[n].label \notin Own(m, b, q)}
PROOF
<1>. SUFFICES ASSUME NEW n \in nodes
              PROVE  n \in Unshared(p, q, nodes) <=> dom[p].dmans[n].label \notin Own(m, b, q)
  BY DEF Unshared
<1>1. PICK r : r = dom[p].dmans[n]
  OBVIOUS
<1>2. r.label \in Own(m, b, p)
  BY <1>1, ListTyped DEF Bare
<1>3. UsersListed(r, p, Users(m, b, r.label))
  BY <1>1, <1>2 DEF Bare, Shares
<1>4. q \in Users(m, b, r.label) <=> r.label \in Own(m, b, q)
  BY UsersAre
<1>5. q \in Users(m, b, r.label) <=> r.mode = "shared" /\ q \in r.parts
  BY <1>3 DEF UsersListed, SharedMode
<1>6. r.mode = "local" \/ r.mode = "shared"
  BY <1>3 DEF UsersListed, SharedMode
<1>7. (r.mode = "local" \/ (r.mode = "shared" /\ q \notin r.parts)) <=> r.label \notin Own(m, b, q)
  BY <1>4, <1>5, <1>6
<1>. QED
  BY <1>1, <1>7 DEF Unshared

\* The labels at places of a list, and the node numbers of elements.
LabelsAt(list, I) == {list[i].label : i \in I}
NodeNumbers(d, I) == UNION {{d.elems[i].nodes[k] : k \in DOMAIN d.elems[i].nodes} : i \in I}

LEMMA LentNodes ==
  ASSUME MirrorsPrimary, NEW m \in Meshes, NEW b \in [Elem -> Proc], NEW p, NEW q \in Proc,
         NEW d, Bare(d, m, b, p), NEW I, I \subseteq DOMAIN d.elems,
         LabelsAt(d.elems, I) = Lent(m, b, p, q), NEW N, N = NodeNumbers(d, I)
  PROVE  N \subseteq DOMAIN d.dmans /\ LabelsAt(d.dmans, N) = NeededBy(m, Lent(m, b, p, q))
PROOF
<1>. USE DEF LabelsAt, NodeNumbers
<1>1. \A i \in DOMAIN d.elems : NodesLinked(d, m, i)
  BY DEF Bare, Lists, Linked
<1>2. N \subseteq DOMAIN d.dmans
  BY <1>1 DEF NodesLinked
<1>3. \A f \in Lent(m, b, p, q) : Needed(m, f) = NodesIn(m, f)
  BY LentPrimary DEF Lent
<1>4. ASSUME NEW n \in N
      PROVE  d.dmans[n].label \in NeededBy(m, Lent(m, b, p, q))
  <2>1. PICK i \in I : \E k \in DOMAIN d.elems[i].nodes : d.elems[i].nodes[k] = n
    OBVIOUS
  <2>2. d.dmans[n].label \in NodesIn(m, d.elems[i].label)
    <3>1. PICK k \in DOMAIN d.elems[i].nodes : d.elems[i].nodes[k] = n
      BY <2>1
    <3>2. k \in DOMAIN m.nodes[d.elems[i].label] /\ d.dmans[n].label = m.nodes[d.elems[i].label][k]
      BY <1>1, <3>1 DEF NodesLinked
    <3>. QED
      BY <3>2 DEF NodesIn
  <2>3. d.elems[i].label \in Lent(m, b, p, q)
    OBVIOUS
  <2>4. d.dmans[n].label \in Needed(m, d.elems[i].label)
    BY <1>3, <2>2, <2>3
  <2>. QED
    BY <2>3, <2>4 DEF NeededBy
<1>5. ASSUME NEW l \in NeededBy(m, Lent(m, b, p, q))
      PROVE  \E n \in N : d.dmans[n].label = l
  <2>1. PICK f \in Lent(m, b, p, q) : l \in NodesIn(m, f)
    BY <1>3 DEF NeededBy
  <2>2. PICK i \in I : d.elems[i].label = f
    BY <2>1
  <2>3. PICK k \in DOMAIN m.nodes[f] : m.nodes[f][k] = l
    BY <2>1 DEF NodesIn
  <2>4. k \in DOMAIN d.elems[i].nodes /\ d.dmans[d.elems[i].nodes[k]].label = l
    BY <1>1, <2>2, <2>3 DEF NodesLinked
  <2>. QED
    BY <2>4
<1>. QED
  BY <1>2, <1>4, <1>5

LEMMA RemoteElementsAre ==
  ASSUME MirrorsPrimary, NEW m \in Meshes, NEW b \in [Elem -> Proc], NEW p \in Proc, NEW q \in Proc \ {p},
         NEW d, d = dom[p], Bare(d, m, b, p), Wishes(q) = Mirrored(m, b, q)
  PROVE  MirrorMail(RemoteElements(p, q), m, b, p, q)
PROOF
<1>. DEFINE I == {i \in LocalElems(p) : d.elems[i].label \in Wishes(q)}
            N == UNION {{d.elems[i].nodes[k] : k \in DOMAIN d.elems[i].nodes} : i \in I}
            F == Lent(m, b, p, q)
            msg == RemoteElements(p, q)
<1>1. msg = [dmans |-> {d.dmans[n] : n \in Unshared(p, q, N)}, elems |-> {SavedAs(p, i) : i \in I}]
  BY DEF RemoteElements, Unshared, SavedAs
<1>2. /\ LocalElems(p) = DOMAIN d.elems
      /\ \A i \in DOMAIN d.elems : d.elems[i].mode = "local" /\ d.elems[i].label \in Of(b, p)
      /\ \A e \in Of(b, p) : \E i \in DOMAIN d.elems : d.elems[i].label = e
      /\ Lists(d, m, Own(m, b, p), Of(b, p)) /\ Owned(d, b, p)
  BY BareIs DEF Bare
<1>3. I \subseteq DOMAIN d.elems /\ {d.elems[i].label : i \in I} = F
  BY <1>2 DEF Lent
<1>4. N \subseteq DOMAIN d.dmans /\ {d.dmans[n].label : n \in N} = NeededBy(m, F)
  <2>1. I \subseteq DOMAIN d.elems /\ LabelsAt(d.elems, I) = Lent(m, b, p, q)
    BY <1>3 DEF LabelsAt
  <2>2. N = NodeNumbers(d, I)
    BY DEF NodeNumbers
  <2>. HIDE DEF I, N
  <2>3. N \subseteq DOMAIN d.dmans /\ LabelsAt(d.dmans, N) = NeededBy(m, Lent(m, b, p, q))
    BY <2>1, <2>2, LentNodes
  <2>. QED
    BY <2>3 DEF LabelsAt
<1>. HIDE DEF msg, I, N
<1>5. msg.elems = {SentElem(m, e) : e \in F}
  <2>1. \A i \in I : SavedAs(p, i) = SentElem(m, d.elems[i].label)
    <3>. SUFFICES ASSUME NEW i \in I
                  PROVE  SavedAs(p, i) = SentElem(m, d.elems[i].label)
      OBVIOUS
    <3>1. i \in DOMAIN dom[p].elems /\ dom[p].elems[i].mode = "local"
      BY <1>2, <1>3
    <3>2. Lists(dom[p], m, Own(m, b, p), Of(b, p)) /\ Owned(dom[p], b, p)
      BY <1>2
    <3>3. SavedAs(p, i) = SentElem(m, dom[p].elems[i].label)
      BY <3>1, <3>2, SavedElem
    <3>. QED
      BY <3>3
  <2>2. \A i \in I : d.elems[i].label \in F
    BY <1>3
  <2>3. \A e \in F : \E i \in I : d.elems[i].label = e
    BY <1>3
  <2>. HIDE DEF F
  <2>. QED
    BY <1>1, <2>1, <2>2, <2>3
<1>6. Unshared(p, q, N) = {n \in N : d.dmans[n].label \notin Own(m, b, q)}
  BY <1>4, UnsharedAre
<1>7. \A n \in N : /\ d.dmans[n] \in DofMen(m) /\ d.dmans[n].masters = {} /\ m.masters[d.dmans[n].label] = {}
  <2>. SUFFICES ASSUME NEW n \in N
                PROVE  d.dmans[n] \in DofMen(m) /\ d.dmans[n].masters = {} /\ m.masters[d.dmans[n].label] = {}
    OBVIOUS
  <2>1. n \in DOMAIN d.dmans /\ d.dmans[n].label \in NeededBy(m, F)
    BY <1>4
  <2>2. PICK f \in F : d.dmans[n].label \in Needed(m, f)
    BY <2>1 DEF NeededBy
  <2>3. m.masters[d.dmans[n].label] = {}
    BY <2>2, LentPrimary DEF Lent
  <2>4. PICK ms : ms = d.dmans[n].masters
    OBVIOUS
  <2>5. {d.dmans[k].label : k \in ms} = {}
    BY <1>2, <2>1, <2>3, <2>4 DEF Lists, Linked, MastersLinked
  <2>6. ms = {}
    BY <2>5
  <2>7. d.dmans[n] \in DofMen(m)
    BY <1>2, <2>1, ListTyped
  <2>. QED
    BY <2>3, <2>4, <2>6, <2>7
<1>8. msg.dmans = {d.dmans[n] : n \in Unshared(p, q, N)}
  BY <1>1
<1>9. {r.label : r \in msg.dmans} = LentDofMen(m, b, p, q)
  <2>1. \A r \in msg.dmans : r.label \in LentDofMen(m, b, p, q)
    BY <1>4, <1>6, <1>8 DEF LentDofMen
  <2>2. \A l \in LentDofMen(m, b, p, q) : \E r \in msg.dmans : r.label = l
    BY <1>4, <1>6, <1>8 DEF LentDofMen
  <2>. QED
    BY <2>1, <2>2
<1>10. msg.dmans \subseteq DofMen(m) /\ \A r \in msg.dmans : r.masters = {} /\ m.masters[r.label] = {}
  BY <1>6, <1>7, <1>8
<1>. QED
  BY <1>5, <1>9, <1>10 DEF MirrorMail, msg

LEMMA AllLaid ==
  ASSUME NEW m \in Meshes, NEW a \in [Elem -> Proc], NEW b \in [Elem -> Proc],
         mesh' = m, plan' = b, Indexed', \A p \in Proc : Laid(p, m, a, b, StateOf(p)')
  PROVE  LayoutInv'
PROOF
<1>1. LayoutOf(m, a, b)'
  BY DEF LayoutOf
<1>. QED
  BY <1>1 DEF LayoutInv

LEMMA NothingBorrowed ==
  ASSUME NEW m, NEW b, NEW p
  PROVE  Borrows(NoTransactions, m, b, p, {})
PROOF
<1>1. Borrowed(m, b, p, {}) = {}
  BY DEF Borrowed
<1>2. NeededBy(m, {}) = {}
  BY DEF NeededBy
<1>3. NoTransactions.dmans = Empty /\ NoTransactions.elems = Empty /\ DOMAIN NoTransactions = {"dmans", "elems"}
  BY DEF NoTransactions
<1>4. Empty = [e \in {} |-> MirrorElem(m, b, e)]
  BY DEF Empty
<1>. QED
  BY <1>1, <1>2, <1>3, <1>4, EmptyIs DEF Borrows

LEMMA PackRemoteLaid ==
  ASSUME MirrorsPrimary, NEW m \in Meshes, NEW a \in [Elem -> Proc], NEW b \in [Elem -> Proc], LayoutOf(m, a, b),
         PackRemoteElements
  PROVE  LayoutInv'
PROOF
<1>. DEFINE sent(p) == [q \in Proc |-> IF p = q THEN NoMessage ELSE RemoteElements(p, q)]
<1>1. mesh = m /\ plan = b /\ Indexed /\ \A p \in Proc : Laid(p, m, a, b, StateOf(p))
  BY DEF LayoutOf
<1>2. /\ \A p \in Proc : pc[p] = "wish"
      /\ mail' = [p \in Proc |-> sent(p)]
      /\ pc' = [p \in Proc |-> "mirroring"]
      /\ UNCHANGED <<mesh, dom, plan, newParts, deps, trans, got>>
  BY DEF PackRemoteElements, AllAt, AllGoto
<1>3. ASSUME NEW p \in Proc
      PROVE  /\ Bare(dom[p], m, b, p) /\ trans[p] = NoTransactions /\ got[p] = {}
             /\ deps[p] = Dependencies(m, a, b, p, Proc) /\ Wishes(p) = Mirrored(m, b, p)
  <2>1. PICK s : s = StateOf(p)
    OBVIOUS
  <2>3. s.pc = "wish" /\ s.dom = dom[p] /\ s.trans = trans[p] /\ s.got = got[p] /\ s.deps = deps[p]
    BY <1>2, <2>1 DEF StateOf
  <2>4. Laid(p, m, a, b, s)
    BY <1>1, <2>1
  <2>2. /\ Bare(dom[p], m, b, p) /\ trans[p] = NoTransactions /\ got[p] = {}
        /\ deps[p] = Dependencies(m, a, b, p, Proc)
    BY <2>3, <2>4, LaidWish
  <2>. QED
    BY <2>2, BareIs, WishesAre
<1>4. ASSUME NEW p \in Proc, NEW q \in Proc \ {p}
      PROVE  MirrorMail(sent(p)[q], m, b, p, q)
  <2>1. MirrorMail(RemoteElements(p, q), m, b, p, q)
    BY <1>3, RemoteElementsAre
  <2>. QED
    BY <2>1
<1>. HIDE DEF sent
<1>5. ASSUME NEW p \in Proc
      PROVE  Laid(p, m, a, b, StateOf(p)')
  <2>1. PICK t : t = StateOf(p)'
    OBVIOUS
  <2>2. /\ t.pc = "mirroring" /\ t.dom = dom[p] /\ t.trans = NoTransactions /\ t.got = {}
        /\ t.mail = sent(p) /\ t.deps = deps[p]
    BY <1>1, <1>2, <1>3, <2>1 DEF StateOf, Indexed
  <2>3. /\ t.pc = "mirroring" /\ Bare(t.dom, m, b, p) /\ Borrows(t.trans, m, b, p, t.got) /\ t.got \subseteq Proc
        /\ t.deps = Dependencies(m, a, b, p, Proc)
    BY <1>3, <2>2, NothingBorrowed
  <2>4. \A q \in Proc \ {p} : MirrorMail(t.mail[q], m, b, p, q)
    BY <1>4, <2>2
  <2>5. Laid(p, m, a, b, t)
    BY <2>3, <2>4, LaidMirroring
  <2>. QED
    BY <2>1, <2>5
<1>6. Indexed'
  BY <1>1, <1>2 DEF Indexed
<1>. QED
  BY <1>1, <1>2, <1>5, <1>6, AllLaid

-------------------------------------------------------------------------------
(* Mirrors arrive *)

AsNull(r) == [r EXCEPT !.mode = "null"]
AsMirror(r, q) == [r EXCEPT !.mode = "remote", !.parts = MirrorOwner(r, q)]

LEMMA NullIs ==
  ASSUME NEW m, NEW r \in DofMen(m)
  PROVE  /\ AsNull(r) \in DofMen(m) /\ AsNull(r).label = r.label /\ AsNull(r).mode = "null"
         /\ AsNull(r).masters = r.masters
PROOF BY DEF AsNull, DofMen

LEMMA MirrorIs ==
  ASSUME NEW m, NEW b, NEW e, NEW q, q = b[e]
  PROVE  AsMirror(SentElem(m, e), q) = MirrorElem(m, b, e) /\ MirrorElem(m, b, e).label = e
PROOF
<1>1. AsMirror(SentElem(m, e), q) = MirrorElem(m, b, e)
  BY DEF AsMirror, MirrorElem, MirrorOwner
<1>2. MirrorElem(m, b, e).label = e
  BY DEF MirrorElem, SentElem
<1>. QED
  BY <1>1, <1>2

\* The transactions of p with the mirrors of q put in.
NewOnes(p, q) == {r \in mail[q][p].dmans : r.label \notin Labels(dom[p].dmans)}
Mirroreds(p, q) == [dmans |-> Put(trans[p].dmans, {AsNull(r) : r \in NewOnes(p, q)}),
                    elems |-> Put(trans[p].elems, {AsMirror(r, q) : r \in mail[q][p].elems})]

LEMMA MirroredsAre ==
  ASSUME NEW m \in Meshes, NEW b \in [Elem -> Proc], NEW p \in Proc, NEW q \in Proc \ {p},
         NEW R, Bare(dom[p], m, b, p), Borrows(trans[p], m, b, p, R), MirrorMail(mail[q][p], m, b, q, p)
  PROVE  Borrows(Mirroreds(p, q), m, b, p, R \union {q})
PROOF
<1>. DEFINE F == Lent(m, b, q, p)
            B(S) == Borrowed(m, b, p, S)
            nulls == {AsNull(r) : r \in NewOnes(p, q)}
            mirrors == {AsMirror(r, q) : r \in mail[q][p].elems}
            el == [e \in B(R \union {q}) |-> MirrorElem(m, b, e)]
            t == Mirroreds(p, q)
<1>1. B(R \union {q}) = B(R) \union F
  <2>1. Mirrored(m, b, p) \subseteq Elem
    BY OwnIs
  <2>. QED
    BY <2>1 DEF Borrowed, Lent, Of
<1>2. NeededBy(m, B(R \union {q})) = NeededBy(m, B(R)) \union NeededBy(m, F)
  BY <1>1 DEF NeededBy
<1>3. NewOnes(p, q) = mail[q][p].dmans
  <2>1. Labels(dom[p].dmans) = Own(m, b, p)
    BY DEF Bare, Lists
  <2>. QED
    BY <2>1 DEF NewOnes, MirrorMail, LentDofMen
<1>4. /\ \A r \in nulls : /\ r \in DofMen(m) /\ r.mode = "null" /\ r.masters = {} /\ m.masters[r.label] = {}
      /\ LabelsIn(nulls) = NeededBy(m, F) \ Own(m, b, p)
  <2>1. /\ \A r \in mail[q][p].dmans : r \in DofMen(m) /\ r.masters = {} /\ m.masters[r.label] = {}
        /\ {r.label : r \in mail[q][p].dmans} = NeededBy(m, F) \ Own(m, b, p)
    BY DEF MirrorMail, LentDofMen
  <2>2. \A r \in mail[q][p].dmans : /\ AsNull(r) \in DofMen(m) /\ AsNull(r).label = r.label
                                    /\ AsNull(r).mode = "null" /\ AsNull(r).masters = r.masters
    BY <2>1, NullIs
  <2>3. \A r \in nulls : \E s \in mail[q][p].dmans : r = AsNull(s)
    BY <1>3
  <2>4. \A s \in mail[q][p].dmans : AsNull(s) \in nulls
    BY <1>3
  <2>. HIDE DEF nulls, F
  <2>5. \A r \in nulls : r \in DofMen(m) /\ r.mode = "null" /\ r.masters = {} /\ m.masters[r.label] = {}
    BY <2>1, <2>2, <2>3
  <2>6. LabelsIn(nulls) = {r.label : r \in mail[q][p].dmans}
    BY <2>2, <2>3, <2>4 DEF LabelsIn
  <2>. QED
    BY <2>1, <2>5, <2>6
<1>5. mirrors = {MirrorElem(m, b, e) : e \in F}
  <2>1. mail[q][p].elems = {SentElem(m, e) : e \in F}
    BY DEF MirrorMail
  <2>2. \A e \in F : AsMirror(SentElem(m, e), q) = MirrorElem(m, b, e)
    BY MirrorIs DEF Lent, Of
  <2>. HIDE DEF F
  <2>. QED
    BY <2>1, <2>2
<1>6. /\ DOMAIN trans[p].dmans = NeededBy(m, B(R)) \ Own(m, b, p)
      /\ \A l \in DOMAIN trans[p].dmans :
           /\ trans[p].dmans[l] \in DofMen(m) /\ trans[p].dmans[l].label = l /\ trans[p].dmans[l].mode = "null"
           /\ trans[p].dmans[l].masters = {} /\ m.masters[l] = {}
      /\ trans[p].elems = [e \in B(R) |-> MirrorElem(m, b, e)]
  BY DEF Borrows
<1>. HIDE DEF B, F, nulls, mirrors
<1>7. /\ t.dmans = Put(trans[p].dmans, nulls) /\ t.elems = Put(trans[p].elems, mirrors)
      /\ DOMAIN t = {"dmans", "elems"}
  BY DEF Mirroreds, nulls, mirrors
<1>. HIDE DEF t
<1>12. /\ DOMAIN t.dmans = DOMAIN trans[p].dmans \union LabelsIn(nulls)
       /\ \A l \in DOMAIN trans[p].dmans \ LabelsIn(nulls) : t.dmans[l] = trans[p].dmans[l]
       /\ \A l \in LabelsIn(nulls) : t.dmans[l] \in nulls /\ t.dmans[l].label = l
  <2>1. PICK f : f = trans[p].dmans
    OBVIOUS
  <2>2. PICK g : g = t.dmans
    OBVIOUS
  <2>3. g = Put(f, nulls)
    BY <1>7, <2>1, <2>2
  <2>4. DOMAIN g = DOMAIN f \union LabelsIn(nulls) /\ \A l \in DOMAIN f \ LabelsIn(nulls) : g[l] = f[l]
    BY <2>3, PutOld
  <2>5. \A l \in LabelsIn(nulls) : g[l] \in nulls /\ g[l].label = l
    BY <2>3, PutNew
  <2>. QED
    BY <2>1, <2>2, <2>4, <2>5
<1>8. DOMAIN t.dmans = NeededBy(m, B(R \union {q})) \ Own(m, b, p)
  BY <1>2, <1>4, <1>6, <1>12
<1>9. ASSUME NEW l \in DOMAIN t.dmans
      PROVE  /\ t.dmans[l] \in DofMen(m) /\ t.dmans[l].label = l /\ t.dmans[l].mode = "null"
             /\ t.dmans[l].masters = {} /\ m.masters[l] = {}
  <2>1. CASE l \in LabelsIn(nulls)
    <3>1. t.dmans[l] \in nulls /\ t.dmans[l].label = l
      BY <1>12, <2>1
    <3>. QED
      BY <1>4, <3>1
  <2>2. CASE l \notin LabelsIn(nulls)
    <3>1. l \in DOMAIN trans[p].dmans /\ t.dmans[l] = trans[p].dmans[l]
      BY <1>12, <2>2
    <3>. QED
      BY <1>6, <3>1
  <2>. QED
    BY <2>1, <2>2
<1>10. t.elems = el
  <2>1. \A e : MirrorElem(m, b, e).label = e
    BY MirrorIs
  <2>2. LabelsIn(mirrors) = F
    BY <1>5, <2>1 DEF LabelsIn
  <2>3. DOMAIN el = DOMAIN trans[p].elems \union F
    BY <1>1, <1>6
  <2>4. \A r \in mirrors : el[r.label] = r
    BY <1>1, <1>5, <2>1
  <2>5. \A e \in DOMAIN trans[p].elems \ F : el[e] = trans[p].elems[e]
    BY <1>1, <1>6
  <2>6. el = [e \in DOMAIN el |-> el[e]]
    OBVIOUS
  <2>. HIDE DEF el
  <2>7. Takes(el, trans[p].elems, mirrors)
    BY <2>2, <2>3, <2>4, <2>5, <2>6 DEF Takes
  <2>. QED
    BY <1>7, <2>7, PutIs
<1>11. Borrows(t, m, b, p, R \union {q})
  BY <1>7, <1>8, <1>9, <1>10 DEF Borrows, B
<1>. QED
  BY <1>11 DEF t

LEMMA UnpackRemoteLaid ==
  ASSUME NEW m \in Meshes, NEW a \in [Elem -> Proc], NEW b \in [Elem -> Proc], LayoutOf(m, a, b),
         NEW p \in Proc, NEW q \in Proc, UnpackRemoteElements(p, q)
  PROVE  LayoutInv'
PROOF
<1>1. mesh = m /\ plan = b /\ Indexed /\ Laid(p, m, a, b, StateOf(p)) /\ Laid(q, m, a, b, StateOf(q))
  BY DEF LayoutOf
<1>2. /\ p # q /\ pc[p] = "mirroring" /\ pc[q] = "mirroring"
      /\ trans' = [trans EXCEPT ![p] = Mirroreds(p, q)]
      /\ got' = [got EXCEPT ![p] = got[p] \union {q}]
      /\ UNCHANGED <<mesh, dom, plan, newParts, deps, mail, pc>>
  <2>1. trans' = [trans EXCEPT ![p] = Mirroreds(p, q)]
    BY <1>1 DEF UnpackRemoteElements, Indexed, Mirroreds, NewOnes, AsNull, AsMirror
  <2>2. got' = [got EXCEPT ![p] = got[p] \union {q}]
    BY <1>1 DEF UnpackRemoteElements, Indexed
  <2>. QED
    BY <2>1, <2>2 DEF UnpackRemoteElements, MayUnpack
<1>3. /\ Bare(dom[p], m, b, p) /\ got[p] \subseteq Proc /\ Borrows(trans[p], m, b, p, got[p])
      /\ deps[p] = Dependencies(m, a, b, p, Proc)
      /\ \A x \in Proc \ {p} : MirrorMail(mail[p][x], m, b, p, x)
  <2>1. StateOf(p).pc = "mirroring"
    BY <1>2 DEF StateOf
  <2>. QED
    BY <1>1, <2>1, LaidMirroring DEF StateOf
<1>4. MirrorMail(mail[q][p], m, b, q, p)
  <2>1. StateOf(q).pc = "mirroring"
    BY <1>2 DEF StateOf
  <2>2. \A x \in Proc \ {q} : MirrorMail(StateOf(q).mail[x], m, b, q, x)
    BY <1>1, <2>1, LaidMirroring
  <2>. QED
    BY <1>2, <2>2 DEF StateOf
<1>5. Borrows(Mirroreds(p, q), m, b, p, got[p] \union {q})
  BY <1>2, <1>3, <1>4, MirroredsAre
<1>7. PICK t : t = StateOf(p)'
  OBVIOUS
<1>8. /\ t.pc = "mirroring" /\ t.dom = dom[p] /\ t.trans = Mirroreds(p, q) /\ t.got = got[p] \union {q}
      /\ t.mail = mail[p] /\ t.deps = deps[p]
  BY <1>1, <1>2, <1>7 DEF StateOf, Indexed
<1>9. Laid(p, m, a, b, t)
  <2>1. t.pc = "mirroring" /\ Bare(t.dom, m, b, p) /\ Borrows(t.trans, m, b, p, t.got) /\ t.got \subseteq Proc
    BY <1>3, <1>5, <1>8
  <2>2. t.deps = Dependencies(m, a, b, p, Proc)
    BY <1>3, <1>8
  <2>3. \A x \in Proc \ {p} : MirrorMail(t.mail[x], m, b, p, x)
    BY <1>3, <1>8
  <2>. QED
    BY <2>1, <2>2, <2>3, LaidMirroring
<1>10. Indexed' /\ \A x \in Proc \ {p} : StateOf(x)' = StateOf(x)
  BY <1>1, <1>2 DEF Indexed, StateOf
<1>. QED
  BY <1>2, <1>7, <1>9, <1>10, OneLaid

-------------------------------------------------------------------------------
(* The commit of the mirrors *)

LEMMA MirrorTyped ==
  ASSUME NEW m \in Meshes, NEW b \in [Elem -> Proc], NEW e \in Elem, NEW r, r = MirrorElem(m, b, e)
  PROVE  r \in Elements /\ r.label = e /\ r.mode = "remote" /\ r.parts = {b[e]} /\ r.nodes = m.nodes[e]
PROOF
<1>1. PICK s : s = SentElem(m, e)
  OBVIOUS
<1>2. s \in Elements /\ s.label = e /\ s.nodes = m.nodes[e]
  BY <1>1, SentTyped
<1>3. r = [s EXCEPT !.mode = "remote", !.parts = {b[e]}]
  BY <1>1 DEF MirrorElem
<1>4. {b[e]} \in SUBSET Proc
  OBVIOUS
<1>5. DOMAIN r = DOMAIN s /\ r = [k \in DOMAIN r |-> r[k]]
  BY <1>2, <1>3 DEF Elements
<1>6. r.label = e /\ r.mode = "remote" /\ r.parts = {b[e]} /\ r.nodes = m.nodes[e] /\ r.table = s.table
  BY <1>2, <1>3 DEF Elements
<1>7. r = [label |-> r.label, mode |-> r.mode, parts |-> r.parts, nodes |-> r.nodes, table |-> r.table]
  <2>1. DOMAIN r = {"label", "mode", "parts", "nodes", "table"}
    BY <1>2, <1>5 DEF Elements
  <2>. QED
    BY <1>5, <2>1
<1>8. r.nodes \in Seq(Nat) /\ r.table \in SUBSET Elem
  BY <1>2, <1>6 DEF Elements
<1>9. r \in Elements
  BY <1>4, <1>6, <1>7, <1>8 DEF Elements
<1>. QED
  BY <1>6, <1>9

LEMMA BorrowsAll ==
  ASSUME NEW m \in Meshes, NEW b \in [Elem -> Proc], NEW p \in Proc, NEW t, Borrows(t, m, b, p, Proc)
  PROVE  /\ DOMAIN t.dmans = AllDofMen(m, b, p) \ Own(m, b, p) /\ DOMAIN t.elems = Mirrored(m, b, p)
         /\ \A l \in DOMAIN t.dmans :
              /\ t.dmans[l] \in DofMen(m) /\ t.dmans[l].label = l /\ t.dmans[l].mode = "null"
              /\ t.dmans[l].masters = m.masters[l] /\ m.masters[l] = {}
         /\ \A e \in DOMAIN t.elems :
              /\ t.elems[e] \in Elements /\ t.elems[e].label = e /\ t.elems[e].nodes = m.nodes[e]
              /\ t.elems[e].mode = "remote" /\ t.elems[e].parts = {b[e]}
PROOF
<1>1. Mirrored(m, b, p) \subseteq Elem
  BY OwnIs
<1>2. Borrowed(m, b, p, Proc) = Mirrored(m, b, p)
  BY <1>1 DEF Borrowed
<1>3. t.elems = [e \in Mirrored(m, b, p) |-> MirrorElem(m, b, e)]
  BY <1>2 DEF Borrows
<1>4. DOMAIN t.elems = Mirrored(m, b, p) /\ \A e \in DOMAIN t.elems : t.elems[e] = MirrorElem(m, b, e)
  BY <1>3
<1>5. ASSUME NEW e \in DOMAIN t.elems
      PROVE  /\ t.elems[e] \in Elements /\ t.elems[e].label = e /\ t.elems[e].nodes = m.nodes[e]
             /\ t.elems[e].mode = "remote" /\ t.elems[e].parts = {b[e]}
  <2>1. e \in Elem /\ t.elems[e] = MirrorElem(m, b, e)
    BY <1>1, <1>4
  <2>. QED
    BY <2>1, MirrorTyped
<1>6. /\ DOMAIN t.dmans = NeededBy(m, Mirrored(m, b, p)) \ Own(m, b, p)
      /\ \A l \in DOMAIN t.dmans :
           /\ t.dmans[l] \in DofMen(m) /\ t.dmans[l].label = l /\ t.dmans[l].mode = "null"
           /\ t.dmans[l].masters = {} /\ m.masters[l] = {}
  BY <1>2 DEF Borrows
<1>7. NeededBy(m, Mirrored(m, b, p)) \ Own(m, b, p) = AllDofMen(m, b, p) \ Own(m, b, p)
  BY DEF AllDofMen
<1>. QED
  BY <1>4, <1>5, <1>6, <1>7

LEMMA BorrowsFit ==
  ASSUME MastersPrimary, NEW m \in Meshes, NEW b \in [Elem -> Proc], NEW p \in Proc,
         NEW d, Bare(d, m, b, p), NEW t, Borrows(t, m, b, p, Proc)
  PROVE  Fits(d, t, m) /\ DofMenLeft(d, t) = AllDofMen(m, b, p) /\ ElemsLeft(d, t) = AllElems(m, b, p)
PROOF
<1>. DEFINE D == AllDofMen(m, b, p)
            E == AllElems(m, b, p)
<1>1. Labels(d.dmans) = Own(m, b, p) /\ Labels(d.elems) = Of(b, p) /\ Lists(d, m, Labels(d.dmans), Labels(d.elems))
  BY DEF Bare, Lists
<1>2. /\ Own(m, b, p) \subseteq D /\ D \subseteq DOMAIN m.masters /\ E \subseteq Elem
      /\ E = Of(b, p) \union Mirrored(m, b, p) /\ Mirrored(m, b, p) \intersect Of(b, p) = {}
      /\ NeededBy(m, Mirrored(m, b, p)) \subseteq D
  BY OwnIs DEF AllElems, AllDofMen
<1>3. /\ DOMAIN t.dmans = D \ Own(m, b, p) /\ DOMAIN t.elems = Mirrored(m, b, p)
      /\ \A l \in DOMAIN t.dmans :
           /\ t.dmans[l] \in DofMen(m) /\ t.dmans[l].label = l /\ t.dmans[l].mode = "null"
           /\ t.dmans[l].masters = m.masters[l] /\ m.masters[l] = {}
      /\ \A e \in DOMAIN t.elems :
           /\ t.elems[e] \in Elements /\ t.elems[e].label = e /\ t.elems[e].nodes = m.nodes[e]
           /\ t.elems[e].mode = "remote" /\ t.elems[e].parts = {b[e]}
  BY BorrowsAll
<1>. HIDE DEF D, E
<1>4. DofMenLeft(d, t) = D
  BY <1>1, <1>2, <1>3 DEF DofMenLeft, Remaining
<1>5. ElemsLeft(d, t) = E
  BY <1>1, <1>2, <1>3 DEF ElemsLeft, Remaining
<1>6. ASSUME NEW l \in D
      PROVE  IF l \in DOMAIN t.dmans
             THEN /\ t.dmans[l] \in DofMen(m) /\ t.dmans[l].label = l /\ t.dmans[l].masters = m.masters[l]
                  /\ m.masters[l] \subseteq D
             ELSE m.masters[l] \intersect DOMAIN t.dmans = {}
  <2>1. CASE l \in DOMAIN t.dmans
    BY <1>3, <2>1
  <2>2. CASE l \notin DOMAIN t.dmans
    <3>1. l \in Own(m, b, p)
      BY <1>3, <2>2
    <3>2. m.masters[l] \subseteq Own(m, b, p)
      BY <3>1, OwnMasters
    <3>. QED
      BY <1>3, <2>2, <3>2
  <2>. QED
    BY <2>1, <2>2
<1>7. ASSUME NEW e \in E
      PROVE  IF e \in DOMAIN t.elems
             THEN /\ t.elems[e] \in Elements /\ t.elems[e].label = e /\ t.elems[e].nodes = m.nodes[e]
                  /\ NodesIn(m, e) \subseteq D
             ELSE NodesIn(m, e) \intersect DOMAIN t.dmans = {}
  <2>1. CASE e \in DOMAIN t.elems
    <3>1. NodesIn(m, e) \subseteq D
      BY <1>2, <1>3, <2>1 DEF NeededBy, Needed
    <3>. QED
      BY <1>3, <2>1, <3>1
  <2>2. CASE e \notin DOMAIN t.elems
    <3>1. e \in Of(b, p) /\ e \in Elem
      BY <1>2, <1>3, <2>2
    <3>2. NodesIn(m, e) \subseteq Own(m, b, p)
      BY <3>1, OwnIs DEF Of, Needed
    <3>. QED
      BY <1>3, <2>2, <3>2
  <2>. QED
    BY <2>1, <2>2
<1>8. Fits(d, t, m)
  BY <1>1, <1>2, <1>4, <1>5, <1>6, <1>7 DEF Fits
<1>. QED
  BY <1>4, <1>5, <1>8 DEF D, E

LEMMA CommittedMirrors ==
  ASSUME MastersPrimary, NEW m \in Meshes, NEW b \in [Elem -> Proc], NEW p \in Proc,
         NEW d, Bare(d, m, b, p), NEW t, Borrows(t, m, b, p, Proc), NEW c, c = Committed(d, t)
  PROVE  /\ Lists(c, m, AllDofMen(m, b, p), AllElems(m, b, p)) /\ ~Incomplete(c)
         /\ Shares(c, m, b, p, Own(m, b, p)) /\ NullOutside(c, Own(m, b, p)) /\ Owned(c, b, p)
PROOF
<1>1. Lists(c, m, AllDofMen(m, b, p), AllElems(m, b, p)) /\ SameModes(c, d, t) /\ ~Incomplete(c)
  BY BorrowsFit, CommittedIs
<1>2. /\ DOMAIN t.dmans = AllDofMen(m, b, p) \ Own(m, b, p) /\ DOMAIN t.elems = Mirrored(m, b, p)
      /\ \A l \in DOMAIN t.dmans : t.dmans[l].mode = "null"
      /\ \A e \in DOMAIN t.elems : t.elems[e].mode = "remote" /\ t.elems[e].parts = {b[e]}
  BY BorrowsAll
<1>3. /\ Distinct(d.dmans) /\ Distinct(d.elems)
      /\ Labels(d.dmans) = Own(m, b, p) /\ Labels(d.elems) = Of(b, p)
      /\ Shares(d, m, b, p, Own(m, b, p)) /\ Owned(d, b, p)
  BY DEF Bare, Lists
<1>8. AllElems(m, b, p) = Of(b, p) \union Mirrored(m, b, p) /\ Mirrored(m, b, p) \subseteq Elem \ Of(b, p)
  BY OwnIs DEF AllElems
<1>4. ASSUME NEW i \in DOMAIN c.dmans, NEW l, l = c.dmans[i].label
      PROVE  /\ l \in Own(m, b, p) => UsersListed(c.dmans[i], p, Users(m, b, l))
             /\ l \notin Own(m, b, p) => c.dmans[i].mode = "null"
  <2>1. PICK r : r = Placing(d.dmans, t.dmans, l)
    OBVIOUS
  <2>2. c.dmans[i].mode = r.mode /\ c.dmans[i].parts = r.parts
    BY <1>1, <1>4, <2>1 DEF SameModes
  <2>3. CASE l \in Own(m, b, p)
    <3>1. l \notin DOMAIN t.dmans /\ l \in Labels(d.dmans)
      BY <1>2, <1>3, <2>3
    <3>2. PICK j \in DOMAIN d.dmans : d.dmans[j].label = l /\ r = d.dmans[j]
      BY <1>3, <2>1, <3>1, PlacedRecord
    <3>3. UsersListed(r, p, Users(m, b, l))
      BY <1>3, <2>3, <3>2 DEF Shares
    <3>. QED
      BY <2>2, <2>3, <3>3 DEF UsersListed
  <2>4. CASE l \notin Own(m, b, p)
    <3>1. l \in DOMAIN t.dmans
      BY <1>1, <1>2, <1>4, <2>4, ListTyped
    <3>2. r.mode = "null"
      BY <1>2, <2>1, <3>1 DEF Placing
    <3>. QED
      BY <2>2, <2>4, <3>2
  <2>. QED
    BY <2>3, <2>4
<1>5. ASSUME NEW i \in DOMAIN c.elems, NEW e, e = c.elems[i].label
      PROVE  IF b[e] = p THEN c.elems[i].mode = "local" /\ c.elems[i].parts = {}
             ELSE c.elems[i].mode = "remote" /\ c.elems[i].parts = {b[e]}
  <2>1. PICK r : r = Placing(d.elems, t.elems, e)
    OBVIOUS
  <2>2. c.elems[i].mode = r.mode /\ c.elems[i].parts = r.parts
    BY <1>1, <1>5, <2>1 DEF SameModes
  <2>3. e \in AllElems(m, b, p)
    BY <1>1, <1>5, ListTyped
  <2>4. CASE e \in Of(b, p)
    <3>1. e \notin DOMAIN t.elems /\ e \in Labels(d.elems)
      BY <1>2, <1>3, <1>8, <2>4
    <3>2. PICK j \in DOMAIN d.elems : d.elems[j].label = e /\ r = d.elems[j]
      BY <1>3, <2>1, <3>1, PlacedRecord
    <3>3. r.mode = "local" /\ r.parts = {} /\ b[e] = p
      BY <1>3, <2>4, <3>2 DEF Owned, Of
    <3>. QED
      BY <2>2, <3>3
  <2>5. CASE e \in Mirrored(m, b, p)
    <3>1. r.mode = "remote" /\ r.parts = {b[e]}
      BY <1>2, <2>1, <2>5 DEF Placing
    <3>2. b[e] # p
      BY <1>8, <2>5 DEF Of
    <3>. QED
      BY <2>2, <3>1, <3>2
  <2>. QED
    BY <1>8, <2>3, <2>4, <2>5
<1>6. Shares(c, m, b, p, Own(m, b, p)) /\ NullOutside(c, Own(m, b, p))
  BY <1>4 DEF Shares, NullOutside
<1>7. Owned(c, b, p)
  BY <1>5 DEF Owned
<1>. QED
  BY <1>1, <1>6, <1>7

\* Tables do not matter to a list.
LEMMA RelistedElems ==
  ASSUME NEW m \in Meshes, NEW D, NEW E, NEW d, Lists(d, m, D, E), NEW list \in Seq(Elements),
         DOMAIN list = DOMAIN d.elems,
         \A i \in DOMAIN list : list[i].label = d.elems[i].label /\ list[i].nodes = d.elems[i].nodes,
         NEW c, c = [d EXCEPT !.elems = list]
  PROVE  Lists(c, m, D, E) /\ c.elems = list /\ c.dmans = d.dmans
PROOF
<1>1. /\ d = [dmans |-> d.dmans, elems |-> d.elems] /\ d.dmans \in Seq(DofMen(m))
  BY ListTyped
<1>2. c = [dmans |-> d.dmans, elems |-> list] /\ c.elems = list /\ c.dmans = d.dmans
  BY <1>1
<1>3. c \in Domains(m)
  BY <1>1, <1>2 DEF Domains
<1>4. Distinct(c.dmans) /\ Distinct(c.elems)
  BY <1>2 DEF Lists, Distinct
<1>5. Labels(c.dmans) = D /\ Labels(c.elems) = E
  BY <1>2 DEF Lists, Labels
<1>6. ASSUME NEW i \in DOMAIN c.dmans
      PROVE  MastersLinked(c, m, i)
  <2>1. MastersLinked(d, m, i)
    BY <1>2 DEF Lists, Linked
  <2>. QED
    BY <1>2, <2>1 DEF MastersLinked
<1>7. ASSUME NEW i \in DOMAIN c.elems
      PROVE  NodesLinked(c, m, i)
  <2>1. NodesLinked(d, m, i)
    BY <1>2 DEF Lists, Linked
  <2>. QED
    BY <1>2, <2>1 DEF NodesLinked
<1>. QED
  BY <1>2, <1>3, <1>4, <1>5, <1>6, <1>7 DEF Lists, Linked

\* The list of elements with the nonlocal tables filled in.
Rebuilt(f, e) == IF e.mode = "local" THEN [e EXCEPT !.table = f[e.label]] ELSE e
Tabled(f, d) == [d EXCEPT !.elems = [i \in DOMAIN d.elems |-> Rebuilt(f, d.elems[i])]]

LEMMA TabledIs ==
  ASSUME NEW m \in Meshes, NEW b \in [Elem -> Proc], NEW p \in Proc, NEW d,
         Lists(d, m, AllDofMen(m, b, p), AllElems(m, b, p)),
         Shares(d, m, b, p, Own(m, b, p)), NullOutside(d, Own(m, b, p)), Owned(d, b, p),
         NEW f, \A e \in Of(b, p) : f[e] = m.near[e]
  PROVE  Complete(Tabled(f, d), m, b, p)
PROOF
<1>. DEFINE list == [i \in DOMAIN d.elems |-> Rebuilt(f, d.elems[i])]
            D == AllDofMen(m, b, p)
            E == AllElems(m, b, p)
            c == Tabled(f, d)
<1>1. \A i \in DOMAIN d.elems : d.elems[i] \in Elements /\ d.elems[i].label \in Elem
  BY ListTyped DEF Elements
<1>2. ASSUME NEW i \in DOMAIN d.elems
      PROVE  /\ list[i] \in Elements /\ list[i].label = d.elems[i].label /\ list[i].nodes = d.elems[i].nodes
             /\ list[i].mode = d.elems[i].mode /\ list[i].parts = d.elems[i].parts
             /\ list[i].mode = "local" => list[i].table = m.near[list[i].label]
  <2>1. PICK e : e = d.elems[i]
    OBVIOUS
  <2>2. e \in Elements /\ e.label \in Elem
    BY <1>1, <2>1
  <2>3. list[i] = Rebuilt(f, e)
    BY <2>1
  <2>. HIDE DEF list
  <2>4. CASE e.mode = "local"
    <3>1. e.label \in Of(b, p)
      BY <2>1, <2>2, <2>4 DEF Owned, Of
    <3>2. m.near[e.label] \in SUBSET Elem
      BY <2>2, MeshIs DEF MeshTyped
    <3>3. list[i] = [e EXCEPT !.table = m.near[e.label]]
      BY <2>3, <2>4, <3>1 DEF Rebuilt
    <3>4. list[i] \in Elements /\ list[i].label = e.label /\ list[i].nodes = e.nodes /\ list[i].mode = e.mode
          /\ list[i].parts = e.parts /\ list[i].table = m.near[e.label]
      BY <2>2, <3>2, <3>3 DEF Elements
    <3>. QED
      BY <2>1, <3>4
  <2>5. CASE e.mode # "local"
    <3>1. list[i] = e
      BY <2>3, <2>5 DEF Rebuilt
    <3>. QED
      BY <2>1, <2>2, <2>5, <3>1
  <2>. QED
    BY <2>4, <2>5
<1>3. DOMAIN list = DOMAIN d.elems
  OBVIOUS
<1>4. list \in Seq(Elements)
  <2>1. d.elems \in Seq(Elements)
    BY ListTyped
  <2>2. PICK n \in Nat : DOMAIN d.elems = 1 .. n
    BY <2>1
  <2>3. list \in [1 .. n -> Elements]
    BY <1>2, <2>2
  <2>. HIDE DEF list
  <2>. QED
    BY <2>3
<1>5. c = [d EXCEPT !.elems = list]
  BY DEF Tabled
<1>. HIDE DEF list, c
<1>6. Lists(c, m, D, E) /\ c.elems = list /\ c.dmans = d.dmans
  BY <1>2, <1>3, <1>4, <1>5, RelistedElems
<1>7. Shares(c, m, b, p, Own(m, b, p)) /\ NullOutside(c, Own(m, b, p))
  BY <1>6 DEF Shares, NullOutside
<1>8. Owned(c, b, p)
  BY <1>2, <1>3, <1>6 DEF Owned
<1>9. Averages(c, m)
  BY <1>2, <1>3, <1>6 DEF Averages
<1>. QED
  BY <1>6, <1>7, <1>8, <1>9 DEF Complete, c

LEMMA CommitRemoteLaid ==
  ASSUME MastersPrimary, NEW m \in Meshes, NEW a \in [Elem -> Proc], NEW b \in [Elem -> Proc], LayoutOf(m, a, b),
         NEW p \in Proc, CommitRemoteElements(p)
  PROVE  LayoutInv'
PROOF
<1>1. mesh = m /\ plan = b /\ Indexed /\ Laid(p, m, a, b, StateOf(p))
  BY DEF LayoutOf
<1>2. PICK c : c = Committed(dom[p], trans[p])
  OBVIOUS
<1>. DEFINE missing == \E l \in OwnLabels(p) : ~deps[p][l] \subseteq Labels(c.elems)
<1>3. /\ pc[p] = "commitMirrors"
      /\ dom' = [dom EXCEPT ![p] = Tabled(deps[p], c)]
      /\ pc' = [pc EXCEPT ![p] = IF Incomplete(c) \/ missing THEN "aborted" ELSE "maps"]
      /\ trans' = [trans EXCEPT ![p] = NoTransactions]
      /\ deps' = [deps EXCEPT ![p] = Empty]
      /\ UNCHANGED <<mesh, plan, newParts, mail, got>>
  BY <1>2 DEF CommitRemoteElements, Goto, Tabled, Rebuilt
<1>4. /\ Bare(dom[p], m, b, p) /\ got[p] = {} /\ Borrows(trans[p], m, b, p, Proc)
      /\ deps[p] = Dependencies(m, a, b, p, Proc)
  <2>1. StateOf(p).pc = "commitMirrors"
    BY <1>3 DEF StateOf
  <2>. QED
    BY <1>1, <2>1, LaidCommitMirrors DEF StateOf
<1>5. /\ Lists(c, m, AllDofMen(m, b, p), AllElems(m, b, p)) /\ ~Incomplete(c)
      /\ Shares(c, m, b, p, Own(m, b, p)) /\ NullOutside(c, Own(m, b, p)) /\ Owned(c, b, p)
  BY <1>2, <1>4, CommittedMirrors
<1>6. OwnLabels(p) = Of(b, p) /\ \A e \in Of(b, p) : deps[p][e] = m.near[e]
  BY <1>4, BareIs, WishesAre
<1>7. ~missing
  <2>1. Labels(c.elems) = Of(b, p) \union Mirrored(m, b, p)
    BY <1>5 DEF Lists, AllElems
  <2>2. \A e \in Of(b, p) : m.near[e] \subseteq Of(b, p) \union Mirrored(m, b, p)
    BY DEF Mirrored, Around
  <2>. QED
    BY <1>6, <2>1, <2>2
<1>8. Complete(Tabled(deps[p], c), m, b, p)
  BY <1>5, <1>6, TabledIs
<1>9. pc' = [pc EXCEPT ![p] = "maps"]
  BY <1>3, <1>5, <1>7
<1>. HIDE DEF missing
<1>10. PICK t : t = StateOf(p)'
  OBVIOUS
<1>11. t.pc = "maps" /\ t.dom = Tabled(deps[p], c) /\ t.trans = NoTransactions /\ t.got = {}
  BY <1>1, <1>3, <1>4, <1>9, <1>10 DEF StateOf, Indexed
<1>12. Laid(p, m, a, b, t)
  <2>1. t.pc \in {"maps", "solve"} /\ Complete(t.dom, m, b, p) /\ t.trans = NoTransactions /\ t.got = {}
    BY <1>8, <1>11
  <2>. QED
    BY <2>1, LaidQuiet
<1>13. Indexed' /\ \A x \in Proc \ {p} : StateOf(x)' = StateOf(x)
  BY <1>1, <1>3, <1>9 DEF Indexed, StateOf
<1>. QED
  BY <1>3, <1>10, <1>12, <1>13, OneLaid

-------------------------------------------------------------------------------
(* Steps of all processes together *)

\* When p has the messages of all others it has what everybody brings.
LEMMA AllReceived ==
  ASSUME NEW m \in Meshes, NEW a \in [Elem -> Proc], NEW b \in [Elem -> Proc], NEW p \in Proc,
         NEW R, R = Proc \ {p}
  PROVE  /\ \A np, d : NewParts(np, d, m, a, b, p, R) => NewParts(np, d, m, a, b, p, Proc)
         /\ Dependencies(m, a, b, p, R) = Dependencies(m, a, b, p, Proc)
         /\ \A t : Moves(t, m, a, b, p, R) => Moves(t, m, a, b, p, Proc)
         /\ \A t : Borrows(t, m, b, p, R) => Borrows(t, m, b, p, Proc)
PROOF
<1>1. {p} \union R = {p} \union Proc /\ R \ {p} = Proc \ {p}
  OBVIOUS
<1>2. \A np, d : NewParts(np, d, m, a, b, p, R) => NewParts(np, d, m, a, b, p, Proc)
  BY <1>1 DEF NewParts
<1>3. Of(a, p) \union {f \in Of(b, p) : a[f] \in R} = Of(a, p) \union {f \in Of(b, p) : a[f] \in Proc}
  BY DEF Of
<1>4. Dependencies(m, a, b, p, R) = Dependencies(m, a, b, p, Proc)
  BY <1>3 DEF Dependencies
<1>5. ArrivingDofMen(m, a, b, p, R) = ArrivingDofMen(m, a, b, p, Proc)
  BY <1>1 DEF ArrivingDofMen
<1>6. ArrivingElems(a, b, p, R) = ArrivingElems(a, b, p, Proc)
  BY DEF ArrivingElems, Of
<1>7. \A t : Moves(t, m, a, b, p, R) => Moves(t, m, a, b, p, Proc)
  BY <1>5, <1>6 DEF Moves
<1>8. Borrowed(m, b, p, R) = Borrowed(m, b, p, Proc)
  <2>1. Mirrored(m, b, p) \subseteq Elem \ Of(b, p)
    BY OwnIs
  <2>. QED
    BY <2>1 DEF Borrowed, Of
<1>9. \A t : Borrows(t, m, b, p, R) => Borrows(t, m, b, p, Proc)
  BY <1>8 DEF Borrows
<1>. QED
  BY <1>2, <1>4, <1>7, <1>9

LEMMA SetUpMapsLaid ==
  ASSUME NEW m \in Meshes, NEW a \in [Elem -> Proc], NEW b \in [Elem -> Proc], LayoutOf(m, a, b), SetUpMaps
  PROVE  LayoutInv'
PROOF
<1>1. mesh = m /\ plan = b /\ Indexed /\ \A p \in Proc : Laid(p, m, a, b, StateOf(p))
  BY DEF LayoutOf
<1>2. /\ \A p \in Proc : pc[p] = "maps"
      /\ pc' = [p \in Proc |-> "solve"]
      /\ UNCHANGED <<mesh, dom, plan, newParts, deps, trans, mail, got>>
  BY DEF SetUpMaps, AllAt, AllGoto
<1>3. ASSUME NEW p \in Proc
      PROVE  Laid(p, m, a, b, StateOf(p)')
  <2>1. PICK s : s = StateOf(p)
    OBVIOUS
  <2>2. s.pc \in {"maps", "solve"} /\ s.dom = dom[p] /\ s.trans = trans[p] /\ s.got = got[p]
    BY <1>2, <2>1 DEF StateOf
  <2>3. Complete(s.dom, m, b, p) /\ s.trans = NoTransactions /\ s.got = {}
    BY <1>1, <2>1, <2>2, LaidQuiet
  <2>4. PICK t : t = StateOf(p)'
    OBVIOUS
  <2>5. t.pc \in {"maps", "solve"} /\ t.dom = s.dom /\ t.trans = s.trans /\ t.got = s.got
    BY <1>2, <2>2, <2>4 DEF StateOf
  <2>6. t.pc \in {"maps", "solve"} /\ Complete(t.dom, m, b, p) /\ t.trans = NoTransactions /\ t.got = {}
    BY <2>3, <2>5
  <2>. QED
    BY <2>4, <2>6, LaidQuiet
<1>4. Indexed'
  BY <1>1, <1>2 DEF Indexed
<1>. QED
  BY <1>1, <1>2, <1>3, <1>4, AllLaid

\* What was the new partitioning is the old one of the next migration.
LEMMA CalculateLaid ==
  ASSUME NEW m \in Meshes, NEW a \in [Elem -> Proc], NEW b \in [Elem -> Proc], LayoutOf(m, a, b),
         CalculateLoadTransfer
  PROVE  LayoutInv'
PROOF
<1>1. mesh = m /\ plan = b /\ Indexed /\ \A p \in Proc : Laid(p, m, a, b, StateOf(p))
  BY DEF LayoutOf
<1>2. /\ \A p \in Proc : pc[p] = "solve"
      /\ plan' \in Plans
      /\ pc' = [p \in Proc |-> "label"]
      /\ UNCHANGED <<mesh, dom, newParts, deps, trans, mail, got>>
  BY DEF CalculateLoadTransfer, AllAt, AllGoto
<1>3. PICK w : w = plan'
  OBVIOUS
<1>7. w \in [Elem -> Proc]
  BY <1>2, <1>3, MeshAssumption
<1>4. ASSUME NEW p \in Proc
      PROVE  Laid(p, m, b, w, StateOf(p)')
  <2>1. PICK s : s = StateOf(p)
    OBVIOUS
  <2>2. s.pc \in {"maps", "solve"} /\ s.dom = dom[p] /\ s.trans = trans[p] /\ s.got = got[p]
    BY <1>2, <2>1 DEF StateOf
  <2>3. Complete(s.dom, m, b, p) /\ s.trans = NoTransactions /\ s.got = {}
    BY <1>1, <2>1, <2>2, LaidQuiet
  <2>4. PICK t : t = StateOf(p)'
    OBVIOUS
  <2>5. t.pc = "label" /\ t.dom = s.dom /\ t.trans = s.trans /\ t.got = s.got
    BY <1>2, <2>2, <2>4 DEF StateOf
  <2>6. t.pc = "label" /\ Complete(t.dom, m, b, p) /\ t.trans = NoTransactions /\ t.got = {}
    BY <2>3, <2>5
  <2>. QED
    BY <2>4, <2>6, LaidLabel
<1>5. Indexed'
  BY <1>1, <1>2 DEF Indexed
<1>6. mesh' = m /\ plan' = w
  BY <1>1, <1>2, <1>3
<1>. QED
  BY <1>4, <1>5, <1>6, <1>7, AllLaid

LEMMA FinishLaid ==
  ASSUME NEW m \in Meshes, NEW a \in [Elem -> Proc], NEW b \in [Elem -> Proc], LayoutOf(m, a, b), FinishExchange
  PROVE  LayoutInv'
PROOF
<1>1. mesh = m /\ plan = b /\ Indexed /\ \A p \in Proc : Laid(p, m, a, b, StateOf(p))
  BY DEF LayoutOf
<1>2. PICK l \in {"shared", "depends", "migrating", "mirroring"} :
        /\ \A p \in Proc : pc[p] = l /\ got[p] = Proc \ {p}
        /\ pc' = [p \in Proc |-> After[l]]
        /\ got' = [p \in Proc |-> {}]
        /\ mail' = NoMail
        /\ UNCHANGED <<mesh, dom, plan, newParts, deps, trans>>
  BY DEF FinishExchange, AllAt, AllGoto, After
<1>3. ASSUME NEW p \in Proc
      PROVE  Laid(p, m, a, b, StateOf(p)')
  <2>1. PICK s : s = StateOf(p)
    OBVIOUS
  <2>2. PICK t : t = StateOf(p)'
    OBVIOUS
  <2>3. s.pc = l /\ s.got = Proc \ {p} /\ Laid(p, m, a, b, s)
    BY <1>1, <1>2, <2>1 DEF StateOf
  <2>4. t.pc = After[l] /\ t.got = {} /\ t.dom = s.dom /\ t.new = s.new /\ t.deps = s.deps /\ t.trans = s.trans
    BY <1>2, <2>1, <2>2 DEF StateOf
  <2>5. /\ NewParts(s.new, s.dom, m, a, b, p, s.got) => NewParts(s.new, s.dom, m, a, b, p, Proc)
        /\ Dependencies(m, a, b, p, s.got) = Dependencies(m, a, b, p, Proc)
        /\ Moves(s.trans, m, a, b, p, s.got) => Moves(s.trans, m, a, b, p, Proc)
        /\ Borrows(s.trans, m, b, p, s.got) => Borrows(s.trans, m, b, p, Proc)
    BY <2>3, AllReceived
  <2>6. CASE l = "shared"
    <3>1. /\ Complete(s.dom, m, a, p) /\ s.trans = NoTransactions
          /\ NewParts(s.new, s.dom, m, a, b, p, s.got)
      BY <2>3, <2>6, LaidShared
    <3>2. t.pc = "depend"
      BY <2>4, <2>6 DEF After
    <3>3. /\ Complete(t.dom, m, a, p) /\ t.trans = NoTransactions /\ t.got = {}
          /\ NewParts(t.new, t.dom, m, a, b, p, Proc)
      BY <2>4, <2>5, <3>1
    <3>. QED
      BY <2>2, <3>2, <3>3, LaidDepend
  <2>7. CASE l = "depends"
    <3>4. s.pc = "depends" /\ Laid(p, m, a, b, s)
      BY <2>3, <2>7
    <3>1. /\ Complete(s.dom, m, a, p) /\ s.trans = NoTransactions
          /\ NewParts(s.new, s.dom, m, a, b, p, Proc) /\ s.deps = Dependencies(m, a, b, p, s.got)
      BY <3>4, LaidDepends
    <3>2. t.pc = "migrate"
      BY <2>4, <2>7 DEF After
    <3>3. /\ Complete(t.dom, m, a, p) /\ t.trans = NoTransactions /\ t.got = {}
          /\ NewParts(t.new, t.dom, m, a, b, p, Proc) /\ t.deps = Dependencies(m, a, b, p, Proc)
      BY <2>4, <2>5, <3>1
    <3>. QED
      BY <2>2, <3>2, <3>3, LaidMigrate
  <2>8. CASE l = "migrating"
    <3>1. /\ Packed(s.dom, m, a, b, p) /\ DOMAIN s.trans = {"dmans", "elems"} /\ s.deps = Dependencies(m, a, b, p, Proc)
          /\ Moves(s.trans, m, a, b, p, s.got)
      BY <2>3, <2>8, LaidMigrating
    <3>2. t.pc = "commit"
      BY <2>4, <2>8 DEF After
    <3>3. /\ Packed(t.dom, m, a, b, p) /\ DOMAIN t.trans = {"dmans", "elems"} /\ t.got = {}
          /\ Moves(t.trans, m, a, b, p, Proc) /\ t.deps = Dependencies(m, a, b, p, Proc)
      BY <2>4, <2>5, <3>1
    <3>. QED
      BY <2>2, <3>2, <3>3, LaidCommit
  <2>9. CASE l = "mirroring"
    <3>1. /\ Bare(s.dom, m, b, p) /\ s.deps = Dependencies(m, a, b, p, Proc)
          /\ Borrows(s.trans, m, b, p, s.got)
      BY <2>3, <2>9, LaidMirroring
    <3>2. t.pc = "commitMirrors"
      BY <2>4, <2>9 DEF After
    <3>3. /\ Bare(t.dom, m, b, p) /\ t.got = {} /\ Borrows(t.trans, m, b, p, Proc)
          /\ t.deps = Dependencies(m, a, b, p, Proc)
      BY <2>4, <2>5, <3>1
    <3>. QED
      BY <2>2, <3>2, <3>3, LaidCommitMirrors
  <2>. QED
    BY <2>6, <2>7, <2>8, <2>9
<1>4. Indexed'
  <2>1. DOMAIN NoMail = Proc
    BY DEF NoMail
  <2>. QED
    BY <1>1, <1>2, <2>1 DEF Indexed
<1>. QED
  BY <1>1, <1>2, <1>3, <1>4, AllLaid

LEMMA StutterLaid ==
  ASSUME NEW m \in Meshes, NEW a \in [Elem -> Proc], NEW b \in [Elem -> Proc], LayoutOf(m, a, b),
         UNCHANGED <<mesh, dom, plan, newParts, deps, trans, mail, got, pc>>
  PROVE  LayoutInv'
PROOF
<1>1. Indexed' /\ \A p \in Proc : StateOf(p)' = StateOf(p)
  BY DEF LayoutOf, Indexed, StateOf
<1>2. \A p \in Proc : Laid(p, m, a, b, StateOf(p)')
  BY <1>1 DEF LayoutOf
<1>. QED
  BY <1>1, <1>2, AllLaid DEF LayoutOf

LEMMA LayoutStep == MastersPrimary /\ MirrorsPrimary /\ LayoutInv /\ [Next]_vars => LayoutInv'
PROOF
<1>. SUFFICES ASSUME MastersPrimary, MirrorsPrimary, LayoutInv, [Next]_vars
              PROVE  LayoutInv'
  OBVIOUS
<1>1. PICK m \in Meshes, a \in [Elem -> Proc], b \in [Elem -> Proc] : LayoutOf(m, a, b)
  BY DEF LayoutInv
<1>2. CASE SetUpMaps
  BY <1>1, <1>2, SetUpMapsLaid
<1>3. CASE CalculateLoadTransfer
  BY <1>1, <1>3, CalculateLaid
<1>4. CASE FinishExchange
  BY <1>1, <1>4, FinishLaid
<1>5. CASE PackRemoteElements
  BY <1>1, <1>5, PackRemoteLaid
<1>6. ASSUME NEW p \in Proc, LocalStep(p)
      PROVE  LayoutInv'
  <2>1. CASE PackSharedPartitions(p)
    BY <1>1, <2>1, PackSharedLaid
  <2>2. CASE PackDependencies(p)
    BY <1>1, <2>2, PackDependenciesLaid
  <2>3. CASE PackMigrating(p)
    BY <1>1, <2>3, PackMigratingLaid
  <2>4. CASE Commit(p)
    BY <1>1, <2>4, CommitLaid
  <2>5. CASE CommitRemoteElements(p)
    BY <1>1, <2>5, CommitRemoteLaid
  <2>6. ASSUME NEW q \in Proc, UnpackSharedPartitions(p, q)
        PROVE  LayoutInv'
    BY <1>1, <2>6, UnpackSharedLaid
  <2>7. ASSUME NEW q \in Proc, UnpackDependencies(p, q)
        PROVE  LayoutInv'
    BY <1>1, <2>7, UnpackDependenciesLaid
  <2>8. ASSUME NEW q \in Proc, UnpackMigrating(p, q)
        PROVE  LayoutInv'
    BY <1>1, <2>8, UnpackMigratingLaid
  <2>9. ASSUME NEW q \in Proc, UnpackRemoteElements(p, q)
        PROVE  LayoutInv'
    BY <1>1, <2>9, UnpackRemoteLaid
  <2>. QED
    BY <1>6, <2>1, <2>2, <2>3, <2>4, <2>5, <2>6, <2>7, <2>8, <2>9 DEF LocalStep
<1>7. CASE UNCHANGED vars
  <2>1. UNCHANGED <<mesh, dom, plan, newParts, deps, trans, mail, got, pc>>
    BY <1>7 DEF vars
  <2>. QED
    BY <1>1, <2>1, StutterLaid
<1>. QED
  BY <1>2, <1>3, <1>4, <1>5, <1>6, <1>7 DEF Next

-------------------------------------------------------------------------------
(* The lists the analysis starts from *)

Listed(p, S) ==
  LET a == Ascending(S)
  IN IF p % 2 = 0 THEN a ELSE [i \in DOMAIN a |-> a[Len(a) + 1 - i]]
Place(order, l) == CHOOSE i \in DOMAIN order : order[i] = l

OthersWith(p, w, l) == {q \in Proc \ {p} : l \in Needs(Of(w, q))}
StartDofMan(p, w, order, l) ==
  [label |-> l,
   mode |-> IF l \notin Needs(Of(w, p)) THEN "null" ELSE IF OthersWith(p, w, l) = {} THEN "local" ELSE "shared",
   parts |-> IF l \in Needs(Of(w, p)) THEN OthersWith(p, w, l) ELSE {},
   masters |-> {Place(order, x) : x \in mesh.masters[l]}]
StartElem(p, w, order, e) ==
  [label |-> e,
   mode |-> IF w[e] = p THEN "local" ELSE "remote",
   parts |-> IF w[e] = p THEN {} ELSE {w[e]},
   nodes |-> [k \in DOMAIN mesh.nodes[e] |-> Place(order, mesh.nodes[e][k])],
   table |-> IF w[e] = p THEN mesh.near[e] ELSE {}]

StartDomain(p, w, order, eOrder) ==
  [dmans |-> [i \in DOMAIN order |-> StartDofMan(p, w, order, order[i])],
   elems |-> [i \in DOMAIN eOrder |-> StartElem(p, w, order, eOrder[i])]]

LEMMA StartAs ==
  ASSUME NEW p \in Proc, NEW w, NEW d, d = InitialDomain(p, w),
         NEW order, order = Listed(p, Needs(Of(w, p)) \union Needs(Mirrors(Of(w, p)))),
         NEW eOrder, eOrder = Listed(p, Of(w, p) \union Mirrors(Of(w, p)))
  PROVE  d = StartDomain(p, w, order, eOrder)
PROOF
<1>1. InitialDomain(p, w) = StartDomain(p, w, Listed(p, Needs(Of(w, p)) \union Needs(Mirrors(Of(w, p)))),
                                        Listed(p, Of(w, p) \union Mirrors(Of(w, p))))
  BY DEF InitialDomain, StartDomain, Of, Listed, Place, OthersWith, StartDofMan, StartElem
<1>. QED
  BY <1>1, Zenon

LEMMA ListedIs ==
  ASSUME NEW p \in Proc, NEW S \in SUBSET Nat, IsFiniteSet(S), NEW a, a = Listed(p, S)
  PROVE  /\ Cardinality(S) \in Nat /\ DOMAIN a = 1 .. Cardinality(S) /\ \A i \in DOMAIN a : a[i] \in S
         /\ \A i \in DOMAIN a : Place(a, a[i]) = i
         /\ \A l \in S : Place(a, l) \in DOMAIN a /\ a[Place(a, l)] = l
PROOF
<1>. DEFINE n == Cardinality(S)
            c == Ascending(S)
<1>1. /\ n \in Nat /\ DOMAIN c = 1 .. n /\ c \in [1 .. n -> S]
      /\ \A i \in 1 .. n : c[i] \in S /\ Rank(S, c[i]) = i
      /\ \A l \in S : Rank(S, l) \in 1 .. n /\ c[Rank(S, l)] = l
  BY AscendingIs
<1>. HIDE DEF n
<1>2. a = IF p % 2 = 0 THEN c ELSE [i \in DOMAIN c |-> c[Len(c) + 1 - i]]
  BY DEF Listed
<1>. HIDE DEF c
<1>3. Len(c) = n
  BY <1>1
<1>4. /\ DOMAIN a = 1 .. n /\ \A i \in 1 .. n : a[i] \in S
      /\ \A i \in 1 .. n : \A k \in 1 .. n : a[i] = a[k] => i = k
      /\ \A l \in S : \E i \in 1 .. n : a[i] = l
  <2>1. CASE p % 2 = 0
    <3>1. a = c
      BY <1>2, <2>1
    <3>2. \A i \in 1 .. n : \A k \in 1 .. n : c[i] = c[k] => i = k
      BY <1>1
    <3>. QED
      BY <1>1, <3>1, <3>2
  <2>2. CASE p % 2 # 0
    <3>1. a = [i \in 1 .. n |-> c[n + 1 - i]]
      BY <1>1, <1>2, <1>3, <2>2
    <3>2. \A i \in 1 .. n : n + 1 - i \in 1 .. n /\ n + 1 - (n + 1 - i) = i
      BY <1>1
    <3>3. ASSUME NEW i \in 1 .. n, NEW k \in 1 .. n, a[i] = a[k]
          PROVE  i = k
      <4>1. c[n + 1 - i] = c[n + 1 - k] /\ n + 1 - i \in 1 .. n /\ n + 1 - k \in 1 .. n
        BY <3>1, <3>2, <3>3
      <4>2. n + 1 - i = n + 1 - k
        BY <1>1, <4>1
      <4>. QED
        BY <1>1, <4>2
    <3>4. ASSUME NEW l \in S
          PROVE  \E i \in 1 .. n : a[i] = l
      <4>1. PICK k \in 1 .. n : c[k] = l
        BY <1>1
      <4>2. n + 1 - k \in 1 .. n /\ a[n + 1 - k] = c[k]
        BY <3>1, <3>2
      <4>. QED
        BY <4>1, <4>2
    <3>5. \A i \in 1 .. n : a[i] \in S
      BY <1>1, <3>1, <3>2
    <3>6. DOMAIN a = 1 .. n
      BY <3>1
    <3>. QED
      BY <3>3, <3>4, <3>5, <3>6
  <2>. QED
    BY <2>1, <2>2
<1>5. \A i \in 1 .. n : Place(a, a[i]) = i
  BY <1>4 DEF Place
<1>6. ASSUME NEW l \in S
      PROVE  Place(a, l) \in 1 .. n /\ a[Place(a, l)] = l
  <2>1. PICK i \in 1 .. n : a[i] = l
    BY <1>4
  <2>. QED
    BY <1>5, <2>1
<1>. QED
  BY <1>1, <1>4, <1>5, <1>6 DEF n

LEMMA StartDofManIs ==
  ASSUME MastersPrimary, NEW m \in Meshes, mesh = m, NEW w \in [Elem -> Proc], NEW p \in Proc,
         NEW order, NEW n \in Nat, DOMAIN order = 1 .. n,
         \A l \in AllDofMen(m, w, p) : Place(order, l) \in 1 .. n,
         NEW l \in AllDofMen(m, w, p), m.masters[l] \subseteq AllDofMen(m, w, p),
         NEW r, r = StartDofMan(p, w, order, l)
  PROVE  /\ r \in DofMen(m) /\ r.label = l /\ r.masters = {Place(order, x) : x \in m.masters[l]}
         /\ l \in Own(m, w, p) => UsersListed(r, p, Users(m, w, l))
         /\ l \notin Own(m, w, p) => r.mode = "null"
PROOF
<1>1. \A q \in Proc : Needs(Of(w, q)) = Own(m, w, q)
  <2>. SUFFICES ASSUME NEW q \in Proc
                PROVE  Needs(Of(w, q)) = Own(m, w, q)
    OBVIOUS
  <2>1. Of(w, q) \in SUBSET Elem
    BY DEF Of
  <2>. QED
    BY <2>1, NeedsAre DEF Own
<1>2. PICK U : U = Users(m, w, l)
  OBVIOUS
<1>3. U \subseteq Proc /\ \A q \in Proc : q \in U <=> l \in Own(m, w, q)
  BY <1>2, UsersAre
<1>4. OthersWith(p, w, l) = U \ {p}
  BY <1>1, <1>3 DEF OthersWith
<1>5. PICK M : M = {Place(order, x) : x \in m.masters[l]}
  OBVIOUS
<1>6. M \subseteq Nat
  BY <1>5
<1>7. r = [label |-> l, mode |-> IF p \notin U THEN "null" ELSE IF U \ {p} = {} THEN "local" ELSE "shared",
           parts |-> IF p \in U THEN U \ {p} ELSE {}, masters |-> M]
  <2>1. l \in Needs(Of(w, p)) <=> p \in U
    BY <1>1, <1>3
  <2>. QED
    BY <1>4, <1>5, <2>1 DEF StartDofMan
<1>8. l \in DOMAIN m.masters
  BY OwnIs
<1>9. r.label = l /\ r.masters = M /\ r.mode = (IF p \notin U THEN "null" ELSE IF U \ {p} = {} THEN "local" ELSE "shared")
      /\ r.parts = IF p \in U THEN U \ {p} ELSE {}
  BY <1>7
<1>10. r \in DofMen(m)
  <2>1. r.mode \in {"local", "shared", "null"} /\ r.parts \in SUBSET Proc
    BY <1>3, <1>9
  <2>2. r = [label |-> r.label, mode |-> r.mode, parts |-> r.parts, masters |-> r.masters]
    BY <1>7
  <2>. QED
    BY <1>6, <1>8, <1>9, <2>1, <2>2 DEF DofMen
<1>11. p \in U => UsersListed(r, p, U)
  <2>1. p \in U => (U \ {p} = {} <=> U = {p})
    OBVIOUS
  <2>. QED
    BY <1>9, <2>1 DEF UsersListed, SharedMode
<1>. QED
  BY <1>2, <1>3, <1>5, <1>9, <1>10, <1>11

StartsAs(m, w, p, order, e, r) ==
  /\ r \in Elements /\ r.label = e /\ DOMAIN r.nodes = DOMAIN m.nodes[e]
  /\ \A k \in DOMAIN r.nodes : r.nodes[k] = Place(order, m.nodes[e][k])
  /\ IF w[e] = p THEN r.mode = "local" /\ r.parts = {} ELSE r.mode = "remote" /\ r.parts = {w[e]}
  /\ r.mode = "local" => r.table = m.near[e]

LEMMA StartElemIs ==
  ASSUME NEW m \in Meshes, mesh = m, NEW w \in [Elem -> Proc], NEW p \in Proc,
         NEW order, NEW n \in Nat, NEW e \in Elem, \A x \in NodesIn(m, e) : Place(order, x) \in 1 .. n,
         NEW r, r = StartElem(p, w, order, e)
  PROVE  StartsAs(m, w, p, order, e, r)
PROOF
<1>. DEFINE ns == [k \in DOMAIN m.nodes[e] |-> Place(order, m.nodes[e][k])]
<1>1. m.nodes[e] \in Seq(DOMAIN m.masters) /\ m.near[e] \subseteq Elem
  BY MeshIs DEF MeshTyped
<1>2. PICK z \in Nat : DOMAIN m.nodes[e] = 1 .. z
  BY <1>1
<1>3. \A k \in 1 .. z : Place(order, m.nodes[e][k]) \in Nat
  BY <1>2 DEF NodesIn
<1>4. ns \in [1 .. z -> Nat]
  BY <1>2, <1>3
<1>5. DOMAIN ns = DOMAIN m.nodes[e] /\ \A k \in DOMAIN ns : ns[k] = Place(order, m.nodes[e][k])
  OBVIOUS
<1>6. r = [label |-> e, mode |-> IF w[e] = p THEN "local" ELSE "remote",
           parts |-> IF w[e] = p THEN {} ELSE {w[e]}, nodes |-> ns,
           table |-> IF w[e] = p THEN m.near[e] ELSE {}]
  BY DEF StartElem
<1>. HIDE DEF ns
<1>7. ns \in Seq(Nat)
  BY <1>4
<1>8. w[e] \in Proc
  OBVIOUS
<1>9. /\ r.label = e /\ r.mode = (IF w[e] = p THEN "local" ELSE "remote")
      /\ r.parts = (IF w[e] = p THEN {} ELSE {w[e]}) /\ r.nodes = ns
      /\ r.table = (IF w[e] = p THEN m.near[e] ELSE {})
      /\ r = [label |-> r.label, mode |-> r.mode, parts |-> r.parts, nodes |-> r.nodes, table |-> r.table]
  BY <1>6
<1>10. r.mode \in {"local", "remote"} /\ r.parts \in SUBSET Proc /\ r.nodes \in Seq(Nat) /\ r.table \in SUBSET Elem
  BY <1>1, <1>7, <1>8, <1>9
<1>11. r \in Elements
  BY <1>9, <1>10 DEF Elements
<1>. QED
  BY <1>5, <1>9, <1>11 DEF StartsAs

LEMMA AllMasters ==
  ASSUME MastersPrimary, NEW m \in Meshes, NEW w \in [Elem -> Proc], NEW p \in Proc, NEW l \in AllDofMen(m, w, p)
  PROVE  m.masters[l] \subseteq AllDofMen(m, w, p)
PROOF
<1>1. CASE l \in Own(m, w, p)
  BY <1>1, OwnMasters DEF AllDofMen
<1>2. CASE l \in NeededBy(m, Mirrored(m, w, p))
  <2>1. PICK e \in Mirrored(m, w, p) : l \in Needed(m, e)
    BY <1>2 DEF NeededBy
  <2>2. e \in Elem
    BY <2>1, OwnIs
  <2>3. m.masters[l] \subseteq Needed(m, e)
    BY <2>1, <2>2, MastersNeeded
  <2>. QED
    BY <2>1, <2>3 DEF AllDofMen, NeededBy
<1>. QED
  BY <1>1, <1>2 DEF AllDofMen

LEMMA StartComplete ==
  ASSUME MastersPrimary, NEW m \in Meshes, mesh = m, NEW w \in [Elem -> Proc], NEW p \in Proc,
         NEW d, d = InitialDomain(p, w)
  PROVE  Complete(d, m, w, p)
PROOF
<1>1. PICK D : D = AllDofMen(m, w, p)
  OBVIOUS
<1>2. PICK E : E = AllElems(m, w, p)
  OBVIOUS
<1>3. PICK order : order = Listed(p, D)
  OBVIOUS
<1>4. PICK eOrder : eOrder = Listed(p, E)
  OBVIOUS
<1>5. D \in SUBSET Nat /\ IsFiniteSet(D) /\ D \subseteq DOMAIN m.masters
  <2>1. D \subseteq DOMAIN m.masters
    BY <1>1, OwnIs
  <2>2. DOMAIN m.masters \subseteq Nat /\ IsFiniteSet(DOMAIN m.masters)
    BY MeshIs DEF MeshTyped
  <2>. QED
    BY <2>1, <2>2, FS_Subset
<1>6. E \in SUBSET Nat /\ IsFiniteSet(E) /\ E \subseteq Elem
  <2>1. E \subseteq Elem
    BY <1>2, OwnIs
  <2>2. Elem \subseteq Nat /\ IsFiniteSet(Elem)
    BY MeshAssumption
  <2>. QED
    BY <2>1, <2>2, FS_Subset
<1>7. PICK n \in Nat : /\ DOMAIN order = 1 .. n /\ \A i \in 1 .. n : order[i] \in D
                       /\ \A i \in 1 .. n : Place(order, order[i]) = i
                       /\ \A l \in D : Place(order, l) \in 1 .. n /\ order[Place(order, l)] = l
  BY <1>3, <1>5, ListedIs
<1>8. PICK z \in Nat : /\ DOMAIN eOrder = 1 .. z /\ \A i \in 1 .. z : eOrder[i] \in E
                       /\ \A i \in 1 .. z : Place(eOrder, eOrder[i]) = i
                       /\ \A e \in E : Place(eOrder, e) \in 1 .. z /\ eOrder[Place(eOrder, e)] = e
  BY <1>4, <1>6, ListedIs
<1>9. order = Listed(p, Needs(Of(w, p)) \union Needs(Mirrors(Of(w, p)))) /\ eOrder = Listed(p, Of(w, p) \union Mirrors(Of(w, p)))
  <2>1. Of(w, p) \in SUBSET Elem
    BY OwnIs
  <2>2. Needs(Of(w, p)) = Own(m, w, p) /\ Mirrors(Of(w, p)) = Mirrored(m, w, p)
    BY <2>1, NeedsAre DEF Own, Mirrored
  <2>3. Mirrored(m, w, p) \in SUBSET Elem
    BY OwnIs
  <2>4. Needs(Mirrored(m, w, p)) = NeededBy(m, Mirrored(m, w, p))
    BY <2>3, NeedsAre
  <2>5. D = Needs(Of(w, p)) \union Needs(Mirrors(Of(w, p))) /\ E = Of(w, p) \union Mirrors(Of(w, p))
    BY <1>1, <1>2, <2>2, <2>4 DEF AllDofMen, AllElems
  <2>. QED
    BY <1>3, <1>4, <2>5
<1>10. d = [dmans |-> [i \in DOMAIN order |-> StartDofMan(p, w, order, order[i])],
            elems |-> [i \in DOMAIN eOrder |-> StartElem(p, w, order, eOrder[i])]]
  <2>1. d = StartDomain(p, w, order, eOrder)
    BY <1>9, StartAs
  <2>. QED
    BY <2>1 DEF StartDomain
<1>11. PICK R : R = d.dmans
  OBVIOUS
<1>12. PICK F : F = d.elems
  OBVIOUS
<1>13. DOMAIN R = 1 .. n /\ \A i \in 1 .. n : R[i] = StartDofMan(p, w, order, order[i])
  BY <1>7, <1>10, <1>11
<1>14. DOMAIN F = 1 .. z /\ \A i \in 1 .. z : F[i] = StartElem(p, w, order, eOrder[i])
  BY <1>8, <1>10, <1>12
<1>15. d = [dmans |-> R, elems |-> F] /\ R = [i \in 1 .. n |-> R[i]] /\ F = [i \in 1 .. z |-> F[i]]
  <2>1. R = [i \in DOMAIN order |-> StartDofMan(p, w, order, order[i])]
    BY <1>10, <1>11
  <2>2. F = [i \in DOMAIN eOrder |-> StartElem(p, w, order, eOrder[i])]
    BY <1>10, <1>12
  <2>. QED
    BY <1>7, <1>8, <1>10, <2>1, <2>2
<1>16. ASSUME NEW i \in 1 .. n
       PROVE  /\ R[i] \in DofMen(m) /\ R[i].label = order[i]
              /\ R[i].masters = {Place(order, x) : x \in m.masters[order[i]]}
              /\ m.masters[order[i]] \subseteq D
              /\ order[i] \in Own(m, w, p) => UsersListed(R[i], p, Users(m, w, order[i]))
              /\ order[i] \notin Own(m, w, p) => R[i].mode = "null"
  <2>1. PICK l : l = order[i]
    OBVIOUS
  <2>2. l \in AllDofMen(m, w, p) /\ m.masters[l] \subseteq AllDofMen(m, w, p)
    BY <1>1, <1>7, <2>1, AllMasters
  <2>3. \A x \in AllDofMen(m, w, p) : Place(order, x) \in 1 .. n
    BY <1>1, <1>7
  <2>4. PICK r : r = R[i]
    OBVIOUS
  <2>5. r = StartDofMan(p, w, order, l)
    BY <1>13, <2>1, <2>4
  <2>6. /\ r \in DofMen(m) /\ r.label = l /\ r.masters = {Place(order, x) : x \in m.masters[l]}
        /\ l \in Own(m, w, p) => UsersListed(r, p, Users(m, w, l))
        /\ l \notin Own(m, w, p) => r.mode = "null"
    BY <1>7, <2>2, <2>3, <2>5, StartDofManIs
  <2>. QED
    BY <1>1, <2>1, <2>2, <2>4, <2>6
<1>17. ASSUME NEW i \in 1 .. z
       PROVE  /\ F[i] \in Elements /\ F[i].label = eOrder[i] /\ DOMAIN F[i].nodes = DOMAIN m.nodes[eOrder[i]]
              /\ \A k \in DOMAIN F[i].nodes : /\ F[i].nodes[k] = Place(order, m.nodes[eOrder[i]][k])
                                              /\ m.nodes[eOrder[i]][k] \in D
              /\ IF w[eOrder[i]] = p THEN F[i].mode = "local" /\ F[i].parts = {}
                 ELSE F[i].mode = "remote" /\ F[i].parts = {w[eOrder[i]]}
              /\ F[i].mode = "local" => F[i].table = m.near[eOrder[i]]
  <2>1. PICK e : e = eOrder[i]
    OBVIOUS
  <2>2. e \in E /\ e \in Elem
    BY <1>6, <1>8, <2>1
  <2>3. NodesIn(m, e) \subseteq D
    <3>1. e \in Of(w, p) \/ e \in Mirrored(m, w, p)
      BY <1>2, <2>2 DEF AllElems
    <3>2. NodesIn(m, e) \subseteq Needed(m, e)
      BY DEF Needed
    <3>. QED
      BY <1>1, <3>1, <3>2 DEF AllDofMen, Own, NeededBy
  <2>4. \A x \in NodesIn(m, e) : Place(order, x) \in 1 .. n
    BY <1>7, <2>3
  <2>5. PICK r : r = F[i]
    OBVIOUS
  <2>6. r = StartElem(p, w, order, e)
    BY <1>14, <2>1, <2>5
  <2>7. /\ r \in Elements /\ r.label = e /\ DOMAIN r.nodes = DOMAIN m.nodes[e]
        /\ \A k \in DOMAIN r.nodes : r.nodes[k] = Place(order, m.nodes[e][k])
        /\ IF w[e] = p THEN r.mode = "local" /\ r.parts = {} ELSE r.mode = "remote" /\ r.parts = {w[e]}
        /\ r.mode = "local" => r.table = m.near[e]
    <3>1. n \in Nat /\ e \in Elem
      BY <1>7, <2>2
    <3>2. StartsAs(m, w, p, order, e, r)
      BY <2>4, <2>6, <3>1, StartElemIs
    <3>. QED
      BY <3>2 DEF StartsAs
  <2>8. \A k \in DOMAIN m.nodes[e] : m.nodes[e][k] \in D
    BY <2>3 DEF NodesIn
  <2>. QED
    BY <2>1, <2>5, <2>7, <2>8
<1>18. R \in Seq(DofMen(m)) /\ F \in Seq(Elements)
  <2>1. R \in [1 .. n -> DofMen(m)] /\ F \in [1 .. z -> Elements]
    BY <1>15, <1>16, <1>17
  <2>. QED
    BY <2>1
<1>19. Distinct(R) /\ Distinct(F)
  <2>1. \A i \in 1 .. n : R[i].label = order[i] /\ Place(order, order[i]) = i
    BY <1>7, <1>16
  <2>2. \A i \in 1 .. z : F[i].label = eOrder[i] /\ Place(eOrder, eOrder[i]) = i
    BY <1>8, <1>17
  <2>3. Distinct(R)
    BY <1>13, <2>1 DEF Distinct
  <2>4. Distinct(F)
    BY <1>14, <2>2 DEF Distinct
  <2>. QED
    BY <2>3, <2>4
<1>20. Labels(R) = D /\ Labels(F) = E
  <2>1. \A i \in 1 .. n : R[i].label \in D
    BY <1>7, <1>16
  <2>2. \A l \in D : Place(order, l) \in 1 .. n /\ R[Place(order, l)].label = l
    BY <1>7, <1>16
  <2>3. \A i \in 1 .. z : F[i].label \in E
    BY <1>8, <1>17
  <2>4. \A e \in E : Place(eOrder, e) \in 1 .. z /\ F[Place(eOrder, e)].label = e
    BY <1>8, <1>17
  <2>5. Labels(R) = D
    BY <1>13, <2>1, <2>2 DEF Labels
  <2>6. Labels(F) = E
    BY <1>14, <2>3, <2>4 DEF Labels
  <2>. QED
    BY <2>5, <2>6
<1>21. Linked(d, m)
  <2>1. ASSUME NEW i \in 1 .. n
        PROVE  MastersLinked(d, m, i)
    <3>1. PICK ms : ms = m.masters[order[i]]
      OBVIOUS
    <3>2. R[i].masters = {Place(order, x) : x \in ms} /\ ms \subseteq D /\ R[i].label = order[i]
      BY <1>16, <3>1
    <3>3. \A x \in ms : Place(order, x) \in 1 .. n /\ R[Place(order, x)].label = x
      BY <1>7, <1>16, <3>2
    <3>4. {R[k].label : k \in R[i].masters} = ms /\ R[i].masters \subseteq 1 .. n
      BY <3>2, <3>3
    <3>. QED
      BY <1>11, <1>13, <3>1, <3>2, <3>4 DEF MastersLinked
  <2>2. ASSUME NEW i \in 1 .. z
        PROVE  NodesLinked(d, m, i)
    <3>1. PICK ns : ns = m.nodes[eOrder[i]]
      OBVIOUS
    <3>2. PICK us : us = F[i].nodes
      OBVIOUS
    <3>3. DOMAIN us = DOMAIN ns /\ (\A k \in DOMAIN us : us[k] = Place(order, ns[k]) /\ ns[k] \in D) /\ F[i].label = eOrder[i]
      BY <1>17, <3>1, <3>2
    <3>4. \A k \in DOMAIN us : us[k] \in 1 .. n /\ R[us[k]].label = ns[k]
      BY <1>7, <1>16, <3>3
    <3>. QED
      BY <1>11, <1>12, <1>13, <3>1, <3>2, <3>3, <3>4 DEF NodesLinked
  <2>. QED
    BY <1>11, <1>12, <1>13, <1>14, <2>1, <2>2 DEF Linked
<1>22. Lists(d, m, D, E)
  <2>1. d \in Domains(m)
    BY <1>15, <1>18 DEF Domains
  <2>. QED
    BY <1>11, <1>12, <1>19, <1>20, <1>21, <2>1 DEF Lists
<1>23. Shares(d, m, w, p, Own(m, w, p)) /\ NullOutside(d, Own(m, w, p))
  <2>1. \A i \in 1 .. n : /\ R[i].label \in Own(m, w, p) => UsersListed(R[i], p, Users(m, w, R[i].label))
                          /\ R[i].label \notin Own(m, w, p) => R[i].mode = "null"
    BY <1>16
  <2>. QED
    BY <1>11, <1>13, <2>1 DEF Shares, NullOutside
<1>24. Owned(d, w, p) /\ Averages(d, m)
  <2>1. \A i \in 1 .. z :
          /\ IF w[F[i].label] = p THEN F[i].mode = "local" /\ F[i].parts = {}
             ELSE F[i].mode = "remote" /\ F[i].parts = {w[F[i].label]}
          /\ F[i].mode = "local" => F[i].table = m.near[F[i].label]
    BY <1>17
  <2>. QED
    BY <1>12, <1>14, <2>1 DEF Owned, Averages
<1>. QED
  BY <1>1, <1>2, <1>22, <1>23, <1>24 DEF Complete

LEMMA LayoutInit == MastersPrimary /\ Init => LayoutInv
PROOF
<1>. SUFFICES ASSUME MastersPrimary, Init
              PROVE  LayoutInv
  OBVIOUS
<1>1. PICK w \in Owners : dom = [p \in Proc |-> InitialDomain(p, w)] /\ plan = w
  BY DEF Init
<1>2. w \in [Elem -> Proc]
  BY <1>1, MeshAssumption
<1>3. PICK m \in Meshes : mesh = m
  BY DEF Init
<1>4. Indexed
  BY <1>1 DEF Init, Indexed, NoMail
<1>5. ASSUME NEW p \in Proc
      PROVE  Laid(p, m, w, w, StateOf(p))
  <2>1. PICK s : s = StateOf(p)
    OBVIOUS
  <2>2. s.pc = pc[p] /\ s.dom = dom[p] /\ s.trans = trans[p] /\ s.got = got[p]
    BY <2>1 DEF StateOf
  <2>3. s.pc = "maps" /\ s.got = {} /\ s.trans = NoTransactions
    BY <2>2 DEF Init, NoTransactions
  <2>4. s.dom = InitialDomain(p, w)
    BY <1>1, <2>2
  <2>5. Complete(s.dom, m, w, p)
    BY <1>2, <1>3, <2>4, StartComplete
  <2>6. Laid(p, m, w, w, s)
    BY <2>3, <2>5, LaidQuiet
  <2>. QED
    BY <2>1, <2>6
<1>. QED
  BY <1>1, <1>2, <1>3, <1>4, <1>5 DEF LayoutInv, LayoutOf

-------------------------------------------------------------------------------
(* What holds between migrations *)

Rested(m, w) == mesh = m /\ plan = w /\ \A p \in Proc : Complete(dom[p], m, w, p)

LEMMA QuietRests ==
  ASSUME LayoutInv, Quiet
  PROVE  \E m \in Meshes : \E w \in [Elem -> Proc] : Rested(m, w)
PROOF
<1>1. PICK m \in Meshes, a \in [Elem -> Proc], w \in [Elem -> Proc] : LayoutOf(m, a, w)
  BY DEF LayoutInv
<1>2. ASSUME NEW p \in Proc
      PROVE  Complete(dom[p], m, w, p)
  <2>1. PICK s : s = StateOf(p)
    OBVIOUS
  <2>2. s.pc = pc[p] /\ s.dom = dom[p]
    BY <2>1 DEF StateOf
  <2>3. s.pc \in {"maps", "solve"}
    BY <2>2 DEF Quiet, AllAt
  <2>4. Laid(p, m, a, w, s)
    BY <1>1, <2>1 DEF LayoutOf
  <2>. QED
    BY <2>2, <2>3, <2>4, LaidQuiet
<1>. QED
  BY <1>1, <1>2 DEF Rested, LayoutOf

LEMMA NeedsPlanned ==
  ASSUME MastersPrimary, NEW m \in Meshes, NEW w \in [Elem -> Proc], mesh = m, plan = w, NEW p \in Proc
  PROVE  /\ Planned(p) = Of(w, p) /\ Needs(Planned(p)) = Own(m, w, p) /\ Mirrors(Planned(p)) = Mirrored(m, w, p)
         /\ Needs(Mirrors(Planned(p))) = NeededBy(m, Mirrored(m, w, p))
PROOF
<1>1. Planned(p) = Of(w, p) /\ Of(w, p) \in SUBSET Elem
  BY DEF Planned, Of
<1>2. Needs(Of(w, p)) = Own(m, w, p) /\ Mirrors(Of(w, p)) = Mirrored(m, w, p)
  BY <1>1, NeedsAre DEF Own, Mirrored
<1>3. Mirrored(m, w, p) \in SUBSET Elem
  BY OwnIs
<1>4. Needs(Mirrored(m, w, p)) = NeededBy(m, Mirrored(m, w, p))
  BY <1>3, NeedsAre
<1>. QED
  BY <1>1, <1>2, <1>4

LEMMA SharersAre ==
  ASSUME MastersPrimary, NEW m \in Meshes, NEW w \in [Elem -> Proc], mesh = m, plan = w, NEW l
  PROVE  Sharers(l) = Users(m, w, l)
PROOF
<1>1. \A p \in Proc : Needs(Planned(p)) = Own(m, w, p)
  BY NeedsPlanned
<1>2. Users(m, w, l) \subseteq Proc /\ \A p \in Proc : p \in Users(m, w, l) <=> l \in Own(m, w, p)
  BY UsersAre
<1>. QED
  BY <1>1, <1>2 DEF Sharers

LEMMA ListsAgree == MastersPrimary /\ LayoutInv => ListsExact
PROOF
<1>. SUFFICES ASSUME MastersPrimary, LayoutInv, Quiet, NEW p \in Proc,
                     NEW held, held = {dom[p].dmans[i] : i \in {i \in DOMAIN dom[p].dmans : dom[p].dmans[i].mode # "null"}}
              PROVE  /\ OwnLabels(p) = Planned(p)
                     /\ {r.label : r \in held} = Needs(Planned(p))
                     /\ \A r \in held : /\ r.parts \ {p} = Sharers(r.label) \ {p}
                                        /\ r.mode = "shared" <=> Sharers(r.label) # {p}
  BY DEF ListsExact
<1>1. PICK m \in Meshes, w \in [Elem -> Proc] : Rested(m, w)
  BY QuietRests
<1>2. mesh = m /\ plan = w
  BY <1>1 DEF Rested
<1>3. PICK d : d = dom[p]
  OBVIOUS
<1>4. Complete(d, m, w, p)
  BY <1>1, <1>3 DEF Rested
<1>5. /\ \A i \in DOMAIN d.elems : d.elems[i].mode = "local" <=> d.elems[i].label \in Of(w, p)
      /\ \A e \in Of(w, p) : \E i \in DOMAIN d.elems : d.elems[i].label = e /\ d.elems[i].mode = "local"
      /\ \A l \in Own(m, w, p) : \E i \in DOMAIN d.dmans : d.dmans[i].label = l
      /\ \A i \in DOMAIN d.dmans : d.dmans[i].label \in Own(m, w, p) <=> d.dmans[i].mode # "null"
  BY <1>4, CompleteIs
<1>6. OwnLabels(p) = Planned(p)
  <2>1. OwnLabels(p) = {d.elems[i].label : i \in {i \in DOMAIN d.elems : d.elems[i].mode = "local"}}
    BY <1>3 DEF OwnLabels, LocalElems
  <2>2. OwnLabels(p) = Of(w, p)
    BY <1>5, <2>1
  <2>. QED
    BY <1>2, <2>2, NeedsPlanned
<1>7. {r.label : r \in held} = Needs(Planned(p))
  <2>1. {r.label : r \in held} = {d.dmans[i].label : i \in {i \in DOMAIN d.dmans : d.dmans[i].mode # "null"}}
    BY <1>3
  <2>2. \A l \in Own(m, w, p) : \E i \in DOMAIN d.dmans : d.dmans[i].label = l /\ d.dmans[i].mode # "null"
    BY <1>5
  <2>3. \A i \in DOMAIN d.dmans : d.dmans[i].mode # "null" => d.dmans[i].label \in Own(m, w, p)
    BY <1>5
  <2>4. {r.label : r \in held} = Own(m, w, p)
    BY <2>1, <2>2, <2>3
  <2>. QED
    BY <1>2, <2>4, NeedsPlanned
<1>8. ASSUME NEW r \in held
      PROVE  r.parts \ {p} = Sharers(r.label) \ {p} /\ (r.mode = "shared" <=> Sharers(r.label) # {p})
  <2>1. PICK i \in DOMAIN d.dmans : r = d.dmans[i] /\ d.dmans[i].mode # "null"
    BY <1>3
  <2>2. r.label \in Own(m, w, p)
    BY <1>5, <2>1
  <2>3. UsersListed(r, p, Users(m, w, r.label))
    BY <1>4, <2>1, <2>2 DEF Complete, Shares
  <2>4. Sharers(r.label) = Users(m, w, r.label)
    BY <1>2, SharersAre
  <2>. QED
    BY <2>3, <2>4 DEF UsersListed, SharedMode
<1>. QED
  BY <1>6, <1>7, <1>8

LEMMA NumbersAgree == LayoutInv => NumbersRight
PROOF
<1>. SUFFICES ASSUME LayoutInv, Quiet, NEW p \in Proc
              PROVE  /\ \A i \in DOMAIN dom[p].elems :
                          [k \in DOMAIN dom[p].elems[i].nodes |-> LabelOf(p, dom[p].elems[i].nodes[k])]
                            = mesh.nodes[dom[p].elems[i].label]
                     /\ \A i \in DOMAIN dom[p].dmans :
                          {LabelOf(p, m) : m \in dom[p].dmans[i].masters} = mesh.masters[dom[p].dmans[i].label]
  BY DEF NumbersRight
<1>1. PICK m \in Meshes, w \in [Elem -> Proc] : Rested(m, w)
  BY QuietRests
<1>2. mesh = m
  BY <1>1 DEF Rested
<1>3. PICK d : d = dom[p]
  OBVIOUS
<1>4. Linked(d, m) /\ Lists(d, m, AllDofMen(m, w, p), AllElems(m, w, p))
  BY <1>1, <1>3 DEF Rested, Complete, Lists
<1>5. ASSUME NEW i \in DOMAIN d.elems
      PROVE  [k \in DOMAIN d.elems[i].nodes |-> LabelOf(p, d.elems[i].nodes[k])] = m.nodes[d.elems[i].label]
  <2>1. PICK us : us = d.elems[i].nodes
    OBVIOUS
  <2>2. PICK ns : ns = m.nodes[d.elems[i].label]
    OBVIOUS
  <2>3. DOMAIN us = DOMAIN ns /\ \A k \in DOMAIN us : d.dmans[us[k]].label = ns[k]
    BY <1>4, <2>1, <2>2 DEF Linked, NodesLinked
  <2>4. ns = [k \in DOMAIN ns |-> ns[k]]
    <3>1. d.elems[i].label \in AllElems(m, w, p)
      BY <1>4, ListTyped
    <3>2. d.elems[i].label \in Elem
      BY <3>1, OwnIs
    <3>3. m.nodes \in [Elem -> Seq(DOMAIN m.masters)]
      BY MeshIs DEF MeshTyped
    <3>4. ns \in Seq(DOMAIN m.masters)
      BY <2>2, <3>2, <3>3
    <3>. QED
      BY <3>4
  <2>5. \A n : LabelOf(p, n) = d.dmans[n].label
    BY <1>3 DEF LabelOf
  <2>6. [k \in DOMAIN us |-> LabelOf(p, us[k])] = ns
    BY <2>3, <2>4, <2>5
  <2>. QED
    BY <2>1, <2>2, <2>6
<1>6. ASSUME NEW i \in DOMAIN d.dmans
      PROVE  {LabelOf(p, n) : n \in d.dmans[i].masters} = m.masters[d.dmans[i].label]
  <2>1. {d.dmans[n].label : n \in d.dmans[i].masters} = m.masters[d.dmans[i].label]
    BY <1>4 DEF Linked, MastersLinked
  <2>. QED
    BY <1>3, <2>1 DEF LabelOf
<1>. QED
  BY <1>2, <1>3, <1>5, <1>6

LEMMA MirrorsAgree == MastersPrimary /\ LayoutInv => MirrorsExact
PROOF
<1>. SUFFICES ASSUME MastersPrimary, LayoutInv, Quiet, NEW p \in Proc,
                     NEW remote, remote = {dom[p].elems[i] : i \in RemoteOn(p)},
                     NEW nulls, nulls = {dom[p].dmans[i].label : i \in {i \in DOMAIN dom[p].dmans :
                                                                          dom[p].dmans[i].mode = "null"}}
              PROVE  /\ \A i \in LocalElems(p) : dom[p].elems[i].table = mesh.near[dom[p].elems[i].label]
                     /\ {r.label : r \in remote} = Mirrors(Planned(p))
                     /\ \A r \in remote : r.parts = {plan[r.label]}
                     /\ nulls = Needs(Mirrors(Planned(p))) \ Needs(Planned(p))
  BY DEF MirrorsExact
<1>1. PICK m \in Meshes, w \in [Elem -> Proc] : Rested(m, w)
  BY QuietRests
<1>2. mesh = m /\ plan = w
  BY <1>1 DEF Rested
<1>3. PICK d : d = dom[p]
  OBVIOUS
<1>4. Complete(d, m, w, p)
  BY <1>1, <1>3 DEF Rested
<1>5. /\ Lists(d, m, AllDofMen(m, w, p), AllElems(m, w, p))
      /\ \A i \in DOMAIN d.elems : d.elems[i].mode = "local" <=> d.elems[i].label \in Of(w, p)
      /\ \A l \in AllDofMen(m, w, p) : \E i \in DOMAIN d.dmans : d.dmans[i].label = l
      /\ \A i \in DOMAIN d.dmans : d.dmans[i].label \in Own(m, w, p) <=> d.dmans[i].mode # "null"
  BY <1>4, CompleteIs
<1>6. /\ \A i \in DOMAIN d.elems : d.elems[i].label \in AllElems(m, w, p)
      /\ \A e \in AllElems(m, w, p) : \E i \in DOMAIN d.elems : d.elems[i].label = e
      /\ \A i \in DOMAIN d.dmans : d.dmans[i].label \in AllDofMen(m, w, p)
  BY <1>5, ListTyped
<1>7. \A i \in LocalElems(p) : d.elems[i].table = m.near[d.elems[i].label]
  BY <1>3, <1>4 DEF Complete, Averages, LocalElems
<1>8. \A i \in DOMAIN d.elems : i \in RemoteOn(p) <=> d.elems[i].label \notin Of(w, p)
  <2>1. \A i \in DOMAIN d.elems : /\ d.elems[i].mode = "remote" => d.elems[i].mode # "local"
                                  /\ w[d.elems[i].label] # p => d.elems[i].mode = "remote"
                                  /\ w[d.elems[i].label] = p => d.elems[i].mode = "local"
    BY <1>4 DEF Complete, Owned
  <2>2. \A i \in DOMAIN d.elems : i \in RemoteOn(p) <=> d.elems[i].mode = "remote"
    BY <1>3 DEF RemoteOn
  <2>3. \A i \in DOMAIN d.elems : d.elems[i].label \in Of(w, p) => w[d.elems[i].label] = p
    BY DEF Of
  <2>. QED
    BY <1>5, <2>1, <2>2, <2>3
<1>9. {r.label : r \in remote} = Mirrored(m, w, p)
  <2>1. RemoteOn(p) \subseteq DOMAIN d.elems
    BY <1>3 DEF RemoteOn
  <2>2. AllElems(m, w, p) = Of(w, p) \union Mirrored(m, w, p) /\ Mirrored(m, w, p) \intersect Of(w, p) = {}
    BY OwnIs DEF AllElems
  <2>3. \A r \in remote : r.label \in Mirrored(m, w, p)
    BY <1>3, <1>6, <1>8, <2>1, <2>2
  <2>4. ASSUME NEW e \in Mirrored(m, w, p)
        PROVE  \E r \in remote : r.label = e
    <3>1. PICK i \in DOMAIN d.elems : d.elems[i].label = e
      BY <1>6, <2>2
    <3>. QED
      BY <1>3, <1>8, <2>2, <3>1
  <2>. QED
    BY <2>3, <2>4
<1>10. \A r \in remote : r.parts = {w[r.label]}
  <2>1. ASSUME NEW i \in RemoteOn(p)
        PROVE  d.elems[i].parts = {w[d.elems[i].label]}
    <3>1. i \in DOMAIN d.elems /\ d.elems[i].mode = "remote"
      BY <1>3 DEF RemoteOn
    <3>. QED
      BY <1>4, <3>1 DEF Complete, Owned
  <2>. QED
    BY <1>3, <2>1
<1>11. nulls = NeededBy(m, Mirrored(m, w, p)) \ Own(m, w, p)
  <2>1. \A l \in nulls : l \in AllDofMen(m, w, p) \ Own(m, w, p)
    BY <1>3, <1>5, <1>6
  <2>2. ASSUME NEW l \in AllDofMen(m, w, p) \ Own(m, w, p)
        PROVE  l \in nulls
    <3>1. PICK i \in DOMAIN d.dmans : d.dmans[i].label = l
      BY <1>5
    <3>. QED
      BY <1>3, <1>5, <3>1
  <2>3. nulls = AllDofMen(m, w, p) \ Own(m, w, p)
    BY <2>1, <2>2
  <2>. QED
    BY <2>3 DEF AllDofMen
<1>. QED
  BY <1>2, <1>3, <1>7, <1>9, <1>10, <1>11, NeedsPlanned

-------------------------------------------------------------------------------
(* Communication maps *)

Read(list, map) == [k \in DOMAIN map |-> list[map[k]].label]

LEMMA SortedIs ==
  ASSUME NEW list, Distinct(list), NEW S \in SUBSET DOMAIN list, NEW L, L = LabelsAt(list, S),
         L \in SUBSET Nat, IsFiniteSet(L), NEW map, map = CommMap(list, S)
  PROVE  /\ {map[k] : k \in DOMAIN map} \subseteq DOMAIN list
         /\ Read(list, map) = Ascending(L)
         /\ {Read(list, map)[k] : k \in DOMAIN Read(list, map)} = L
PROOF
<1>1. PICK A : A = Ascending(L)
  OBVIOUS
<1>2. /\ A = [k \in DOMAIN A |-> A[k]] /\ (\A k \in DOMAIN A : A[k] \in L) /\ \A l \in L : \E k \in DOMAIN A : A[k] = l
  <2>1. /\ A \in [1 .. Cardinality(L) -> L] /\ \A k \in 1 .. Cardinality(L) : A[k] \in L
        /\ \A l \in L : Rank(L, l) \in 1 .. Cardinality(L) /\ A[Rank(L, l)] = l
    BY <1>1, AscendingIs
  <2>. QED
    BY <2>1
<1>3. map = [k \in DOMAIN A |-> NumberOf(list, A[k])]
  BY <1>1 DEF CommMap, Sorted, LabelsAt
<1>4. ASSUME NEW k \in DOMAIN A
      PROVE  map[k] \in DOMAIN list /\ list[map[k]].label = A[k]
  <2>1. PICK i \in S : list[i].label = A[k]
    BY <1>2 DEF LabelsAt
  <2>2. NumberOf(list, list[i].label) = i
    BY <2>1, NumberIs
  <2>3. map[k] = i
    BY <1>3, <2>1, <2>2
  <2>. QED
    BY <2>1, <2>3
<1>5. DOMAIN map = DOMAIN A
  BY <1>3
<1>6. Read(list, map) = A
  BY <1>2, <1>4, <1>5 DEF Read
<1>7. {A[k] : k \in DOMAIN A} = L
  BY <1>2
<1>. QED
  BY <1>1, <1>4, <1>5, <1>6, <1>7

\* The maps lead to valid numbers and, read on either side, to the same labels.
Shared(p, q) == {i \in DOMAIN dom[p].dmans : dom[p].dmans[i].mode = "shared" /\ q \in dom[p].dmans[i].parts}
Wanted(p, q) == {i \in LocalElems(p) : dom[p].elems[i].label \in {dom[q].elems[k].label : k \in RemoteOn(q)}}
MirrorsFrom(p, q) == {i \in RemoteOn(p) : q \in dom[p].elems[i].parts}

Reads(list, map, L) ==
  /\ {map[k] : k \in DOMAIN map} \subseteq DOMAIN list
  /\ Read(list, map) = Ascending(L) /\ {Read(list, map)[k] : k \in DOMAIN Read(list, map)} = L

LEMMA MapsRead ==
  ASSUME NEW m \in Meshes, NEW w \in [Elem -> Proc], Rested(m, w), NEW p \in Proc, NEW q \in Proc \ {p}
  PROVE  /\ Reads(dom[p].dmans, NodeMap(p, q), Own(m, w, p) \intersect Own(m, w, q))
         /\ Reads(dom[p].elems, SendMap(p, q), Of(w, p) \intersect Mirrored(m, w, q))
         /\ Reads(dom[p].elems, RecvMap(p, q), Mirrored(m, w, p) \intersect Of(w, q))
PROOF
<1>1. PICK d : d = dom[p]
  OBVIOUS
<1>2. Complete(d, m, w, p) /\ Complete(dom[q], m, w, q)
  BY <1>1 DEF Rested
<1>3. Distinct(d.dmans) /\ Distinct(d.elems)
  BY <1>2 DEF Complete, Lists
<1>4. /\ \A i \in DOMAIN d.elems : d.elems[i].mode = "local" <=> d.elems[i].label \in Of(w, p)
      /\ \A e \in Of(w, p) : \E i \in DOMAIN d.elems : d.elems[i].label = e /\ d.elems[i].mode = "local"
      /\ \A l \in Own(m, w, p) : \E i \in DOMAIN d.dmans : d.dmans[i].label = l
      /\ \A i \in DOMAIN d.dmans :
           (d.dmans[i].mode = "shared" /\ q \in d.dmans[i].parts) <=>
             d.dmans[i].label \in Own(m, w, p) \intersect Own(m, w, q)
  BY <1>2, CompleteIs
<1>5. /\ DOMAIN m.masters \subseteq Nat /\ IsFiniteSet(DOMAIN m.masters) /\ Own(m, w, p) \subseteq DOMAIN m.masters
      /\ Elem \subseteq Nat /\ IsFiniteSet(Elem) /\ Of(w, p) \subseteq Elem /\ Of(w, q) \subseteq Elem
  <2>1. DOMAIN m.masters \subseteq Nat /\ IsFiniteSet(DOMAIN m.masters)
    BY MeshIs DEF MeshTyped
  <2>. QED
    BY <2>1, MeshAssumption, OwnIs
<1>6. \A r \in Proc : LabelsAt(dom[r].elems, RemoteOn(r)) = Mirrored(m, w, r)
  <2>. SUFFICES ASSUME NEW r \in Proc
                PROVE  LabelsAt(dom[r].elems, RemoteOn(r)) = Mirrored(m, w, r)
    OBVIOUS
  <2>1. PICK c : c = dom[r]
    OBVIOUS
  <2>2. Complete(c, m, w, r)
    BY <2>1 DEF Rested
  <2>3. Lists(c, m, AllDofMen(m, w, r), AllElems(m, w, r))
    BY <2>2 DEF Complete
  <2>4. /\ \A i \in DOMAIN c.elems : c.elems[i].label \in AllElems(m, w, r)
        /\ \A e \in AllElems(m, w, r) : \E i \in DOMAIN c.elems : c.elems[i].label = e
    BY <2>3, ListTyped
  <2>5. AllElems(m, w, r) = Of(w, r) \union Mirrored(m, w, r) /\ Mirrored(m, w, r) \subseteq Elem \ Of(w, r)
    BY OwnIs DEF AllElems
  <2>6. \A e \in Elem : e \in Of(w, r) <=> w[e] = r
    BY DEF Of
  <2>7. \A i \in DOMAIN c.elems : /\ w[c.elems[i].label] = r => c.elems[i].mode = "local"
                                  /\ w[c.elems[i].label] # r => c.elems[i].mode = "remote"
    BY <2>2 DEF Complete, Owned
  <2>8. \A i \in DOMAIN c.elems : i \in RemoteOn(r) <=> c.elems[i].mode = "remote"
    BY <2>1 DEF RemoteOn
  <2>9. RemoteOn(r) \subseteq DOMAIN c.elems
    BY <2>1 DEF RemoteOn
  <2>10. \A i \in RemoteOn(r) : c.elems[i].label \in Mirrored(m, w, r)
    <3>1. \A i \in RemoteOn(r) : w[c.elems[i].label] # r
      BY <2>7, <2>8, <2>9
    <3>2. \A e \in Of(w, r) : w[e] = r
      BY DEF Of
    <3>. QED
      BY <2>4, <2>5, <2>9, <3>1, <3>2
  <2>11. \A e \in Mirrored(m, w, r) : \E i \in RemoteOn(r) : c.elems[i].label = e
    BY <2>4, <2>5, <2>6, <2>7, <2>8
  <2>. QED
    BY <2>1, <2>10, <2>11 DEF LabelsAt
<1>7. Reads(d.dmans, NodeMap(p, q), Own(m, w, p) \intersect Own(m, w, q))
  <2>1. PICK L : L = Own(m, w, p) \intersect Own(m, w, q)
    OBVIOUS
  <2>2. L \in SUBSET Nat /\ IsFiniteSet(L)
    BY <1>5, <2>1, FS_Subset
  <2>3. PICK S : S = Shared(p, q)
    OBVIOUS
  <2>4. S \in SUBSET DOMAIN d.dmans /\ \A i \in DOMAIN d.dmans : i \in S <=> d.dmans[i].label \in L
    BY <1>1, <1>4, <2>1, <2>3 DEF Shared
  <2>5. L = LabelsAt(d.dmans, S)
    BY <1>4, <2>1, <2>4 DEF LabelsAt
  <2>6. PICK map : map = NodeMap(p, q)
    OBVIOUS
  <2>7. map = CommMap(d.dmans, S)
    BY <1>1, <2>3, <2>6 DEF NodeMap, Shared
  <2>8. Reads(d.dmans, map, L)
    BY <1>3, <2>2, <2>4, <2>5, <2>7, SortedIs DEF Reads
  <2>. QED
    BY <2>1, <2>6, <2>8
<1>8. Reads(d.elems, SendMap(p, q), Of(w, p) \intersect Mirrored(m, w, q))
  <2>1. PICK L : L = Of(w, p) \intersect Mirrored(m, w, q)
    OBVIOUS
  <2>2. L \in SUBSET Nat /\ IsFiniteSet(L)
    BY <1>5, <2>1, FS_Subset
  <2>3. PICK S : S = Wanted(p, q)
    OBVIOUS
  <2>4. S \in SUBSET DOMAIN d.elems /\ \A i \in DOMAIN d.elems : i \in S <=> d.elems[i].label \in L
    <3>1. {dom[q].elems[k].label : k \in RemoteOn(q)} = Mirrored(m, w, q)
      BY <1>6 DEF LabelsAt
    <3>2. S = {i \in LocalElems(p) : d.elems[i].label \in Mirrored(m, w, q)}
      BY <1>1, <2>3, <3>1 DEF Wanted
    <3>3. LocalElems(p) = {i \in DOMAIN d.elems : d.elems[i].mode = "local"}
      BY <1>1 DEF LocalElems
    <3>. QED
      BY <1>4, <2>1, <3>2, <3>3
  <2>5. L = LabelsAt(d.elems, S)
    BY <1>4, <2>1, <2>4 DEF LabelsAt
  <2>6. PICK map : map = SendMap(p, q)
    OBVIOUS
  <2>7. map = CommMap(d.elems, S)
    BY <1>1, <2>3, <2>6 DEF SendMap, Wanted
  <2>8. Reads(d.elems, map, L)
    BY <1>3, <2>2, <2>4, <2>5, <2>7, SortedIs DEF Reads
  <2>. QED
    BY <2>1, <2>6, <2>8
<1>9. Reads(d.elems, RecvMap(p, q), Mirrored(m, w, p) \intersect Of(w, q))
  <2>1. PICK L : L = Mirrored(m, w, p) \intersect Of(w, q)
    OBVIOUS
  <2>2. L \in SUBSET Nat /\ IsFiniteSet(L)
    BY <1>5, <2>1, FS_Subset
  <2>3. PICK S : S = MirrorsFrom(p, q)
    OBVIOUS
  <2>4. RemoteOn(p) \subseteq DOMAIN d.elems /\ \A i \in RemoteOn(p) : d.elems[i].parts = {w[d.elems[i].label]}
    <3>1. \A i \in RemoteOn(p) : i \in DOMAIN d.elems /\ d.elems[i].mode = "remote"
      BY <1>1 DEF RemoteOn
    <3>. QED
      BY <1>2, <3>1 DEF Complete, Owned
  <2>5. \A i \in RemoteOn(p) : d.elems[i].label \in Mirrored(m, w, p)
    BY <1>1, <1>6 DEF LabelsAt
  <2>6. \A e \in Mirrored(m, w, p) : \E i \in RemoteOn(p) : d.elems[i].label = e
    BY <1>1, <1>6 DEF LabelsAt
  <2>7. \A e \in Elem : e \in Of(w, q) <=> w[e] = q
    BY DEF Of
  <2>8. Mirrored(m, w, p) \subseteq Elem
    BY OwnIs
  <2>9. S = {i \in RemoteOn(p) : q \in d.elems[i].parts}
    BY <1>1, <2>3 DEF MirrorsFrom
  <2>10. S \in SUBSET DOMAIN d.elems
    BY <2>4, <2>9
  <2>11. \A i \in RemoteOn(p) : i \in S <=> d.elems[i].label \in L
    BY <2>1, <2>4, <2>5, <2>7, <2>8, <2>9
  <2>12. L = LabelsAt(d.elems, S)
    BY <2>1, <2>6, <2>9, <2>11 DEF LabelsAt
  <2>13. PICK map : map = RecvMap(p, q)
    OBVIOUS
  <2>14. map = CommMap(d.elems, S)
    BY <1>1, <2>3, <2>13 DEF RecvMap, MirrorsFrom
  <2>15. Reads(d.elems, map, L)
    BY <1>3, <2>2, <2>10, <2>12, <2>14, SortedIs DEF Reads
  <2>. QED
    BY <2>1, <2>13, <2>15
<1>. QED
  BY <1>1, <1>7, <1>8, <1>9

\* While the solution goes on the maps are those of the lists.
MapsOfLists ==
  AllAt("solve") => \A p \in Proc : \A q \in Proc :
    maps[p].nodes[q] = NodeMap(p, q) /\ maps[p].send[q] = SendMap(p, q) /\ maps[p].recv[q] = RecvMap(p, q)

LEMMA LocalStepLeaves ==
  ASSUME NEW p \in Proc, LocalStep(p), DOMAIN pc = Proc
  PROVE  ~AllAt("solve")'
PROOF
<1>1. ASSUME NEW l, l # "solve", Goto(p, l)
      PROVE  ~AllAt("solve")'
  <2>1. pc'[p] = l
    BY <1>1 DEF Goto
  <2>. QED
    BY <1>1, <2>1 DEF AllAt
<1>2. ASSUME NEW q \in Proc, NEW l, l # "solve", MayUnpack(p, q, l), UNCHANGED pc
      PROVE  ~AllAt("solve")'
  <2>1. pc'[p] = l
    BY <1>2 DEF MayUnpack
  <2>. QED
    BY <1>2, <2>1 DEF AllAt
<1>3. CASE PackSharedPartitions(p)
  <2>1. Goto(p, "shared")
    BY <1>3 DEF PackSharedPartitions
  <2>. QED
    BY <1>1, <2>1
<1>4. CASE PackDependencies(p)
  <2>1. Goto(p, "depends")
    BY <1>4 DEF PackDependencies
  <2>. QED
    BY <1>1, <2>1
<1>5. CASE PackMigrating(p)
  <2>1. Goto(p, "migrating")
    BY <1>5 DEF PackMigrating
  <2>. QED
    BY <1>1, <2>1
<1>6. CASE Commit(p)
  <2>1. Goto(p, "aborted") \/ Goto(p, "wish")
    BY <1>6 DEF Commit
  <2>. QED
    BY <1>1, <2>1
<1>7. CASE CommitRemoteElements(p)
  <2>1. Goto(p, "aborted") \/ Goto(p, "maps")
    BY <1>7 DEF CommitRemoteElements
  <2>. QED
    BY <1>1, <2>1
<1>8. ASSUME NEW q \in Proc, UnpackSharedPartitions(p, q)
      PROVE  ~AllAt("solve")'
  <2>1. MayUnpack(p, q, "shared") /\ (UNCHANGED pc \/ Goto(p, "aborted"))
    BY <1>8 DEF UnpackSharedPartitions
  <2>. QED
    BY <1>1, <1>2, <2>1
<1>9. ASSUME NEW q \in Proc, UnpackDependencies(p, q)
      PROVE  ~AllAt("solve")'
  <2>1. MayUnpack(p, q, "depends") /\ UNCHANGED pc
    BY <1>9 DEF UnpackDependencies
  <2>. QED
    BY <1>2, <2>1
<1>10. ASSUME NEW q \in Proc, UnpackMigrating(p, q)
       PROVE  ~AllAt("solve")'
  <2>1. MayUnpack(p, q, "migrating") /\ (UNCHANGED pc \/ Goto(p, "aborted"))
    BY <1>10 DEF UnpackMigrating
  <2>. QED
    BY <1>1, <1>2, <2>1
<1>11. ASSUME NEW q \in Proc, UnpackRemoteElements(p, q)
       PROVE  ~AllAt("solve")'
  <2>1. MayUnpack(p, q, "mirroring") /\ UNCHANGED pc
    BY <1>11 DEF UnpackRemoteElements
  <2>. QED
    BY <1>2, <2>1
<1>. QED
  BY <1>3, <1>4, <1>5, <1>6, <1>7, <1>8, <1>9, <1>10, <1>11 DEF LocalStep

LEMMA MapsStep == LayoutInv /\ MapsOfLists /\ [Next]_vars => MapsOfLists'
PROOF
<1>. SUFFICES ASSUME LayoutInv, MapsOfLists, [Next]_vars
              PROVE  MapsOfLists'
  OBVIOUS
<1>1. DOMAIN pc = Proc
  BY DEF LayoutInv, LayoutOf, Indexed
<1>2. 0 \in Proc
  BY ProcAssumption
<1>3. ASSUME NEW l, l # "solve", AllGoto(l)
      PROVE  ~AllAt("solve")'
  <2>1. pc'[0] = l
    BY <1>2, <1>3 DEF AllGoto
  <2>. QED
    BY <1>2, <1>3, <2>1 DEF AllAt
<1>4. CASE SetUpMaps
  <2>1. dom' = dom /\ maps' = [p \in Proc |-> [nodes |-> [q \in Proc |-> NodeMap(p, q)],
                                              send |-> [q \in Proc |-> SendMap(p, q)],
                                              recv |-> [q \in Proc |-> RecvMap(p, q)]]]
    BY <1>4 DEF SetUpMaps
  <2>2. ASSUME NEW p \in Proc, NEW q \in Proc
        PROVE  /\ maps'[p].nodes[q] = NodeMap(p, q)' /\ maps'[p].send[q] = SendMap(p, q)'
               /\ maps'[p].recv[q] = RecvMap(p, q)'
    <3>1. dom' = dom
      BY <2>1
    <3>2. NodeMap(p, q)' = NodeMap(p, q)
      BY <3>1 DEF NodeMap, CommMap, Sorted, NumberOf, Labels, Ascending
    <3>3. SendMap(p, q)' = SendMap(p, q)
      BY <3>1 DEF SendMap, CommMap, Sorted, NumberOf, Labels, Ascending, LocalElems, RemoteOn
    <3>4. RecvMap(p, q)' = RecvMap(p, q)
      BY <3>1 DEF RecvMap, CommMap, Sorted, NumberOf, Labels, Ascending, RemoteOn
    <3>. QED
      BY <2>1, <3>2, <3>3, <3>4
  <2>. QED
    BY <2>2 DEF MapsOfLists
<1>5. CASE CalculateLoadTransfer
  <2>1. AllGoto("label")
    BY <1>5 DEF CalculateLoadTransfer
  <2>2. ~AllAt("solve")'
    BY <1>3, <2>1
  <2>. QED
    BY <2>2 DEF MapsOfLists
<1>6. CASE FinishExchange
  <2>1. PICK l \in DOMAIN After : AllGoto(After[l])
    BY <1>6 DEF FinishExchange
  <2>2. After[l] # "solve"
    BY DEF After
  <2>3. ~AllAt("solve")'
    BY <1>3, <2>1, <2>2
  <2>. QED
    BY <2>3 DEF MapsOfLists
<1>7. CASE PackRemoteElements
  <2>1. AllGoto("mirroring")
    BY <1>7 DEF PackRemoteElements
  <2>2. ~AllAt("solve")'
    BY <1>3, <2>1
  <2>. QED
    BY <2>2 DEF MapsOfLists
<1>8. CASE \E p \in Proc : LocalStep(p)
  <2>1. ~AllAt("solve")'
    BY <1>1, <1>8, LocalStepLeaves
  <2>. QED
    BY <2>1 DEF MapsOfLists
<1>9. CASE UNCHANGED vars
  <2>1. dom' = dom /\ maps' = maps /\ pc' = pc
    BY <1>9 DEF vars
  <2>2. \A p \in Proc : \A q \in Proc : NodeMap(p, q)' = NodeMap(p, q)
    BY <2>1 DEF NodeMap, CommMap, Sorted, NumberOf, Labels, Ascending
  <2>3. \A p \in Proc : \A q \in Proc : SendMap(p, q)' = SendMap(p, q)
    BY <2>1 DEF SendMap, CommMap, Sorted, NumberOf, Labels, Ascending, LocalElems, RemoteOn
  <2>4. \A p \in Proc : \A q \in Proc : RecvMap(p, q)' = RecvMap(p, q)
    BY <2>1 DEF RecvMap, CommMap, Sorted, NumberOf, Labels, Ascending, RemoteOn
  <2>. QED
    BY <2>1, <2>2, <2>3, <2>4 DEF MapsOfLists, AllAt
<1>. QED
  BY <1>4, <1>5, <1>6, <1>7, <1>8, <1>9 DEF Next

\* What MapsMatch says of two processes.
Valid(p, q) ==
  /\ {maps[p].nodes[q][k] : k \in DOMAIN maps[p].nodes[q]} \subseteq DOMAIN dom[p].dmans
  /\ {maps[p].send[q][k] : k \in DOMAIN maps[p].send[q]} \union {maps[p].recv[q][k] : k \in DOMAIN maps[p].recv[q]}
       \subseteq DOMAIN dom[p].elems
PairMatches(p, q) ==
  LET shared == Read(dom[p].dmans, maps[p].nodes[q])
      mirrors == Read(dom[p].elems, maps[p].recv[q])
  IN /\ shared = Read(dom[q].dmans, maps[q].nodes[p])
     /\ Read(dom[p].elems, maps[p].send[q]) = Read(dom[q].elems, maps[q].recv[p])
     /\ {shared[k] : k \in DOMAIN shared} = Needs(Planned(p)) \cap Needs(Planned(q))
     /\ {mirrors[k] : k \in DOMAIN mirrors} = Mirrors(Planned(p)) \cap Planned(q)

LEMMA PairsMatch ==
  ASSUME AllAt("solve") => \A p \in Proc : \A q \in Proc \ {p} : Valid(p, q) /\ PairMatches(p, q)
  PROVE  MapsMatch
PROOF
<1>. SUFFICES ASSUME AllAt("solve")
              PROVE  \A p \in Proc : \A q \in Proc \ {p} : Valid(p, q) /\ Valid(q, p) /\ PairMatches(p, q)
  BY DEF MapsMatch, Valid, PairMatches, Read
<1>1. \A p \in Proc : \A q \in Proc \ {p} : p \in Proc \ {q} /\ q \in Proc
  OBVIOUS
<1>. QED
  BY <1>1

LEMMA MapsAgree == MastersPrimary /\ LayoutInv /\ MapsOfLists => MapsMatch
PROOF
<1>. SUFFICES ASSUME MastersPrimary, LayoutInv, MapsOfLists, AllAt("solve"), NEW p \in Proc, NEW q \in Proc \ {p}
              PROVE  Valid(p, q) /\ PairMatches(p, q)
  BY PairsMatch
<1>1. PICK m \in Meshes, w \in [Elem -> Proc] : Rested(m, w)
  BY QuietRests DEF Quiet
<1>2. mesh = m /\ plan = w
  BY <1>1 DEF Rested
<1>3. maps[p].nodes[q] = NodeMap(p, q) /\ maps[p].send[q] = SendMap(p, q) /\ maps[p].recv[q] = RecvMap(p, q)
  BY DEF MapsOfLists
<1>4. maps[q].nodes[p] = NodeMap(q, p) /\ maps[q].recv[p] = RecvMap(q, p)
  BY DEF MapsOfLists
<1>5. /\ Reads(dom[p].dmans, maps[p].nodes[q], Own(m, w, p) \intersect Own(m, w, q))
      /\ Reads(dom[p].elems, maps[p].send[q], Of(w, p) \intersect Mirrored(m, w, q))
      /\ Reads(dom[p].elems, maps[p].recv[q], Mirrored(m, w, p) \intersect Of(w, q))
  BY <1>1, <1>3, MapsRead
<1>6. p \in Proc \ {q}
  OBVIOUS
<1>7. /\ Reads(dom[q].dmans, maps[q].nodes[p], Own(m, w, q) \intersect Own(m, w, p))
      /\ Reads(dom[q].elems, maps[q].recv[p], Mirrored(m, w, q) \intersect Of(w, p))
  BY <1>1, <1>4, <1>6, MapsRead
<1>8. /\ Own(m, w, q) \intersect Own(m, w, p) = Own(m, w, p) \intersect Own(m, w, q)
      /\ Mirrored(m, w, q) \intersect Of(w, p) = Of(w, p) \intersect Mirrored(m, w, q)
  OBVIOUS
<1>9. /\ Needs(Planned(p)) = Own(m, w, p) /\ Needs(Planned(q)) = Own(m, w, q)
      /\ Mirrors(Planned(p)) = Mirrored(m, w, p) /\ Planned(q) = Of(w, q)
  BY <1>2, NeedsPlanned
<1>10. /\ Read(dom[p].dmans, maps[p].nodes[q]) = Read(dom[q].dmans, maps[q].nodes[p])
       /\ Read(dom[p].elems, maps[p].send[q]) = Read(dom[q].elems, maps[q].recv[p])
  BY <1>5, <1>7, <1>8 DEF Reads
<1>11. /\ {maps[p].nodes[q][k] : k \in DOMAIN maps[p].nodes[q]} \subseteq DOMAIN dom[p].dmans
       /\ {maps[p].send[q][k] : k \in DOMAIN maps[p].send[q]} \subseteq DOMAIN dom[p].elems
       /\ {maps[p].recv[q][k] : k \in DOMAIN maps[p].recv[q]} \subseteq DOMAIN dom[p].elems
  BY <1>5 DEF Reads
<1>12. {Read(dom[p].dmans, maps[p].nodes[q])[k] : k \in DOMAIN Read(dom[p].dmans, maps[p].nodes[q])}
         = Own(m, w, p) \intersect Own(m, w, q)
  BY <1>5 DEF Reads
<1>13. {Read(dom[p].elems, maps[p].recv[q])[k] : k \in DOMAIN Read(dom[p].elems, maps[p].recv[q])}
         = Mirrored(m, w, p) \intersect Of(w, q)
  BY <1>5 DEF Reads
<1>14. Valid(p, q)
  BY <1>11 DEF Valid
<1>15. PairMatches(p, q)
  BY <1>9, <1>10, <1>12, <1>13 DEF PairMatches
<1>. QED
  BY <1>14, <1>15

-------------------------------------------------------------------------------
(* What holds in every state *)

LEMMA LaidAvailable == LayoutInv => EntitiesAvailable
PROOF
<1>. SUFFICES ASSUME LayoutInv, NEW p \in Proc
              PROVE  pc[p] # "aborted"
  BY DEF EntitiesAvailable
<1>1. PICK m \in Meshes, a \in [Elem -> Proc], b \in [Elem -> Proc] : LayoutOf(m, a, b)
  BY DEF LayoutInv
<1>2. PICK s : s = StateOf(p)
  OBVIOUS
<1>3. s.pc = pc[p]
  BY <1>2 DEF StateOf
<1>4. Laid(p, m, a, b, s)
  BY <1>1, <1>2 DEF LayoutOf
<1>. QED
  BY <1>3, <1>4, LaidGoesOn

LEMMA MapsInit == Init => MapsOfLists
PROOF
<1>. SUFFICES ASSUME Init
              PROVE  ~AllAt("solve")
  BY DEF MapsOfLists
<1>1. pc[0] = "maps" /\ 0 \in Proc
  BY ProcAssumption DEF Init
<1>. QED
  BY <1>1 DEF AllAt

\* What the type invariant says of the counters and the dependencies.
Counted ==
  /\ round \in 0 .. MaxRounds /\ pc = [p \in Proc |-> pc[p]]
  /\ \A p \in Proc : DOMAIN deps[p] \subseteq Elem

LEMMA CountedInit == Init => Counted
PROOF
<1>. SUFFICES ASSUME Init
              PROVE  Counted
  OBVIOUS
<1>1. round = 0 /\ pc = [p \in Proc |-> "maps"] /\ deps = [p \in Proc |-> Empty]
  BY DEF Init
<1>. QED
  BY <1>1, RoundsAssumption, EmptyIs DEF Counted

HasDeps == {"depends", "migrate", "migrating", "commit", "wish", "mirroring", "commitMirrors"}
DepsKnown == \A p \in Proc : pc[p] \in HasDeps => DOMAIN deps[p] \subseteq Elem

LEMMA LaidDeps == LayoutInv => DepsKnown
PROOF
<1>. SUFFICES ASSUME LayoutInv, NEW p \in Proc, pc[p] \in HasDeps
              PROVE  DOMAIN deps[p] \subseteq Elem
  BY DEF DepsKnown
<1>1. PICK m \in Meshes, a \in [Elem -> Proc], b \in [Elem -> Proc] : LayoutOf(m, a, b)
  BY DEF LayoutInv
<1>2. PICK s : s = StateOf(p)
  OBVIOUS
<1>3. s.pc = pc[p] /\ s.deps = deps[p]
  BY <1>2 DEF StateOf
<1>4. Laid(p, m, a, b, s)
  BY <1>1, <1>2 DEF LayoutOf
<1>5. Depending(p, m, a, b, s)
  BY <1>4 DEF Laid
<1>6. s.deps = Dependencies(m, a, b, p, s.got) \/ s.deps = Dependencies(m, a, b, p, Proc)
  BY <1>3, <1>5 DEF Depending, HasDeps
<1>7. \A R : DOMAIN Dependencies(m, a, b, p, R) \subseteq Elem
  BY DEF Dependencies, Of
<1>. QED
  BY <1>3, <1>6, <1>7

LEMMA CountedLocal ==
  ASSUME Counted, DepsKnown', DOMAIN deps = Proc, NEW p \in Proc, LocalStep(p)
  PROVE  Counted'
PROOF
<1>1. ASSUME NEW l, Goto(p, l)
      PROVE  pc' = [q \in Proc |-> pc'[q]] /\ pc'[p] = l
  BY <1>1 DEF Goto, Counted
<1>2. ASSUME UNCHANGED pc
      PROVE  pc' = [q \in Proc |-> pc'[q]]
  BY <1>2 DEF Counted
<1>3. round' = round /\ pc' = [q \in Proc |-> pc'[q]] /\ \A q \in Proc : DOMAIN deps'[q] \subseteq Elem
  <2>1. CASE PackSharedPartitions(p)
    <3>1. Goto(p, "shared") /\ deps' = deps /\ round' = round
      BY <2>1 DEF PackSharedPartitions
    <3>. QED
      BY <1>1, <3>1 DEF Counted
  <2>2. CASE PackDependencies(p)
    <3>1. Goto(p, "depends") /\ round' = round /\ \A q \in Proc \ {p} : deps'[q] = deps[q]
      BY <2>2 DEF PackDependencies
    <3>2. pc'[p] = "depends" /\ pc' = [q \in Proc |-> pc'[q]]
      BY <1>1, <3>1
    <3>3. DOMAIN deps'[p] \subseteq Elem
      BY <3>2 DEF DepsKnown, HasDeps
    <3>. QED
      BY <3>1, <3>2, <3>3 DEF Counted
  <2>3. CASE PackMigrating(p)
    <3>1. Goto(p, "migrating") /\ deps' = deps /\ round' = round
      BY <2>3 DEF PackMigrating
    <3>. QED
      BY <1>1, <3>1 DEF Counted
  <2>4. CASE Commit(p)
    <3>1. (Goto(p, "aborted") \/ Goto(p, "wish")) /\ deps' = deps /\ round' = round
      BY <2>4 DEF Commit
    <3>. QED
      BY <1>1, <3>1 DEF Counted
  <2>5. CASE CommitRemoteElements(p)
    <3>1. (Goto(p, "aborted") \/ Goto(p, "maps")) /\ deps' = [deps EXCEPT ![p] = Empty] /\ round' = round
      BY <2>5 DEF CommitRemoteElements
    <3>2. deps'[p] = Empty /\ \A q \in Proc \ {p} : deps'[q] = deps[q]
      BY <3>1
    <3>. QED
      BY <1>1, <3>1, <3>2, EmptyIs DEF Counted
  <2>6. ASSUME NEW q \in Proc, UnpackSharedPartitions(p, q)
        PROVE  round' = round /\ pc' = [x \in Proc |-> pc'[x]] /\ \A x \in Proc : DOMAIN deps'[x] \subseteq Elem
    <3>1. (UNCHANGED pc \/ Goto(p, "aborted")) /\ deps' = deps /\ round' = round
      BY <2>6 DEF UnpackSharedPartitions
    <3>. QED
      BY <1>1, <1>2, <3>1 DEF Counted
  <2>7. ASSUME NEW q \in Proc, UnpackDependencies(p, q)
        PROVE  round' = round /\ pc' = [x \in Proc |-> pc'[x]] /\ \A x \in Proc : DOMAIN deps'[x] \subseteq Elem
    <3>1. pc' = pc /\ round' = round /\ \A x \in Proc \ {p} : deps'[x] = deps[x]
      BY <2>7 DEF UnpackDependencies
    <3>2. pc'[p] = "depends"
      BY <2>7, <3>1 DEF UnpackDependencies, MayUnpack
    <3>3. DOMAIN deps'[p] \subseteq Elem
      BY <3>2 DEF DepsKnown, HasDeps
    <3>. QED
      BY <1>2, <3>1, <3>3 DEF Counted
  <2>8. ASSUME NEW q \in Proc, UnpackMigrating(p, q)
        PROVE  round' = round /\ pc' = [x \in Proc |-> pc'[x]] /\ \A x \in Proc : DOMAIN deps'[x] \subseteq Elem
    <3>1. (UNCHANGED pc \/ Goto(p, "aborted")) /\ deps' = deps /\ round' = round
      BY <2>8 DEF UnpackMigrating
    <3>. QED
      BY <1>1, <1>2, <3>1 DEF Counted
  <2>9. ASSUME NEW q \in Proc, UnpackRemoteElements(p, q)
        PROVE  round' = round /\ pc' = [x \in Proc |-> pc'[x]] /\ \A x \in Proc : DOMAIN deps'[x] \subseteq Elem
    <3>1. pc' = pc /\ deps' = deps /\ round' = round
      BY <2>9 DEF UnpackRemoteElements
    <3>. QED
      BY <1>2, <3>1 DEF Counted
  <2>. QED
    BY <2>1, <2>2, <2>3, <2>4, <2>5, <2>6, <2>7, <2>8, <2>9 DEF LocalStep
<1>. QED
  BY <1>3 DEF Counted

LEMMA CountedStep ==
  ASSUME Counted, DepsKnown', DOMAIN deps = Proc, [Next]_vars
  PROVE  Counted'
PROOF
<1>1. ASSUME NEW l, AllGoto(l)
      PROVE  pc' = [q \in Proc |-> pc'[q]]
  BY <1>1 DEF AllGoto
<1>2. CASE SetUpMaps
  <2>1. AllGoto("solve") /\ deps' = deps /\ round' = round
    BY <1>2 DEF SetUpMaps
  <2>. QED
    BY <1>1, <2>1 DEF Counted
<1>3. CASE CalculateLoadTransfer
  <2>1. AllGoto("label") /\ deps' = deps /\ round < MaxRounds /\ round' = round + 1
    BY <1>3 DEF CalculateLoadTransfer
  <2>2. round' \in 0 .. MaxRounds
    BY <2>1, RoundsAssumption DEF Counted
  <2>. QED
    BY <1>1, <2>1, <2>2 DEF Counted
<1>4. CASE FinishExchange
  <2>1. (\E l \in DOMAIN After : AllGoto(After[l])) /\ deps' = deps /\ round' = round
    BY <1>4 DEF FinishExchange
  <2>. QED
    BY <1>1, <2>1 DEF Counted
<1>5. CASE PackRemoteElements
  <2>1. AllGoto("mirroring") /\ deps' = deps /\ round' = round
    BY <1>5 DEF PackRemoteElements
  <2>. QED
    BY <1>1, <2>1 DEF Counted
<1>6. CASE \E p \in Proc : LocalStep(p)
  BY <1>6, CountedLocal
<1>7. CASE UNCHANGED vars
  <2>1. pc' = pc /\ deps' = deps /\ round' = round
    BY <1>7 DEF vars
  <2>. QED
    BY <2>1 DEF Counted
<1>. QED
  BY <1>2, <1>3, <1>4, <1>5, <1>6, <1>7 DEF Next

\* Lists and transactions of a process at each of its steps.
LEMMA LaidTyped ==
  ASSUME NEW m \in Meshes, NEW a \in [Elem -> Proc], NEW b \in [Elem -> Proc], NEW p \in Proc,
         NEW s, Laid(p, m, a, b, s)
  PROVE  /\ Labels(s.dom.dmans) \subseteq DOMAIN m.masters /\ Labels(s.dom.elems) \subseteq Elem
         /\ \A i \in DOMAIN s.dom.dmans : s.dom.dmans[i].mode \in {"local", "shared", "null"}
         /\ \A i \in DOMAIN s.dom.elems : s.dom.elems[i].mode \in {"local", "remote"}
         /\ DOMAIN s.trans.dmans \subseteq DOMAIN m.masters /\ DOMAIN s.trans.elems \subseteq Elem
PROOF
<1>1. \A w \in [Elem -> Proc] : /\ Own(m, w, p) \subseteq DOMAIN m.masters /\ AllDofMen(m, w, p) \subseteq DOMAIN m.masters
                                /\ Of(w, p) \subseteq Elem /\ AllElems(m, w, p) \subseteq Elem
                                /\ Mirrored(m, w, p) \subseteq Elem
  BY OwnIs
<1>2. ASSUME NEW D, NEW E, D \subseteq DOMAIN m.masters, E \subseteq Elem, Lists(s.dom, m, D, E)
      PROVE  /\ Labels(s.dom.dmans) \subseteq DOMAIN m.masters /\ Labels(s.dom.elems) \subseteq Elem
             /\ \A i \in DOMAIN s.dom.dmans : s.dom.dmans[i].mode \in {"local", "shared", "null"}
             /\ \A i \in DOMAIN s.dom.elems : s.dom.elems[i].mode \in {"local", "remote"}
  <2>1. PICK d : d = s.dom
    OBVIOUS
  <2>2. Lists(d, m, D, E)
    BY <1>2, <2>1
  <2>3. Labels(d.dmans) = D /\ Labels(d.elems) = E
    BY <2>2 DEF Lists
  <2>4. /\ \A i \in DOMAIN d.dmans : d.dmans[i] \in DofMen(m)
        /\ \A i \in DOMAIN d.elems : d.elems[i] \in Elements
    BY <2>2, ListTyped
  <2>5. /\ \A r \in DofMen(m) : r.mode \in {"local", "shared", "null"}
        /\ \A r \in Elements : r.mode \in {"local", "remote"}
    BY DEF DofMen, Elements
  <2>. QED
    BY <1>2, <2>1, <2>3, <2>4, <2>5
<1>3. DOMAIN NoTransactions.dmans = {} /\ DOMAIN NoTransactions.elems = {}
  BY EmptyIs DEF NoTransactions
<1>4. CASE s.pc \in {"maps", "solve"}
  <2>1. Complete(s.dom, m, b, p) /\ s.trans = NoTransactions
    BY <1>4, LaidQuiet
  <2>2. Lists(s.dom, m, AllDofMen(m, b, p), AllElems(m, b, p))
    BY <2>1 DEF Complete
  <2>. QED
    BY <1>1, <1>2, <1>3, <2>1, <2>2
<1>5. CASE s.pc \in Untouched
  <2>1. Complete(s.dom, m, a, p) /\ s.trans = NoTransactions
    BY <1>5 DEF Laid, Before
  <2>2. Lists(s.dom, m, AllDofMen(m, a, p), AllElems(m, a, p))
    BY <2>1 DEF Complete
  <2>. QED
    BY <1>1, <1>2, <1>3, <2>1, <2>2
<1>6. CASE s.pc \in {"migrating", "commit"}
  <2>1. Moving(p, m, a, b, s)
    BY DEF Laid
  <2>2. Packed(s.dom, m, a, b, p) /\ \E R : Moves(s.trans, m, a, b, p, R)
    BY <1>6, <2>1 DEF Moving
  <2>3. Lists(s.dom, m, AllDofMen(m, a, p), AllElems(m, a, p))
    BY <2>2 DEF Packed
  <2>4. ASSUME NEW t, NEW R, Moves(t, m, a, b, p, R)
        PROVE  DOMAIN t.dmans \subseteq DOMAIN m.masters /\ DOMAIN t.elems \subseteq Elem
    <3>1. /\ DOMAIN t.dmans = (AllDofMen(m, a, p) \ (Own(m, a, p) \intersect Own(m, b, p))) \union ArrivingDofMen(m, a, b, p, R)
          /\ DOMAIN t.elems = (AllElems(m, a, p) \ (Of(a, p) \intersect Of(b, p))) \union ArrivingElems(a, b, p, R)
      BY <2>4 DEF Moves
    <3>2. ArrivingDofMen(m, a, b, p, R) \subseteq Own(m, b, p) /\ ArrivingElems(a, b, p, R) \subseteq Of(b, p)
      BY DEF ArrivingDofMen, ArrivingElems
    <3>. QED
      BY <1>1, <3>1, <3>2
  <2>. QED
    BY <1>1, <1>2, <2>2, <2>3, <2>4
<1>7. CASE s.pc = "wish"
  <2>1. Bare(s.dom, m, b, p) /\ s.trans = NoTransactions
    BY <1>7, LaidWish
  <2>2. Lists(s.dom, m, Own(m, b, p), Of(b, p))
    BY <2>1 DEF Bare
  <2>. QED
    BY <1>1, <1>2, <1>3, <2>1, <2>2
<1>8. CASE s.pc \in {"mirroring", "commitMirrors"}
  <2>1. Mirroring(p, m, b, s)
    BY DEF Laid
  <2>2. Bare(s.dom, m, b, p) /\ \E R : Borrows(s.trans, m, b, p, R)
    BY <1>8, <2>1 DEF Mirroring
  <2>3. Lists(s.dom, m, Own(m, b, p), Of(b, p))
    BY <2>2 DEF Bare
  <2>4. ASSUME NEW t, NEW R, Borrows(t, m, b, p, R)
        PROVE  DOMAIN t.dmans \subseteq DOMAIN m.masters /\ DOMAIN t.elems \subseteq Elem
    <3>1. DOMAIN t.dmans = NeededBy(m, Borrowed(m, b, p, R)) \ Own(m, b, p) /\ DOMAIN t.elems = Borrowed(m, b, p, R)
      BY <2>4 DEF Borrows
    <3>2. Borrowed(m, b, p, R) \subseteq Mirrored(m, b, p)
      BY DEF Borrowed
    <3>3. NeededBy(m, Borrowed(m, b, p, R)) \subseteq AllDofMen(m, b, p)
      BY <3>2 DEF NeededBy, AllDofMen
    <3>. QED
      BY <1>1, <3>1, <3>2, <3>3
  <2>. QED
    BY <1>1, <1>2, <2>2, <2>3, <2>4
<1>9. s.pc \in Steps \ {"aborted"}
  BY LaidGoesOn
<1>10. Steps \ {"aborted"} = {"maps", "solve", "wish", "migrating", "commit", "mirroring", "commitMirrors"} \union Untouched
  BY DEF Steps, After, Untouched
<1>. QED
  BY <1>4, <1>5, <1>6, <1>7, <1>8, <1>9, <1>10

LEMMA LaidTypeOK == LayoutInv /\ Counted /\ TypeInv => TypeOK
PROOF
<1>. SUFFICES ASSUME LayoutInv, Counted, TypeInv
              PROVE  TypeOK
  OBVIOUS
<1>1. PICK m \in Meshes, a \in [Elem -> Proc], b \in [Elem -> Proc] : LayoutOf(m, a, b)
  BY DEF LayoutInv
<1>2. mesh = m /\ plan = b
  BY <1>1 DEF LayoutOf
<1>3. ASSUME NEW p \in Proc
      PROVE  /\ pc[p] \in Steps
             /\ Labels(dom[p].dmans) \subseteq DofManagers /\ Labels(dom[p].elems) \subseteq Elem
             /\ \A i \in DOMAIN dom[p].dmans : dom[p].dmans[i].mode \in {"local", "shared", "null"}
             /\ \A i \in DOMAIN dom[p].elems : dom[p].elems[i].mode \in {"local", "remote"}
             /\ DOMAIN trans[p].dmans \subseteq DofManagers /\ DOMAIN trans[p].elems \subseteq Elem
  <2>1. PICK s : s = StateOf(p)
    OBVIOUS
  <2>2. s.pc = pc[p] /\ s.dom = dom[p] /\ s.trans = trans[p]
    BY <2>1 DEF StateOf
  <2>3. Laid(p, m, a, b, s)
    BY <1>1, <2>1 DEF LayoutOf
  <2>4. s.pc \in Steps
    BY <2>3, LaidGoesOn
  <2>5. /\ Labels(s.dom.dmans) \subseteq DOMAIN m.masters /\ Labels(s.dom.elems) \subseteq Elem
        /\ \A i \in DOMAIN s.dom.dmans : s.dom.dmans[i].mode \in {"local", "shared", "null"}
        /\ \A i \in DOMAIN s.dom.elems : s.dom.elems[i].mode \in {"local", "remote"}
        /\ DOMAIN s.trans.dmans \subseteq DOMAIN m.masters /\ DOMAIN s.trans.elems \subseteq Elem
    BY <2>3, LaidTyped
  <2>. QED
    BY <1>2, <2>2, <2>4, <2>5 DEF DofManagers
<1>4. pc \in [Proc -> Steps]
  BY <1>3 DEF Counted
<1>5. got \in [Proc -> SUBSET Proc] /\ plan \in [Elem -> Proc]
  BY DEF TypeInv
<1>. QED
  BY <1>2, <1>3, <1>4, <1>5 DEF TypeOK, Counted

LayoutStays ==
  /\ MastersPrimary /\ MirrorsPrimary
  /\ LayoutInv /\ MapsOfLists /\ MigrationInv /\ Counted

LEMMA LayoutStaysInit == MastersPrimary /\ MirrorsPrimary /\ Init => LayoutStays
PROOF BY LayoutInit, MapsInit, PlacedInit, CountedInit DEF LayoutStays

LEMMA LayoutStaysStep == LayoutStays /\ [Next]_vars => LayoutStays'
PROOF
<1>. SUFFICES ASSUME LayoutStays, [Next]_vars
              PROVE  LayoutStays'
  OBVIOUS
<1>1. MastersPrimary' /\ MirrorsPrimary'
  BY DEF LayoutStays, MastersPrimary, MirrorsPrimary
<1>2. LayoutInv'
  BY LayoutStep DEF LayoutStays
<1>3. MapsOfLists'
  BY MapsStep DEF LayoutStays
<1>4. EntitiesAvailable'
  BY <1>2, LaidAvailable, PTL
<1>5. MigrationInv'
  BY <1>4, MigrationStep DEF LayoutStays
<1>6. Counted'
  <2>1. DepsKnown'
    BY <1>2, LaidDeps, PTL
  <2>2. DOMAIN deps = Proc
    BY DEF LayoutStays, LayoutInv, LayoutOf, Indexed
  <2>. QED
    BY <2>1, <2>2, CountedStep DEF LayoutStays
<1>. QED
  BY <1>1, <1>2, <1>3, <1>5, <1>6 DEF LayoutStays

LEMMA LayoutHolds == MastersPrimary /\ MirrorsPrimary /\ Spec => []LayoutStays
PROOF BY LayoutStaysInit, LayoutStaysStep, PTL DEF Spec

\* In every migration that meets no error each element has exactly one working copy, whatever
\* the mesh, the partitionings and the order in which messages are taken.
THEOREM NoElementLost == Spec /\ []EntitiesAvailable => []ElementsOnce
PROOF
<1>1. Spec /\ []EntitiesAvailable => []MigrationInv
  BY PlacedInit, MigrationStep, PTL DEF Spec
<1>. QED
  BY <1>1, OneCopy, PTL

\* No migration meets an error: what the messages and open transactions name is there when
\* it is looked up (unpackSharedDmanPartitions, commitTransactions, fastRebuildNonlocalTables).
THEOREM AlwaysAvailable == MastersPrimary /\ MirrorsPrimary /\ Spec => []EntitiesAvailable
PROOF
<1>1. LayoutStays => EntitiesAvailable
  BY LaidAvailable DEF LayoutStays
<1>. QED
  BY <1>1, LayoutHolds, PTL

\* So each element has exactly one working copy in all states, nothing else assumed
\* (migrateLoad with commitTransactions).
THEOREM AlwaysOnce == MastersPrimary /\ MirrorsPrimary /\ Spec => []ElementsOnce
PROOF
<1>1. LayoutStays => ElementsOnce
  BY OneCopy DEF LayoutStays
<1>. QED
  BY <1>1, LayoutHolds, PTL

\* After every migration elements are where they were planned to be, and all partition lists
\* of a dof manager agree (labelDofManagers, deleteRemoteDofManagers).
THEOREM ListsAlwaysExact == MastersPrimary /\ MirrorsPrimary /\ Spec => []ListsExact
PROOF
<1>1. LayoutStays => ListsExact
  BY ListsAgree DEF LayoutStays
<1>. QED
  BY <1>1, LayoutHolds, PTL

\* After every migration local numbers lead to the dof managers of the mesh
\* (renumberDofManData, renumberElementData).
THEOREM NumbersAlwaysRight == MastersPrimary /\ MirrorsPrimary /\ Spec => []NumbersRight
PROOF
<1>1. LayoutStays => NumbersRight
  BY NumbersAgree DEF LayoutStays
<1>. QED
  BY <1>1, LayoutHolds, PTL

\* After every migration processes hold exactly the mirrors their averages need, with no more
\* than their nodes (NonlocalMaterialWTP).
THEOREM MirrorsAlwaysExact == MastersPrimary /\ MirrorsPrimary /\ Spec => []MirrorsExact
PROOF
<1>1. LayoutStays => MirrorsExact
  BY MirrorsAgree DEF LayoutStays
<1>. QED
  BY <1>1, LayoutHolds, PTL

\* Whenever the solution goes on, both ends of a communication map list the same entities in
\* the same order, each in its own numbers (NodeCommunicator, ElementCommunicator).
THEOREM MapsAlwaysMatch == MastersPrimary /\ MirrorsPrimary /\ Spec => []MapsMatch
PROOF
<1>1. LayoutStays => MapsMatch
  BY MapsAgree DEF LayoutStays
<1>. QED
  BY <1>1, LayoutHolds, PTL

\* Type correctness of the lists, transactions and counters in all states.
THEOREM MigrationTypeCorrect == MastersPrimary /\ MirrorsPrimary /\ Spec => []TypeOK
PROOF
<1>1. LayoutStays => TypeOK
  BY LaidTypeOK DEF LayoutStays, MigrationInv
<1>. QED
  BY <1>1, LayoutHolds, PTL
===============================================================================
