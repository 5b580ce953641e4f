------------------------- MODULE GlobalOrderingProofs -------------------------
(***************************************************************************)
(* For every number of processes, every mesh and every partitioning by     *)
(* node cut: processes that share a dof manager agree on the global        *)
(* numbers of its equations, the numbers in use are those of the rows,     *)
(* local and global numbers fit, and norms count every equation once.      *)
(* Nothing is assumed of when MPI reads a message: a copy that was read    *)
(* from a deleted send buffer has garbage in it, any other has the owner's *)
(* number, and the owner's own number is never garbage.                    *)
(***************************************************************************)
EXTENDS GlobalOrdering, FiniteSetTheorems, WellFoundedInduction, TLAPS

\* The number that q, the owner of equation e, gives it.
Num(e, q) == Offset(q) + Position(e, EqsOf(Owned(q)))

Early == {"count", "number"}
Unsent == {"count", "number", "send"}

TypeInv ==
  /\ sharers \in [Node -> (SUBSET Rank) \ {{}}]
  /\ pc \in [Rank -> States]
  /\ \A p \in Rank : locGlob[p] = [e \in EqsOf(Held(p)) |-> locGlob[p][e]]
  /\ locGlob = [p \in Rank |-> locGlob[p]]
  /\ posted \in [Rank -> SUBSET Rank]
  /\ received \in [Rank -> SUBSET Rank]
  /\ message = [p \in Rank |-> message[p]]
  /\ \A p \in Rank : message[p] = [q \in Rank |-> message[p][q]]

\* Once somebody has numbered, everybody has counted: offsets do not change any more.
CountedInv == \A p, q \in Rank : pc[p] \notin Early => pc[q] # "count"

\* A process that has numbered keeps the numbers of the equations it owns.
OwnInv ==
  \A p \in Rank : pc[p] \notin Early =>
    \A e \in EqsOf(Owned(p)) : locGlob[p][e] = Num(e, p)

\* A message holds the owner's numbers of exactly the equations the receiver shares.
MessageInv ==
  \A p, q \in Rank : p \in posted[q] =>
    /\ p # q /\ pc[q] \notin Unsent
    /\ DOMAIN message[q][p] = EqsOf(SentNodes(q, p))
    /\ \A e \in EqsOf(SentNodes(q, p)) : message[q][p][e] = Num(e, q)

\* What p has received from q, it still has: the owner's numbers or garbage.
ReceivedInv ==
  \A p, q \in Rank : q \in received[p] =>
    /\ pc[p] \notin Unsent /\ pc[q] \notin Early
    /\ \A e \in EqsOf(Held(p)) : e[1] \in Owned(q) => locGlob[p][e] \in {Num(e, q), Garbage}

\* A process passes the receive loop only with all messages.
CompleteInv == \A p \in Rank : Ordered(p) => Rank \ {p} \subseteq received[p]

OrderingInv == TypeInv /\ CountedInv /\ OwnInv /\ MessageInv /\ ReceivedInv /\ CompleteInv
-------------------------------------------------------------------------------
(* Equations and owners *)

\* An equation belongs to one dof manager, whichever set it is looked up in.
LEMMA EquationOfNode ==
  ASSUME NEW N, NEW e \in EqsOf(N)
  PROVE  /\ e[1] \in N
         /\ \A M : e \in EqsOf(M) <=> e[1] \in M
BY DEF EqsOf, Eqs

\* A non-empty set of ranks has a lowest one: the one with the fewest ranks below it.
LEMMA LowestRank ==
  ASSUME NEW S, S \subseteq Rank, S # {}
  PROVE  \E r \in S : \A q \in S : r <= q
<1> DEFINE Below(r) == {q \in S : q < r}
           B == {Below(r) : r \in S}
<1>1. S \subseteq Nat /\ IsFiniteSet(S)
  BY RankAssumption, FS_Subset
<1>2. \A r \in S : Below(r) \in SUBSET S /\ IsFiniteSet(Below(r))
  BY <1>1, FS_Subset
<1>3. B \subseteq FiniteSubsetsOf(S) /\ B # {}
  BY <1>2 DEF FiniteSubsetsOf
<1>4. IsWellFoundedOn(StrictSubsetOrdering(S), FiniteSubsetsOf(S))
  BY FS_StrictSubsetOrderingWellFounded
<1>5. PICK L \in B : \A M \in B : ~(<<M, L>> \in StrictSubsetOrdering(S))
  <2> HIDE DEF B
  <2> QED BY <1>3, <1>4, WFMin
<1>6. PICK r \in S : L = Below(r)
  OBVIOUS
<1>7. ASSUME NEW q \in S, q < r
      PROVE  FALSE
  <2>1. q \in Nat /\ r \in Nat /\ \A x \in S : x \in Nat
    BY <1>1, <1>6, <1>7
  <2>2. q \in Below(r) /\ q \notin Below(q)
    BY <1>7, <2>1
  <2>3. \A x \in S : x < q => x < r
    BY <1>7, <2>1
  <2>4. Below(q) \subseteq Below(r)
    BY <2>3
  <2>5. <<Below(q), Below(r)>> \in StrictSubsetOrdering(S)
    <3> HIDE DEF Below
    <3> QED BY <1>2, <1>7, <2>2, <2>4 DEF StrictSubsetOrdering
  <2>6. Below(q) \in B
    BY <1>7
  <2>7. QED
    BY <1>5, <1>6, <2>5, <2>6
<1>8. QED
  BY <1>1, <1>7

\* Two processes never both answer for a dof manager.
LEMMA OneOwner ==
  ASSUME TypeInv, NEW p \in Rank, NEW q \in Rank, NEW n \in Owned(p), n \in Owned(q)
  PROVE  p = q
<1>1. p \in sharers[n] /\ q \in sharers[n] /\ p <= q /\ q <= p
  BY DEF Owned, Held
<1>2. QED
  BY <1>1, RankAssumption

\* Every dof manager somebody holds is answered for by a process that holds it.
LEMMA SomeOwner ==
  ASSUME TypeInv, NEW p \in Rank, NEW n \in Held(p)
  PROVE  \E r \in Rank : n \in Owned(r)
<1>1. sharers[n] \subseteq Rank /\ sharers[n] # {} /\ n \in Node
  BY DEF TypeInv, Held
<1>2. PICK r \in sharers[n] : \A q \in sharers[n] : r <= q
  BY <1>1, LowestRank
<1>3. QED
  BY <1>1, <1>2 DEF Owned, Held

\* The dof managers a process numbers are those it owns.
LEMMA NumberedIsOwned ==
  ASSUME TypeInv, NEW p \in Rank
  PROVE  NumberedBy(p) = Owned(p)
<1>1. \A n \in Held(p) \ Shared(p) : sharers[n] = {p}
  BY DEF Shared
<1>2. p <= p
  BY RankAssumption
<1>3. QED
  BY <1>1, <1>2 DEF NumberedBy, Owned, Held
-------------------------------------------------------------------------------
(* The invariant *)

\* Initially nothing is numbered, sent or received.
LEMMA InitOrdering == Init => OrderingInv
BY DEF Init, OrderingInv, TypeInv, CountedInv, OwnInv, MessageInv, ReceivedInv, CompleteInv,
       Early, Unsent, States, Ordered

\* The partitioning never changes, nor do the sets derived from it.
LEMMA SameMesh ==
  ASSUME sharers' = sharers
  PROVE  /\ \A N : EqsOf(N)' = EqsOf(N)
         /\ \A p : Held(p)' = Held(p) /\ Owned(p)' = Owned(p)
         /\ \A p, q : SentNodes(p, q)' = SentNodes(p, q)
<1>1. \A N : EqsOf(N)' = EqsOf(N)
  BY DEF EqsOf, Eqs
<1>2. \A p : Held(p)' = Held(p)
  BY DEF Held
<1>3. \A p : Owned(p)' = Owned(p) /\ Shared(p)' = Shared(p)
  BY <1>2 DEF Owned, Shared
<1>4. \A p, q : SentNodes(p, q)' = SentNodes(p, q)
  BY <1>3 DEF SentNodes
<1>5. QED
  BY <1>1, <1>2, <1>3, <1>4

\* Once the counts stay as they are, the numbers an owner gives do not change.
LEMMA SameNum ==
  ASSUME sharers' = sharers, lneqs' = lneqs
  PROVE  \A e, q : Num(e, q)' = Num(e, q)
BY SameMesh DEF Num, Offset, Position, Before

\* Nobody has counted or numbered before the step, so nothing is claimed yet.
LEMMA CountStep ==
  ASSUME OrderingInv, NEW p \in Rank, Count(p)
  PROVE  OrderingInv'
<1> USE DEF Early, Unsent
<1>1. /\ sharers' = sharers /\ locGlob' = locGlob /\ posted' = posted
      /\ received' = received /\ message' = message
  BY DEF Count
<1>2. pc[p] = "count" /\ pc' = [pc EXCEPT ![p] = "number"]
  BY DEF Count, Goto
<1>3. \A q \in Rank : pc[q] \in Early
  BY <1>2 DEF OrderingInv, CountedInv, TypeInv
<1>4. \A q \in Rank : pc'[q] \in Early
  BY <1>2, <1>3 DEF OrderingInv, TypeInv
<1>5. \A q, r \in Rank : r \notin posted[q] /\ r \notin received[q]
  BY <1>3 DEF OrderingInv, MessageInv, ReceivedInv
<1>6. TypeInv'
  BY <1>1, <1>2, SameMesh DEF OrderingInv, TypeInv, States
<1>7. QED
  BY <1>1, <1>4, <1>5, <1>6
  DEF OrderingInv, TypeInv, CountedInv, OwnInv, MessageInv, ReceivedInv, CompleteInv, Ordered

\* p gets the numbers of the equations it owns; it has received nothing so far.
LEMMA NumberStep ==
  ASSUME OrderingInv, NEW p \in Rank, Number(p)
  PROVE  OrderingInv'
<1> USE DEF Early, Unsent, OrderingInv
<1>1. /\ sharers' = sharers /\ lneqs' = lneqs /\ posted' = posted
      /\ received' = received /\ message' = message
  BY DEF Number
<1>2. pc[p] = "number" /\ pc' = [pc EXCEPT ![p] = "send"] /\ \A q \in Rank : pc[q] # "count"
  BY DEF Number, Goto
<1>3. locGlob' = [locGlob EXCEPT ![p] =
                    [e \in EqsOf(Held(p)) |-> IF e \in EqsOf(Owned(p)) THEN Num(e, p) ELSE locGlob[p][e]]]
  <2>1. DOMAIN locGlob[p] = EqsOf(Held(p))
    BY DEF TypeInv
  <2>2. QED
    BY <2>1, NumberedIsOwned DEF Number, Num
<1>4. \A e \in EqsOf(Owned(p)) : e \in EqsOf(Held(p))
  BY DEF EqsOf, Owned
<1>5. \A q \in Rank : q # p => locGlob'[q] = locGlob[q]
  BY <1>3 DEF TypeInv
<1>6. locGlob'[p] = [e \in EqsOf(Held(p)) |-> IF e \in EqsOf(Owned(p)) THEN Num(e, p) ELSE locGlob[p][e]]
  BY <1>3 DEF TypeInv
<1>7. \A q \in Rank : q # p => pc'[q] = pc[q]
  BY <1>2 DEF TypeInv
<1>8. pc'[p] = "send"
  BY <1>2 DEF TypeInv
<1>9. TypeInv'
  <2>1. locGlob' = [q \in Rank |-> locGlob'[q]]
    BY <1>3 DEF TypeInv
  <2>2. \A q \in Rank : locGlob'[q] = [e \in EqsOf(Held(q)) |-> locGlob'[q][e]]
    <3>1. locGlob'[p] = [e \in EqsOf(Held(p)) |-> locGlob'[p][e]]
      BY <1>6
    <3>2. QED
      BY <1>5, <3>1 DEF TypeInv
  <2>3. pc' \in [Rank -> States]
    BY <1>2 DEF TypeInv, States
  <2>4. QED
    BY <1>1, <2>1, <2>2, <2>3, SameMesh DEF TypeInv
<1>10. CountedInv'
  BY <1>2, <1>7, <1>8 DEF CountedInv
<1>11. OwnInv'
  BY <1>1, <1>4, <1>5, <1>6, <1>7, SameMesh, SameNum DEF OwnInv
<1>12. MessageInv'
  BY <1>1, <1>2, <1>7, SameMesh, SameNum DEF MessageInv
<1>13. ReceivedInv'
  <2>1. \A q \in Rank : q \notin received[p]
    BY <1>2 DEF ReceivedInv
  <2>2. QED
    BY <1>1, <1>5, <1>7, <1>8, <2>1, SameMesh, SameNum DEF ReceivedInv
<1>14. CompleteInv'
  BY <1>1, <1>7, <1>8 DEF CompleteInv, Ordered
<1>15. QED
  BY <1>9, <1>10, <1>11, <1>12, <1>13, <1>14

\* The messages p sends hold the numbers it has given to its own equations.
LEMMA SendStep ==
  ASSUME OrderingInv, NEW p \in Rank, Send(p)
  PROVE  OrderingInv'
<1> USE DEF Early, Unsent, OrderingInv
<1>1. sharers' = sharers /\ lneqs' = lneqs /\ locGlob' = locGlob /\ received' = received
  BY DEF Send
<1>2. pc[p] = "send" /\ pc' = [pc EXCEPT ![p] = "receive"]
  BY DEF Send, Goto
<1>3. \A q \in Rank : pc'[q] = IF q = p THEN "receive" ELSE pc[q]
  BY <1>2 DEF TypeInv
<1>4. \A q \in Rank : posted'[q] = IF q = p THEN Rank \ {p} ELSE posted[q]
  BY DEF Send, Receivers, TypeInv
<1>5. \A q \in Rank : q # p => message'[q] = message[q]
  BY DEF Send, TypeInv
<1>6. \A q \in Rank : message'[p][q] = [e \in EqsOf(SentNodes(p, q)) |-> locGlob[p][e]]
  BY DEF Send, TypeInv
<1>7. \A q \in Rank : \A e \in EqsOf(SentNodes(p, q)) : locGlob[p][e] = Num(e, p)
  <2>1. \A q : \A e \in EqsOf(SentNodes(p, q)) : e \in EqsOf(Owned(p))
    BY DEF EqsOf, SentNodes
  <2>2. QED
    BY <1>2, <2>1 DEF OwnInv
<1>8. TypeInv'
  <2>1. message' = [q \in Rank |-> message'[q]]
    BY DEF Send, TypeInv
  <2>2. \A q \in Rank : message'[q] = [r \in Rank |-> message'[q][r]]
    <3>1. message'[p] = [r \in Rank |-> message'[p][r]]
      BY DEF Send, TypeInv
    <3>2. QED
      BY <1>5, <3>1 DEF TypeInv
  <2>3. pc' \in [Rank -> States] /\ posted' \in [Rank -> SUBSET Rank]
    BY <1>2 DEF TypeInv, States, Send, Receivers
  <2>4. QED
    BY <1>1, <2>1, <2>2, <2>3, SameMesh DEF TypeInv
<1>9. CountedInv'
  BY <1>2, <1>3 DEF CountedInv
<1>10. OwnInv'
  BY <1>1, <1>2, <1>3, SameMesh, SameNum DEF OwnInv
<1>11. MessageInv'
  <2> SUFFICES ASSUME NEW q \in Rank, NEW r \in Rank, q \in posted'[r]
               PROVE  /\ q # r /\ pc'[r] \notin Unsent
                      /\ DOMAIN message'[r][q] = EqsOf(SentNodes(r, q))
                      /\ \A e \in EqsOf(SentNodes(r, q)) : message'[r][q][e] = Num(e, r)
    BY <1>1, SameMesh, SameNum DEF MessageInv
  <2>1. CASE r = p
    <3>1. q # p /\ pc'[p] = "receive"
      BY <1>3, <1>4, <2>1
    <3>2. message'[p][q] = [e \in EqsOf(SentNodes(p, q)) |-> locGlob[p][e]]
      BY <1>6
    <3>3. \A e \in EqsOf(SentNodes(p, q)) : message'[p][q][e] = Num(e, p)
      BY <1>7, <3>2
    <3>4. QED
      BY <2>1, <3>1, <3>2, <3>3
  <2>2. CASE r # p
    BY <1>3, <1>4, <1>5, <2>2 DEF MessageInv
  <2>3. QED
    BY <2>1, <2>2
<1>12. ReceivedInv'
  BY <1>1, <1>2, <1>3, SameMesh, SameNum DEF ReceivedInv
<1>13. CompleteInv'
  BY <1>1, <1>3 DEF CompleteInv, Ordered
<1>14. QED
  BY <1>8, <1>9, <1>10, <1>11, <1>12, <1>13
\* The numbers from q reach exactly the equations that q owns and p holds; what p had
\* from itself and from others is about other equations.
LEMMA ReceiveStep ==
  ASSUME OrderingInv, NEW p \in Rank, NEW q \in Rank, Receive(p, q)
  PROVE  OrderingInv'
<1> USE DEF Early, Unsent, OrderingInv
<1>1. sharers' = sharers /\ lneqs' = lneqs /\ posted' = posted /\ pc' = pc /\ message' = message
  BY DEF Receive
<1>2. pc[p] = "receive" /\ p \in posted[q] /\ p # q
  BY DEF Receive
<1>3. PICK new : /\ DOMAIN new = EqsOf(SentNodes(q, p))
                 /\ \A e \in EqsOf(SentNodes(q, p)) : new[e] \in {Num(e, q), Garbage}
                 /\ locGlob' = [locGlob EXCEPT ![p] = Merge(locGlob[p], new)]
  <2> DEFINE garbled == [e \in DOMAIN message[q][p] |-> Garbage]
  <2>1. DOMAIN message[q][p] = EqsOf(SentNodes(q, p))
        /\ \A e \in EqsOf(SentNodes(q, p)) : message[q][p][e] = Num(e, q)
    BY <1>2 DEF MessageInv
  <2>2. CASE locGlob' = [locGlob EXCEPT ![p] = Merge(locGlob[p], message[q][p])]
    BY <2>1, <2>2
  <2>3. CASE locGlob' = [locGlob EXCEPT ![p] = Merge(locGlob[p], garbled)]
    <3>1. DOMAIN garbled = EqsOf(SentNodes(q, p))
          /\ \A e \in EqsOf(SentNodes(q, p)) : garbled[e] = Garbage
      BY <2>1
    <3> HIDE DEF garbled
    <3>2. QED
      BY <2>3, <3>1
  <2>4. QED
    BY <2>2, <2>3 DEF Receive
<1>4. \A r \in Rank : received'[r] = IF r = p THEN received[p] \union {q} ELSE received[r]
  BY DEF Receive, TypeInv
<1>5. \A r \in Rank : r # p => locGlob'[r] = locGlob[r]
  BY <1>3 DEF TypeInv
<1>6. locGlob'[p] = [e \in EqsOf(Held(p)) |->
                       IF e \in EqsOf(SentNodes(q, p)) THEN new[e] ELSE locGlob[p][e]]
  <2>1. DOMAIN locGlob[p] = EqsOf(Held(p))
    BY DEF TypeInv
  <2>2. locGlob'[p] = Merge(locGlob[p], new)
    BY <1>3 DEF TypeInv
  <2>3. QED
    BY <1>3, <2>1, <2>2 DEF Merge
<1>7. \A e \in EqsOf(Held(p)), r \in Rank : e[1] \in Owned(r) =>
        IF e \in EqsOf(SentNodes(q, p)) THEN r = q /\ locGlob'[p][e] \in {Num(e, r), Garbage}
                                       ELSE locGlob'[p][e] = locGlob[p][e]
  <2> SUFFICES ASSUME NEW e \in EqsOf(Held(p)), NEW r \in Rank, e[1] \in Owned(r),
                      e \in EqsOf(SentNodes(q, p))
               PROVE  r = q
    BY <1>3, <1>6
  <2>1. e[1] \in Owned(q)
    BY EquationOfNode DEF SentNodes
  <2>2. QED
    BY <2>1, OneOwner
<1>8. \A e \in EqsOf(Held(p)) : e[1] \in Owned(q) => e \in EqsOf(SentNodes(q, p))
  <2> SUFFICES ASSUME NEW e \in EqsOf(Held(p)), e[1] \in Owned(q)
               PROVE  e[1] \in SentNodes(q, p)
    BY EquationOfNode
  <2>1. e[1] \in Held(p)
    BY EquationOfNode
  <2>2. e[1] \in Held(q) /\ p \in sharers[e[1]] /\ q \in sharers[e[1]]
    BY <2>1 DEF Owned, Held
  <2>3. QED
    BY <1>2, <2>2 DEF SentNodes, Shared
<1>9. TypeInv'
  <2>1. locGlob' = [r \in Rank |-> locGlob'[r]]
    BY <1>3 DEF TypeInv
  <2>2. \A r \in Rank : locGlob'[r] = [e \in EqsOf(Held(r)) |-> locGlob'[r][e]]
    <3>1. locGlob'[p] = [e \in EqsOf(Held(p)) |-> locGlob'[p][e]]
      BY <1>6
    <3>2. QED
      BY <1>5, <3>1 DEF TypeInv
  <2>3. received' \in [Rank -> SUBSET Rank]
    BY DEF Receive, TypeInv
  <2>4. QED
    BY <1>1, <2>1, <2>2, <2>3, SameMesh DEF TypeInv
<1>10. CountedInv'
  BY <1>1 DEF CountedInv
<1>11. OwnInv'
  <2> SUFFICES ASSUME NEW r \in Rank, pc[r] \notin Early, NEW e \in EqsOf(Owned(r))
               PROVE  locGlob'[r][e] = Num(e, r)
    BY <1>1, SameMesh, SameNum DEF OwnInv
  <2>1. locGlob[r][e] = Num(e, r)
    BY DEF OwnInv
  <2>2. e \in EqsOf(Held(r)) /\ e[1] \in Owned(r)
    BY EquationOfNode DEF Owned
  <2>3. QED
    BY <1>2, <1>5, <1>7, <2>1, <2>2
<1>12. MessageInv'
  BY <1>1, SameMesh, SameNum DEF MessageInv
<1>13. ReceivedInv'
  <2> SUFFICES ASSUME NEW r \in Rank, NEW t \in Rank, t \in received'[r]
               PROVE  /\ pc[r] \notin Unsent /\ pc[t] \notin Early
                      /\ \A e \in EqsOf(Held(r)) : e[1] \in Owned(t) => locGlob'[r][e] \in {Num(e, t), Garbage}
    BY <1>1, SameMesh, SameNum DEF ReceivedInv
  <2>1. CASE t \in received[r]
    <3>1. pc[r] \notin Unsent /\ pc[t] \notin Early
      BY <2>1 DEF ReceivedInv
    <3>2. \A e \in EqsOf(Held(r)) : e[1] \in Owned(t) => locGlob[r][e] \in {Num(e, t), Garbage}
      BY <2>1 DEF ReceivedInv
    <3>3. QED
      BY <1>5, <1>7, <3>1, <3>2
  <2>2. CASE t \notin received[r]
    <3>1. r = p /\ t = q
      BY <1>4, <2>2
    <3>2. pc[r] \notin Unsent /\ pc[t] \notin Early
      BY <1>2, <3>1 DEF MessageInv
    <3>3. QED
      BY <1>7, <1>8, <3>1, <3>2
  <2>3. QED
    BY <2>1, <2>2
<1>14. CompleteInv'
  BY <1>1, <1>2, <1>4 DEF CompleteInv, Ordered
<1>15. QED
  BY <1>9, <1>10, <1>11, <1>12, <1>13, <1>14

\* The remaining steps, and stuttering, change no number.
LEMMA QuietStep ==
  ASSUME OrderingInv,
         \/ \E p \in Rank : Delete(p) \/ LeaveBarrier(p) \/ InitLocal(p)
         \/ UNCHANGED vars
  PROVE  OrderingInv'
<1> USE DEF Early, Unsent, OrderingInv
<1>1. /\ sharers' = sharers /\ lneqs' = lneqs /\ posted' = posted /\ message' = message
      /\ locGlob' = locGlob /\ received' = received
  BY DEF Delete, LeaveBarrier, InitLocal, vars
<1>2. \A r \in Rank : pc'[r] = pc[r] \/ (pc[r] \notin Unsent /\ pc'[r] \in {"barrier", "local", "done"}
                                          /\ Rank \ {r} \subseteq received[r])
  BY DEF Delete, LeaveBarrier, InitLocal, vars, Goto, TypeInv, CompleteInv, Ordered
<1>3. pc' \in [Rank -> States]
  BY DEF Delete, LeaveBarrier, InitLocal, vars, Goto, TypeInv, States
<1>4. TypeInv'
  BY <1>1, <1>3, SameMesh DEF TypeInv
<1>5. CountedInv'
  BY <1>2 DEF CountedInv
<1>6. OwnInv' /\ MessageInv'
  BY <1>1, <1>2, SameMesh, SameNum DEF OwnInv, MessageInv
<1>7. ReceivedInv'
  BY <1>1, <1>2, SameMesh, SameNum DEF ReceivedInv
<1>8. CompleteInv'
  BY <1>1, <1>2 DEF CompleteInv, Ordered
<1>9. QED
  BY <1>4, <1>5, <1>6, <1>7, <1>8

\* The parts of OrderingInv hold together, step by step.
LEMMA OrderingInvariant == Spec => []OrderingInv
<1>1. Init => OrderingInv
  BY InitOrdering
<1>2. OrderingInv /\ [Next]_vars => OrderingInv'
  BY CountStep, NumberStep, SendStep, ReceiveStep, QuietStep DEF Next, Process
<1>3. QED
  BY <1>1, <1>2, PTL DEF Spec
-------------------------------------------------------------------------------
(* What the invariant gives *)

\* A process that has completed its map has the owner's number for every equation
\* that it owns or whose number it has not read from a deleted buffer.
LEMMA OwnersNumber ==
  ASSUME OrderingInv, NEW p \in Rank, Ordered(p), NEW e \in EqsOf(Held(p)),
         NEW r \in Rank, e[1] \in Owned(r), p = r \/ Known(p, e)
  PROVE  locGlob[p][e] = Num(e, r)
<1>1. CASE r = p
  BY <1>1, EquationOfNode DEF OrderingInv, OwnInv, Ordered, Early
<1>2. CASE r # p
  BY <1>2 DEF OrderingInv, CompleteInv, ReceivedInv, Known
<1>3. QED
  BY <1>1, <1>2

\* Natural2GlobalOrdering: processes that share a dof manager agree on the numbers
\* of its equations, unless one of them read the number from a deleted buffer.
THEOREM SharersAlwaysAgree == Spec => []SharersAgree
<1>1. OrderingInv => SharersAgree
  <2> SUFFICES ASSUME OrderingInv, NEW p \in Rank, NEW q \in Rank, Ordered(p), Ordered(q),
                      NEW e \in KnownEqs(p) \cap KnownEqs(q)
               PROVE  locGlob[p][e] = locGlob[q][e]
    BY DEF SharersAgree
  <2>1. e \in EqsOf(Held(p)) /\ e \in EqsOf(Held(q)) /\ e[1] \in Held(p) /\ Known(p, e) /\ Known(q, e)
    BY EquationOfNode DEF KnownEqs
  <2>2. PICK r \in Rank : e[1] \in Owned(r)
    BY <2>1, SomeOwner DEF OrderingInv
  <2>3. QED
    BY <2>1, <2>2, OwnersNumber
<1>2. QED
  BY <1>1, OrderingInvariant, PTL
-------------------------------------------------------------------------------
(* Uniqueness: the numbers of one process are different because positions are, *)
(* those of different processes because their blocks do not overlap.           *)

\* The set of a mesh's equations is finite.
LEMMA FiniteEquations ==
  ASSUME NEW N, N \subseteq Node
  PROVE  IsFiniteSet(EqsOf(N))
<1> DEFINE E == {Eqs(n) : n \in N}
           f == [n \in N |-> Eqs(n)]
<1>1. IsFiniteSet(N)
  BY NodeAssumption, FS_Subset
<1>2. f \in Surjection(N, E)
  BY DEF Surjection
<1>3. IsFiniteSet(E)
  <2> HIDE DEF E, f
  <2> QED BY <1>1, <1>2, FS_Surjection
<1>4. \A n \in N : IsFiniteSet(Eqs(n))
  <2> SUFFICES ASSUME NEW n \in N
               PROVE  IsFiniteSet({n} \X (1..Dofs[n]))
    BY DEF Eqs
  <2>1. IsFiniteSet({n})
    BY FS_Singleton
  <2>2. Dofs[n] \in Nat
    BY DofsAssumption
  <2>3. IsFiniteSet(1..Dofs[n])
    BY <2>2, FS_Interval
  <2>4. QED
    BY <2>1, <2>3, FS_Product
<1>5. \A D \in E : IsFiniteSet(D)
  BY <1>4
<1>6. QED
  <2> HIDE DEF E
  <2>1. IsFiniteSet(UNION E)
    BY <1>3, <1>5, FS_UNION
  <2>2. QED
    BY <2>1 DEF EqsOf, E

\* Equations are ordered by dof manager and dof, and this order is total.
LEMMA EquationOrder ==
  ASSUME NEW N, N \subseteq Node
  PROVE  /\ \A e \in EqsOf(N) : ~Before(e, e)
         /\ \A d, e \in EqsOf(N) : d # e => Before(d, e) \/ Before(e, d)
         /\ \A c, d, e \in EqsOf(N) : Before(c, d) /\ Before(d, e) => Before(c, e)
<1>1. \A e \in EqsOf(N) : e = <<e[1], e[2]>> /\ e[1] \in Nat /\ e[2] \in Nat
  <2> SUFFICES ASSUME NEW n \in N, NEW e \in {n} \X (1..Dofs[n])
               PROVE  e = <<e[1], e[2]>> /\ e[1] \in Nat /\ e[2] \in Nat
    BY DEF EqsOf, Eqs
  <2>1. n \in Nat /\ Dofs[n] \in Nat
    BY NodeAssumption, DofsAssumption
  <2>2. QED
    BY <2>1
<1>2. \A e \in EqsOf(N) : ~Before(e, e)
  BY <1>1 DEF Before
<1>3. \A d, e \in EqsOf(N) : d # e => Before(d, e) \/ Before(e, d)
  BY <1>1 DEF Before
<1>4. \A c, d, e \in EqsOf(N) : Before(c, d) /\ Before(d, e) => Before(c, e)
  BY <1>1 DEF Before
<1>5. QED
  BY <1>2, <1>3, <1>4

\* Positions count from 0, stay below the number of equations and grow with the order.
LEMMA Positions ==
  ASSUME NEW N, N \subseteq Node
  PROVE  /\ \A e \in EqsOf(N) : Position(e, EqsOf(N)) \in 0..(Cardinality(EqsOf(N)) - 1)
         /\ \A d, e \in EqsOf(N) : d # e => Position(d, EqsOf(N)) # Position(e, EqsOf(N))
<1> DEFINE E == EqsOf(N)
           Lower(e) == {d \in E : Before(d, e)}
<1>1. IsFiniteSet(E) /\ Cardinality(E) \in Nat
  BY FiniteEquations, FS_CardinalityType
<1>2. \A e : IsFiniteSet(Lower(e)) /\ Cardinality(Lower(e)) \in Nat
  BY <1>1, FS_Subset, FS_CardinalityType
<1>3. ASSUME NEW e \in E
      PROVE  Cardinality(Lower(e)) < Cardinality(E)
  <2>1. Lower(e) \in SUBSET E /\ Lower(e) # E
    BY EquationOrder
  <2>2. QED
    <3> HIDE DEF Lower, E
    <3> QED BY <1>1, <1>2, <2>1, FS_Subset
<1>4. ASSUME NEW d \in E, NEW e \in E, Before(d, e)
      PROVE  Cardinality(Lower(d)) < Cardinality(Lower(e))
  <2>1. Lower(d) \in SUBSET Lower(e)
    BY <1>4, EquationOrder
  <2>2. d \in Lower(e) /\ d \notin Lower(d)
    BY <1>4, EquationOrder
  <2>3. QED
    <3> HIDE DEF Lower
    <3>1. Lower(e) # Lower(d)
      BY <2>2
    <3>2. QED
      BY <1>2, <2>1, <3>1, FS_Subset
<1>5. \A e : Position(e, E) = Cardinality(Lower(e))
  BY DEF Position
<1>6. \A e \in E : Position(e, E) \in 0..(Cardinality(E) - 1)
  <2> HIDE DEF Lower, E
  <2> QED BY <1>1, <1>2, <1>3, <1>5
<1>7. \A d, e \in E : d # e => Position(d, E) # Position(e, E)
  <2>1. \A d, e \in E : Before(d, e) => Cardinality(Lower(d)) < Cardinality(Lower(e))
    BY <1>4
  <2>2. \A d, e \in E : d # e => Before(d, e) \/ Before(e, d)
    BY EquationOrder
  <2> HIDE DEF Lower, E
  <2>3. QED
    BY <1>2, <1>5, <2>1, <2>2
<1>8. QED
  BY <1>6, <1>7

\* The gathered counts are those of the owned equations.
CountInv ==
  /\ lneqs \in [Rank -> Nat]
  /\ \A p \in Rank : pc[p] # "count" => lneqs[p] = Cardinality(EqsOf(Owned(p)))

Block(r) == {r} \X (1..lneqs[r])
Lower(r) == {s \in Rank : s < r}
Blocks(r) == {Block(s) : s \in Lower(r)}

\* The offset is the size of the blocks of the lower ranks, and each block has as
\* many elements as its process owns equations.
LEMMA BlockSizes ==
  ASSUME lneqs \in [Rank -> Nat], NEW p \in Rank
  PROVE  /\ IsFiniteSet(Block(p)) /\ Cardinality(Block(p)) = lneqs[p]
         /\ IsFiniteSet(UNION Blocks(p)) /\ Cardinality(UNION Blocks(p)) \in Nat
         /\ Offset(p) = Cardinality(UNION Blocks(p))
<1>1. \A r \in Rank : IsFiniteSet(Block(r)) /\ Cardinality(Block(r)) = lneqs[r]
  <2> TAKE r \in Rank
  <2> DEFINE k == lneqs[r]
             One == {r}
             Numbers == 1..k
  <2>1. IsFiniteSet(One) /\ Cardinality(One) = 1
    BY FS_Singleton
  <2>2. k \in Nat
    OBVIOUS
  <2> HIDE DEF k
  <2>3. IsFiniteSet(Numbers) /\ Cardinality(Numbers) = k
    <3>1. Cardinality(Numbers) = IF 1 > k THEN 0 ELSE k - 1 + 1
      BY <2>2, FS_Interval
    <3>2. IsFiniteSet(Numbers)
      BY <2>2, FS_Interval
    <3>3. (IF 1 > k THEN 0 ELSE k - 1 + 1) = k
      BY <2>2
    <3>4. QED
      BY <3>1, <3>2, <3>3
  <2> HIDE DEF One, Numbers
  <2>4. IsFiniteSet(One \X Numbers) /\ Cardinality(One \X Numbers) = Cardinality(One) * Cardinality(Numbers)
    BY <2>1, <2>3, FS_Product
  <2>5. Cardinality(One \X Numbers) = 1 * k
    BY <2>1, <2>3, <2>4
  <2>6. 1 * k = k
    BY <2>2
  <2>7. Block(r) = One \X Numbers
    BY DEF Block, One, Numbers, k
  <2>8. QED
    BY <2>4, <2>5, <2>6, <2>7 DEF k
<1>2. IsFiniteSet(UNION Blocks(p))
  <2> DEFINE f == [s \in Lower(p) |-> Block(s)]
  <2>1. Lower(p) \in SUBSET Rank
    BY DEF Lower
  <2>2. IsFiniteSet(Lower(p))
    BY <2>1, RankAssumption, FS_Subset
  <2>3. f \in Surjection(Lower(p), Blocks(p))
    BY DEF Surjection, Blocks
  <2>4. \A B \in Blocks(p) : IsFiniteSet(B)
    BY <1>1, <2>1 DEF Blocks
  <2> HIDE DEF f
  <2>5. IsFiniteSet(Blocks(p))
    BY <2>2, <2>3, FS_Surjection
  <2>6. QED
    BY <2>4, <2>5, FS_UNION
<1>3. Offset(p) = Cardinality(UNION Blocks(p))
  BY DEF Offset, Blocks, Block, Lower
<1>4. QED
  BY <1>1, <1>2, <1>3, FS_CardinalityType

\* The blocks of two processes do not overlap: the offset of the higher rank lies
\* behind all numbers of the lower one.
LEMMA BlocksApart ==
  ASSUME lneqs \in [Rank -> Nat], NEW p \in Rank, NEW q \in Rank, q < p
  PROVE  Offset(q) + lneqs[q] <= Offset(p)
<1>1. \A s \in Rank : s \in Nat
  BY RankAssumption
<1>2. Lower(q) \subseteq Lower(p) /\ q \in Lower(p)
  <2>1. \A s \in Rank : s < q => s < p
    <3>1. ASSUME NEW i \in Nat, NEW j \in Nat, NEW k \in Nat, i < j, j < k
          PROVE  i < k
      BY <3>1
    <3>2. QED
      BY <1>1, <3>1
  <2>2. QED
    BY <2>1 DEF Lower
<1>3. Block(q) \subseteq UNION Blocks(p) /\ UNION Blocks(q) \subseteq UNION Blocks(p)
  BY <1>2 DEF Blocks
<1>4. Block(q) \cap UNION Blocks(q) = {}
  <2>1. \A s \in Lower(q) : s # q
    BY <1>1 DEF Lower
  <2>2. \A s \in Lower(q) : Block(q) \cap Block(s) = {}
    BY <2>1 DEF Block
  <2>3. QED
    BY <2>2 DEF Blocks
<1> DEFINE A == Block(q)
           B == UNION Blocks(q)
           C == UNION Blocks(p)
<1>5. /\ IsFiniteSet(A) /\ IsFiniteSet(B) /\ IsFiniteSet(C)
      /\ Cardinality(A) = lneqs[q] /\ Cardinality(B) = Offset(q) /\ Cardinality(C) = Offset(p)
      /\ Offset(q) \in Nat /\ Offset(p) \in Nat
  BY BlockSizes
<1>6. A \cap B = {} /\ (A \union B) \in SUBSET C
  BY <1>3, <1>4
<1> HIDE DEF A, B, C
<1>7. Cardinality(A \union B) = Cardinality(A) + Cardinality(B) - Cardinality(A \cap B)
  BY <1>5, FS_Union
<1>8. Cardinality(A \cap B) = 0
  BY <1>6, FS_EmptySet
<1>9. Cardinality(A \union B) <= Cardinality(C)
  BY <1>5, <1>6, FS_Subset
<1>10. lneqs[q] \in Nat
  OBVIOUS
<1>11. QED
  BY <1>5, <1>7, <1>8, <1>9, <1>10

\* The counts a process announces are those of its owned equations, for good.
LEMMA CountInvariant == Spec => []CountInv
<1>1. Init => CountInv
  BY DEF Init, CountInv
<1>2. ASSUME CountInv, [Next]_vars
      PROVE  CountInv'
  <2>1. sharers' = sharers
    BY <1>2 DEF Next, Process, Count, Number, Send, Receive, Delete, LeaveBarrier, InitLocal, vars
  <2>2. \A p \in Rank : EqsOf(Owned(p))' = EqsOf(Owned(p))
    BY <2>1, SameMesh
  <2>3. CASE \E p \in Rank : Count(p)
    <3>1. PICK p \in Rank : Count(p)
      BY <2>3
    <3>2. Cardinality(EqsOf(Owned(p))) \in Nat
      BY FiniteEquations, FS_CardinalityType DEF Owned, Held
    <3>3. lneqs' = [lneqs EXCEPT ![p] = Cardinality(EqsOf(Owned(p)))]
      BY <3>1 DEF Count
    <3>4. \A q \in Rank : q # p => (pc'[q] = "count" <=> pc[q] = "count")
      BY <3>1 DEF Count, Goto
    <3>5. QED
      BY <1>2, <2>2, <3>2, <3>3, <3>4 DEF CountInv
  <2>4. CASE UNCHANGED vars \/ \E p \in Rank : Number(p) \/ Send(p) \/ Delete(p) \/ LeaveBarrier(p)
                                                \/ InitLocal(p) \/ \E q \in Rank : Receive(p, q)
    <3>1. lneqs' = lneqs
      BY <2>4 DEF Number, Send, Receive, Delete, LeaveBarrier, InitLocal, vars
    <3>2. \A q \in Rank : pc'[q] # "count" => pc[q] # "count"
      <4>1. CASE pc' = pc
        BY <4>1
      <4>2. CASE \E p \in Rank : pc[p] # "count"
                               /\ \E l \in States : pc' = [pc EXCEPT ![p] = l]
        BY <4>2
      <4>3. pc' = pc \/ \E p \in Rank : pc[p] # "count"
                               /\ \E l \in States : pc' = [pc EXCEPT ![p] = l]
        <5>1. CASE UNCHANGED vars
          BY <5>1 DEF vars
        <5>2. CASE \E p, q \in Rank : Receive(p, q)
          BY <5>2 DEF Receive
        <5>3. CASE \E p \in Rank : Number(p) \/ Send(p) \/ Delete(p) \/ LeaveBarrier(p) \/ InitLocal(p)
          BY <5>3 DEF Number, Send, Delete, LeaveBarrier, InitLocal, Goto, States
        <5>4. QED
          BY <2>4, <5>1, <5>2, <5>3
      <4>4. QED
        BY <4>1, <4>2, <4>3
    <3>3. QED
      BY <1>2, <2>2, <3>1, <3>2 DEF CountInv
  <2>5. QED
    BY <1>2, <2>3, <2>4 DEF Next, Process
<1>3. QED
  BY <1>1, <1>2, PTL DEF Spec

\* Natural2GlobalOrdering: different equations have different global numbers, wherever
\* they are looked up, unless the number was read from a deleted buffer.
THEOREM NumbersStayUnique == Spec => []NumbersUnique
<1>1. OrderingInv /\ CountInv => NumbersUnique
  <2> SUFFICES ASSUME OrderingInv, CountInv, NEW p \in Rank, NEW q \in Rank, Ordered(p), Ordered(q),
                      NEW d \in EqsOf(Held(p)), NEW e \in EqsOf(Held(q)), d # e,
                      Known(p, d), Known(q, e)
               PROVE  locGlob[p][d] # locGlob[q][e]
    BY DEF NumbersUnique, KnownEqs
  <2>1. PICK r \in Rank : d[1] \in Owned(r)
    BY EquationOfNode, SomeOwner DEF OrderingInv
  <2>2. PICK s \in Rank : e[1] \in Owned(s)
    BY EquationOfNode, SomeOwner DEF OrderingInv
  <2>3. locGlob[p][d] = Num(d, r) /\ locGlob[q][e] = Num(e, s)
    BY <2>1, <2>2, OwnersNumber
  <2>4. d \in EqsOf(Owned(r)) /\ e \in EqsOf(Owned(s))
    BY <2>1, <2>2, EquationOfNode
  <2>5. /\ lneqs \in [Rank -> Nat]
        /\ \A t \in Rank : lneqs[t] = Cardinality(EqsOf(Owned(t)))
    BY DEF CountInv, OrderingInv, CountedInv, Ordered, Early
  <2>6. \A t \in Rank : Owned(t) \subseteq Node
    BY DEF Owned, Held
  <2>7. Position(d, EqsOf(Owned(r))) \in 0..(lneqs[r] - 1) /\ Position(e, EqsOf(Owned(s))) \in 0..(lneqs[s] - 1)
    BY <2>4, <2>5, <2>6, Positions
  <2>8. CASE r = s
    <3>1. Position(d, EqsOf(Owned(r))) # Position(e, EqsOf(Owned(r)))
      BY <2>4, <2>6, <2>8, Positions
    <3>2. Offset(r) \in Nat
      BY <2>5, BlockSizes
    <3>3. QED
      BY <2>3, <2>7, <2>8, <3>1, <3>2 DEF Num
  <2> DEFINE i == Position(d, EqsOf(Owned(r)))
             j == Position(e, EqsOf(Owned(s)))
  <2>9. /\ i \in 0..(lneqs[r] - 1) /\ j \in 0..(lneqs[s] - 1)
        /\ lneqs[r] \in Nat /\ lneqs[s] \in Nat /\ Offset(r) \in Nat /\ Offset(s) \in Nat
        /\ locGlob[p][d] = Offset(r) + i /\ locGlob[q][e] = Offset(s) + j
    <3>1. Offset(r) \in Nat /\ Offset(s) \in Nat
      BY <2>5, BlockSizes
    <3>2. QED
      BY <2>3, <2>5, <2>7, <3>1 DEF Num
  <2> HIDE DEF i, j
  <2>10. CASE r < s
    <3>1. Offset(r) + lneqs[r] <= Offset(s)
      BY <2>5, <2>10, BlocksApart
    <3>2. QED
      BY <2>9, <3>1
  <2>11. CASE s < r
    <3>1. Offset(s) + lneqs[s] <= Offset(r)
      BY <2>5, <2>11, BlocksApart
    <3>2. QED
      BY <2>9, <3>1
  <2>12. QED
    BY <2>8, <2>10, <2>11, RankAssumption
<1>2. QED
  BY <1>1, OrderingInvariant, CountInvariant, PTL
-------------------------------------------------------------------------------
(* Type correctness *)

\* The maps and messages are tables over the processes.
Tables ==
  /\ locGlob = [p \in Rank |-> locGlob[p]]
  /\ n2l = [p \in Rank |-> n2l[p]]
  /\ message = [p \in Rank |-> message[p]]
  /\ \A p \in Rank : message[p] = [q \in Rank |-> message[p][q]]

\* A process with its own map in place and the other maps as they were.
LEMMA OneMap ==
  ASSUME NEW m, NEW v, NEW p \in Rank, m = [q \in Rank |-> m[q]]
  PROVE  /\ [m EXCEPT ![p] = v] = [q \in Rank |-> [m EXCEPT ![p] = v][q]]
         /\ \A q \in Rank : [m EXCEPT ![p] = v][q] = IF q = p THEN v ELSE m[q]
OBVIOUS

\* The positions of the equations of a set of dof managers are natural numbers.
LEMMA PositionNat ==
  ASSUME NEW N, N \subseteq Node, NEW e \in EqsOf(N)
  PROVE  Position(e, EqsOf(N)) \in Nat
<1>1. Cardinality(EqsOf(N)) \in Nat
  BY FiniteEquations, FS_CardinalityType
<1>2. Position(e, EqsOf(N)) \in 0..(Cardinality(EqsOf(N)) - 1)
  BY Positions
<1>3. QED
  BY <1>1, <1>2

\* A process numbers with integers, since offsets and positions are natural numbers.
LEMMA NumberedMap ==
  ASSUME TypeOK, Tables, NEW p \in Rank, Number(p)
  PROVE  locGlob'[p] \in [EqsOf(Held(p)) -> Int] /\ locGlob' = [q \in Rank |-> locGlob'[q]]
         /\ \A q \in Rank : q # p => locGlob'[q] = locGlob[q]
<1> DEFINE E == EqsOf(NumberedBy(p))
           new == [e \in DOMAIN locGlob[p] |->
                     IF e \in E THEN Offset(p) + Position(e, E) ELSE locGlob[p][e]]
<1>1. Offset(p) \in Nat
  BY BlockSizes DEF TypeOK
<1>2. NumberedBy(p) \subseteq Node
  BY DEF NumberedBy, Held
<1>3. \A e \in E : Position(e, E) \in Nat
  BY <1>2, PositionNat
<1>4. locGlob[p] \in [EqsOf(Held(p)) -> Int]
  BY DEF TypeOK
<1>5. locGlob' = [locGlob EXCEPT ![p] = new]
  BY DEF Number
<1> HIDE DEF E
<1>6. new \in [EqsOf(Held(p)) -> Int]
  <2>1. \A e \in E : Offset(p) + Position(e, E) \in Int
    BY <1>1, <1>3
  <2>2. QED
    BY <1>4, <2>1
<1> HIDE DEF new
<1>7. QED
  BY <1>5, <1>6, OneMap DEF Tables

\* A process unpacks integers, those of the owner or what a deleted buffer holds.
LEMMA ReceivedMap ==
  ASSUME TypeOK, Tables, NEW p \in Rank, NEW q \in Rank, Receive(p, q)
  PROVE  locGlob'[p] \in [EqsOf(Held(p)) -> Int] /\ locGlob' = [r \in Rank |-> locGlob'[r]]
         /\ \A r \in Rank : r # p => locGlob'[r] = locGlob[r]
<1>1. \A new : new \in [DOMAIN new -> Int] => Merge(locGlob[p], new) \in [EqsOf(Held(p)) -> Int]
  BY DEF Merge, TypeOK
<1>2. message[q][p] \in [DOMAIN message[q][p] -> Int]
  BY DEF TypeOK
<1>3. [e \in DOMAIN message[q][p] |-> Garbage] \in [DOMAIN message[q][p] -> Int]
  BY DEF Garbage
<1>4. PICK new : new \in [DOMAIN new -> Int] /\ locGlob' = [locGlob EXCEPT ![p] = Merge(locGlob[p], new)]
  <2>1. CASE locGlob' = [locGlob EXCEPT ![p] = Merge(locGlob[p], message[q][p])]
    BY <1>2, <2>1
  <2>2. CASE locGlob' = [locGlob EXCEPT ![p] = Merge(locGlob[p], [e \in DOMAIN message[q][p] |-> Garbage])]
    BY <1>3, <2>2
  <2>3. QED
    BY <2>1, <2>2 DEF Receive
<1>5. QED
  BY <1>1, <1>4, OneMap DEF Tables

\* Local numbers are natural numbers.
LEMMA LocalMap ==
  ASSUME NEW p \in Rank
  PROVE  LocalNumbers(p) \in [EqsOf(Held(p)) -> Nat]
<1>1. Owned(p) \subseteq Node
  BY DEF Owned, Held
<1>2. \A e \in EqsOf(Owned(p)) : Position(e, EqsOf(Owned(p))) \in Nat
  BY <1>1, PositionNat
<1>3. QED
  BY <1>2 DEF LocalNumbers

\* The variables keep their types and the tables their shape.
LEMMA TypedTables == Spec => [](TypeOK /\ Tables)
<1>1. Init => TypeOK /\ Tables
  BY DEF Init, TypeOK, Tables, States
<1>2. ASSUME TypeOK, Tables, [Next]_vars
      PROVE  TypeOK' /\ Tables'
  <2>1. sharers' = sharers
    BY <1>2 DEF Next, Process, Count, Number, Send, Receive, Delete, LeaveBarrier, InitLocal, vars
  <2>2. sharers' \in [Node -> (SUBSET Rank) \ {{}}] /\ \A p \in Rank : EqsOf(Held(p))' = EqsOf(Held(p))
    BY <1>2, <2>1, SameMesh DEF TypeOK
  <2>3. ASSUME NEW p \in Rank, Count(p)
        PROVE  TypeOK' /\ Tables'
    <3>1. Cardinality(EqsOf(Owned(p))) \in Nat
      BY FiniteEquations, FS_CardinalityType DEF Owned, Held
    <3>2. lneqs' \in [Rank -> Nat] /\ pc' \in [Rank -> States]
      BY <1>2, <2>3, <3>1 DEF Count, Goto, TypeOK, States
    <3>3. QED
      BY <1>2, <2>2, <2>3, <3>2 DEF Count, TypeOK, Tables
  <2>4. ASSUME NEW p \in Rank, Number(p)
        PROVE  TypeOK' /\ Tables'
    <3>1. pc' \in [Rank -> States]
      BY <1>2, <2>4 DEF Number, Goto, TypeOK, States
    <3>2. \A q \in Rank : locGlob'[q] \in [EqsOf(Held(q)) -> Int]
      BY <1>2, <2>4, NumberedMap DEF TypeOK
    <3>3. locGlob' = [q \in Rank |-> locGlob'[q]]
      BY <1>2, <2>4, NumberedMap
    <3>4. /\ lneqs' = lneqs /\ posted' = posted /\ message' = message
          /\ freed' = freed /\ received' = received /\ n2l' = n2l
      BY <2>4 DEF Number
    <3>5. QED
      BY <1>2, <2>2, <3>1, <3>2, <3>3, <3>4 DEF TypeOK, Tables
  <2>5. ASSUME NEW p \in Rank, Send(p)
        PROVE  TypeOK' /\ Tables'
    <3> DEFINE new == [q \in Rank |-> [e \in EqsOf(SentNodes(p, q)) |-> locGlob[p][e]]]
    <3>1. pc' \in [Rank -> States] /\ posted' \in [Rank -> SUBSET Rank]
      BY <1>2, <2>5 DEF Send, Goto, Receivers, TypeOK, States
    <3>2. message' = [message EXCEPT ![p] = new]
      BY <2>5 DEF Send
    <3>3. \A q \in Rank : new[q] \in [DOMAIN new[q] -> Int]
      <4>1. \A q \in Rank : EqsOf(SentNodes(p, q)) \subseteq EqsOf(Held(p))
        BY DEF EqsOf, SentNodes, Shared
      <4>2. QED
        BY <1>2, <4>1 DEF TypeOK
    <3>4. new = [q \in Rank |-> new[q]]
      OBVIOUS
    <3> HIDE DEF new
    <3>5. /\ message' = [q \in Rank |-> message'[q]]
          /\ \A q \in Rank : message'[q] = IF q = p THEN new ELSE message[q]
      BY <1>2, <3>2, OneMap DEF Tables
    <3>6. /\ \A q \in Rank : message'[q] = [r \in Rank |-> message'[q][r]]
          /\ \A q, r \in Rank : message'[q][r] \in [DOMAIN message'[q][r] -> Int]
      BY <1>2, <3>3, <3>4, <3>5 DEF TypeOK, Tables
    <3>7. /\ lneqs' = lneqs /\ locGlob' = locGlob /\ freed' = freed
          /\ received' = received /\ n2l' = n2l
      BY <2>5 DEF Send
    <3>8. QED
      BY <1>2, <2>2, <3>1, <3>5, <3>6, <3>7 DEF TypeOK, Tables
  <2>6. ASSUME NEW p \in Rank, NEW q \in Rank, Receive(p, q)
        PROVE  TypeOK' /\ Tables'
    <3>1. received' \in [Rank -> SUBSET Rank]
      BY <1>2, <2>6 DEF Receive, TypeOK
    <3>2. \A r \in Rank : locGlob'[r] \in [EqsOf(Held(r)) -> Int]
      BY <1>2, <2>6, ReceivedMap DEF TypeOK
    <3>3. locGlob' = [r \in Rank |-> locGlob'[r]]
      BY <1>2, <2>6, ReceivedMap
    <3>4. /\ lneqs' = lneqs /\ posted' = posted /\ message' = message
          /\ freed' = freed /\ pc' = pc /\ n2l' = n2l
      BY <2>6 DEF Receive
    <3>5. QED
      BY <1>2, <2>2, <3>1, <3>2, <3>3, <3>4 DEF TypeOK, Tables
  <2>7. ASSUME NEW p \in Rank, Delete(p) \/ LeaveBarrier(p)
        PROVE  TypeOK' /\ Tables'
    <3>1. pc' \in [Rank -> States] /\ freed' \in SUBSET Rank
      BY <1>2, <2>7 DEF Delete, LeaveBarrier, Goto, TypeOK, States
    <3>2. /\ lneqs' = lneqs /\ locGlob' = locGlob /\ posted' = posted /\ message' = message
          /\ received' = received /\ n2l' = n2l
      BY <2>7 DEF Delete, LeaveBarrier
    <3>3. QED
      BY <1>2, <2>2, <3>1, <3>2 DEF TypeOK, Tables
  <2>8. ASSUME NEW p \in Rank, InitLocal(p)
        PROVE  TypeOK' /\ Tables'
    <3>1. pc' \in [Rank -> States]
      BY <1>2, <2>8 DEF InitLocal, Goto, TypeOK, States
    <3>2. n2l' = [n2l EXCEPT ![p] = LocalNumbers(p)]
      BY <2>8 DEF InitLocal
    <3>3. /\ n2l' = [q \in Rank |-> n2l'[q]]
          /\ \A q \in Rank : n2l'[q] \in [EqsOf(Held(q)) -> Nat]
      BY <1>2, <3>2, LocalMap, OneMap DEF Tables, TypeOK
    <3>4. /\ lneqs' = lneqs /\ locGlob' = locGlob /\ posted' = posted /\ message' = message
          /\ received' = received /\ freed' = freed
      BY <2>8 DEF InitLocal
    <3>5. QED
      BY <1>2, <2>2, <3>1, <3>3, <3>4 DEF TypeOK, Tables
  <2>9. ASSUME UNCHANGED vars
        PROVE  TypeOK' /\ Tables'
    BY <1>2, <2>2, <2>9 DEF vars, TypeOK, Tables
  <2>10. QED
    BY <1>2, <2>3, <2>4, <2>5, <2>6, <2>7, <2>8, <2>9 DEF Next, Process
<1>3. QED
  BY <1>1, <1>2, PTL DEF Spec

\* Every variable keeps its type, also when a receiver reads a deleted buffer.
THEOREM OrderingTypeCorrect == Spec => []TypeOK
<1>1. QED
  BY TypedTables, PTL
-------------------------------------------------------------------------------
(* Density: as many numbers are given as there are rows, so all are in use *)

\* The counts of all processes are known.
Counted == lneqs \in [Rank -> Nat] /\ \A t \in Rank : lneqs[t] = Cardinality(EqsOf(Owned(t)))

AllBlocks == UNION {Block(q) : q \in Rank}

\* The blocks of all ranks make up the global system, and each lies within it.
LEMMA BlocksWithin ==
  ASSUME lneqs \in [Rank -> Nat], NEW p \in Rank
  PROVE  /\ IsFiniteSet(AllBlocks) /\ GlobalNeqs = Cardinality(AllBlocks) /\ GlobalNeqs \in Nat
         /\ Offset(p) + lneqs[p] <= GlobalNeqs
<1>1. IsFiniteSet(AllBlocks)
  <2> DEFINE B == {Block(q) : q \in Rank}
             f == [q \in Rank |-> Block(q)]
  <2>1. f \in Surjection(Rank, B)
    BY DEF Surjection
  <2>2. \A D \in B : IsFiniteSet(D)
    BY BlockSizes
  <2> HIDE DEF f, B
  <2>3. IsFiniteSet(B)
    BY <2>1, RankAssumption, FS_Surjection
  <2>4. IsFiniteSet(UNION B)
    BY <2>2, <2>3, FS_UNION
  <2>5. QED
    BY <2>4 DEF AllBlocks, B
<1>2. GlobalNeqs = Cardinality(AllBlocks) /\ GlobalNeqs \in Nat
  BY <1>1, FS_CardinalityType DEF GlobalNeqs, AllBlocks, Block
<1> DEFINE A == Block(p)
           B == UNION Blocks(p)
<1>3. /\ IsFiniteSet(A) /\ IsFiniteSet(B)
      /\ Cardinality(A) = lneqs[p] /\ Cardinality(B) = Offset(p) /\ Offset(p) \in Nat
  BY BlockSizes
<1>4. A \cap B = {}
  <2>1. \A s \in Lower(p) : s # p
    BY RankAssumption DEF Lower
  <2>2. \A s \in Lower(p) : Block(p) \cap Block(s) = {}
    BY <2>1 DEF Block
  <2>3. QED
    BY <2>2 DEF Blocks
<1>5. (A \union B) \in SUBSET AllBlocks
  BY DEF AllBlocks, Blocks, Lower
<1> HIDE DEF A, B
<1>6. Cardinality(A \union B) = Cardinality(A) + Cardinality(B) - Cardinality(A \cap B)
  BY <1>3, FS_Union
<1>7. Cardinality(A \cap B) = 0
  BY <1>4, FS_EmptySet
<1>8. Cardinality(A \union B) <= Cardinality(AllBlocks)
  BY <1>1, <1>5, FS_Subset
<1>9. lneqs[p] \in Nat
  OBVIOUS
<1>10. QED
  BY <1>1, <1>2, <1>3, <1>6, <1>7, <1>8, <1>9

\* Every number lies in the block of its owner, hence in the global system.
LEMMA NumberWithin ==
  ASSUME Counted, NEW r \in Rank, NEW e \in EqsOf(Owned(r))
  PROVE  Num(e, r) \in 0..(GlobalNeqs - 1)
<1>1. Owned(r) \subseteq Node
  BY DEF Owned, Held
<1>2. Position(e, EqsOf(Owned(r))) \in 0..(lneqs[r] - 1)
  BY <1>1, Positions DEF Counted
<1>3. GlobalNeqs \in Nat /\ Offset(r) + lneqs[r] <= GlobalNeqs
  BY BlocksWithin DEF Counted
<1>4. Offset(r) \in Nat /\ lneqs[r] \in Nat
  BY BlockSizes DEF Counted
<1> DEFINE i == Position(e, EqsOf(Owned(r)))
<1> HIDE DEF i
<1>5. i \in 0..(lneqs[r] - 1)
  BY <1>2 DEF i
<1>6. Offset(r) + i \in 0..(GlobalNeqs - 1)
  BY <1>3, <1>4, <1>5
<1>7. QED
  BY <1>6 DEF Num, i

\* Owners give different numbers to different equations: within a block positions
\* differ, and blocks do not overlap.
LEMMA NumbersDiffer ==
  ASSUME Counted, NEW r \in Rank, NEW s \in Rank,
         NEW d \in EqsOf(Owned(r)), NEW e \in EqsOf(Owned(s)), d # e
  PROVE  Num(d, r) # Num(e, s)
<1>1. \A t \in Rank : Owned(t) \subseteq Node
  BY DEF Owned, Held
<1> DEFINE i == Position(d, EqsOf(Owned(r)))
           j == Position(e, EqsOf(Owned(s)))
<1>2. i \in 0..(lneqs[r] - 1) /\ j \in 0..(lneqs[s] - 1)
  BY <1>1, Positions DEF Counted
<1>3. r = s => i # j
  BY <1>1, Positions
<1>4. Offset(r) \in Nat /\ Offset(s) \in Nat /\ lneqs[r] \in Nat /\ lneqs[s] \in Nat
  BY BlockSizes DEF Counted
<1>5. r < s => Offset(r) + lneqs[r] <= Offset(s)
  BY BlocksApart DEF Counted
<1>6. s < r => Offset(s) + lneqs[s] <= Offset(r)
  BY BlocksApart DEF Counted
<1>7. Num(d, r) = Offset(r) + i /\ Num(e, s) = Offset(s) + j
  BY DEF Num
<1> HIDE DEF i, j
<1>8. CASE r = s
  BY <1>2, <1>3, <1>4, <1>7, <1>8
<1>9. CASE r < s
  BY <1>2, <1>4, <1>5, <1>7, <1>9
<1>10. CASE s < r
  BY <1>2, <1>4, <1>6, <1>7, <1>10
<1>11. QED
  BY <1>8, <1>9, <1>10, RankAssumption

\* There are at least as many equations as rows of the global system: the owned
\* ones of a process are as many as its block is long, and nobody else owns them.
LEMMA RowsHaveEquations ==
  ASSUME TypeInv, Counted
  PROVE  GlobalNeqs <= Cardinality(EqsOf(Node))
<1> DEFINE F(q) == Injection(1..lneqs[q], EqsOf(Owned(q)))
           b == [q \in Rank |-> CHOOSE g : g \in F(q)]
           h == [u \in AllBlocks |-> b[u[1]][u[2]]]
<1>1. ASSUME NEW q \in Rank
      PROVE  b[q] \in F(q)
  <2>1. IsFiniteSet(EqsOf(Owned(q)))
    BY FiniteEquations DEF Owned, Held
  <2>2. ExistsBijection(1..lneqs[q], EqsOf(Owned(q)))
    BY <2>1, FS_CardinalityType DEF Counted
  <2>3. \E g : g \in F(q)
    BY <2>2 DEF ExistsBijection, Bijection
  <2> HIDE DEF F
  <2>4. QED
    BY <2>3
<1>2. \A u \in AllBlocks : /\ u[1] \in Rank /\ u[2] \in 1..lneqs[u[1]]
                           /\ u = <<u[1], u[2]>>
  BY DEF AllBlocks, Block
<1> HIDE DEF b
<1>3. \A u \in AllBlocks : h[u] = b[u[1]][u[2]] /\ h[u] \in EqsOf(Owned(u[1]))
  BY <1>1, <1>2 DEF Injection
<1> DEFINE A == AllBlocks
<1>12. h = [u \in A |-> h[u]]
  OBVIOUS
<1> HIDE DEF h
<1>4. \A u \in AllBlocks : h[u][1] \in Owned(u[1]) /\ h[u] \in EqsOf(Node)
  <2> TAKE u \in AllBlocks
  <2>1. h[u] \in EqsOf(Owned(u[1]))
    BY <1>3
  <2>2. h[u][1] \in Owned(u[1]) /\ (h[u] \in EqsOf(Node) <=> h[u][1] \in Node)
    BY <2>1, EquationOfNode
  <2>3. Owned(u[1]) \subseteq Node
    BY DEF Owned, Held
  <2>4. QED
    BY <2>2, <2>3
<1>5. ASSUME NEW u \in AllBlocks, NEW v \in AllBlocks, h[u] = h[v]
      PROVE  u = v
  <2>1. u[1] = v[1]
    BY <1>2, <1>4, <1>5, OneOwner
  <2>2. b[u[1]] \in Injection(1..lneqs[u[1]], EqsOf(Owned(u[1])))
    BY <1>1, <1>2
  <2>3. b[u[1]][u[2]] = b[u[1]][v[2]] /\ u[2] \in 1..lneqs[u[1]] /\ v[2] \in 1..lneqs[u[1]]
    BY <1>2, <1>3, <1>5, <2>1
  <2>4. u[2] = v[2]
    <3>1. ASSUME NEW S, NEW T, NEW g \in Injection(S, T), NEW x \in S, NEW y \in S, g[x] = g[y]
          PROVE  x = y
      BY <3>1 DEF Injection, IsInjective
    <3> DEFINE D == 1..lneqs[u[1]]
               R == EqsOf(Owned(u[1]))
               c == b[u[1]]
    <3>2. c \in Injection(D, R) /\ u[2] \in D /\ v[2] \in D /\ c[u[2]] = c[v[2]]
      BY <2>2, <2>3
    <3> HIDE DEF D, R, c
    <3>3. QED
      BY <3>1, <3>2
  <2>5. QED
    BY <1>2, <2>1, <2>4
<1>6. h \in Injection(AllBlocks, EqsOf(Node))
  <2>1. h \in [A -> EqsOf(Node)]
    BY <1>4, <1>12
  <2>2. DOMAIN h = A
    BY <1>12
  <2>3. QED
    BY <1>5, <2>1, <2>2 DEF Injection, IsInjective
<1>7. IsFiniteSet(EqsOf(Node))
  BY FiniteEquations
<1>8. Cardinality(AllBlocks) <= Cardinality(EqsOf(Node))
  BY <1>6, <1>7, FS_Injection
<1>9. PICK p \in Rank : TRUE
  BY RankAssumption
<1>10. QED
  BY <1>8, <1>9, BlocksWithin DEF Counted

\* Natural2GlobalOrdering: when all are through, the numbers in use are exactly
\* the rows 0 .. g_neqs-1 of the global system.
THEOREM NumbersStayDense == Spec => []NumbersDense
<1>1. OrderingInv /\ CountInv => NumbersDense
  <2> SUFFICES ASSUME OrderingInv, CountInv, \A p \in Rank : Ordered(p)
               PROVE  UNION {{locGlob[p][e] : e \in KnownEqs(p)} : p \in Rank} = 0..(GlobalNeqs - 1)
    BY DEF NumbersDense
  <2>0. TypeInv
    BY DEF OrderingInv
  <2>1. Counted
    BY DEF CountInv, OrderingInv, CountedInv, Ordered, Early, Counted
  <2> DEFINE V == UNION {{locGlob[p][e] : e \in KnownEqs(p)} : p \in Rank}
             Owner(e) == CHOOSE r \in Rank : e[1] \in Owned(r)
             E == EqsOf(Node)
             f == [e \in E |-> Num(e, Owner(e))]
             G == 0..(GlobalNeqs - 1)
  <2>2. ASSUME NEW e \in E
        PROVE  /\ Owner(e) \in Rank /\ e[1] \in Owned(Owner(e)) /\ e \in EqsOf(Owned(Owner(e)))
               /\ e \in EqsOf(Held(Owner(e)))
    <3>1. e[1] \in Node
      BY EquationOfNode
    <3>2. PICK p \in Rank : e[1] \in Held(p)
      BY <2>0, <3>1 DEF TypeInv, Held
    <3>3. \E r \in Rank : e[1] \in Owned(r)
      BY <2>0, <3>2, SomeOwner
    <3>4. Owner(e) \in Rank /\ e[1] \in Owned(Owner(e))
      BY <3>3
    <3> HIDE DEF Owner
    <3>5. e[1] \in Held(Owner(e))
      BY <3>4 DEF Owned
    <3>6. QED
      BY <3>4, <3>5, EquationOfNode
  <2> HIDE DEF Owner
  <2>3. \A e \in E : f[e] = Num(e, Owner(e)) /\ f[e] \in G
    BY <2>1, <2>2, NumberWithin
  <2>4. \A d, e \in E : d # e => f[d] # f[e]
    BY <2>1, <2>2, <2>3, NumbersDiffer
  <2>5. ASSUME NEW p \in Rank, NEW e \in EqsOf(Held(p)), p = Owner(e) \/ Known(p, e)
        PROVE  e \in E /\ locGlob[p][e] = f[e]
    <3>1. e[1] \in Held(p) /\ e[1] \in Node
      BY EquationOfNode DEF Held
    <3>2. e \in E
      BY <3>1, EquationOfNode
    <3>3. locGlob[p][e] = Num(e, Owner(e))
      BY <2>2, <2>5, <3>2, OwnersNumber
    <3>4. QED
      BY <2>3, <3>2, <3>3
  <2>16. \A e \in E : e \in KnownEqs(Owner(e)) /\ locGlob[Owner(e)][e] = f[e]
    <3> SUFFICES ASSUME NEW e \in E
                 PROVE  e \in KnownEqs(Owner(e)) /\ locGlob[Owner(e)][e] = f[e]
      OBVIOUS
    <3>1. locGlob[Owner(e)][e] = f[e] /\ f[e] \in G
      BY <2>2, <2>3, <2>5
    <3> HIDE DEF f
    <3>2. f[e] # Garbage
      BY <3>1 DEF Garbage
    <3>3. QED
      BY <2>2, <3>1, <3>2 DEF KnownEqs, Known
  <2>15. f \in [E -> G] /\ DOMAIN f = E
    BY <2>3
  <2> HIDE DEF f, G, E
  <2>6. V = {f[e] : e \in E}
    <3>1. \A e \in E : \E p \in Rank : e \in KnownEqs(p) /\ locGlob[p][e] = f[e]
      BY <2>2, <2>16
    <3>2. \A x \in V : \E e \in E : x = f[e]
      BY <2>5 DEF KnownEqs
    <3>3. \A e \in E : f[e] \in V
      BY <3>1
    <3> HIDE DEF V
    <3>4. QED
      BY <3>2, <3>3
  <2>7. IsFiniteSet(G) /\ Cardinality(G) = GlobalNeqs
    <3>1. PICK p \in Rank : TRUE
      BY RankAssumption
    <3>2. GlobalNeqs \in Nat
      BY <2>1, <3>1, BlocksWithin DEF Counted
    <3>3. IsFiniteSet(0..(GlobalNeqs - 1)) /\ Cardinality(0..(GlobalNeqs - 1)) = IF 0 > GlobalNeqs - 1 THEN 0 ELSE GlobalNeqs - 1 - 0 + 1
      BY <3>2, FS_Interval
    <3>4. QED
      BY <3>2, <3>3 DEF G
  <2>8. GlobalNeqs <= Cardinality(E)
    BY <2>0, <2>1, RowsHaveEquations DEF E
  <2>9. f \in Injection(E, G)
    BY <2>4, <2>15 DEF Injection, IsInjective
  <2>10. IsFiniteSet(E) /\ Cardinality(E) <= Cardinality(G) /\ (Cardinality(E) = Cardinality(G) <=> f \in Surjection(E, G))
    BY <2>7, <2>9, FS_Injection
  <2>11. Cardinality(E) \in Nat /\ Cardinality(G) \in Nat
    BY <2>7, <2>10, FS_CardinalityType
  <2>12. f \in Surjection(E, G)
    BY <2>7, <2>8, <2>10, <2>11
  <2>13. V = G
    BY <2>3, <2>6, <2>12 DEF Surjection
  <2>14. QED
    BY <2>13 DEF G
<1>2. QED
  BY <1>1, OrderingInvariant, CountInvariant, PTL
-------------------------------------------------------------------------------
(* Norms: an equation has a local number on its owner only *)

\* A process that is through has numbered the equations it owns, and only these.
LocalInv == \A p \in Rank : pc[p] = "done" => n2l[p] = LocalNumbers(p)

\* Nothing of the local ordering changes once it is set up: the mesh is fixed.
LEMMA LocalInvariant == Spec => []LocalInv
<1>1. Init => LocalInv
  BY DEF Init, LocalInv
<1>2. ASSUME TypeOK, Tables, LocalInv, [Next]_vars
      PROVE  LocalInv'
  <2>1. sharers' = sharers
    BY <1>2 DEF Next, Process, Count, Number, Send, Receive, Delete, LeaveBarrier, InitLocal, vars
  <2>2. \A p \in Rank : LocalNumbers(p)' = LocalNumbers(p)
    <3>1. \A N : EqsOf(N)' = EqsOf(N)
      BY <2>1, SameMesh
    <3>2. \A p : Held(p)' = Held(p) /\ Owned(p)' = Owned(p)
      BY <2>1, SameMesh
    <3>3. QED
      BY <3>1, <3>2 DEF LocalNumbers, Position, Before
  <2>3. ASSUME NEW p \in Rank, InitLocal(p)
        PROVE  LocalInv'
    <3>1. n2l' = [n2l EXCEPT ![p] = LocalNumbers(p)] /\ pc' = [pc EXCEPT ![p] = "done"]
      BY <2>3 DEF InitLocal, Goto
    <3>2. n2l'[p] = LocalNumbers(p) /\ \A q \in Rank : q # p => n2l'[q] = n2l[q] /\ pc'[q] = pc[q]
      BY <1>2, <3>1 DEF Tables, TypeOK
    <3>3. QED
      BY <1>2, <2>2, <3>2 DEF LocalInv
  <2>4. ASSUME n2l' = n2l, \A p \in Rank : pc'[p] = "done" => pc[p] = "done"
        PROVE  LocalInv'
    BY <1>2, <2>2, <2>4 DEF LocalInv
  <2>5. ASSUME NEW p \in Rank, Count(p) \/ Number(p) \/ Send(p) \/ Delete(p) \/ LeaveBarrier(p)
        PROVE  LocalInv'
    <3>1. n2l' = n2l
      BY <2>5 DEF Count, Number, Send, Delete, LeaveBarrier
    <3>2. PICK l \in States \ {"done"} : pc' = [pc EXCEPT ![p] = l]
      BY <2>5 DEF Count, Number, Send, Delete, LeaveBarrier, Goto, States
    <3>3. \A q \in Rank : pc'[q] = "done" => pc[q] = "done"
      BY <1>2, <3>2 DEF TypeOK
    <3>4. QED
      BY <2>4, <3>1, <3>3
  <2>6. ASSUME (\E p, q \in Rank : Receive(p, q)) \/ UNCHANGED vars
        PROVE  LocalInv'
    <3>1. n2l' = n2l /\ pc' = pc
      BY <2>6 DEF Receive, vars
    <3>2. QED
      BY <2>4, <3>1
  <2>7. QED
    BY <1>2, <2>3, <2>5, <2>6 DEF Next, Process
<1>3. QED
  BY <1>1, <1>2, TypedTables, PTL DEF Spec

\* ParallelContext::localNorm and accumulate: a norm or a dot product of the
\* whole system counts every equation once, on the process that owns it.  This
\* does not depend on when MPI reads the messages.
THEOREM NormsCountOnce == Spec => []NormCountsOnce
<1>1. TypeOK /\ LocalInv => NormCountsOnce
  <2> SUFFICES ASSUME TypeOK, LocalInv, \A p \in Rank : pc[p] = "done", NEW e \in EqsOf(Node)
               PROVE  Cardinality({p \in Rank : e \in NormEqs(p)}) = 1
    BY DEF NormCountsOnce, CountsOnce
  <2>1. \A p \in Rank : NormEqs(p) = EqsOf(Owned(p))
    <3> TAKE p \in Rank
    <3>1. n2l[p] = LocalNumbers(p)
      BY DEF LocalInv
    <3>2. Owned(p) \subseteq Node /\ Owned(p) \subseteq Held(p)
      BY DEF Owned, Held
    <3>3. EqsOf(Owned(p)) \subseteq EqsOf(Held(p))
      BY <3>2 DEF EqsOf
    <3> DEFINE W == EqsOf(Owned(p))
               H == EqsOf(Held(p))
               P(d) == Position(d, W)
    <3>4. \A d \in W : P(d) \in Nat
      BY <3>2, PositionNat
    <3>5. n2l[p] = [d \in H |-> IF d \in W THEN P(d) + 1 ELSE 0]
      BY <3>1 DEF LocalNumbers
    <3>6. W \subseteq H
      BY <3>3
    <3> HIDE DEF W, H, P
    <3>7. \A d \in W : P(d) + 1 > 0
      BY <3>4
    <3>8. \A d \in H : n2l[p][d] > 0 <=> d \in W
      BY <3>5, <3>7
    <3>9. {d \in DOMAIN n2l[p] : n2l[p][d] > 0} = W
      BY <3>5, <3>6, <3>8
    <3>10. QED
      BY <3>9 DEF NormEqs, W
  <2>2. sharers \in [Node -> (SUBSET Rank) \ {{}}]
    BY DEF TypeOK
  <2>3. e[1] \in Node
    BY EquationOfNode
  <2>4. PICK q \in Rank : e[1] \in Owned(q)
    <3>1. sharers[e[1]] \subseteq Rank /\ sharers[e[1]] # {}
      BY <2>2, <2>3
    <3>2. PICK r \in sharers[e[1]] : \A s \in sharers[e[1]] : r <= s
      BY <3>1, LowestRank
    <3>3. QED
      BY <2>3, <3>1, <3>2 DEF Owned, Held
  <2>5. \A p \in Rank : e \in EqsOf(Owned(p)) <=> e[1] \in Owned(p)
    BY EquationOfNode
  <2>6. \A p \in Rank : e[1] \in Owned(p) => p = q
    <3> SUFFICES ASSUME NEW p \in Rank, e[1] \in Owned(p)
                 PROVE  p = q
      OBVIOUS
    <3>1. p \in sharers[e[1]] /\ q \in sharers[e[1]] /\ p <= q /\ q <= p
      BY <2>4 DEF Owned, Held
    <3>2. QED
      BY <3>1, RankAssumption
  <2>7. {p \in Rank : e \in NormEqs(p)} = {q}
    BY <2>1, <2>4, <2>5, <2>6
  <2>8. QED
    BY <2>7, FS_Singleton
<1>2. QED
  BY <1>1, LocalInvariant, TypedTables, PTL
-------------------------------------------------------------------------------
(* The global and the local numbering fit *)

\* Natural2GlobalOrdering and Natural2LocalOrdering: the equations with a local
\* number are exactly those whose global numbers are in the block of the process,
\* and the two numbers differ by the offset of the block.
THEOREM OrderingsFit == Spec => []BlocksFit
<1>1. OrderingInv /\ CountInv /\ LocalInv => BlocksFit
  <2> SUFFICES ASSUME OrderingInv, CountInv, LocalInv, NEW p \in Rank, pc[p] = "done",
                      NEW e \in EqsOf(Held(p)), Known(p, e)
               PROVE  /\ n2l[p][e] > 0 <=> locGlob[p][e] \in Offset(p)..(Offset(p) + lneqs[p] - 1)
                      /\ n2l[p][e] > 0 => locGlob[p][e] = Offset(p) + n2l[p][e] - 1
    BY DEF BlocksFit, KnownEqs
  <2>1. TypeInv /\ Counted
    BY DEF CountInv, OrderingInv, CountedInv, Early, Counted
  <2>2. PICK r \in Rank : e[1] \in Owned(r)
    BY <2>1, SomeOwner, EquationOfNode
  <2>3. locGlob[p][e] = Num(e, r)
    BY <2>2, OwnersNumber DEF Ordered
  <2>4. Owned(r) \subseteq Node /\ e \in EqsOf(Owned(r))
    BY <2>2, EquationOfNode DEF Owned, Held
  <2>5. n2l[p][e] = IF r = p THEN Position(e, EqsOf(Owned(p))) + 1 ELSE 0
    <3>1. e \in EqsOf(Owned(p)) <=> r = p
      BY <2>1, <2>2, <2>4, EquationOfNode, OneOwner
    <3>2. QED
      BY <3>1 DEF LocalInv, LocalNumbers
  <2> DEFINE i == Position(e, EqsOf(Owned(r)))
             o == Offset(r)
             a == Offset(p)
             k == lneqs[r]
             l == lneqs[p]
             n == n2l[p][e]
             g == locGlob[p][e]
  <2>6. i \in 0..(k - 1) /\ o \in Nat /\ a \in Nat /\ k \in Nat /\ l \in Nat
    BY <2>1, <2>4, Positions, BlockSizes DEF Counted
  <2>7. g = o + i
    BY <2>3 DEF Num
  <2>8. n = IF r = p THEN i + 1 ELSE 0
    BY <2>5
  <2>9. r < p => o + k <= a
    BY <2>1, BlocksApart DEF Counted
  <2>10. p < r => a + l <= o
    BY <2>1, BlocksApart DEF Counted
  <2>11. r = p => o = a /\ k = l
    OBVIOUS
  <2>12. r = p \/ r < p \/ p < r
    BY RankAssumption
  <2> HIDE DEF i, o, a, k, l, n, g
  <2>13. (n > 0 <=> g \in a..(a + l - 1)) /\ (n > 0 => g = a + n - 1)
    <3>1. CASE r = p
      BY <2>6, <2>7, <2>8, <2>11, <3>1
    <3>2. CASE r < p /\ r # p
      BY <2>6, <2>7, <2>8, <2>9, <3>2
    <3>3. CASE p < r /\ r # p
      BY <2>6, <2>7, <2>8, <2>10, <3>3
    <3>4. QED
      BY <2>12, <3>1, <3>2, <3>3
  <2>14. QED
    BY <2>13 DEF a, l, n, g
<1>2. QED
  BY <1>1, OrderingInvariant, CountInvariant, LocalInvariant, PTL
===============================================================================
