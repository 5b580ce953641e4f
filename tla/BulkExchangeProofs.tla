-------------------------- MODULE BulkExchangeProofs --------------------------
(***************************************************************************)
(* The rounds of BulkExchange stay separate for any number of processes,   *)
(* any message length and any number of rounds.                            *)
(***************************************************************************)
EXTENDS BulkExchange, TLAPS

LEMMA MessagesArePayload ==
  ASSUME NEW p \in Rank, NEW q \in Rank, NEW r \in 1..MaxRound
  PROVE  Messages(p, q, r) \subseteq Payload \ {<<>>}
PROOF
<1>1. Messages(p, q, r) \subseteq UNION {Messages(<<p, q>>[1], <<p, q>>[2], s) : s \in 1..MaxRound}
  OBVIOUS
<1>2. <<p, q>> \in Rank \X Rank
  OBVIOUS
<1>3. Messages(p, q, r) \subseteq Payload
  BY <1>1, <1>2 DEF Payload
<1>4. ASSUME NEW n \in 1..MaxPackets
      PROVE  Message(p, q, r, n) # <<>>
  <2>1. 1 \in DOMAIN Message(p, q, r, n)
    BY BoundAssumption DEF Message
  <2>. QED
    BY <2>1
<1>. QED
  BY <1>3, <1>4 DEF Messages

LEMMA NothingIsTyped == Nothing \in [Rank -> Payload]
PROOF BY DEF Nothing, Payload

-------------------------------------------------------------------------------
(* Type correctness *)

LEMMA TypeInit == Init => TypeOK
PROOF BY NothingIsTyped, BoundAssumption DEF Init, TypeOK

LEMMA TypeStep == TypeOK /\ [Next]_vars => TypeOK'
PROOF
<1>. SUFFICES ASSUME TypeOK, [Next]_vars
              PROVE  TypeOK'
  OBVIOUS
<1>. USE DEF TypeOK
<1>1. ASSUME NEW p \in Rank, NEW q \in Rank, Post(p, q)
      PROVE  TypeOK'
  <2>1. rnd[p] \in 1..MaxRound
    BY <1>1, BoundAssumption DEF Post
  <2>2. PICK m \in Messages(p, q, rnd[p]) : msg' = [msg EXCEPT ![p][q] = m]
    BY <1>1 DEF Post
  <2>3. m \in Payload
    BY <2>1, <2>2, MessagesArePayload
  <2>. QED
    BY <1>1, <2>2, <2>3 DEF Post
<1>2. ASSUME NEW p \in Rank, NEW q \in Rank, Take(p, q)
      PROVE  TypeOK'
  BY <1>2 DEF Take
<1>3. ASSUME NEW p \in Rank, Sync(p)
      PROVE  TypeOK'
  BY <1>3 DEF Sync
<1>4. ASSUME NEW p \in Rank, Advance(p)
      PROVE  TypeOK'
  <2>1. rnd'[p] \in 1..(MaxRound + 1)
    BY <1>4, BoundAssumption DEF Advance
  <2>. QED
    BY <1>4, <2>1, NothingIsTyped DEF Advance
<1>5. CASE UNCHANGED vars
  BY <1>5 DEF vars
<1>. QED
  BY <1>1, <1>2, <1>3, <1>4, <1>5 DEF Next

\* Type correctness of the promised rounds.
THEOREM BulkTypeCorrect == Spec => []TypeOK
PROOF BY TypeInit, TypeStep, PTL DEF Spec

-------------------------------------------------------------------------------
(* Separation of the rounds.  What a process has taken shows that the peer has *)
(* reached its round, and a process waits only after taking from everybody:    *)
(* so nobody overtakes a waiting process by more than one round.               *)

TakenFromReached == \A p, q \in Rank : taken[p][q] # <<>> => rnd[p] <= rnd[q]
SyncedTookAll == \A p \in synced : \A q \in Rank : taken[p][q] # <<>>

\* A message carries its sender, its receiver and the round of whoever holds it.
HeldOfRound == \A p, q \in Rank :
                 /\ msg[p][q] # <<>> => msg[p][q] \in Messages(p, q, rnd[p])
                 /\ taken[p][q] # <<>> => taken[p][q] \in Messages(q, p, rnd[p])

RoundInv == /\ TypeOK
            /\ TakenFromReached
            /\ SyncedTookAll
            /\ HeldOfRound
            /\ RoundsAdjacent
            /\ TakenIsPosted

LEMMA RoundInit == Init => RoundInv
PROOF
<1>. SUFFICES ASSUME Init
              PROVE  RoundInv
  OBVIOUS
<1>1. TypeOK
  BY TypeInit
<1>. QED
  BY <1>1 DEF Init, Nothing, RoundInv, TakenFromReached, SyncedTookAll, HeldOfRound,
              RoundsAdjacent, TakenIsPosted

LEMMA RoundStep == RoundInv /\ [Next]_vars => RoundInv'
PROOF
<1>. SUFFICES ASSUME RoundInv, [Next]_vars
              PROVE  RoundInv'
  OBVIOUS
<1>. USE DEF RoundInv
<1>0. TypeOK'
  BY TypeStep
<1>1. ASSUME NEW p \in Rank, NEW q \in Rank, Post(p, q)
      PROVE  RoundInv'
  <2>1. PICK m \in Messages(p, q, rnd[p]) : msg' = [msg EXCEPT ![p][q] = m]
    BY <1>1 DEF Post
  <2>2. UNCHANGED <<rnd, taken, synced>> /\ msg[p][q] = <<>>
    BY <1>1 DEF Post
  <2>3. TakenFromReached' /\ SyncedTookAll' /\ RoundsAdjacent'
    BY <2>2 DEF TakenFromReached, SyncedTookAll, RoundsAdjacent
  <2>4. HeldOfRound'
    BY <2>1, <2>2 DEF HeldOfRound, TypeOK
  <2>5. TakenIsPosted'
    BY <2>1, <2>2 DEF TakenIsPosted, TypeOK
  <2>. QED
    BY <1>0, <2>3, <2>4, <2>5
<1>2. ASSUME NEW p \in Rank, NEW q \in Rank, Take(p, q)
      PROVE  RoundInv'
  <2>1. /\ UNCHANGED <<rnd, msg, synced>> /\ rnd[p] = rnd[q] /\ p \notin synced
        /\ msg[q][p] # <<>>
        /\ taken' = [taken EXCEPT ![p][q] = msg[q][p]]
    BY <1>2 DEF Take
  <2>2. TakenFromReached' /\ SyncedTookAll'
    BY <2>1 DEF TakenFromReached, SyncedTookAll, TypeOK
  <2>3. HeldOfRound'
    BY <2>1 DEF HeldOfRound, TypeOK
  <2>4. RoundsAdjacent' /\ TakenIsPosted'
    BY <2>1 DEF RoundsAdjacent, TakenIsPosted, TypeOK
  <2>. QED
    BY <1>0, <2>2, <2>3, <2>4
<1>3. ASSUME NEW p \in Rank, Sync(p)
      PROVE  RoundInv'
  BY <1>0, <1>3 DEF Sync, TakenFromReached, SyncedTookAll, HeldOfRound, RoundsAdjacent, TakenIsPosted
<1>4. ASSUME NEW p \in Rank, Advance(p)
      PROVE  RoundInv'
  <2>1. /\ p \in synced
        /\ \A q \in Rank : q \in synced \/ rnd[q] > rnd[p]
        /\ \A q \in Rank : rnd[p] <= rnd[q]
    BY <1>4 DEF Advance, SyncedTookAll, TakenFromReached
  <2>2. /\ rnd' = [rnd EXCEPT ![p] = @ + 1]
        /\ msg' = [msg EXCEPT ![p] = Nothing]
        /\ taken' = [taken EXCEPT ![p] = Nothing]
        /\ synced' = synced \ {p}
        /\ rnd \in [Rank -> Nat]
    BY <1>4, BoundAssumption DEF Advance, TypeOK
  <2>3. TakenFromReached'
    BY <2>2 DEF TakenFromReached, TypeOK, Nothing
  <2>4. SyncedTookAll'
    BY <2>2 DEF SyncedTookAll, TypeOK
  <2>5. HeldOfRound'
    BY <2>2 DEF HeldOfRound, TypeOK, Nothing
  <2>6. RoundsAdjacent'
    BY <2>1, <2>2 DEF RoundsAdjacent
  <2>7. TakenIsPosted'
    BY <2>1, <2>2 DEF TakenIsPosted, TakenFromReached, TypeOK, Nothing
  <2>. QED
    BY <1>0, <2>3, <2>4, <2>5, <2>6, <2>7
<1>5. CASE UNCHANGED vars
  BY <1>0, <1>5 DEF vars, TakenFromReached, SyncedTookAll, HeldOfRound, RoundsAdjacent, TakenIsPosted
<1>. QED
  BY <1>1, <1>2, <1>3, <1>4, <1>5 DEF Next

LEMMA SyncedServed == RoundInv => SyncedIsServed
PROOF BY DEF RoundInv, TypeOK, SyncedTookAll, HeldOfRound, SyncedIsServed

\* For any number of processes the rounds stay apart: nobody is more than one round ahead,
\* the data a process takes are those its peer posted in the same exchange, and a process
\* that waits at the end of an exchange has a message of that exchange from every process.
THEOREM RoundsStayApart == Spec => []RoundsApart
PROOF
<1>1. RoundInv => RoundsApart
  BY SyncedServed DEF RoundInv, RoundsApart
<1>. QED
  BY RoundInit, RoundStep, <1>1, PTL DEF Spec
===============================================================================
