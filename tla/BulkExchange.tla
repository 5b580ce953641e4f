----------------------------- MODULE BulkExchange -----------------------------
(***************************************************************************)
(* What a collective data exchange of OOFEM promises to its callers.       *)
(*                                                                         *)
(* Load balancing, subdivision, nonlocal transfer and nodal recovery all   *)
(* call packAllData, initExchange, unpackAllData and finishExchange one    *)
(* after the other on every process.  Seen from the outside that is a      *)
(* sequence of rounds: in a round every process posts one message to every *)
(* process (itself included), takes one message from every process, and    *)
(* leaves the round only after everybody has taken everything.             *)
(***************************************************************************)
EXTENDS Naturals, FiniteSets

CONSTANTS Rank,        \* the MPI processes
          MaxPackets,  \* bound: longest message, in packets
          MaxRound     \* bound: number of rounds

ASSUME RankAssumption == IsFiniteSet(Rank) /\ Rank # {}
ASSUME BoundAssumption == MaxPackets \in Nat \ {0} /\ MaxRound \in Nat \ {0}

VARIABLES rnd,     \* rnd[p]: the round p takes part in
          msg,     \* msg[p][q]: what p has posted to q in its round, <<>> if nothing
          taken,   \* taken[p][q]: what p has taken from q in its round
          synced   \* the processes that wait at the end of their round

vars == <<rnd, msg, taken, synced>>

\* The message p sends to q in round r, made of n packets.
Message(p, q, r, n) == [i \in 1..n |-> <<p, q, r, i>>]
Messages(p, q, r) == {Message(p, q, r, n) : n \in 1..MaxPackets}

\* What a mailbox can hold: nothing, or a message of some pair and some round.
Payload == {<<>>} \union UNION {UNION {Messages(pq[1], pq[2], r) : r \in 1..MaxRound} : pq \in Rank \X Rank}

Nothing == [q \in Rank |-> <<>>]

Init == /\ rnd = [p \in Rank |-> 1]
        /\ msg = [p \in Rank |-> Nothing]
        /\ taken = [p \in Rank |-> Nothing]
        /\ synced = {}

\* Mutant of Post: the message is posted under the number of the previous round.
PostOfLastRound(p, q) == /\ rnd[p] <= MaxRound
                         /\ p \notin synced
                         /\ msg[p][q] = <<>>
                         /\ \E m \in Messages(p, q, rnd[p] - 1) : msg' = [msg EXCEPT ![p][q] = m]
                         /\ UNCHANGED <<rnd, taken, synced>>

Post(p, q) == /\ rnd[p] <= MaxRound
              /\ p \notin synced
              /\ msg[p][q] = <<>>
              /\ \E m \in Messages(p, q, rnd[p]) : msg' = [msg EXCEPT ![p][q] = m]
              /\ UNCHANGED <<rnd, taken, synced>>

\* p can only take a message of its own round.
Take(p, q) == /\ p \notin synced
              /\ rnd[q] = rnd[p]
              /\ msg[q][p] # <<>>
              /\ taken[p][q] = <<>>
              /\ taken' = [taken EXCEPT ![p][q] = msg[q][p]]
              /\ UNCHANGED <<rnd, msg, synced>>

Sync(p) == /\ p \notin synced
           /\ \A q \in Rank : msg[p][q] # <<>> /\ taken[p][q] # <<>>
           /\ synced' = synced \union {p}
           /\ UNCHANGED <<rnd, msg, taken>>

\* Mutant of Advance: p does not wait for the others.
AdvanceAlone(p) == /\ rnd[p] <= MaxRound
                   /\ p \in synced
                   /\ rnd' = [rnd EXCEPT ![p] = @ + 1]
                   /\ msg' = [msg EXCEPT ![p] = Nothing]
                   /\ taken' = [taken EXCEPT ![p] = Nothing]
                   /\ synced' = synced \ {p}

\* p starts its next round once no process is still busy with p's round.
Advance(p) == /\ rnd[p] <= MaxRound
              /\ p \in synced
              /\ \A q \in Rank : q \in synced \/ rnd[q] > rnd[p]
              /\ rnd' = [rnd EXCEPT ![p] = @ + 1]
              /\ msg' = [msg EXCEPT ![p] = Nothing]
              /\ taken' = [taken EXCEPT ![p] = Nothing]
              /\ synced' = synced \ {p}

Next == \E p \in Rank : \/ \E q \in Rank : Post(p, q) \/ Take(p, q)
                        \/ Sync(p)
                        \/ Advance(p)

Spec == Init /\ [][Next]_vars
-------------------------------------------------------------------------------
\* Every variable has its type.
TypeOK == /\ rnd \in [Rank -> 1..(MaxRound + 1)]
          /\ msg \in [Rank -> [Rank -> Payload]]
          /\ taken \in [Rank -> [Rank -> Payload]]
          /\ synced \subseteq Rank

\* Nobody is more than one round ahead of anybody, and whoever is behind only
\* waits to leave a round it has completed.
RoundsAdjacent == \A p, q \in Rank : rnd[p] < rnd[q] => rnd[q] = rnd[p] + 1 /\ p \in synced

\* What was taken is exactly what the peer posted in the same round, as long as
\* the peer is in that round: a process never mixes the data of two exchanges.
TakenIsPosted == \A p, q \in Rank :
                    taken[p][q] # <<>> /\ rnd[q] = rnd[p] => taken[p][q] = msg[q][p]

\* Whoever waits at the end of a round holds the message every peer sent it in
\* that very round.
SyncedIsServed == \A p \in synced : \A q \in Rank : taken[p][q] \in Messages(q, p, rnd[p])

\* The rounds stay apart in all three respects: what unpackAllData relies on when it takes
\* whatever comes under the tag of the exchange.
RoundsApart == RoundsAdjacent /\ TakenIsPosted /\ SyncedIsServed
===============================================================================
