---------------------------- MODULE PacketExchange ----------------------------
(***************************************************************************)
(* The collective exchange over dynamic communication buffers.             *)
(*                                                                         *)
(* Each process owns one static CommunicationPacketPool that all its send  *)
(* and receive buffers (DynamicCommunicationBuffer) draw packets from.  A  *)
(* message is a list of packets sent one by one on the same tag; the       *)
(* receiver posts one receive at a time and learns from the EOF flag in a  *)
(* packet's header that the message is complete.                           *)
(*                                                                         *)
(* Every process runs the same caller, e.g. LoadBalancer::migrateLoad:     *)
(* build the buffers, packAllData, initExchange, unpackAllData (it ends in *)
(* MPI_Barrier), finishExchange, and the buffers go out of scope.  In      *)
(* CommMode_Dynamic every process exchanges with every process, itself     *)
(* included.  All rounds use one tag, which is the hardest case: a late    *)
(* packet of one round could be taken for a packet of the next.            *)
(*                                                                         *)
(* MPI is external.  A standard-mode send may be completed by a copy into  *)
(* library memory (EagerSends) or only when the receiver takes the data    *)
(* straight out of the sender's packet, so the content of a packet matters *)
(* until its request completes.                                            *)
(***************************************************************************)
EXTENDS Naturals, Sequences, FiniteSets

CONSTANTS Rank,        \* MPI ranks
          MaxPackets,  \* bound: longest message, in packets
          Long,        \* bound: the processes whose messages may take more than a packet
          MaxRound,    \* bound: number of exchanges a process performs
          EagerSends   \* whether MPI may buffer a send

ASSUME RankAssumption == Rank \subseteq Nat /\ IsFiniteSet(Rank) /\ Rank # {} /\ Long \subseteq Rank
ASSUME BoundAssumption == MaxPackets \in Nat \ {0} /\ MaxRound \in Nat \ {0}
ASSUME EagerAssumption == EagerSends \in BOOLEAN

VARIABLES
  pc,        \* pc[p]: the call of the exchange p is in
  todo,      \* todo[p]: the peers the loop of that call has still to visit
  round,     \* round[p]: how many exchanges p has begun
  entered,   \* entered[p]: how many MPI_Barrier calls p has made
  packet,    \* packet[p]: the packets p has allocated so far
  free,      \* free[p]: available_packets of p's pool
  sendBuf,   \* sendBuf[p][q]: p's buffer for sending to q
  recvBuf,   \* recvBuf[p][q]: p's buffer for receiving from q
  chan,      \* chan[p][q]: sends from p to q that q has not received
  inbox      \* inbox[p][q]: what p's unpack function read from q this round

local == <<pc, todo, round, entered>>
memory == <<packet, free, sendBuf, recvBuf>>
vars == <<local, memory, chan, inbox>>
-------------------------------------------------------------------------------
(* Packets and the pool *)

\* An empty piece of wire data: header (number, EOF) and payload.
Blank == [number |-> 0, eof |-> FALSE, body |-> <<>>]

FreshPacket == [number |-> 0, eof |-> FALSE, request |-> "null", buff |-> Blank]

\* popPacket: the first available packet, or a newly allocated one.
PopPacket(heap, pool) == IF pool = <<>> THEN Len(heap) + 1 ELSE Head(pool)
PoolAfterPop(pool) == IF pool = <<>> THEN <<>> ELSE Tail(pool)

\* Mutants of InitPacket: the EOF flag of the packet's last use survives; the
\* packet counter is incremented twice.
InitPacketKeepsEOF(heap, k, n) ==
  LET h == IF k > Len(heap) THEN Append(heap, FreshPacket) ELSE heap
  IN [h EXCEPT ![k] = [@ EXCEPT !.number = n, !.request = "null"]]
InitPacketMiscounts(heap, k, n) ==
  LET h == IF k > Len(heap) THEN Append(heap, FreshPacket) ELSE heap
  IN [h EXCEPT ![k] = [@ EXCEPT !.number = n + 1, !.eof = FALSE, !.request = "null"]]

\* allocateNewPacket: what the popped packet k is turned into; init leaves the bytes alone.
InitPacket(heap, k, n) ==
  LET h == IF k > Len(heap) THEN Append(heap, FreshPacket) ELSE heap
  IN [h EXCEPT ![k] = [@ EXCEPT !.number = n, !.eof = FALSE, !.request = "null"]]

WriteBody(heap, k, b) == [heap EXCEPT ![k].buff.body = b]

EmptySendBuf == [list |-> <<>>, completed |-> FALSE]
EmptyRecvBuf == [list |-> <<>>, active |-> 0, completed |-> FALSE]

\* Mutant of ActivePacket: the first packet of the list is taken for the active one.
FirstPacket(list) == list[1]

\* The active packet of a buffer that has been filled is the last one of its list.
ActivePacket(list) == list[Len(list)]

\* Mutants of Clear: the list is freed twice; the packets are not freed at all.
ClearTwice(pool, list) == pool \o list \o list
ClearLeaks(pool, list) == pool

\* clear: the packets of the list go back to the end of the pool.
Clear(pool, list) == pool \o list
-------------------------------------------------------------------------------
(* Control: the loops over processComms visit the peers in rank order *)

Turn(p, q) == q \in todo[p] /\ \A r \in todo[p] : q <= r

\* The loop goes on to the next peer, or all peers are done and the next call begins.
NextPeer(p, q, here, next) ==
  /\ pc' = [pc EXCEPT ![p] = IF todo[p] = {q} THEN next ELSE here]
  /\ todo' = [todo EXCEPT ![p] = IF todo[p] = {q} THEN Rank ELSE @ \ {q}]

Init ==
  /\ pc = [p \in Rank |-> "pack"]
  /\ todo = [p \in Rank |-> Rank]
  /\ round = [p \in Rank |-> 1]
  /\ entered = [p \in Rank |-> 0]
  /\ packet = [p \in Rank |-> <<>>]
  /\ free = [p \in Rank |-> <<>>]
  /\ sendBuf = [p \in Rank |-> [q \in Rank |-> EmptySendBuf]]
  /\ recvBuf = [p \in Rank |-> [q \in Rank |-> EmptyRecvBuf]]
  /\ chan = [p \in Rank |-> [q \in Rank |-> <<>>]]
  /\ inbox = [p \in Rank |-> [q \in Rank |-> <<>>]]

\* p allocates packet number n of its message to q and the pack function fills it.
AppendPacket(p, q, pool, list, n) ==
  LET k == PopPacket(packet[p], pool)
      h == InitPacket(packet[p], k, n)
  IN /\ packet' = [packet EXCEPT ![p] = WriteBody(h, k, <<p, q, round[p], n>>)]
     /\ free' = [free EXCEPT ![p] = PoolAfterPop(pool)]
     /\ sendBuf' = [sendBuf EXCEPT ![p][q].list = Append(list, k)]

\* packAllData, one peer: initForPacking clears the buffer and starts packet 1.
PackData(p, q) ==
  /\ pc[p] = "pack" /\ Turn(p, q)
  /\ pc' = [pc EXCEPT ![p] = "write"]
  /\ AppendPacket(p, q, Clear(free[p], sendBuf[p][q].list), <<>>, 1)
  /\ UNCHANGED <<todo, round, entered, recvBuf, chan, inbox>>

\* __write: the active packet is full, the data go on in a new one.
WriteMore(p, q) ==
  /\ pc[p] = "write" /\ Turn(p, q)
  /\ p \in Long /\ Len(sendBuf[p][q].list) < MaxPackets
  /\ AppendPacket(p, q, free[p], sendBuf[p][q].list, Len(sendBuf[p][q].list) + 1)
  /\ UNCHANGED <<local, recvBuf, chan, inbox>>

\* The pack function for q returns.
PackReturn(p, q) ==
  /\ pc[p] = "write" /\ Turn(p, q)
  /\ NextPeer(p, q, "pack", "init")
  /\ UNCHANGED <<round, entered, memory, chan, inbox>>
-------------------------------------------------------------------------------
(* initExchange *)

\* Mutant of SentHeap: nobody sets the EOF flag.
SentHeapNoEOF(heap, list) ==
  [k \in DOMAIN heap |->
     IF \E i \in DOMAIN list : list[i] = k
     THEN [heap[k] EXCEPT !.request = "active", !.buff.number = heap[k].number, !.buff.eof = heap[k].eof]
     ELSE heap[k]]

\* iSend: EOF on the active packet only, then every packet goes out with its header.
SentHeap(heap, list) ==
  [k \in DOMAIN heap |->
     IF \E i \in DOMAIN list : list[i] = k
     THEN LET e == heap[k].eof \/ k = ActivePacket(list)
          IN [heap[k] EXCEPT !.eof = e, !.request = "active",
                             !.buff.number = heap[k].number, !.buff.eof = e]
     ELSE heap[k]]

\* A send the library has not copied yet refers to the sender's packet.
SendEntries(list) == [i \in DOMAIN list |-> [ref |-> list[i], data |-> Blank]]

\* The receive buffer allocates packet number n and posts a receive into it.
PostReceive(heap, k, n) == [InitPacket(heap, k, n) EXCEPT ![k].request = "active"]

\* initExchange, one peer: iSend, then iRecv for the first packet of q's message.
InitExchange(p, q) ==
  LET list == sendBuf[p][q].list
      heap == SentHeap(packet[p], list)
      pool == Clear(free[p], recvBuf[p][q].list)
      k == PopPacket(heap, pool)
  IN /\ pc[p] = "init" /\ Turn(p, q)
     /\ NextPeer(p, q, "init", "unpack")
     /\ chan' = [chan EXCEPT ![p][q] = @ \o SendEntries(list)]
     /\ packet' = [packet EXCEPT ![p] = PostReceive(heap, k, 1)]
     /\ free' = [free EXCEPT ![p] = PoolAfterPop(pool)]
     /\ sendBuf' = [sendBuf EXCEPT ![p][q].completed = FALSE]
     /\ recvBuf' = [recvBuf EXCEPT ![p][q] = [list |-> <<>>, active |-> k, completed |-> FALSE]]
     /\ UNCHANGED <<round, entered, inbox>>
-------------------------------------------------------------------------------
(* MPI (external): buffering and delivery, in order per pair of processes *)

Copy(p, q) ==
  /\ EagerSends
  /\ \E i \in DOMAIN chan[p][q] :
       LET k == chan[p][q][i].ref
       IN /\ k # 0
          /\ chan' = [chan EXCEPT ![p][q][i] = [ref |-> 0, data |-> packet[p][k].buff]]
          /\ packet' = [packet EXCEPT ![p][k].request = "complete"]
  /\ UNCHANGED <<local, free, sendBuf, recvBuf, inbox>>

Wire(p, entry) == IF entry.ref = 0 THEN entry.data ELSE packet[p][entry.ref].buff

\* The first outstanding send of p to q meets the receive q has posted for p.
Deliver(p, q) ==
  LET a == recvBuf[q][p].active
      e == Head(chan[p][q])
      sent == IF e.ref = 0 THEN packet ELSE [packet EXCEPT ![p][e.ref].request = "complete"]
  IN /\ chan[p][q] # <<>>
     /\ a # 0 /\ ~recvBuf[q][p].completed /\ packet[q][a].request = "active"
     /\ chan' = [chan EXCEPT ![p][q] = Tail(@)]
     /\ packet' = [sent EXCEPT ![q][a] = [@ EXCEPT !.request = "complete", !.buff = Wire(p, e)]]
     /\ UNCHANGED <<local, free, sendBuf, recvBuf, inbox>>
-------------------------------------------------------------------------------
(* unpackAllData *)

\* receiveCompleted, the test of the active packet succeeded: unpackHeader.
UnpackHeader(heap, a) ==
  [heap EXCEPT ![a] = [@ EXCEPT !.request = "null", !.number = heap[a].buff.number,
                               !.eof = heap[a].buff.eof]]

Received(p, q) == /\ pc[p] = "unpack" /\ q \in todo[p]
                  /\ packet[p][recvBuf[p][q].active].request # "active"

\* An inner packet arrived: keep it and post the receive for the next one.
ReceivePacket(p, q) ==
  LET a == recvBuf[p][q].active
      list == Append(recvBuf[p][q].list, a)
      heap == UnpackHeader(packet[p], a)
      k == PopPacket(heap, free[p])
  IN /\ Received(p, q)
     /\ ~packet[p][a].buff.eof
     /\ packet' = [packet EXCEPT ![p] = PostReceive(heap, k, Len(list) + 1)]
     /\ free' = [free EXCEPT ![p] = PoolAfterPop(@)]
     /\ recvBuf' = [recvBuf EXCEPT ![p][q] = [@ EXCEPT !.list = list, !.active = k]]
     /\ UNCHANGED <<local, sendBuf, chan, inbox>>

\* The packet with the EOF flag arrived: the message is complete and unpackData reads it.
ReceiveLast(p, q) ==
  LET a == recvBuf[p][q].active
      list == Append(recvBuf[p][q].list, a)
  IN /\ Received(p, q)
     /\ packet[p][a].buff.eof
     /\ packet' = [packet EXCEPT ![p] = UnpackHeader(@, a)]
     /\ recvBuf' = [recvBuf EXCEPT ![p][q] =
                      [list |-> list, active |-> ActivePacket(list), completed |-> TRUE]]
     /\ inbox' = [inbox EXCEPT ![p][q] = [i \in DOMAIN list |-> packet[p][list[i]].buff.body]]
     /\ todo' = [todo EXCEPT ![p] = @ \ {q}]
     /\ UNCHANGED <<pc, round, entered, free, sendBuf, chan>>

\* unpackAllData ends in MPI_Barrier(MPI_COMM_WORLD).
EnterBarrier(p) ==
  /\ pc[p] = "unpack" /\ todo[p] = {}
  /\ pc' = [pc EXCEPT ![p] = "barrier"]
  /\ entered' = [entered EXCEPT ![p] = @ + 1]
  /\ UNCHANGED <<todo, round, memory, chan, inbox>>

\* Mutant of AllEntered: no barrier at the end of unpackAllData.
NoBarrier(p) == TRUE

\* MPI_Barrier (external): it returns once every process has made as many calls.
AllEntered(p) == \A q \in Rank : entered[q] >= entered[p]

LeaveBarrier(p) ==
  /\ pc[p] = "barrier"
  /\ AllEntered(p)
  /\ pc' = [pc EXCEPT ![p] = "finish"]
  /\ todo' = [todo EXCEPT ![p] = Rank]
  /\ UNCHANGED <<round, entered, memory, chan, inbox>>
-------------------------------------------------------------------------------
(* finishExchange and the end of the buffers' life *)

\* Mutant of TestSends: finishExchange does not test the sends.
SendsNotTested(heap, list) == heap

\* MPI_Test on the completed send of each packet in the list frees its request.
TestSends(heap, list) ==
  [k \in DOMAIN heap |-> IF \E i \in DOMAIN list : list[i] = k
                         THEN [heap[k] EXCEPT !.request = "null"] ELSE heap[k]]

\* sendCompleted
SendCompleted(p, q) ==
  \A i \in DOMAIN sendBuf[p][q].list : packet[p][sendBuf[p][q].list[i]].request # "active"

\* finishExchange, one peer: waitCompletion spins until both directions have completed.
FinishExchange(p, q) ==
  LET list == sendBuf[p][q].list
  IN /\ pc[p] = "finish" /\ Turn(p, q)
     /\ SendCompleted(p, q)
     /\ recvBuf[p][q].completed
     /\ packet' = [packet EXCEPT ![p] = TestSends(@, list)]
     /\ sendBuf' = [sendBuf EXCEPT ![p][q].completed = TRUE]
     /\ NextPeer(p, q, "finish", "release")
     /\ UNCHANGED <<round, entered, free, recvBuf, chan, inbox>>

\* ~DynamicCommunicationBuffer: clear puts every packet of the list back into the pool.
Release(p, q) ==
  /\ pc[p] = "release" /\ Turn(p, q)
  /\ free' = [free EXCEPT ![p] = Clear(Clear(@, recvBuf[p][q].list), sendBuf[p][q].list)]
  /\ recvBuf' = [recvBuf EXCEPT ![p][q] = EmptyRecvBuf]
  /\ sendBuf' = [sendBuf EXCEPT ![p][q] = EmptySendBuf]
  /\ inbox' = [inbox EXCEPT ![p][q] = <<>>]
  /\ NextPeer(p, q, "release", IF round[p] = MaxRound THEN "done" ELSE "pack")
  /\ round' = [round EXCEPT ![p] = IF todo[p] = {q} THEN @ + 1 ELSE @]
  /\ UNCHANGED <<entered, packet, chan>>
-------------------------------------------------------------------------------
Process(p) ==
  \/ \E q \in Rank : \/ PackData(p, q) \/ WriteMore(p, q) \/ PackReturn(p, q)
                     \/ InitExchange(p, q)
                     \/ ReceivePacket(p, q) \/ ReceiveLast(p, q)
                     \/ FinishExchange(p, q) \/ Release(p, q)
  \/ EnterBarrier(p)
  \/ LeaveBarrier(p)

Network == \E p, q \in Rank : Copy(p, q) \/ Deliver(p, q)

Next == (\E p \in Rank : Process(p)) \/ Network

Spec == Init /\ [][Next]_vars

\* Each process keeps running (its waits are busy loops) and MPI makes progress
\* on a matched pair of send and receive.
Fairness == /\ \A p \in Rank : WF_vars(Process(p))
            /\ \A p, q \in Rank : WF_vars(Deliver(p, q))

FairSpec == Spec /\ Fairness
-------------------------------------------------------------------------------
(* Properties *)

Bodies == {<<>>} \union (Rank \X Rank \X (1..MaxRound) \X (1..MaxPackets))
Wires == [number : 0..MaxPackets, eof : BOOLEAN, body : Bodies]
Packets == [number : 0..MaxPackets, eof : BOOLEAN,
            request : {"null", "active", "complete"}, buff : Wires]

\* Every variable has its type; a packet index always names an allocated packet.
TypeOK ==
  /\ pc \in [Rank -> {"pack", "write", "init", "unpack", "barrier", "finish", "release", "done"}]
  /\ todo \in [Rank -> SUBSET Rank]
  /\ round \in [Rank -> 1..(MaxRound + 1)]
  /\ entered \in [Rank -> 0..MaxRound]
  /\ packet \in [Rank -> Seq(Packets)]
  /\ free \in [Rank -> Seq(Nat \ {0})]
  /\ sendBuf \in [Rank -> [Rank -> [list : Seq(Nat \ {0}), completed : BOOLEAN]]]
  /\ recvBuf \in [Rank -> [Rank -> [list : Seq(Nat \ {0}), active : Nat, completed : BOOLEAN]]]
  /\ chan \in [Rank -> [Rank -> Seq([ref : Nat, data : Wires])]]
  /\ inbox \in [Rank -> [Rank -> Seq(Bodies)]]

\* The places of process p that hold its packet k: the pool, a buffer's list, or
\* the pending receive of a buffer.
Holders(p, k) ==
  {<<"free", p, i>> : i \in {j \in DOMAIN free[p] : free[p][j] = k}}
  \union (UNION {{<<"send", q, i>> : i \in {j \in DOMAIN sendBuf[p][q].list : sendBuf[p][q].list[j] = k}}
                : q \in Rank})
  \union (UNION {{<<"recv", q, i>> : i \in {j \in DOMAIN recvBuf[p][q].list : recvBuf[p][q].list[j] = k}}
                : q \in Rank})
  \union {<<"pending", q, 1>> : q \in {r \in Rank : recvBuf[p][r].active = k /\ ~recvBuf[p][r].completed}}

\* The pool never leases a packet to two buffers, never frees one twice and never
\* loses one, whatever the interleaving of packing, receiving and destruction.
PacketsHeldOnce == \A p \in Rank : \A k \in DOMAIN packet[p] : Cardinality(Holders(p, k)) = 1

\* A packet returns to the pool only after MPI is through with it, and until a
\* send has been delivered its packet still holds what was packed for that peer
\* in this round: reuse by another buffer never corrupts data in flight.
NoReuseInFlight ==
  /\ \A p \in Rank : \A i \in DOMAIN free[p] : packet[p][free[p][i]].request = "null"
  /\ \A p, q \in Rank : \A i \in DOMAIN chan[p][q] :
        LET b == Wire(p, chan[p][q][i]).body
        IN b[1] = p /\ b[2] = q /\ b[3] = round[p]

\* What the unpack function reads from q is the whole message q packed for this
\* round: its packets in order, none missing, none of another round or peer.
MessageIntegrity ==
  \A p, q \in Rank :
    inbox[p][q] # <<>> =>
      /\ \A i \in DOMAIN inbox[p][q] : inbox[p][q][i] = <<q, p, round[p], i>>
      /\ round[q] = round[p] /\ pc[q] # "release"
            => Len(inbox[p][q]) = Len(sendBuf[q][p].list)

\* When a process has passed the barrier no other process still waits for data of
\* its round, and nothing of its round is left on the wire.
QuietAfterBarrier ==
  \A p, q \in Rank :
    /\ round[p] > round[q] => round[p] = round[q] + 1 /\ pc[q] \in {"barrier", "finish", "release"}
    /\ pc[p] \in {"finish", "release"} => chan[q][p] = <<>> \/ round[q] > round[p]

\* Repeating exchanges does not make the pool grow beyond the demand of one.
PoolBounded == \A p \in Rank : Len(packet[p]) <= 2 * Cardinality(Rank) * MaxPackets

\* Every process gets through all its exchanges: the collective calls never
\* leave processes waiting for one another.
Termination == \A p \in Rank : <>(pc[p] = "done")
-------------------------------------------------------------------------------
(* The exchange implements the rounds of BulkExchange.  Once past the barrier a *)
(* process counts as being in its next round.                                   *)

Left(p) == pc[p] \in {"finish", "release"}

Posted(p, q) ==
  IF Left(p) \/ pc[p] \in {"pack", "write", "done"} \/ (pc[p] = "init" /\ q \in todo[p])
  THEN <<>>
  ELSE [i \in DOMAIN sendBuf[p][q].list |-> packet[p][sendBuf[p][q].list[i]].buff.body]

Bulk == INSTANCE BulkExchange WITH
  rnd <- [p \in Rank |-> IF Left(p) THEN round[p] + 1 ELSE round[p]],
  msg <- [p \in Rank |-> [q \in Rank |-> Posted(p, q)]],
  taken <- [p \in Rank |-> [q \in Rank |-> IF Left(p) THEN <<>> ELSE inbox[p][q]]],
  synced <- {p \in Rank : pc[p] = "barrier"}

\* Every step of the buffers, the pool and the network is a step of the
\* promised rounds or invisible to the callers.
ImplementsBulk == Bulk!Spec
===============================================================================
