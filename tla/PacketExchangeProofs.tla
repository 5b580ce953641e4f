----------------------- MODULE PacketExchangeProofs ------------------------
(***************************************************************************)
(* The exchange over dynamic buffers is safe for any number of processes,  *)
(* any message length and any number of rounds, and it implements the      *)
(* rounds of BulkExchange.                                                 *)
(***************************************************************************)
EXTENDS PacketExchange, FiniteSetTheorems, SequenceTheorems, TLAPS

(* The inductive invariant, part by part *)

\* Where p is in its exchange with q, told from the call p is in.
Filled(p, q) ==
  \/ pc[p] \in {"init", "unpack", "barrier", "finish"}
  \/ pc[p] = "pack" /\ q \notin todo[p]
  \/ pc[p] = "write" /\ (q \notin todo[p] \/ Turn(p, q))
  \/ pc[p] = "release" /\ q \in todo[p]
OnTheWay(p, q) == pc[p] \in {"unpack", "barrier"} \/ (pc[p] = "init" /\ q \notin todo[p])
HasSent(p, q) == OnTheWay(p, q) \/ Left(p)
Waiting(p, q) == (pc[p] = "init" /\ q \notin todo[p]) \/ (pc[p] = "unpack" /\ q \in todo[p])
Got(p, q) ==
  \/ pc[p] = "unpack" /\ q \notin todo[p]
  \/ pc[p] \in {"barrier", "finish"}
  \/ pc[p] = "release" /\ q \in todo[p]
Tested(p, q) == (pc[p] = "finish" /\ q \notin todo[p]) \/ (pc[p] = "release" /\ q \in todo[p])

\* q has all of the message p sends it in p's round.
Served(p, q) ==
  \/ round[q] > round[p]
  \/ round[q] = round[p] /\ (pc[q] \in {"barrier", "finish", "release"}
                             \/ (pc[q] = "unpack" /\ p \notin todo[q]))

\* The barriers p has passed.
Passed(p) == IF Left(p) THEN round[p] ELSE round[p] - 1

\* How many barriers p has entered, and when it is through.
ControlInv ==
  \A p \in Rank :
    /\ entered[p] = IF pc[p] \in {"barrier", "finish", "release"} THEN round[p] ELSE round[p] - 1
    /\ pc[p] = "done" <=> round[p] = MaxRound + 1
    /\ pc[p] = "barrier" => todo[p] = {}

BarrierInv == \A p, q \in Rank : Passed(p) <= entered[q]

\* What each buffer is for, in each stage.
BuffersRight(p, q) ==
  /\ sendBuf[p][q].list # <<>> <=> Filled(p, q)
  /\ Len(sendBuf[p][q].list) <= MaxPackets
  /\ Waiting(p, q) => recvBuf[p][q].active # 0 /\ ~recvBuf[p][q].completed /\ inbox[p][q] = <<>>
  /\ Got(p, q) => recvBuf[p][q].completed
  /\ ~Waiting(p, q) /\ ~Got(p, q) => recvBuf[p][q] = EmptyRecvBuf /\ inbox[p][q] = <<>>

BufferInv == \A p, q \in Rank : BuffersRight(p, q)

\* The shelves of p on which its packets lie.
Free == <<"free", 0>>
Shelf == {Free} \union ({"send", "recv", "pending"} \X Rank)
Pending(b) == IF b.active # 0 /\ ~b.completed THEN <<b.active>> ELSE <<>>
Shelves(p) == [s \in Shelf |-> CASE s[1] = "free" -> free[p]
                                 [] s[1] = "send" -> sendBuf[p][s[2]].list
                                 [] s[1] = "recv" -> recvBuf[p][s[2]].list
                                 [] s[1] = "pending" -> Pending(recvBuf[p][s[2]])]

\* The packets 1..n lie in exactly one place of one shelf each.
Tidy(L, n) ==
  /\ \A s \in DOMAIN L : \A i \in DOMAIN L[s] : L[s][i] \in 1..n
  /\ \A s, t \in DOMAIN L : \A i \in DOMAIN L[s], j \in DOMAIN L[t] : L[s][i] = L[t][j] => s = t /\ i = j
  /\ \A k \in 1..n : \E s \in DOMAIN L : \E i \in DOMAIN L[s] : L[s][i] = k

TidyInv == \A p \in Rank : Tidy(Shelves(p), Len(packet[p]))

\* Packets MPI is through with.
PoolIdle(p) == \A i \in DOMAIN free[p] : packet[p][free[p][i]].request = "null"
BuffersIdle(p, q) ==
  /\ \A i \in DOMAIN recvBuf[p][q].list : packet[p][recvBuf[p][q].list[i]].request = "null"
  /\ Tested(p, q) =>
       \A i \in DOMAIN sendBuf[p][q].list : packet[p][sendBuf[p][q].list[i]].request = "null"
  /\ Waiting(p, q) => packet[p][recvBuf[p][q].active].request \in {"active", "complete"}

IdleInv == \A p \in Rank : PoolIdle(p) /\ \A q \in Rank : BuffersIdle(p, q)

\* What a packet of p's message to q holds.
Packed(p, q) ==
  \A i \in DOMAIN sendBuf[p][q].list :
    LET k == packet[p][sendBuf[p][q].list[i]]
    IN /\ k.buff.body = <<p, q, round[p], i>>
       /\ ~HasSent(p, q) => k.number = i /\ ~k.eof

SendInv == \A p, q \in Rank : Packed(p, q)

\* Packet i of the n that p sends q in round r, as it travels.
WirePacket(p, q, r, i, n) == [number |-> i, eof |-> (i = n), body |-> <<p, q, r, i>>]

\* How much of p's message has come to q, read or not.
Delivered(p, q) ==
  IF round[q] = round[p] /\ Waiting(q, p)
  THEN Len(recvBuf[q][p].list) + (IF packet[q][recvBuf[q][p].active].request = "active" THEN 0 ELSE 1)
  ELSE 0

\* The rest of it is on the wire, in order.
OnWire(p, q) ==
  LET list == sendBuf[p][q].list
      c == chan[p][q]
      d == Delivered(p, q)
  IN /\ OnTheWay(p, q) /\ ~Served(p, q) =>
          /\ Len(c) + d = Len(list)
          /\ \A i \in DOMAIN c : /\ Wire(p, c[i]) = WirePacket(p, q, round[p], d + i, Len(list))
                                 /\ c[i].ref = 0 \/ c[i].ref = list[d + i]
     /\ ~OnTheWay(p, q) \/ Served(p, q) => c = <<>>

WireInv == \A p, q \in Rank : OnWire(p, q)

\* What q has of p's message, while it waits and afterwards.
Reads(p, q) ==
  LET b == recvBuf[q][p]
      a == packet[q][b.active]
      n == Len(sendBuf[p][q].list)
  IN /\ Waiting(q, p) /\ ~(round[p] = round[q] /\ OnTheWay(p, q)) => b.list = <<>> /\ a.request = "active"
     /\ Waiting(q, p) /\ round[p] = round[q] /\ OnTheWay(p, q) =>
          /\ \A i \in DOMAIN b.list : i < n /\ packet[q][b.list[i]].buff = WirePacket(p, q, round[q], i, n)
          /\ a.request = "complete" => a.buff = WirePacket(p, q, round[q], Len(b.list) + 1, n)
     /\ Got(q, p) =>
          /\ b.list # <<>> /\ inbox[q][p] = [i \in DOMAIN b.list |-> <<p, q, round[q], i>>]
          /\ round[q] <= round[p]
          /\ round[q] = round[p] => HasSent(p, q)
          /\ round[q] = round[p] /\ Filled(p, q) => Len(b.list) = n

ReadInv == \A p, q \in Rank : Reads(p, q)

ExchangeInv ==
  /\ TypeOK
  /\ ControlInv
  /\ BarrierInv
  /\ BufferInv
  /\ TidyInv
  /\ IdleInv
  /\ SendInv
  /\ WireInv
  /\ ReadInv
-------------------------------------------------------------------------------
(* Packets move between shelves *)

\* y is x with k at its end; y is x without its first element k, or x is empty
\* and k is new; y is x followed by z; x holds k and nothing else.  All of it
\* said of places, not of sequences.
Puts(x, y, k) ==
  \E a : /\ a \notin DOMAIN x /\ DOMAIN y = DOMAIN x \union {a} /\ y[a] = k
         /\ \A i \in DOMAIN x : y[i] = x[i]
Pops(x, y, k, n, m) ==
  \/ /\ k = n + 1 /\ m = n + 1 /\ DOMAIN x = {} /\ DOMAIN y = {}
  \/ /\ m = n /\ 1 \in DOMAIN x /\ k = x[1]
     /\ \A i \in DOMAIN y : i \in Nat \ {0} /\ i + 1 \in DOMAIN x /\ y[i] = x[i + 1]
     /\ \A i \in DOMAIN x : i \in Nat /\ (i # 1 => i - 1 \in DOMAIN y)
Joins(x, z, y) ==
  \E f \in Nat :
    /\ \A i \in DOMAIN x : i \in DOMAIN y /\ i <= f /\ y[i] = x[i]
    /\ \A i \in DOMAIN z : i \in Nat \ {0} /\ i + f \in DOMAIN y /\ y[i + f] = z[i]
    /\ \A i \in DOMAIN y : i \in Nat /\ (i \in DOMAIN x \/ (i > f /\ i - f \in DOMAIN z))

Single(x) == DOMAIN x = {1}

\* Append puts a packet index at the end of a list.
LEMMA PutsAppend ==
  ASSUME NEW x \in Seq(Nat), NEW k \in Nat
  PROVE  Puts(x, Append(x, k), k)
PROOF
<1>1. /\ DOMAIN x = 1..Len(x) /\ Len(x) \in Nat
      /\ DOMAIN Append(x, k) = 1..(Len(x) + 1) /\ Append(x, k)[Len(x) + 1] = k
      /\ \A i \in DOMAIN x : Append(x, k)[i] = x[i]
  OBVIOUS
<1>2. /\ Len(x) + 1 \notin DOMAIN x
      /\ DOMAIN Append(x, k) = DOMAIN x \union {Len(x) + 1}
  BY <1>1
<1>. QED
  BY <1>1, <1>2 DEF Puts

\* Popping an empty pool allocates the next packet.
LEMMA PopsNew ==
  ASSUME NEW n \in Nat
  PROVE  Pops(<<>>, <<>>, n + 1, n, n + 1)
BY DEF Pops

\* Popping a pool takes its first packet.
LEMMA PopsOld ==
  ASSUME NEW x \in Seq(Nat), x # <<>>, NEW n \in Nat
  PROVE  Pops(x, Tail(x), Head(x), n, n)
PROOF
<1>1. /\ DOMAIN x = 1..Len(x) /\ Len(x) \in Nat
      /\ DOMAIN Tail(x) = 1..(Len(x) - 1) /\ Head(x) = x[1] /\ 1 \in DOMAIN x
      /\ \A i \in DOMAIN Tail(x) : i + 1 \in DOMAIN x /\ Tail(x)[i] = x[i + 1]
  OBVIOUS
<1>2. /\ \A i \in 1..(Len(x) - 1) : i \in Nat \ {0}
      /\ \A i \in 1..Len(x) : i \in Nat /\ (i # 1 => i - 1 \in 1..(Len(x) - 1))
  BY <1>1
<1>. QED
  BY <1>1, <1>2 DEF Pops

\* clear puts the packets of a list behind those of the pool.
LEMMA JoinsConcat ==
  ASSUME NEW x \in Seq(Nat), NEW z \in Seq(Nat)
  PROVE  Joins(x, z, x \o z)
PROOF
<1>1. /\ DOMAIN (x \o z) = 1..(Len(x) + Len(z))
      /\ DOMAIN x = 1..Len(x) /\ DOMAIN z = 1..Len(z) /\ Len(x) \in Nat /\ Len(z) \in Nat
      /\ \A i \in DOMAIN x : (x \o z)[i] = x[i]
      /\ \A i \in DOMAIN z : (x \o z)[i + Len(x)] = z[i]
  OBVIOUS
<1>2. /\ \A i \in 1..Len(x) : i <= Len(x) /\ i \in 1..(Len(x) + Len(z))
      /\ \A i \in 1..Len(z) : i \in Nat \ {0} /\ i + Len(x) \in 1..(Len(x) + Len(z))
      /\ \A i \in 1..(Len(x) + Len(z)) :
           i \in Nat /\ (i \in 1..Len(x) \/ (i > Len(x) /\ i - Len(x) \in 1..Len(z)))
  BY <1>1
<1>. QED
  BY <1>1, <1>2 DEF Joins

\* A packet lies in one place.
LEMMA TidyOne ==
  ASSUME NEW L, NEW n, Tidy(L, n), NEW s \in DOMAIN L, NEW t \in DOMAIN L,
         NEW i \in DOMAIN L[s], NEW j \in DOMAIN L[t], L[s][i] = L[t][j]
  PROVE  s = t /\ i = j
BY DEF Tidy

\* A packet taken from the pool h, or a new one, goes to the end of shelf t.
LEMMA TidyPop ==
  ASSUME NEW L, NEW n \in Nat, Tidy(L, n), NEW M, NEW m \in Nat, NEW k \in Nat, DOMAIN M = DOMAIN L,
         NEW h \in DOMAIN L, NEW t \in DOMAIN L, t # h,
         Pops(L[h], M[h], k, n, m), Puts(L[t], M[t], k),
         \A s \in DOMAIN L : s # h /\ s # t => M[s] = L[s]
  PROVE  Tidy(M, m)
PROOF
<1>0. PICK a : /\ a \notin DOMAIN L[t] /\ DOMAIN M[t] = DOMAIN L[t] \union {a} /\ M[t][a] = k
               /\ \A i \in DOMAIN L[t] : M[t][i] = L[t][i]
  BY DEF Puts
<1>2. CASE k = n + 1 /\ m = n + 1 /\ DOMAIN L[h] = {} /\ DOMAIN M[h] = {}
  <2>2. \A s \in DOMAIN M : \A i \in DOMAIN M[s] :
          \/ s = t /\ i = a /\ M[s][i] = n + 1
          \/ i \in DOMAIN L[s] /\ M[s][i] = L[s][i] /\ (s = t => i # a)
    BY <1>0, <1>2
  <2>3. \A s \in DOMAIN L : \A i \in DOMAIN L[s] : i \in DOMAIN M[s] /\ M[s][i] = L[s][i]
    BY <1>0, <1>2
  <2>4. \A s \in DOMAIN M : \A i \in DOMAIN M[s] : M[s][i] \in 1..m
    BY <1>2, <2>2 DEF Tidy
  <2>5. \A s, u \in DOMAIN M : \A i \in DOMAIN M[s], j \in DOMAIN M[u] : M[s][i] = M[u][j] => s = u /\ i = j
    <3>. SUFFICES ASSUME NEW s \in DOMAIN M, NEW u \in DOMAIN M, NEW i \in DOMAIN M[s], NEW j \in DOMAIN M[u],
                         M[s][i] = M[u][j]
                  PROVE  s = u /\ i = j
      OBVIOUS
    <3>1. \A s0 \in DOMAIN L : \A i0 \in DOMAIN L[s0] : L[s0][i0] # n + 1
      BY DEF Tidy
    <3>. QED
      BY <2>2, <3>1 DEF Tidy
  <2>6. \A l \in 1..m : \E s \in DOMAIN M : \E i \in DOMAIN M[s] : M[s][i] = l
    <3>. SUFFICES ASSUME NEW l \in 1..m
                  PROVE  \E s \in DOMAIN M : \E i \in DOMAIN M[s] : M[s][i] = l
      OBVIOUS
    <3>1. CASE l = n + 1
      BY <1>0, <1>2, <3>1
    <3>2. CASE l \in 1..n
      BY <2>3, <3>2 DEF Tidy
    <3>. QED
      BY <1>2, <3>1, <3>2
  <2>. QED
    BY <2>4, <2>5, <2>6 DEF Tidy
<1>3. CASE /\ m = n /\ 1 \in DOMAIN L[h] /\ k = L[h][1]
           /\ \A i \in DOMAIN M[h] : i \in Nat \ {0} /\ i + 1 \in DOMAIN L[h] /\ M[h][i] = L[h][i + 1]
           /\ \A i \in DOMAIN L[h] : i \in Nat /\ (i # 1 => i - 1 \in DOMAIN M[h])
  <2>2. \A s \in DOMAIN M : \A i \in DOMAIN M[s] :
          \/ s = t /\ i = a /\ M[s][i] = L[h][1]
          \/ s = h /\ i \in Nat /\ i + 1 \in DOMAIN L[h] /\ i + 1 # 1 /\ M[s][i] = L[h][i + 1]
          \/ s # h /\ i \in DOMAIN L[s] /\ M[s][i] = L[s][i]
    BY <1>0, <1>3
  <2>4. \A s \in DOMAIN M : \A i \in DOMAIN M[s] : M[s][i] \in 1..m
    BY <1>3, <2>2 DEF Tidy
  <2>5. \A s, u \in DOMAIN M : \A i \in DOMAIN M[s], j \in DOMAIN M[u] : M[s][i] = M[u][j] => s = u /\ i = j
    <3>. SUFFICES ASSUME NEW s \in DOMAIN M, NEW u \in DOMAIN M, NEW i \in DOMAIN M[s], NEW j \in DOMAIN M[u],
                         M[s][i] = M[u][j]
                  PROVE  s = u /\ i = j
      OBVIOUS
    <3>1. PICK s0 \in DOMAIN L : \E i0 \in DOMAIN L[s0] :
              /\ M[s][i] = L[s0][i0]
              /\ \/ s = t /\ i = a /\ s0 = h /\ i0 = 1
                 \/ s = h /\ s0 = h /\ i \in Nat /\ i0 = i + 1 /\ i0 # 1
                 \/ s # h /\ s0 = s /\ i0 = i /\ (s = t => i # a)
      BY <1>0, <1>3, <2>2
    <3>2. PICK i0 \in DOMAIN L[s0] :
              /\ M[s][i] = L[s0][i0]
              /\ \/ s = t /\ i = a /\ s0 = h /\ i0 = 1
                 \/ s = h /\ s0 = h /\ i \in Nat /\ i0 = i + 1 /\ i0 # 1
                 \/ s # h /\ s0 = s /\ i0 = i /\ (s = t => i # a)
      BY <3>1
    <3>3. PICK u0 \in DOMAIN L : \E j0 \in DOMAIN L[u0] :
              /\ M[u][j] = L[u0][j0]
              /\ \/ u = t /\ j = a /\ u0 = h /\ j0 = 1
                 \/ u = h /\ u0 = h /\ j \in Nat /\ j0 = j + 1 /\ j0 # 1
                 \/ u # h /\ u0 = u /\ j0 = j /\ (u = t => j # a)
      BY <1>0, <1>3, <2>2
    <3>4. PICK j0 \in DOMAIN L[u0] :
              /\ M[u][j] = L[u0][j0]
              /\ \/ u = t /\ j = a /\ u0 = h /\ j0 = 1
                 \/ u = h /\ u0 = h /\ j \in Nat /\ j0 = j + 1 /\ j0 # 1
                 \/ u # h /\ u0 = u /\ j0 = j /\ (u = t => j # a)
      BY <3>3
    <3>5. L[s0][i0] = L[u0][j0]
      BY <3>2, <3>4
    <3>6. s0 = u0 /\ i0 = j0
      BY <3>5, TidyOne
    <3>. QED
      BY <3>2, <3>4, <3>6
  <2>6. \A l \in 1..m : \E s \in DOMAIN M : \E i \in DOMAIN M[s] : M[s][i] = l
    <3>. SUFFICES ASSUME NEW l \in 1..m
                  PROVE  \E s \in DOMAIN M : \E i \in DOMAIN M[s] : M[s][i] = l
      OBVIOUS
    <3>0. PICK s \in DOMAIN L : \E i \in DOMAIN L[s] : L[s][i] = l
      BY <1>3 DEF Tidy
    <3>1. PICK i \in DOMAIN L[s] : L[s][i] = l
      BY <3>0
    <3>2. CASE s = h /\ i = 1
      BY <1>0, <1>3, <3>1, <3>2
    <3>3. CASE s = h /\ i # 1
      <4>1. i - 1 \in DOMAIN M[h] /\ (i - 1) + 1 = i
        BY <1>3, <3>3
      <4>. QED
        BY <1>3, <3>1, <3>3, <4>1
    <3>4. CASE s # h
      BY <1>0, <3>1, <3>4
    <3>. QED
      BY <3>2, <3>3, <3>4
  <2>. QED
    BY <2>4, <2>5, <2>6 DEF Tidy
<1>. QED
  BY <1>2, <1>3 DEF Pops

\* The whole shelf t is put back into the pool h.
LEMMA TidyClear ==
  ASSUME NEW L, NEW n \in Nat, Tidy(L, n), NEW M, DOMAIN M = DOMAIN L,
         NEW h \in DOMAIN L, NEW t \in DOMAIN L, t # h,
         Joins(L[h], L[t], M[h]), DOMAIN M[t] = {},
         \A s \in DOMAIN L : s # h /\ s # t => M[s] = L[s]
  PROVE  Tidy(M, n)
PROOF
<1>1. PICK f \in Nat :
        /\ \A i \in DOMAIN L[h] : i \in DOMAIN M[h] /\ i <= f /\ M[h][i] = L[h][i]
        /\ \A i \in DOMAIN L[t] : i \in Nat \ {0} /\ i + f \in DOMAIN M[h] /\ M[h][i + f] = L[t][i]
        /\ \A i \in DOMAIN M[h] : i \in Nat /\ (i \in DOMAIN L[h] \/ (i > f /\ i - f \in DOMAIN L[t]))
  BY DEF Joins
<1>2. \A s \in DOMAIN M : \A i \in DOMAIN M[s] :
        \/ s = h /\ i \in Nat /\ i \in DOMAIN L[h] /\ M[s][i] = L[h][i]
        \/ s = h /\ i \in Nat /\ i - f \in DOMAIN L[t] /\ M[s][i] = L[t][i - f]
        \/ s # h /\ s # t /\ i \in DOMAIN L[s] /\ M[s][i] = L[s][i]
  <2>. SUFFICES ASSUME NEW s \in DOMAIN M, NEW i \in DOMAIN M[s]
                PROVE  \/ s = h /\ i \in Nat /\ i \in DOMAIN L[h] /\ M[s][i] = L[h][i]
                       \/ s = h /\ i \in Nat /\ i - f \in DOMAIN L[t] /\ M[s][i] = L[t][i - f]
                       \/ s # h /\ s # t /\ i \in DOMAIN L[s] /\ M[s][i] = L[s][i]
    OBVIOUS
  <2>1. CASE s = h /\ i \notin DOMAIN L[h]
    <3>1. i \in Nat /\ i > f /\ i - f \in DOMAIN L[t]
      BY <1>1, <2>1
    <3>2. (i - f) + f = i
      BY <3>1
    <3>. QED
      BY <1>1, <2>1, <3>1, <3>2
  <2>. QED
    BY <1>1, <2>1
<1>3. \A s \in DOMAIN M : \A i \in DOMAIN M[s] : M[s][i] \in 1..n
  BY <1>2 DEF Tidy
<1>4. \A s, u \in DOMAIN M : \A i \in DOMAIN M[s], j \in DOMAIN M[u] : M[s][i] = M[u][j] => s = u /\ i = j
  <2>. SUFFICES ASSUME NEW s \in DOMAIN M, NEW u \in DOMAIN M, NEW i \in DOMAIN M[s], NEW j \in DOMAIN M[u],
                       M[s][i] = M[u][j]
                PROVE  s = u /\ i = j
    OBVIOUS
  <2>1. PICK s0 \in DOMAIN L : \E i0 \in DOMAIN L[s0] :
            /\ M[s][i] = L[s0][i0]
            /\ \/ s = h /\ s0 = h /\ i0 = i
               \/ s = h /\ s0 = t /\ i \in Nat /\ i0 = i - f
               \/ s # h /\ s # t /\ s0 = s /\ i0 = i
    BY <1>2
  <2>2. PICK i0 \in DOMAIN L[s0] :
            /\ M[s][i] = L[s0][i0]
            /\ \/ s = h /\ s0 = h /\ i0 = i
               \/ s = h /\ s0 = t /\ i \in Nat /\ i0 = i - f
               \/ s # h /\ s # t /\ s0 = s /\ i0 = i
    BY <2>1
  <2>3. PICK u0 \in DOMAIN L : \E j0 \in DOMAIN L[u0] :
            /\ M[u][j] = L[u0][j0]
            /\ \/ u = h /\ u0 = h /\ j0 = j
               \/ u = h /\ u0 = t /\ j \in Nat /\ j0 = j - f
               \/ u # h /\ u # t /\ u0 = u /\ j0 = j
    BY <1>2
  <2>4. PICK j0 \in DOMAIN L[u0] :
            /\ M[u][j] = L[u0][j0]
            /\ \/ u = h /\ u0 = h /\ j0 = j
               \/ u = h /\ u0 = t /\ j \in Nat /\ j0 = j - f
               \/ u # h /\ u # t /\ u0 = u /\ j0 = j
    BY <2>3
  <2>5. L[s0][i0] = L[u0][j0]
    BY <2>2, <2>4
  <2>6. s0 = u0 /\ i0 = j0
    BY <2>5, TidyOne
  <2>. QED
    BY <2>2, <2>4, <2>6
<1>5. \A k \in 1..n : \E s \in DOMAIN M : \E i \in DOMAIN M[s] : M[s][i] = k
  <2>. SUFFICES ASSUME NEW k \in 1..n
                PROVE  \E s \in DOMAIN M : \E i \in DOMAIN M[s] : M[s][i] = k
    OBVIOUS
  <2>0. PICK s \in DOMAIN L : \E i \in DOMAIN L[s] : L[s][i] = k
    BY DEF Tidy
  <2>1. PICK i \in DOMAIN L[s] : L[s][i] = k
    BY <2>0
  <2>. QED
    BY <1>1, <2>1
<1>. QED
  BY <1>3, <1>4, <1>5 DEF Tidy

\* The only packet of shelf u goes to the end of shelf t.
LEMMA TidyKeep ==
  ASSUME NEW L, NEW n \in Nat, Tidy(L, n), NEW M, DOMAIN M = DOMAIN L,
         NEW t \in DOMAIN L, NEW u \in DOMAIN L, t # u,
         Single(L[u]), DOMAIN M[u] = {}, Puts(L[t], M[t], L[u][1]),
         \A s \in DOMAIN L : s # u /\ s # t => M[s] = L[s]
  PROVE  Tidy(M, n)
PROOF
<1>0. PICK a : /\ a \notin DOMAIN L[t] /\ DOMAIN M[t] = DOMAIN L[t] \union {a} /\ M[t][a] = L[u][1]
               /\ \A i \in DOMAIN L[t] : M[t][i] = L[t][i]
  BY DEF Puts
<1>1. DOMAIN L[u] = {1}
  BY DEF Single
<1>2. \A s \in DOMAIN M : \A i \in DOMAIN M[s] :
        \/ s = t /\ i = a /\ M[s][i] = L[u][1]
        \/ s # u /\ i \in DOMAIN L[s] /\ M[s][i] = L[s][i] /\ (s = t => i # a)
  BY <1>0, <1>1
<1>3. \A s \in DOMAIN M : \A i \in DOMAIN M[s] : M[s][i] \in 1..n
  BY <1>1, <1>2 DEF Tidy
<1>4. \A s, v \in DOMAIN M : \A i \in DOMAIN M[s], j \in DOMAIN M[v] : M[s][i] = M[v][j] => s = v /\ i = j
  <2>. SUFFICES ASSUME NEW s \in DOMAIN M, NEW v \in DOMAIN M, NEW i \in DOMAIN M[s], NEW j \in DOMAIN M[v],
                       M[s][i] = M[v][j]
                PROVE  s = v /\ i = j
    OBVIOUS
  <2>. QED
    BY <1>1, <1>2 DEF Tidy
<1>5. \A l \in 1..n : \E s \in DOMAIN M : \E i \in DOMAIN M[s] : M[s][i] = l
  <2>. SUFFICES ASSUME NEW l \in 1..n
                PROVE  \E s \in DOMAIN M : \E i \in DOMAIN M[s] : M[s][i] = l
    OBVIOUS
  <2>0. PICK s \in DOMAIN L : \E i \in DOMAIN L[s] : L[s][i] = l
    BY DEF Tidy
  <2>1. PICK i \in DOMAIN L[s] : L[s][i] = l
    BY <2>0
  <2>2. CASE s = u
    BY <1>0, <1>1, <2>1, <2>2
  <2>3. CASE s # u
    BY <1>0, <2>1, <2>3
  <2>. QED
    BY <2>2, <2>3
<1>. QED
  BY <1>3, <1>4, <1>5 DEF Tidy
-------------------------------------------------------------------------------
(* The operators on packets *)

\* What a packet and a piece of wire data consist of.
LEMMA PacketTypes ==
  /\ \A k \in Packets : /\ k.number \in 0..MaxPackets /\ k.eof \in BOOLEAN
                        /\ k.request \in {"null", "active", "complete"} /\ k.buff \in Wires
  /\ \A w \in Wires : w.number \in 0..MaxPackets /\ w.eof \in BOOLEAN /\ w.body \in Bodies
BY DEF Packets, Wires

\* An element of a sequence, and its place.
LEMMA SeqElement ==
  ASSUME NEW S, NEW s \in Seq(S), NEW i \in DOMAIN s
  PROVE  i \in 1..Len(s) /\ Len(s) \in Nat /\ i \in Nat /\ s[i] \in S
OBVIOUS

\* The place of element i of s in a longer sequence that ends with as many elements.
LEMMA LaterPlace ==
  ASSUME NEW S, NEW T, NEW s \in Seq(S), NEW t \in Seq(T), NEW d \in Nat,
         Len(s) + d = Len(t), NEW i \in DOMAIN s
  PROVE  d + i \in DOMAIN t /\ d + i \in 1..Len(t) /\ i \in Nat
OBVIOUS

\* A packet just allocated is a packet.
LEMMA FreshTypes == Blank \in Wires /\ FreshPacket \in Packets
PROOF
<1>1. 0 \in 0..MaxPackets
  BY BoundAssumption
<1>. QED
  BY <1>1 DEF Blank, FreshPacket, Packets, Wires, Bodies

\* allocateNewPacket numbers the popped packet, takes back its EOF flag and its
\* request, and touches no other.
LEMMA InitPacketFacts ==
  ASSUME NEW heap \in Seq(Packets), NEW k \in 1..(Len(heap) + 1), NEW n \in 0..MaxPackets
  PROVE  /\ InitPacket(heap, k, n) \in Seq(Packets)
         /\ Len(InitPacket(heap, k, n)) = IF k > Len(heap) THEN Len(heap) + 1 ELSE Len(heap)
         /\ \A j \in 1..Len(heap) : j # k => InitPacket(heap, k, n)[j] = heap[j]
         /\ InitPacket(heap, k, n)[k].number = n
         /\ ~InitPacket(heap, k, n)[k].eof
         /\ InitPacket(heap, k, n)[k].request = "null"
PROOF
<1>. DEFINE h == IF k > Len(heap) THEN Append(heap, FreshPacket) ELSE heap
<1>1. /\ h \in Seq(Packets) /\ k \in 1..Len(h)
      /\ Len(h) = IF k > Len(heap) THEN Len(heap) + 1 ELSE Len(heap)
      /\ \A j \in 1..Len(heap) : h[j] = heap[j]
  BY FreshTypes
<1>2. h[k] \in Packets
  BY <1>1
<1>3. InitPacket(heap, k, n) = [h EXCEPT ![k] = [h[k] EXCEPT !.number = n, !.eof = FALSE, !.request = "null"]]
  BY DEF InitPacket
<1>. HIDE DEF h
<1>. DEFINE x == [h[k] EXCEPT !.number = n, !.eof = FALSE, !.request = "null"]
<1>4. x \in Packets /\ x.number = n /\ ~x.eof /\ x.request = "null"
  BY <1>2 DEF Packets
<1>5. InitPacket(heap, k, n) = [h EXCEPT ![k] = x]
  BY <1>3
<1>. HIDE DEF x
<1>6. /\ [h EXCEPT ![k] = x] \in Seq(Packets)
      /\ Len([h EXCEPT ![k] = x]) = Len(h)
      /\ [h EXCEPT ![k] = x][k] = x
      /\ \A j \in 1..Len(h) : j # k => [h EXCEPT ![k] = x][j] = h[j]
  BY <1>1, <1>4, ExceptSeq
<1>. QED
  BY <1>1, <1>4, <1>5, <1>6

\* What the pack function makes of the packet it is given.
LEMMA WrittenFacts ==
  ASSUME NEW heap \in Seq(Packets), NEW k \in 1..Len(heap), NEW b \in Bodies
  PROVE  /\ WriteBody(heap, k, b) \in Seq(Packets)
         /\ Len(WriteBody(heap, k, b)) = Len(heap)
         /\ \A j \in 1..Len(heap) : j # k => WriteBody(heap, k, b)[j] = heap[j]
         /\ WriteBody(heap, k, b)[k].buff.body = b
         /\ WriteBody(heap, k, b)[k].number = heap[k].number
         /\ WriteBody(heap, k, b)[k].eof = heap[k].eof
         /\ WriteBody(heap, k, b)[k].request = heap[k].request
PROOF
<1>1. heap[k] \in Packets /\ heap[k].buff \in Wires
  BY PacketTypes
<1>. DEFINE x == [heap[k] EXCEPT !.buff = [heap[k].buff EXCEPT !.body = b]]
<1>2. WriteBody(heap, k, b) = [heap EXCEPT ![k] = x]
  BY DEF WriteBody
<1>3. [heap[k].buff EXCEPT !.body = b] \in Wires /\ [heap[k].buff EXCEPT !.body = b].body = b
  BY <1>1 DEF Wires
<1>4. /\ x \in Packets /\ x.buff.body = b
      /\ x.number = heap[k].number /\ x.eof = heap[k].eof /\ x.request = heap[k].request
  BY <1>1, <1>3 DEF Packets
<1>. HIDE DEF x
<1>. QED
  BY <1>2, <1>4, ExceptSeq

\* A packet that waits for data.
LEMMA PostReceiveFacts ==
  ASSUME NEW heap \in Seq(Packets), NEW k \in 1..(Len(heap) + 1), NEW n \in 0..MaxPackets
  PROVE  /\ PostReceive(heap, k, n) \in Seq(Packets)
         /\ Len(PostReceive(heap, k, n)) = IF k > Len(heap) THEN Len(heap) + 1 ELSE Len(heap)
         /\ \A j \in 1..Len(heap) : j # k => PostReceive(heap, k, n)[j] = heap[j]
         /\ PostReceive(heap, k, n)[k].request = "active"
PROOF
<1>. DEFINE h == InitPacket(heap, k, n)
<1>1. /\ h \in Seq(Packets) /\ k \in 1..Len(h)
      /\ Len(h) = IF k > Len(heap) THEN Len(heap) + 1 ELSE Len(heap)
      /\ \A j \in 1..Len(heap) : j # k => h[j] = heap[j]
      /\ 1..Len(heap) \subseteq 1..Len(h)
  BY InitPacketFacts
<1>. DEFINE x == [h[k] EXCEPT !.request = "active"]
<1>2. PostReceive(heap, k, n) = [h EXCEPT ![k] = x]
  BY DEF PostReceive
<1>. HIDE DEF h
<1>3. h[k] \in Packets
  BY <1>1
<1>4. x \in Packets /\ x.request = "active"
  BY <1>3 DEF Packets
<1>. HIDE DEF x
<1>5. /\ [h EXCEPT ![k] = x] \in Seq(Packets)
      /\ Len([h EXCEPT ![k] = x]) = Len(h)
      /\ [h EXCEPT ![k] = x][k] = x
      /\ \A j \in 1..Len(h) : j # k => [h EXCEPT ![k] = x][j] = h[j]
  BY <1>1, <1>4, ExceptSeq
<1>. QED
  BY <1>1, <1>2, <1>4, <1>5

\* A packet whose receive has completed: its header is read, its data stay.
LEMMA UnpackHeaderFacts ==
  ASSUME NEW heap \in Seq(Packets), NEW a \in 1..Len(heap)
  PROVE  /\ UnpackHeader(heap, a) \in Seq(Packets)
         /\ Len(UnpackHeader(heap, a)) = Len(heap)
         /\ \A j \in 1..Len(heap) : j # a => UnpackHeader(heap, a)[j] = heap[j]
         /\ UnpackHeader(heap, a)[a].request = "null"
         /\ UnpackHeader(heap, a)[a].buff = heap[a].buff
PROOF
<1>. DEFINE x == [heap[a] EXCEPT !.request = "null", !.number = heap[a].buff.number,
                                 !.eof = heap[a].buff.eof]
<1>1. /\ heap[a] \in Packets /\ heap[a].buff \in Wires
      /\ heap[a].buff.number \in 0..MaxPackets /\ heap[a].buff.eof \in BOOLEAN
  BY PacketTypes
<1>2. UnpackHeader(heap, a) = [heap EXCEPT ![a] = x]
  BY DEF UnpackHeader
<1>3. x \in Packets /\ x.request = "null" /\ x.buff = heap[a].buff
  BY <1>1 DEF Packets
<1>. HIDE DEF x
<1>. QED
  BY <1>2, <1>3, ExceptSeq

\* The packets of a list after iSend: with their headers, EOF on the last.
LEMMA SentHeapFacts ==
  ASSUME NEW heap \in Seq(Packets), NEW list \in Seq(Nat)
  PROVE  /\ SentHeap(heap, list) \in Seq(Packets)
         /\ Len(SentHeap(heap, list)) = Len(heap)
         /\ \A j \in 1..Len(heap) : (\A i \in DOMAIN list : list[i] # j) => SentHeap(heap, list)[j] = heap[j]
         /\ \A i \in DOMAIN list : list[i] \in 1..Len(heap) =>
              LET x == SentHeap(heap, list)[list[i]]
              IN /\ x.request = "active"
                 /\ x.buff.number = heap[list[i]].number
                 /\ x.buff.eof <=> heap[list[i]].eof \/ list[i] = list[Len(list)]
                 /\ x.buff.body = heap[list[i]].buff.body
PROOF
<1>. DEFINE S == SentHeap(heap, list)
            x(j, e) == [heap[j] EXCEPT !.eof = e, !.request = "active",
                                       !.buff.number = heap[j].number, !.buff.eof = e]
            y(j) == IF \E i \in DOMAIN list : list[i] = j
                    THEN x(j, heap[j].eof \/ j = ActivePacket(list)) ELSE heap[j]
<1>1. DOMAIN heap = 1..Len(heap) /\ Len(heap) \in Nat /\ \A j \in 1..Len(heap) : heap[j] \in Packets
  OBVIOUS
<1>2. S = [j \in 1..Len(heap) |-> y(j)]
  BY <1>1 DEF SentHeap
<1>3. ASSUME NEW j \in 1..Len(heap), NEW e \in BOOLEAN
      PROVE  /\ x(j, e) \in Packets /\ x(j, e).request = "active"
             /\ x(j, e).buff.number = heap[j].number
             /\ x(j, e).buff.eof = e
             /\ x(j, e).buff.body = heap[j].buff.body
  <2>. DEFINE w == [heap[j].buff EXCEPT !.number = heap[j].number, !.eof = e]
  <2>1. /\ heap[j] \in Packets /\ heap[j].buff \in Wires
        /\ heap[j].number \in 0..MaxPackets
    BY <1>1, PacketTypes
  <2>2. x(j, e) = [heap[j] EXCEPT !.eof = e, !.request = "active", !.buff = w]
    BY <2>1 DEF Packets, Wires
  <2>3. w \in Wires /\ w.number = heap[j].number /\ w.eof = e /\ w.body = heap[j].buff.body
    BY <2>1 DEF Wires
  <2>. HIDE DEF w
  <2>4. /\ [heap[j] EXCEPT !.eof = e, !.request = "active", !.buff = w] \in Packets
        /\ [heap[j] EXCEPT !.eof = e, !.request = "active", !.buff = w].request = "active"
        /\ [heap[j] EXCEPT !.eof = e, !.request = "active", !.buff = w].buff = w
    BY <2>1, <2>3 DEF Packets
  <2>. QED
    BY <2>2, <2>3, <2>4
<1>. HIDE DEF x
<1>4. \A j \in 1..Len(heap) : y(j) \in Packets
  BY <1>1, <1>3
<1>5. /\ S \in [1..Len(heap) -> Packets]
      /\ \A j \in 1..Len(heap) : S[j] = y(j)
  BY <1>2, <1>4
<1>6. S \in Seq(Packets) /\ Len(S) = Len(heap)
  BY <1>1, <1>5
<1>. HIDE DEF S
<1>7. ASSUME NEW i \in DOMAIN list, list[i] \in 1..Len(heap)
      PROVE  /\ S[list[i]].request = "active"
             /\ S[list[i]].buff.number = heap[list[i]].number
             /\ S[list[i]].buff.eof <=> heap[list[i]].eof \/ list[i] = list[Len(list)]
             /\ S[list[i]].buff.body = heap[list[i]].buff.body
  <2>. DEFINE e == heap[list[i]].eof \/ list[i] = ActivePacket(list)
  <2>1. S[list[i]] = x(list[i], e)
    BY <1>5, <1>7
  <2>2. e \in BOOLEAN /\ (e <=> heap[list[i]].eof \/ list[i] = list[Len(list)])
    BY DEF ActivePacket
  <2>. HIDE DEF e
  <2>. QED
    BY <1>3, <1>7, <2>1, <2>2
<1>8. \A j \in 1..Len(heap) : (\A i \in DOMAIN list : list[i] # j) => S[j] = heap[j]
  BY <1>5
<1>. QED
  BY <1>6, <1>7, <1>8 DEF S

\* What makes a piece of wire data the one expected.
LEMMA WireEqual ==
  ASSUME NEW w \in Wires, NEW p, NEW q, NEW r, NEW i, NEW n,
         w.number = i, w.eof <=> i = n, w.body = <<p, q, r, i>>
  PROVE  w = WirePacket(p, q, r, i, n)
BY DEF Wires, WirePacket

\* The packets of a list after their sends have been tested.
LEMMA TestSendsFacts ==
  ASSUME NEW heap \in Seq(Packets), NEW list \in Seq(Nat)
  PROVE  /\ TestSends(heap, list) \in Seq(Packets)
         /\ Len(TestSends(heap, list)) = Len(heap)
         /\ \A j \in 1..Len(heap) : (\A i \in DOMAIN list : list[i] # j) => TestSends(heap, list)[j] = heap[j]
         /\ \A j \in 1..Len(heap) : TestSends(heap, list)[j].buff = heap[j].buff
         /\ \A i \in DOMAIN list : list[i] \in 1..Len(heap) => TestSends(heap, list)[list[i]].request = "null"
PROOF
<1>. DEFINE S == TestSends(heap, list)
            x(j) == [heap[j] EXCEPT !.request = "null"]
            y(j) == IF \E i \in DOMAIN list : list[i] = j THEN x(j) ELSE heap[j]
<1>1. DOMAIN heap = 1..Len(heap) /\ Len(heap) \in Nat /\ \A j \in 1..Len(heap) : heap[j] \in Packets
  OBVIOUS
<1>2. S = [j \in 1..Len(heap) |-> y(j)]
  BY <1>1 DEF TestSends
<1>3. \A j \in 1..Len(heap) : x(j) \in Packets /\ x(j).request = "null" /\ x(j).buff = heap[j].buff
  BY <1>1 DEF Packets
<1>. HIDE DEF x
<1>4. \A j \in 1..Len(heap) : y(j) \in Packets
  BY <1>1, <1>3
<1>5. /\ S \in [1..Len(heap) -> Packets]
      /\ \A j \in 1..Len(heap) : S[j] = y(j)
  BY <1>2, <1>4
<1>6. S \in Seq(Packets) /\ Len(S) = Len(heap)
  BY <1>1, <1>5
<1>. HIDE DEF S
<1>. QED
  BY <1>3, <1>5, <1>6 DEF S

\* The pool after a pop, and the packet popped.
LEMMA PopFacts ==
  ASSUME NEW heap \in Seq(Packets), NEW pool \in Seq(Nat \ {0}),
         \A i \in DOMAIN pool : pool[i] \in 1..Len(heap)
  PROVE  /\ PopPacket(heap, pool) \in 1..(Len(heap) + 1)
         /\ PoolAfterPop(pool) \in Seq(Nat \ {0})
         /\ PopPacket(heap, pool) = Len(heap) + 1 \/ \E i \in DOMAIN pool : PopPacket(heap, pool) = pool[i]
         /\ \A i \in DOMAIN PoolAfterPop(pool) : \E j \in DOMAIN pool : j # 1 /\ PoolAfterPop(pool)[i] = pool[j]
PROOF
<1>1. CASE pool = <<>>
  BY <1>1 DEF PopPacket, PoolAfterPop
<1>2. CASE pool # <<>>
  <2>1. /\ Head(pool) = pool[1] /\ 1 \in DOMAIN pool
        /\ Tail(pool) \in Seq(Nat \ {0})
        /\ \A i \in DOMAIN Tail(pool) : i + 1 \in DOMAIN pool /\ i + 1 # 1 /\ Tail(pool)[i] = pool[i + 1]
    BY <1>2
  <2>2. pool[1] \in 1..(Len(heap) + 1)
    BY <2>1
  <2>. QED
    BY <1>2, <2>1, <2>2 DEF PopPacket, PoolAfterPop
<1>. QED
  BY <1>1, <1>2

\* The types of the parts of the state, one index at a time.
LEMMA Types ==
  ASSUME TypeOK, NEW p \in Rank, NEW q \in Rank
  PROVE  /\ pc[p] \in {"pack", "write", "init", "unpack", "barrier", "finish", "release", "done"}
         /\ todo[p] \subseteq Rank
         /\ round[p] \in 1..(MaxRound + 1) /\ round[p] \in Nat
         /\ entered[p] \in 0..MaxRound /\ entered[p] \in Nat
         /\ packet[p] \in Seq(Packets) /\ free[p] \in Seq(Nat \ {0})
         /\ sendBuf[p] \in [Rank -> [list : Seq(Nat \ {0}), completed : BOOLEAN]]
         /\ sendBuf[p][q] \in [list : Seq(Nat \ {0}), completed : BOOLEAN]
         /\ sendBuf[p][q].list \in Seq(Nat \ {0}) /\ sendBuf[p][q].list \in Seq(Nat)
         /\ recvBuf[p] \in [Rank -> [list : Seq(Nat \ {0}), active : Nat, completed : BOOLEAN]]
         /\ recvBuf[p][q] \in [list : Seq(Nat \ {0}), active : Nat, completed : BOOLEAN]
         /\ recvBuf[p][q].list \in Seq(Nat \ {0}) /\ recvBuf[p][q].list \in Seq(Nat)
         /\ recvBuf[p][q].active \in Nat
         /\ chan[p] \in [Rank -> Seq([ref : Nat, data : Wires])]
         /\ chan[p][q] \in Seq([ref : Nat, data : Wires])
         /\ inbox[p] \in [Rank -> Seq(Bodies)] /\ inbox[p][q] \in Seq(Bodies)
PROOF
<1>1. /\ pc[p] \in {"pack", "write", "init", "unpack", "barrier", "finish", "release", "done"}
      /\ todo[p] \subseteq Rank
      /\ round[p] \in 1..(MaxRound + 1) /\ entered[p] \in 0..MaxRound
      /\ packet[p] \in Seq(Packets) /\ free[p] \in Seq(Nat \ {0})
      /\ sendBuf[p] \in [Rank -> [list : Seq(Nat \ {0}), completed : BOOLEAN]]
      /\ recvBuf[p] \in [Rank -> [list : Seq(Nat \ {0}), active : Nat, completed : BOOLEAN]]
      /\ chan[p] \in [Rank -> Seq([ref : Nat, data : Wires])]
      /\ inbox[p] \in [Rank -> Seq(Bodies)]
  BY DEF TypeOK
<1>2. round[p] \in Nat /\ entered[p] \in Nat
  <2>1. round[p] \in 1..(MaxRound + 1) /\ entered[p] \in 0..MaxRound
    BY <1>1
  <2>. QED
    BY <2>1, BoundAssumption
<1>3. /\ sendBuf[p][q] \in [list : Seq(Nat \ {0}), completed : BOOLEAN]
      /\ recvBuf[p][q] \in [list : Seq(Nat \ {0}), active : Nat, completed : BOOLEAN]
      /\ chan[p][q] \in Seq([ref : Nat, data : Wires]) /\ inbox[p][q] \in Seq(Bodies)
  BY <1>1
<1>4. \A s \in Seq(Nat \ {0}) : s \in Seq(Nat)
  OBVIOUS
<1>. QED
  BY <1>1, <1>2, <1>3, <1>4

\* It is one peer's turn at a time.
LEMMA TurnOne ==
  ASSUME NEW p \in Rank, NEW q \in Rank, NEW y \in Rank, Turn(p, q), Turn(p, y)
  PROVE  y = q
BY RankAssumption DEF Turn

-------------------------------------------------------------------------------
(* The stages of an exchange *)

\* What a process is doing follows from its own control state.
LEMMA SameStage ==
  ASSUME NEW p \in Rank, pc'[p] = pc[p], todo'[p] = todo[p]
  PROVE  /\ Left(p)' <=> Left(p)
         /\ \A y \in Rank :
              /\ Filled(p, y)' <=> Filled(p, y)
              /\ OnTheWay(p, y)' <=> OnTheWay(p, y)
              /\ HasSent(p, y)' <=> HasSent(p, y)
              /\ Waiting(p, y)' <=> Waiting(p, y)
              /\ Got(p, y)' <=> Got(p, y)
              /\ Tested(p, y)' <=> Tested(p, y)
BY DEF Left, Filled, OnTheWay, HasSent, Waiting, Got, Tested, Turn

\* Whether q has everything p sent depends on what q is doing and on both rounds.
LEMMA SameServed ==
  ASSUME NEW p \in Rank, NEW q \in Rank, pc'[q] = pc[q], todo'[q] = todo[q],
         round'[p] = round[p], round'[q] = round[q]
  PROVE  Served(p, q)' <=> Served(p, q)
BY DEF Served

\* What a step of NextPeer does to the control state of p.
LEMMA NextPeerFacts ==
  ASSUME TypeOK, NEW p \in Rank, NEW q \in Rank, NEW here, NEW next, NextPeer(p, q, here, next)
  PROVE  /\ todo[p] = {q} => pc'[p] = next /\ todo'[p] = Rank
         /\ todo[p] # {q} => pc'[p] = here /\ todo'[p] = todo[p] \ {q}
         /\ \A z \in Rank : z # p => pc'[z] = pc[z] /\ todo'[z] = todo[z]
BY DEF NextPeer, TypeOK

\* What packAllData of one peer does to the stages of the exchanges of p.
LEMMA PackDataStage ==
  ASSUME TypeOK, NEW p \in Rank, NEW q \in Rank, PackData(p, q)
  PROVE  /\ ~Filled(p, q) /\ Filled(p, q)'
         /\ \A y \in Rank :
              /\ ~OnTheWay(p, y) /\ ~OnTheWay(p, y)' /\ ~HasSent(p, y) /\ ~HasSent(p, y)'
              /\ ~Waiting(p, y) /\ ~Waiting(p, y)' /\ ~Got(p, y) /\ ~Got(p, y)'
              /\ ~Tested(p, y) /\ ~Tested(p, y)'
              /\ y # q => (Filled(p, y)' <=> Filled(p, y))
         /\ \A x \in Rank : Served(x, p)' <=> Served(x, p)
         /\ ~Left(p) /\ ~Left(p)'
PROOF
<1>1. pc[p] = "pack" /\ pc'[p] = "write" /\ todo' = todo /\ round' = round
  BY DEF PackData, TypeOK
<1>2. Turn(p, q) /\ Turn(p, q)' /\ q \in todo[p]
  BY <1>1 DEF PackData, Turn
<1>3. \A y \in Rank : y # q => ~Turn(p, y)'
  BY <1>1, <1>2, TurnOne DEF Turn
<1>. QED
  BY <1>1, <1>2, <1>3 DEF Left, Filled, OnTheWay, HasSent, Waiting, Got, Tested, Served

\* The same for the return of the pack function.
LEMMA PackReturnStage ==
  ASSUME TypeOK, NEW p \in Rank, NEW q \in Rank, PackReturn(p, q)
  PROVE  /\ \A y \in Rank :
              /\ ~OnTheWay(p, y) /\ ~OnTheWay(p, y)' /\ ~HasSent(p, y) /\ ~HasSent(p, y)'
              /\ ~Waiting(p, y) /\ ~Waiting(p, y)' /\ ~Got(p, y) /\ ~Got(p, y)'
              /\ ~Tested(p, y) /\ ~Tested(p, y)'
              /\ Filled(p, y)' <=> Filled(p, y)
         /\ \A x \in Rank : Served(x, p)' <=> Served(x, p)
         /\ ~Left(p) /\ ~Left(p)'
PROOF
<1>1. pc[p] = "write" /\ round' = round /\ Turn(p, q) /\ q \in todo[p] /\ todo[p] \subseteq Rank
  BY DEF PackReturn, Turn, TypeOK
<1>2. /\ todo[p] = {q} => pc'[p] = "init" /\ todo'[p] = Rank
      /\ todo[p] # {q} => pc'[p] = "pack" /\ todo'[p] = todo[p] \ {q}
  BY NextPeerFacts DEF PackReturn
<1>3. \A y \in Rank : y # q => ~Turn(p, y)
  BY <1>1, TurnOne
<1>. QED
  BY <1>1, <1>2, <1>3 DEF Left, Filled, OnTheWay, HasSent, Waiting, Got, Tested, Served

\* The same for initExchange of one peer: from here on the message is on the way.
LEMMA InitExchangeStage ==
  ASSUME TypeOK, NEW p \in Rank, NEW q \in Rank, InitExchange(p, q)
  PROVE  /\ ~OnTheWay(p, q) /\ OnTheWay(p, q)' /\ ~HasSent(p, q) /\ HasSent(p, q)'
         /\ ~Waiting(p, q) /\ Waiting(p, q)'
         /\ \A y \in Rank :
              /\ Filled(p, y) /\ Filled(p, y)' /\ ~Got(p, y) /\ ~Got(p, y)'
              /\ ~Tested(p, y) /\ ~Tested(p, y)'
              /\ y # q => /\ OnTheWay(p, y)' <=> OnTheWay(p, y)
                          /\ HasSent(p, y)' <=> HasSent(p, y)
                          /\ Waiting(p, y)' <=> Waiting(p, y)
         /\ \A x \in Rank : Served(x, p)' <=> Served(x, p)
         /\ ~Left(p) /\ ~Left(p)'
PROOF
<1>1. pc[p] = "init" /\ round' = round /\ q \in todo[p] /\ todo[p] \subseteq Rank
  BY DEF InitExchange, Turn, TypeOK
<1>2. /\ todo[p] = {q} => pc'[p] = "unpack" /\ todo'[p] = Rank
      /\ todo[p] # {q} => pc'[p] = "init" /\ todo'[p] = todo[p] \ {q}
  BY NextPeerFacts DEF InitExchange
<1>. QED
  BY <1>1, <1>2 DEF Left, Filled, OnTheWay, HasSent, Waiting, Got, Tested, Served

\* The same for the last packet of a message: p has what q sent.
LEMMA ReceiveLastStage ==
  ASSUME TypeOK, NEW p \in Rank, NEW q \in Rank, ReceiveLast(p, q)
  PROVE  /\ Waiting(p, q) /\ ~Waiting(p, q)' /\ ~Got(p, q) /\ Got(p, q)'
         /\ \A y \in Rank :
              /\ Filled(p, y) /\ Filled(p, y)'
              /\ OnTheWay(p, y) /\ OnTheWay(p, y)' /\ HasSent(p, y) /\ HasSent(p, y)'
              /\ ~Tested(p, y) /\ ~Tested(p, y)'
              /\ y # q => /\ Waiting(p, y)' <=> Waiting(p, y)
                          /\ Got(p, y)' <=> Got(p, y)
         /\ \A x \in Rank : x # q \/ round[q] # round[p] => (Served(x, p)' <=> Served(x, p))
         /\ round[q] = round[p] => ~Served(q, p) /\ Served(q, p)'
         /\ ~Left(p) /\ ~Left(p)'
PROOF
<1>1. /\ pc[p] = "unpack" /\ pc'[p] = "unpack" /\ q \in todo[p] /\ todo'[p] = todo[p] \ {q}
      /\ round' = round /\ round[p] \in Nat /\ round[q] \in Nat
  BY Types DEF ReceiveLast, Received, TypeOK
<1>2. \A x \in Rank : x # q \/ round[q] # round[p] => (Served(x, p)' <=> Served(x, p))
  BY <1>1 DEF Served
<1>3. round[q] = round[p] => ~Served(q, p) /\ Served(q, p)'
  BY <1>1 DEF Served
<1>. QED
  BY <1>1, <1>2, <1>3 DEF Left, Filled, OnTheWay, HasSent, Waiting, Got, Tested

\* The same for the call of MPI_Barrier.
LEMMA EnterBarrierStage ==
  ASSUME TypeOK, NEW p \in Rank, EnterBarrier(p)
  PROVE  /\ \A y \in Rank :
              /\ Filled(p, y) /\ Filled(p, y)' /\ OnTheWay(p, y) /\ OnTheWay(p, y)'
              /\ HasSent(p, y) /\ HasSent(p, y)' /\ ~Waiting(p, y) /\ ~Waiting(p, y)'
              /\ Got(p, y) /\ Got(p, y)' /\ ~Tested(p, y) /\ ~Tested(p, y)'
         /\ \A x \in Rank : Served(x, p)' <=> Served(x, p)
         /\ ~Left(p) /\ ~Left(p)'
PROOF
<1>1. pc[p] = "unpack" /\ pc'[p] = "barrier" /\ todo[p] = {} /\ todo' = todo /\ round' = round
  BY DEF EnterBarrier, TypeOK
<1>. QED
  BY <1>1 DEF Left, Filled, OnTheWay, HasSent, Waiting, Got, Tested, Served

\* The same for its return: the message of p is not on the way any more.
LEMMA LeaveBarrierStage ==
  ASSUME TypeOK, NEW p \in Rank, LeaveBarrier(p)
  PROVE  /\ \A y \in Rank :
              /\ Filled(p, y) /\ Filled(p, y)' /\ OnTheWay(p, y) /\ ~OnTheWay(p, y)'
              /\ HasSent(p, y) /\ HasSent(p, y)' /\ ~Waiting(p, y) /\ ~Waiting(p, y)'
              /\ Got(p, y) /\ Got(p, y)' /\ ~Tested(p, y) /\ ~Tested(p, y)'
         /\ \A x \in Rank : Served(x, p)' <=> Served(x, p)
         /\ ~Left(p) /\ Left(p)'
PROOF
<1>1. pc[p] = "barrier" /\ pc'[p] = "finish" /\ todo'[p] = Rank /\ round' = round
  BY DEF LeaveBarrier, TypeOK
<1>. QED
  BY <1>1 DEF Left, Filled, OnTheWay, HasSent, Waiting, Got, Tested, Served

\* The same for waitCompletion of one peer.
LEMMA FinishExchangeStage ==
  ASSUME TypeOK, NEW p \in Rank, NEW q \in Rank, FinishExchange(p, q)
  PROVE  /\ ~Tested(p, q) /\ Tested(p, q)'
         /\ \A y \in Rank :
              /\ Filled(p, y) /\ Filled(p, y)' /\ ~OnTheWay(p, y) /\ ~OnTheWay(p, y)'
              /\ HasSent(p, y) /\ HasSent(p, y)' /\ ~Waiting(p, y) /\ ~Waiting(p, y)'
              /\ Got(p, y) /\ Got(p, y)'
              /\ y # q => (Tested(p, y)' <=> Tested(p, y))
         /\ \A x \in Rank : Served(x, p)' <=> Served(x, p)
         /\ Left(p) /\ Left(p)'
PROOF
<1>1. pc[p] = "finish" /\ round' = round /\ q \in todo[p] /\ todo[p] \subseteq Rank
  BY DEF FinishExchange, Turn, TypeOK
<1>2. /\ todo[p] = {q} => pc'[p] = "release" /\ todo'[p] = Rank
      /\ todo[p] # {q} => pc'[p] = "finish" /\ todo'[p] = todo[p] \ {q}
  BY NextPeerFacts DEF FinishExchange
<1>. QED
  BY <1>1, <1>2 DEF Left, Filled, OnTheWay, HasSent, Waiting, Got, Tested, Served

\* The same for the destructors, the last of which ends the round.
LEMMA ReleaseStage ==
  ASSUME TypeOK, NEW p \in Rank, NEW q \in Rank, Release(p, q)
  PROVE  /\ Filled(p, q) /\ ~Filled(p, q)' /\ Got(p, q) /\ ~Got(p, q)' /\ Tested(p, q) /\ ~Tested(p, q)'
         /\ \A y \in Rank :
              /\ ~OnTheWay(p, y) /\ ~OnTheWay(p, y)' /\ HasSent(p, y)
              /\ ~Waiting(p, y) /\ ~Waiting(p, y)'
              /\ y # q => /\ Filled(p, y)' <=> Filled(p, y)
                          /\ Got(p, y)' <=> Got(p, y)
                          /\ Tested(p, y)' <=> Tested(p, y)
         /\ Left(p)
         /\ \/ Left(p)' /\ round'[p] = round[p] /\ (\A y \in Rank : HasSent(p, y)')
            \/ /\ ~Left(p)' /\ round'[p] = round[p] + 1
               /\ \A y \in Rank : ~Got(p, y)' /\ ~Filled(p, y)' /\ ~HasSent(p, y)'
         /\ \A z \in Rank : z # p => round'[z] = round[z]
PROOF
<1>1. /\ pc[p] = "release" /\ q \in todo[p] /\ todo[p] \subseteq Rank
      /\ round'[p] = (IF todo[p] = {q} THEN round[p] + 1 ELSE round[p])
      /\ \A z \in Rank : z # p => round'[z] = round[z]
  BY DEF Release, Turn, TypeOK
<1>2. /\ todo[p] = {q} => pc'[p] \in {"pack", "done"} /\ todo'[p] = Rank
      /\ todo[p] # {q} => pc'[p] = "release" /\ todo'[p] = todo[p] \ {q}
  BY NextPeerFacts DEF Release
<1>. USE DEF Left, Filled, OnTheWay, HasSent, Waiting, Got, Tested
<1>3. CASE todo[p] = {q}
  BY <1>1, <1>2, <1>3
<1>4. CASE todo[p] # {q}
  BY <1>1, <1>2, <1>4
<1>. QED
  BY <1>3, <1>4

-------------------------------------------------------------------------------
(* Where the packets are *)

\* Which part of the state of p is behind each of its shelves.
LEMMA ShelfParts ==
  ASSUME NEW q \in Rank
  PROVE  /\ Free \in Shelf /\ <<"send", q>> \in Shelf /\ <<"recv", q>> \in Shelf /\ <<"pending", q>> \in Shelf
         /\ \A p \in Rank :
              /\ DOMAIN Shelves(p) = Shelf
              /\ Shelves(p)[Free] = free[p]
              /\ Shelves(p)[<<"send", q>>] = sendBuf[p][q].list
              /\ Shelves(p)[<<"recv", q>>] = recvBuf[p][q].list
              /\ Shelves(p)[<<"pending", q>>] = Pending(recvBuf[p][q])
BY DEF Free, Shelf, Shelves

\* Every packet named anywhere exists, and no two places name the same one.
LEMMA Places ==
  ASSUME TypeOK, TidyInv, NEW p \in Rank, NEW q \in Rank
  PROVE  /\ \A i \in DOMAIN free[p] : free[p][i] \in 1..Len(packet[p])
         /\ \A i \in DOMAIN sendBuf[p][q].list : sendBuf[p][q].list[i] \in 1..Len(packet[p])
         /\ \A i \in DOMAIN recvBuf[p][q].list : recvBuf[p][q].list[i] \in 1..Len(packet[p])
         /\ recvBuf[p][q].active # 0 /\ ~recvBuf[p][q].completed => recvBuf[p][q].active \in 1..Len(packet[p])
PROOF
<1>. DEFINE L == Shelves(p)
            s == <<"send", q>>
            r == <<"recv", q>>
            w == <<"pending", q>>
            n == Len(packet[p])
<1>1. /\ Free \in DOMAIN L /\ s \in DOMAIN L /\ r \in DOMAIN L /\ w \in DOMAIN L
      /\ \A u \in DOMAIN L : \A i \in DOMAIN L[u] : L[u][i] \in 1..n
  BY ShelfParts DEF TidyInv, Tidy
<1>2. /\ free[p] = L[Free] /\ sendBuf[p][q].list = L[s] /\ recvBuf[p][q].list = L[r]
      /\ Pending(recvBuf[p][q]) = L[w]
  BY ShelfParts
<1>3. recvBuf[p][q].active # 0 /\ ~recvBuf[p][q].completed =>
        Pending(recvBuf[p][q])[1] = recvBuf[p][q].active /\ 1 \in DOMAIN Pending(recvBuf[p][q])
  BY DEF Pending
<1>. HIDE DEF L, s, r, w, n, Pending
<1>4. \A i \in DOMAIN free[p] : free[p][i] \in 1..n
  BY <1>1, <1>2
<1>5. \A i \in DOMAIN sendBuf[p][q].list : sendBuf[p][q].list[i] \in 1..n
  BY <1>1, <1>2
<1>6. \A i \in DOMAIN recvBuf[p][q].list : recvBuf[p][q].list[i] \in 1..n
  BY <1>1, <1>2
<1>7. recvBuf[p][q].active # 0 /\ ~recvBuf[p][q].completed => recvBuf[p][q].active \in 1..n
  BY <1>1, <1>2, <1>3
<1>. QED
  BY <1>4, <1>5, <1>6, <1>7 DEF n

\* No packet is in two of the pool, the buffers' lists and the pending receives.
LEMMA Apart ==
  ASSUME TypeOK, TidyInv, NEW p \in Rank, NEW q \in Rank, NEW r \in Rank
  PROVE  /\ \A i \in DOMAIN free[p], j \in DOMAIN free[p] : free[p][i] = free[p][j] => i = j
         /\ \A i \in DOMAIN free[p], j \in DOMAIN sendBuf[p][q].list : free[p][i] # sendBuf[p][q].list[j]
         /\ \A i \in DOMAIN free[p], j \in DOMAIN recvBuf[p][q].list : free[p][i] # recvBuf[p][q].list[j]
         /\ \A i \in DOMAIN sendBuf[p][q].list, j \in DOMAIN sendBuf[p][r].list :
              sendBuf[p][q].list[i] = sendBuf[p][r].list[j] => q = r /\ i = j
         /\ \A i \in DOMAIN sendBuf[p][q].list, j \in DOMAIN recvBuf[p][r].list :
              sendBuf[p][q].list[i] # recvBuf[p][r].list[j]
         /\ \A i \in DOMAIN recvBuf[p][q].list, j \in DOMAIN recvBuf[p][r].list :
              recvBuf[p][q].list[i] = recvBuf[p][r].list[j] => q = r /\ i = j
         /\ recvBuf[p][r].active # 0 /\ ~recvBuf[p][r].completed =>
              /\ \A i \in DOMAIN free[p] : free[p][i] # recvBuf[p][r].active
              /\ \A i \in DOMAIN sendBuf[p][q].list : sendBuf[p][q].list[i] # recvBuf[p][r].active
              /\ \A i \in DOMAIN recvBuf[p][q].list : recvBuf[p][q].list[i] # recvBuf[p][r].active
              /\ recvBuf[p][q].active # 0 /\ ~recvBuf[p][q].completed
                   => (recvBuf[p][q].active = recvBuf[p][r].active => q = r)
PROOF
<1>. DEFINE L == Shelves(p)
            sq == <<"send", q>>
            sr == <<"send", r>>
            rq == <<"recv", q>>
            rr == <<"recv", r>>
            wq == <<"pending", q>>
            wr == <<"pending", r>>
            F == free[p]
            SQ == sendBuf[p][q].list
            SR == sendBuf[p][r].list
            RQ == recvBuf[p][q].list
            RR == recvBuf[p][r].list
            AQ == recvBuf[p][q].active # 0 /\ ~recvBuf[p][q].completed
            AR == recvBuf[p][r].active # 0 /\ ~recvBuf[p][r].completed
<1>1. /\ {Free, sq, sr, rq, rr, wq, wr} \subseteq DOMAIN L
      /\ \A s, t \in DOMAIN L : \A i \in DOMAIN L[s], j \in DOMAIN L[t] : L[s][i] = L[t][j] => s = t /\ i = j
  BY ShelfParts DEF TidyInv, Tidy
<1>2. F = L[Free] /\ SQ = L[sq] /\ SR = L[sr] /\ RQ = L[rq] /\ RR = L[rr]
  BY ShelfParts
<1>3. /\ AQ => 1 \in DOMAIN L[wq] /\ L[wq][1] = recvBuf[p][q].active
      /\ AR => 1 \in DOMAIN L[wr] /\ L[wr][1] = recvBuf[p][r].active
  <2>1. L[wq] = Pending(recvBuf[p][q]) /\ L[wr] = Pending(recvBuf[p][r])
    BY ShelfParts
  <2>. HIDE DEF L, wq, wr
  <2>. QED
    BY <2>1 DEF Pending
<1>4. /\ Free \notin {sq, sr, rq, rr, wq, wr}
      /\ {sq, sr} \intersect {rq, rr, wq, wr} = {} /\ {rq, rr} \intersect {wq, wr} = {}
      /\ (sq = sr \/ rq = rr \/ wq = wr => q = r)
  BY DEF Free
<1>. HIDE DEF L, sq, sr, rq, rr, wq, wr, F, SQ, SR, RQ, RR, AQ, AR
<1>5. \A i \in DOMAIN F, j \in DOMAIN F : F[i] = F[j] => i = j
  BY <1>1, <1>2
<1>6. \A i \in DOMAIN F, j \in DOMAIN SQ : F[i] # SQ[j]
  BY <1>1, <1>2, <1>4
<1>7. \A i \in DOMAIN F, j \in DOMAIN RQ : F[i] # RQ[j]
  BY <1>1, <1>2, <1>4
<1>8. \A i \in DOMAIN SQ, j \in DOMAIN SR : SQ[i] = SR[j] => q = r /\ i = j
  BY <1>1, <1>2, <1>4
<1>9. \A i \in DOMAIN SQ, j \in DOMAIN RR : SQ[i] # RR[j]
  BY <1>1, <1>2, <1>4
<1>10. \A i \in DOMAIN RQ, j \in DOMAIN RR : RQ[i] = RR[j] => q = r /\ i = j
  BY <1>1, <1>2, <1>4
<1>11. ASSUME AR
       PROVE  /\ \A i \in DOMAIN F : F[i] # recvBuf[p][r].active
              /\ \A i \in DOMAIN SQ : SQ[i] # recvBuf[p][r].active
              /\ \A i \in DOMAIN RQ : RQ[i] # recvBuf[p][r].active
              /\ AQ => (recvBuf[p][q].active = recvBuf[p][r].active => q = r)
  <2>1. \A s \in DOMAIN L : \A i \in DOMAIN L[s] : L[s][i] = recvBuf[p][r].active => s = wr
    BY <1>1, <1>3, <1>11
  <2>. QED
    BY <1>1, <1>2, <1>3, <1>4, <2>1
<1>. QED
  BY <1>5, <1>6, <1>7, <1>8, <1>9, <1>10, <1>11 DEF F, SQ, SR, RQ, RR, AQ, AR

\* The packet p gets when it asks its pool for one.
Popped(p) == PopPacket(packet[p], free[p])

\* A popped packet lies on no shelf but the pool.
LEMMA PoppedApart ==
  ASSUME TypeOK, TidyInv, NEW p \in Rank
  PROVE  LET k == Popped(p)
             rest == PoolAfterPop(free[p])
         IN /\ k \in 1..(Len(packet[p]) + 1) /\ rest \in Seq(Nat \ {0})
            /\ \A i \in DOMAIN rest : /\ rest[i] \in 1..Len(packet[p]) /\ rest[i] # k
                                      /\ \E j \in DOMAIN free[p] : rest[i] = free[p][j]
            /\ \A q \in Rank :
                 /\ \A i \in DOMAIN sendBuf[p][q].list : sendBuf[p][q].list[i] # k
                 /\ \A i \in DOMAIN recvBuf[p][q].list : recvBuf[p][q].list[i] # k
                 /\ recvBuf[p][q].active # 0 /\ ~recvBuf[p][q].completed => recvBuf[p][q].active # k
PROOF
<1>. DEFINE k == Popped(p)
            rest == PoolAfterPop(free[p])
            n == Len(packet[p])
<1>1. /\ packet[p] \in Seq(Packets) /\ free[p] \in Seq(Nat \ {0}) /\ n \in Nat
      /\ \A i \in DOMAIN free[p] : free[p][i] \in 1..n
  BY Types, Places
<1>2. /\ k \in 1..(n + 1) /\ rest \in Seq(Nat \ {0})
      /\ \A i \in DOMAIN rest : \E j \in DOMAIN free[p] : rest[i] = free[p][j]
  BY <1>1, PopFacts DEF Popped
<1>3. \/ k = n + 1 /\ rest = <<>>
      \/ 1 \in DOMAIN free[p] /\ k = free[p][1] /\ \A i \in DOMAIN rest : i + 1 # 1 /\ i + 1 \in DOMAIN free[p] /\ rest[i] = free[p][i + 1]
  <2>1. CASE free[p] = <<>>
    BY <2>1 DEF Popped, PopPacket, PoolAfterPop
  <2>2. CASE free[p] # <<>>
    <3>1. /\ Head(free[p]) = free[p][1] /\ 1 \in DOMAIN free[p]
          /\ \A i \in DOMAIN Tail(free[p]) : i + 1 # 1 /\ i + 1 \in DOMAIN free[p] /\ Tail(free[p])[i] = free[p][i + 1]
      BY <1>1, <2>2
    <3>. QED
      BY <2>2, <3>1 DEF Popped, PopPacket, PoolAfterPop
  <2>. QED
    BY <2>1, <2>2
<1>. HIDE DEF k, rest, n
<1>4. \A i \in DOMAIN rest : rest[i] \in 1..n /\ rest[i] # k
  <2>. TAKE i \in DOMAIN rest
  <2>1. PICK j \in DOMAIN free[p] : rest[i] = free[p][j]
    BY <1>2
  <2>2. \A u, v \in DOMAIN free[p] : free[p][u] = free[p][v] => u = v
    BY Apart
  <2>3. rest = <<>> => DOMAIN rest = {}
    OBVIOUS
  <2>. QED
    BY <1>1, <1>3, <2>1, <2>2, <2>3
<1>5. ASSUME NEW q \in Rank
      PROVE  /\ \A i \in DOMAIN sendBuf[p][q].list : sendBuf[p][q].list[i] # k
             /\ \A i \in DOMAIN recvBuf[p][q].list : recvBuf[p][q].list[i] # k
             /\ recvBuf[p][q].active # 0 /\ ~recvBuf[p][q].completed => recvBuf[p][q].active # k
  <2>1. /\ \A i \in DOMAIN sendBuf[p][q].list : sendBuf[p][q].list[i] \in 1..n
        /\ \A i \in DOMAIN recvBuf[p][q].list : recvBuf[p][q].list[i] \in 1..n
        /\ recvBuf[p][q].active # 0 /\ ~recvBuf[p][q].completed => recvBuf[p][q].active \in 1..n
    BY Places DEF n
  <2>2. /\ \A i \in DOMAIN free[p], j \in DOMAIN sendBuf[p][q].list : free[p][i] # sendBuf[p][q].list[j]
        /\ \A i \in DOMAIN free[p], j \in DOMAIN recvBuf[p][q].list : free[p][i] # recvBuf[p][q].list[j]
        /\ recvBuf[p][q].active # 0 /\ ~recvBuf[p][q].completed =>
             \A i \in DOMAIN free[p] : free[p][i] # recvBuf[p][q].active
    BY Apart
  <2>3. \A j \in 1..n : j # n + 1
    BY <1>1
  <2>. QED
    BY <1>3, <2>1, <2>2, <2>3
<1>. QED
  BY <1>2, <1>4, <1>5 DEF k, rest, n

-------------------------------------------------------------------------------
(* What a step leaves alone stays right *)

\* A buffer that nobody touches, in the same stage, stays right.
LEMMA BuffersKept ==
  ASSUME NEW p \in Rank, NEW q \in Rank, BuffersRight(p, q),
         sendBuf'[p][q].list = sendBuf[p][q].list, recvBuf'[p][q] = recvBuf[p][q], inbox'[p][q] = inbox[p][q],
         Filled(p, q)' <=> Filled(p, q), Waiting(p, q)' <=> Waiting(p, q), Got(p, q)' <=> Got(p, q)
  PROVE  BuffersRight(p, q)'
BY DEF BuffersRight, EmptyRecvBuf

\* A message whose packets nobody touches still holds what was packed.
LEMMA PackedKept ==
  ASSUME NEW p \in Rank, NEW q \in Rank, Packed(p, q),
         sendBuf'[p][q].list = sendBuf[p][q].list, round'[p] = round[p],
         HasSent(p, q) => HasSent(p, q)',
         \A i \in DOMAIN sendBuf[p][q].list :
           LET k == sendBuf[p][q].list[i]
           IN /\ packet'[p][k].buff.body = packet[p][k].buff.body
              /\ HasSent(p, q)' \/ (packet'[p][k].number = packet[p][k].number /\ packet'[p][k].eof = packet[p][k].eof)
  PROVE  Packed(p, q)'
PROOF
<1>. DEFINE list == sendBuf[p][q].list
            new == sendBuf'[p][q].list
<1>1. list = new
  OBVIOUS
<1>2. \A i \in DOMAIN list :
           /\ packet[p][list[i]].buff.body = <<p, q, round[p], i>>
           /\ ~HasSent(p, q) => packet[p][list[i]].number = i /\ ~packet[p][list[i]].eof
  BY DEF Packed
<1>3. \A i \in DOMAIN list :
           /\ packet'[p][list[i]].buff.body = packet[p][list[i]].buff.body
           /\ HasSent(p, q)' \/ (packet'[p][list[i]].number = packet[p][list[i]].number /\ packet'[p][list[i]].eof = packet[p][list[i]].eof)
  OBVIOUS
<1>. HIDE DEF list, new
<1>4. \A i \in DOMAIN new :
           /\ packet'[p][new[i]].buff.body = <<p, q, round'[p], i>>
           /\ ~HasSent(p, q)' => packet'[p][new[i]].number = i /\ ~packet'[p][new[i]].eof
  BY <1>1, <1>2, <1>3
<1>. QED
  BY <1>4 DEF Packed, new

\* Packets MPI is through with stay so while their requests are left alone.
LEMMA IdleKept ==
  ASSUME NEW p \in Rank, NEW q \in Rank, BuffersIdle(p, q),
         recvBuf'[p][q].list = recvBuf[p][q].list,
         \A i \in DOMAIN recvBuf[p][q].list :
           packet'[p][recvBuf[p][q].list[i]].request = packet[p][recvBuf[p][q].list[i]].request,
         Tested(p, q)' =>
           /\ Tested(p, q) /\ sendBuf'[p][q].list = sendBuf[p][q].list
           /\ \A i \in DOMAIN sendBuf[p][q].list :
                packet'[p][sendBuf[p][q].list[i]].request = packet[p][sendBuf[p][q].list[i]].request,
         Waiting(p, q)' =>
           /\ Waiting(p, q) /\ recvBuf'[p][q].active = recvBuf[p][q].active
           /\ \/ packet'[p][recvBuf[p][q].active].request = packet[p][recvBuf[p][q].active].request
              \/ packet'[p][recvBuf[p][q].active].request = "complete"
  PROVE  BuffersIdle(p, q)'
BY DEF BuffersIdle

\* What has been delivered changes only with the receiver.
LEMMA DeliveredKept ==
  ASSUME NEW p \in Rank, NEW q \in Rank,
         round'[p] = round[p], round'[q] = round[q], Waiting(q, p)' <=> Waiting(q, p),
         Waiting(q, p) =>
           /\ recvBuf'[q][p].list = recvBuf[q][p].list /\ recvBuf'[q][p].active = recvBuf[q][p].active
           /\ packet'[q][recvBuf[q][p].active].request = packet[q][recvBuf[q][p].active].request
  PROVE  Delivered(p, q)' = Delivered(p, q)
BY DEF Delivered

\* What has been delivered is a number of packets.
LEMMA DeliveredNat ==
  ASSUME TypeOK, NEW p \in Rank, NEW q \in Rank
  PROVE  Delivered(p, q) \in Nat
PROOF
<1>1. recvBuf[q][p].list \in Seq(Nat)
  BY Types
<1>. DEFINE l == Len(recvBuf[q][p].list)
            a == IF packet[q][recvBuf[q][p].active].request = "active" THEN 0 ELSE 1
<1>2. l \in Nat /\ a \in Nat
  BY <1>1
<1>3. Delivered(p, q) = IF round[q] = round[p] /\ Waiting(q, p) THEN l + a ELSE 0
  BY DEF Delivered
<1>. HIDE DEF l, a
<1>. QED
  BY <1>2, <1>3

\* What is on the wire stays right while sender and receiver leave it alone.
LEMMA OnWireKept ==
  ASSUME TypeOK, NEW p \in Rank, NEW q \in Rank, OnWire(p, q),
         sendBuf'[p][q].list = sendBuf[p][q].list, chan'[p][q] = chan[p][q], round'[p] = round[p],
         OnTheWay(p, q)' <=> OnTheWay(p, q), Served(p, q)' <=> Served(p, q),
         Delivered(p, q)' = Delivered(p, q),
         \A i \in DOMAIN sendBuf[p][q].list :
           packet'[p][sendBuf[p][q].list[i]].buff = packet[p][sendBuf[p][q].list[i]].buff
  PROVE  OnWire(p, q)'
PROOF
<1>. DEFINE list == sendBuf[p][q].list
            new == sendBuf'[p][q].list
            c == chan[p][q]
            d == Delivered(p, q)
<1>1. ASSUME OnTheWay(p, q), ~Served(p, q)
      PROVE  /\ Len(c) + d = Len(list)
             /\ \A i \in DOMAIN c : /\ Wire(p, c[i])' = WirePacket(p, q, round'[p], d + i, Len(list))
                                    /\ c[i].ref = 0 \/ c[i].ref = list[d + i]
  <2>1. /\ Len(c) + d = Len(list)
        /\ \A i \in DOMAIN c : /\ Wire(p, c[i]) = WirePacket(p, q, round[p], d + i, Len(list))
                               /\ c[i].ref = 0 \/ c[i].ref = list[d + i]
    BY <1>1 DEF OnWire
  <2>2. /\ list \in Seq(Nat) /\ c \in Seq([ref : Nat, data : Wires]) /\ d \in Nat
    BY Types, DeliveredNat
  <2>3. ASSUME NEW i \in DOMAIN c
        PROVE  Wire(p, c[i])' = Wire(p, c[i])
    <3>1. d + i \in DOMAIN list
      <4>1. Len(c) + d = Len(list)
        BY <2>1
      <4>. HIDE DEF c, d, list
      <4>. QED
        BY <2>2, <4>1, LaterPlace
    <3>2. packet'[p][list[d + i]].buff = packet[p][list[d + i]].buff
      BY <3>1
    <3>3. (c[i])' = c[i]
      OBVIOUS
    <3>. HIDE DEF c, list, d
    <3>. QED
      BY <2>1, <3>2, <3>3 DEF Wire
  <2>. QED
    BY <2>1, <2>3
<1>2. ~OnTheWay(p, q) \/ Served(p, q) => c = <<>>
  BY DEF OnWire
<1>. QED
  BY <1>1, <1>2 DEF OnWire

\* Where nothing is under way the wire is empty.
LEMMA QuietKept ==
  ASSUME NEW p \in Rank, NEW q \in Rank, OnWire(p, q), ~OnTheWay(p, q), ~OnTheWay(p, q)',
         chan'[p][q] = chan[p][q]
  PROVE  OnWire(p, q)'
BY DEF OnWire

\* What a receiver has read stays right while its packets are left alone.
LEMMA ReadsKept ==
  ASSUME NEW p \in Rank, NEW q \in Rank, Reads(p, q),
         round'[p] = round[p], round'[q] = round[q],
         OnTheWay(p, q)' <=> OnTheWay(p, q), HasSent(p, q) => HasSent(p, q)',
         Waiting(q, p)' <=> Waiting(q, p), Got(q, p)' <=> Got(q, p),
         Filled(p, q)' /\ HasSent(p, q) => Filled(p, q) /\ sendBuf'[p][q].list = sendBuf[p][q].list,
         recvBuf'[q][p] = recvBuf[q][p], inbox'[q][p] = inbox[q][p],
         \A i \in DOMAIN recvBuf[q][p].list :
           packet'[q][recvBuf[q][p].list[i]].buff = packet[q][recvBuf[q][p].list[i]].buff,
         Waiting(q, p) => packet'[q][recvBuf[q][p].active] = packet[q][recvBuf[q][p].active]
  PROVE  Reads(p, q)'
PROOF
<1>. DEFINE b == recvBuf[q][p]
            n == Len(sendBuf[p][q].list)
<1>1. ASSUME Waiting(q, p), ~(round[p] = round[q] /\ OnTheWay(p, q))
      PROVE  b.list = <<>> /\ packet[q][b.active].request = "active"
  BY <1>1 DEF Reads
<1>2. ASSUME Waiting(q, p), round[p] = round[q], OnTheWay(p, q)
      PROVE  /\ \A i \in DOMAIN b.list :
                  i < n /\ packet[q][b.list[i]].buff = WirePacket(p, q, round[q], i, n)
             /\ packet[q][b.active].request = "complete"
                  => packet[q][b.active].buff = WirePacket(p, q, round[q], Len(b.list) + 1, n)
  BY <1>2 DEF Reads
<1>3. ASSUME Got(q, p)
      PROVE  /\ b.list # <<>> /\ inbox[q][p] = [i \in DOMAIN b.list |-> <<p, q, round[q], i>>]
             /\ round[q] <= round[p]
             /\ round[q] = round[p] => HasSent(p, q)
             /\ round[q] = round[p] /\ Filled(p, q) => Len(b.list) = n
  BY <1>3 DEF Reads
<1>4. OnTheWay(p, q) => HasSent(p, q) /\ Filled(p, q) /\ Filled(p, q)'
  BY DEF OnTheWay, HasSent, Filled
<1>5. Filled(p, q)' /\ HasSent(p, q) => n' = n /\ Filled(p, q)
  OBVIOUS
<1>6. b' = b
  OBVIOUS
<1>. HIDE DEF n, b
<1>7. ASSUME Waiting(q, p)', ~(round[p] = round[q] /\ OnTheWay(p, q))'
      PROVE  b'.list = <<>> /\ packet'[q][b'.active].request = "active"
  BY <1>1, <1>6, <1>7 DEF b
<1>8. ASSUME Waiting(q, p)', round'[p] = round'[q], OnTheWay(p, q)'
      PROVE  /\ \A i \in DOMAIN b'.list :
                  i < n' /\ packet'[q][b'.list[i]].buff = WirePacket(p, q, round'[q], i, n')
             /\ packet'[q][b'.active].request = "complete"
                  => packet'[q][b'.active].buff = WirePacket(p, q, round'[q], Len(b'.list) + 1, n')
  <2>1. n' = n
    BY <1>4, <1>5, <1>8
  <2>2. \A i \in DOMAIN b.list : packet'[q][b.list[i]].buff = packet[q][b.list[i]].buff
    BY DEF b
  <2>3. packet'[q][b.active] = packet[q][b.active]
    BY <1>8 DEF b
  <2>. QED
    BY <1>2, <1>6, <1>8, <2>1, <2>2, <2>3
<1>9. ASSUME Got(q, p)'
      PROVE  /\ b'.list # <<>> /\ inbox'[q][p] = [i \in DOMAIN b'.list |-> <<p, q, round'[q], i>>]
             /\ round'[q] <= round'[p]
             /\ round'[q] = round'[p] => HasSent(p, q)'
             /\ round'[q] = round'[p] /\ Filled(p, q)' => Len(b'.list) = n'
  BY <1>3, <1>5, <1>6, <1>9
<1>. QED
  BY <1>7, <1>8, <1>9 DEF Reads, b, n

-------------------------------------------------------------------------------
(* The moves of the actions *)

\* The shelves are the pool and three for each peer, all different.
LEMMA ShelfCases ==
  /\ \A s \in Shelf : \/ s = Free
                      \/ \E y \in Rank : s = <<"send", y>> \/ s = <<"recv", y>> \/ s = <<"pending", y>>
  /\ \A y, z \in Rank :
       /\ Free # <<"send", y>> /\ Free # <<"recv", y>> /\ Free # <<"pending", y>>
       /\ <<"send", y>> # <<"recv", z>> /\ <<"send", y>> # <<"pending", z>> /\ <<"recv", y>> # <<"pending", z>>
       /\ <<"send", y>> = <<"send", z>> => y = z
       /\ <<"recv", y>> = <<"recv", z>> => y = z
       /\ <<"pending", y>> = <<"pending", z>> => y = z
PROOF
<1>1. \A s \in {"send", "recv", "pending"} \X Rank :
        \E y \in Rank : s = <<"send", y>> \/ s = <<"recv", y>> \/ s = <<"pending", y>>
  OBVIOUS
<1>. QED
  BY <1>1 DEF Shelf, Free

\* Which part of the next state of p is behind each of its shelves.
LEMMA ShelfPartsNext ==
  ASSUME NEW p \in Rank
  PROVE  /\ DOMAIN Shelves(p)' = Shelf
         /\ Shelves(p)'[Free] = free'[p]
         /\ \A q \in Rank :
              /\ Shelves(p)'[<<"send", q>>] = sendBuf'[p][q].list
              /\ Shelves(p)'[<<"recv", q>>] = recvBuf'[p][q].list
              /\ Shelves(p)'[<<"pending", q>>] = Pending(recvBuf'[p][q])
BY DEF Free, Shelf, Shelves, Pending

\* A shelf keeps what it holds if the part of the state behind it is left alone.
LEMMA ShelfKept ==
  ASSUME NEW p \in Rank, NEW s \in Shelf,
         s = Free => free'[p] = free[p],
         \A y \in Rank : s = <<"send", y>> => sendBuf'[p][y].list = sendBuf[p][y].list,
         \A y \in Rank : s = <<"recv", y>> => recvBuf'[p][y].list = recvBuf[p][y].list,
         \A y \in Rank : s = <<"pending", y>> => Pending(recvBuf'[p][y]) = Pending(recvBuf[p][y])
  PROVE  Shelves(p)'[s] = Shelves(p)[s]
PROOF
<1>1. CASE s = Free
  <2>1. Shelves(p)'[Free] = free'[p]
    BY ShelfPartsNext
  <2>2. Shelves(p)[Free] = free[p]
    BY <1>1, ShelfParts DEF Shelves, Free
  <2>. QED
    BY <1>1, <2>1, <2>2
<1>2. CASE \E y \in Rank : s = <<"send", y>>
  <2>1. PICK y \in Rank : s = <<"send", y>>
    BY <1>2
  <2>2. Shelves(p)'[<<"send", y>>] = sendBuf'[p][y].list
    BY ShelfPartsNext
  <2>3. Shelves(p)[<<"send", y>>] = sendBuf[p][y].list
    BY ShelfParts
  <2>. QED
    BY <2>1, <2>2, <2>3
<1>3. CASE \E y \in Rank : s = <<"recv", y>>
  <2>1. PICK y \in Rank : s = <<"recv", y>>
    BY <1>3
  <2>2. Shelves(p)'[<<"recv", y>>] = recvBuf'[p][y].list
    BY ShelfPartsNext
  <2>3. Shelves(p)[<<"recv", y>>] = recvBuf[p][y].list
    BY ShelfParts
  <2>. QED
    BY <2>1, <2>2, <2>3
<1>4. CASE \E y \in Rank : s = <<"pending", y>>
  <2>1. PICK y \in Rank : s = <<"pending", y>>
    BY <1>4
  <2>2. Shelves(p)'[<<"pending", y>>] = Pending(recvBuf'[p][y])
    BY ShelfPartsNext
  <2>3. Shelves(p)[<<"pending", y>>] = Pending(recvBuf[p][y])
    BY ShelfParts
  <2>. QED
    BY <2>1, <2>2, <2>3
<1>. QED
  BY <1>1, <1>2, <1>3, <1>4, ShelfCases

\* The shelves of p as the lemmas on moving packets want them.
LEMMA TidyHere ==
  ASSUME TypeOK, TidyInv, NEW p \in Rank
  PROVE  /\ Tidy(Shelves(p), Len(packet[p])) /\ Len(packet[p]) \in Nat
         /\ DOMAIN Shelves(p) = Shelf /\ DOMAIN Shelves(p)' = Shelf
         /\ Shelves(p)[Free] = free[p] /\ Shelves(p)'[Free] = free'[p]
PROOF
<1>1. Tidy(Shelves(p), Len(packet[p]))
  BY DEF TidyInv
<1>2. packet[p] \in Seq(Packets)
  BY Types
<1>3. Len(packet[p]) \in Nat
  BY <1>2
<1>4. DOMAIN Shelves(p) = Shelf
  BY DEF Shelves
<1>5. Shelves(p)[Free] = free[p]
  BY DEF Shelves, Shelf, Free
<1>6. DOMAIN Shelves(p)' = Shelf /\ Shelves(p)'[Free] = free'[p]
  BY ShelfPartsNext
<1>. QED
  BY <1>1, <1>3, <1>4, <1>5, <1>6

\* The shelves for one peer differ from each other and from the pool.
LEMMA ShelfNames ==
  ASSUME NEW q \in Rank
  PROVE  /\ Free \in Shelf /\ <<"send", q>> \in Shelf /\ <<"recv", q>> \in Shelf /\ <<"pending", q>> \in Shelf
         /\ <<"send", q>> # Free /\ <<"recv", q>> # Free /\ <<"pending", q>> # Free
         /\ <<"send", q>> # <<"recv", q>> /\ <<"send", q>> # <<"pending", q>> /\ <<"recv", q>> # <<"pending", q>>
BY DEF Shelf, Free

\* Where nothing is moved nothing gets lost.
LEMMA TidySame ==
  ASSUME TypeOK, TidyInv, NEW p \in Rank, free'[p] = free[p], Len(packet'[p]) = Len(packet[p]),
         \A y \in Rank : sendBuf'[p][y].list = sendBuf[p][y].list /\ recvBuf'[p][y] = recvBuf[p][y]
  PROVE  Tidy(Shelves(p), Len(packet[p]))'
PROOF
<1>1. \A s \in Shelf : Shelves(p)'[s] = Shelves(p)[s]
  BY ShelfKept
<1>. QED
  BY <1>1, TidyHere DEF Tidy

\* What a pop does to the pool.
LEMMA PoolPops ==
  ASSUME TypeOK, NEW p \in Rank, NEW m,
         m = IF Popped(p) > Len(packet[p]) THEN Len(packet[p]) + 1 ELSE Len(packet[p]),
         TidyInv
  PROVE  Pops(free[p], PoolAfterPop(free[p]), Popped(p), Len(packet[p]), m)
PROOF
<1>. DEFINE n == Len(packet[p])
<1>1. free[p] \in Seq(Nat) /\ n \in Nat
  BY Types
<1>2. CASE free[p] = <<>>
  <2>1. /\ Popped(p) = n + 1 /\ PoolAfterPop(free[p]) = <<>>
    BY <1>2 DEF Popped, PopPacket, PoolAfterPop
  <2>. HIDE DEF n
  <2>2. m = n + 1
    BY <1>1, <2>1 DEF n
  <2>. QED
    BY <1>1, <1>2, <2>1, <2>2, PopsNew DEF n
<1>3. CASE free[p] # <<>>
  <2>1. Popped(p) = Head(free[p]) /\ PoolAfterPop(free[p]) = Tail(free[p])
    BY <1>3 DEF Popped, PopPacket, PoolAfterPop
  <2>2. Head(free[p]) \in 1..n
    <3>1. Head(free[p]) = free[p][1] /\ 1 \in DOMAIN free[p]
      BY <1>1, <1>3
    <3>. QED
      BY <3>1, Places
  <2>3. m = n
    BY <1>1, <2>1, <2>2
  <2>. QED
    BY <1>1, <1>3, <2>1, <2>3, PopsOld
<1>. QED
  BY <1>2, <1>3

\* AppendPacket: from the pool to the end of a send buffer's list.
LEMMA TidySend ==
  ASSUME TypeOK, TidyInv, NEW p \in Rank, NEW q \in Rank,
         free'[p] = PoolAfterPop(free[p]),
         Len(packet'[p]) = IF Popped(p) > Len(packet[p]) THEN Len(packet[p]) + 1 ELSE Len(packet[p]),
         sendBuf'[p][q].list = Append(sendBuf[p][q].list, Popped(p)),
         \A y \in Rank : /\ y # q => sendBuf'[p][y].list = sendBuf[p][y].list
                         /\ recvBuf'[p][y] = recvBuf[p][y]
  PROVE  Tidy(Shelves(p), Len(packet[p]))'
PROOF
<1>. DEFINE k == Popped(p)
            L == Shelves(p)
            M == Shelves(p)'
            t == <<"send", q>>
            n == Len(packet[p])
            m == Len(packet'[p])
<1>1. Tidy(L, n) /\ n \in Nat /\ DOMAIN L = Shelf /\ DOMAIN M = Shelf
  BY TidyHere
<1>a. Free \in Shelf /\ t \in Shelf /\ t # Free
  BY ShelfNames
<1>k. k \in Nat /\ k # 0 /\ m \in Nat
  <2>1. k \in 1..(n + 1)
    BY PoppedApart
  <2>. QED
    BY <1>1, <2>1
<1>2. Pops(L[Free], M[Free], k, n, m)
  <2>1. Pops(free[p], PoolAfterPop(free[p]), k, n, m)
    BY PoolPops
  <2>. QED
    BY <2>1, TidyHere
<1>3. Puts(L[t], M[t], k)
  <2>1. sendBuf[p][q].list \in Seq(Nat)
    BY Types
  <2>2. Puts(sendBuf[p][q].list, Append(sendBuf[p][q].list, k), k)
    BY <1>k, <2>1, PutsAppend
  <2>3. L[t] = sendBuf[p][q].list /\ M[t] = sendBuf'[p][q].list
    BY ShelfParts, ShelfPartsNext
  <2>. QED
    BY <2>2, <2>3
<1>4. \A s \in DOMAIN L : s # Free /\ s # t => M[s] = L[s]
  <2>. SUFFICES ASSUME NEW s \in Shelf, s # Free, s # t
                PROVE  M[s] = L[s]
    BY <1>1
  <2>. QED
    BY ShelfKept
<1>. HIDE DEF L, M, t, n, m, k
<1>e. DOMAIN M = DOMAIN L /\ Free \in DOMAIN L /\ t \in DOMAIN L /\ t # Free
  BY <1>1, <1>a
<1>5. Tidy(M, m)
  BY <1>1, <1>e, <1>k, <1>2, <1>3, <1>4, TidyPop
<1>6. Tidy(Shelves(p), Len(packet[p]))' <=> Tidy(M, m)
  BY DEF Tidy, M, m
<1>. QED
  BY <1>5, <1>6

\* initExchange: from the pool to the pending receive of a buffer.
LEMMA TidyPost ==
  ASSUME TypeOK, TidyInv, NEW p \in Rank, NEW q \in Rank,
         free'[p] = PoolAfterPop(free[p]),
         Len(packet'[p]) = IF Popped(p) > Len(packet[p]) THEN Len(packet[p]) + 1 ELSE Len(packet[p]),
         recvBuf[p][q] = EmptyRecvBuf,
         recvBuf'[p][q] = [list |-> <<>>, active |-> Popped(p), completed |-> FALSE],
         \A y \in Rank : /\ y # q => recvBuf'[p][y] = recvBuf[p][y]
                         /\ sendBuf'[p][y].list = sendBuf[p][y].list
  PROVE  Tidy(Shelves(p), Len(packet[p]))'
PROOF
<1>. DEFINE k == Popped(p)
            L == Shelves(p)
            M == Shelves(p)'
            t == <<"pending", q>>
            n == Len(packet[p])
            m == Len(packet'[p])
<1>1. Tidy(L, n) /\ n \in Nat /\ DOMAIN L = Shelf /\ DOMAIN M = Shelf
  BY TidyHere
<1>a. Free \in Shelf /\ t \in Shelf /\ t # Free
  BY ShelfNames
<1>k. k \in Nat /\ k # 0 /\ m \in Nat
  <2>1. k \in 1..(n + 1)
    BY PoppedApart
  <2>. QED
    BY <1>1, <2>1
<1>2. Pops(L[Free], M[Free], k, n, m)
  <2>1. Pops(free[p], PoolAfterPop(free[p]), k, n, m)
    BY PoolPops
  <2>. QED
    BY <2>1, TidyHere
<1>3. Puts(L[t], M[t], k)
  <2>1. Pending(recvBuf[p][q]) = <<>> /\ Pending(recvBuf'[p][q]) = Append(<<>>, k)
    BY <1>k DEF Pending, EmptyRecvBuf
  <2>2. <<>> \in Seq(Nat)
    OBVIOUS
  <2>3. Puts(<<>>, Append(<<>>, k), k)
    BY <1>k, <2>2, PutsAppend
  <2>4. L[t] = Pending(recvBuf[p][q]) /\ M[t] = Pending(recvBuf'[p][q])
    BY ShelfParts, ShelfPartsNext
  <2>. QED
    BY <2>1, <2>3, <2>4
<1>b. recvBuf'[p][q].list = recvBuf[p][q].list
  BY DEF EmptyRecvBuf
<1>4. \A s \in DOMAIN L : s # Free /\ s # t => M[s] = L[s]
  <2>. SUFFICES ASSUME NEW s \in Shelf, s # Free, s # t
                PROVE  M[s] = L[s]
    BY <1>1
  <2>. QED
    BY <1>b, ShelfKept
<1>. HIDE DEF L, M, t, n, m, k
<1>e. DOMAIN M = DOMAIN L /\ Free \in DOMAIN L /\ t \in DOMAIN L /\ t # Free
  BY <1>1, <1>a
<1>5. Tidy(M, m)
  BY <1>1, <1>e, <1>k, <1>2, <1>3, <1>4, TidyPop
<1>6. Tidy(Shelves(p), Len(packet[p]))' <=> Tidy(M, m)
  BY DEF Tidy, M, m
<1>. QED
  BY <1>5, <1>6

\* receiveCompleted, an inner packet: the packet that came is kept, the next one is posted.
LEMMA TidyNext ==
  ASSUME TypeOK, TidyInv, NEW p \in Rank, NEW q \in Rank,
         free'[p] = PoolAfterPop(free[p]),
         Len(packet'[p]) = IF Popped(p) > Len(packet[p]) THEN Len(packet[p]) + 1 ELSE Len(packet[p]),
         recvBuf[p][q].active # 0, ~recvBuf[p][q].completed,
         recvBuf'[p][q] = [recvBuf[p][q] EXCEPT !.list = Append(@, recvBuf[p][q].active), !.active = Popped(p)],
         \A y \in Rank : /\ y # q => recvBuf'[p][y] = recvBuf[p][y]
                         /\ sendBuf'[p][y].list = sendBuf[p][y].list
  PROVE  Tidy(Shelves(p), Len(packet[p]))'
PROOF
<1>. DEFINE k == Popped(p)
            L == Shelves(p)
            M == Shelves(p)'
            t == <<"recv", q>>
            u == <<"pending", q>>
            a == recvBuf[p][q].active
            N == [s \in Shelf |-> IF s = t THEN M[t] ELSE IF s = u THEN <<>> ELSE L[s]]
            n == Len(packet[p])
            m == Len(packet'[p])
<1>1. Tidy(L, n) /\ n \in Nat /\ DOMAIN L = Shelf /\ DOMAIN M = Shelf
  BY TidyHere
<1>a. /\ Free \in Shelf /\ t \in Shelf /\ t # Free /\ u \in Shelf /\ u # Free /\ t # u
  BY ShelfNames
<1>k. k \in Nat /\ k # 0 /\ m \in Nat
  <2>1. k \in 1..(n + 1)
    BY PoppedApart
  <2>. QED
    BY <1>1, <2>1
<1>2. Pops(N[Free], M[Free], k, n, m)
  <2>1. Pops(free[p], PoolAfterPop(free[p]), k, n, m)
    BY PoolPops
  <2>. QED
    BY <1>a, <2>1, TidyHere
<1>b. /\ recvBuf'[p][q].list = Append(recvBuf[p][q].list, a) /\ recvBuf'[p][q].active = k
      /\ ~recvBuf'[p][q].completed /\ a \in Nat
  <2>1. recvBuf[p][q] \in [list : Seq(Nat \ {0}), active : Nat, completed : BOOLEAN]
    BY Types
  <2>. QED
    BY <2>1
<1>3. Puts(L[t], M[t], a)
  <2>1. recvBuf[p][q].list \in Seq(Nat)
    BY Types
  <2>2. Puts(recvBuf[p][q].list, Append(recvBuf[p][q].list, a), a)
    BY <1>b, <2>1, PutsAppend
  <2>3. L[t] = recvBuf[p][q].list /\ M[t] = recvBuf'[p][q].list
    BY ShelfParts, ShelfPartsNext
  <2>. QED
    BY <1>b, <2>2, <2>3
<1>4. DOMAIN L[u] = {1} /\ L[u][1] = a
  <2>1. L[u] = Pending(recvBuf[p][q])
    BY ShelfParts
  <2>2. L[u] = <<a>>
    BY <2>1 DEF Pending
  <2>. HIDE DEF L
  <2>. QED
    BY <2>2
<1>5. Puts(N[u], M[u], k)
  <2>1. M[u] = Pending(recvBuf'[p][q])
    BY ShelfPartsNext
  <2>2. Pending(recvBuf'[p][q]) = Append(<<>>, k)
    BY <1>b, <1>k DEF Pending
  <2>3. <<>> \in Seq(Nat)
    OBVIOUS
  <2>4. Puts(<<>>, Append(<<>>, k), k)
    BY <1>k, <2>3, PutsAppend
  <2>5. N[u] = <<>>
    BY <1>a
  <2>. QED
    BY <2>1, <2>2, <2>4, <2>5
<1>6. \A s \in Shelf : s # Free /\ s # t /\ s # u => M[s] = L[s]
  <2>. SUFFICES ASSUME NEW s \in Shelf, s # Free, s # t, s # u
                PROVE  M[s] = L[s]
    OBVIOUS
  <2>. QED
    BY ShelfKept
<1>7. /\ N[t] = M[t] /\ N[u] = <<>> /\ \A s \in Shelf : s # t /\ s # u => N[s] = L[s]
      /\ DOMAIN N = Shelf
  BY <1>a
<1>c. DOMAIN N[u] = {}
  BY <1>7
<1>. HIDE DEF L, M, N, t, u, n, m, a, k
<1>g. Single(L[u])
  BY <1>4 DEF Single
<1>8. Puts(L[t], N[t], L[u][1])
  BY <1>3, <1>4, <1>7
<1>e. /\ DOMAIN N = DOMAIN L /\ t \in DOMAIN L /\ u \in DOMAIN L /\ t # u
      /\ \A s \in DOMAIN L : s # u /\ s # t => N[s] = L[s]
  BY <1>1, <1>a, <1>7
<1>9. Tidy(N, n)
  BY <1>1, <1>e, <1>g, <1>c, <1>8, TidyKeep
<1>10. \A s \in Shelf : s # Free /\ s # u => M[s] = N[s]
  BY <1>a, <1>6, <1>7
<1>f. /\ DOMAIN M = DOMAIN N /\ Free \in DOMAIN N /\ u \in DOMAIN N /\ u # Free
      /\ \A s \in DOMAIN N : s # Free /\ s # u => M[s] = N[s]
  BY <1>1, <1>a, <1>7, <1>10
<1>11. Tidy(M, m)
  BY <1>1, <1>f, <1>k, <1>2, <1>5, <1>9, TidyPop
<1>12. Tidy(Shelves(p), Len(packet[p]))' <=> Tidy(M, m)
  BY DEF Tidy, M, m
<1>. QED
  BY <1>11, <1>12

\* receiveCompleted, the last packet: it is kept.
LEMMA TidyLast ==
  ASSUME TypeOK, TidyInv, NEW p \in Rank, NEW q \in Rank,
         free'[p] = free[p], Len(packet'[p]) = Len(packet[p]),
         recvBuf[p][q].active # 0, ~recvBuf[p][q].completed,
         recvBuf'[p][q].list = Append(recvBuf[p][q].list, recvBuf[p][q].active),
         recvBuf'[p][q].completed,
         \A y \in Rank : /\ y # q => recvBuf'[p][y] = recvBuf[p][y]
                         /\ sendBuf'[p][y].list = sendBuf[p][y].list
  PROVE  Tidy(Shelves(p), Len(packet[p]))'
PROOF
<1>. DEFINE L == Shelves(p)
            M == Shelves(p)'
            t == <<"recv", q>>
            u == <<"pending", q>>
            a == recvBuf[p][q].active
            n == Len(packet[p])
            m == Len(packet'[p])
<1>1. Tidy(L, n) /\ n \in Nat /\ DOMAIN L = Shelf /\ DOMAIN M = Shelf
  BY TidyHere
<1>a. t \in Shelf /\ u \in Shelf /\ t # u
  BY ShelfNames
<1>b. a \in Nat /\ m = n
  BY Types
<1>2. Puts(L[t], M[t], a)
  <2>1. recvBuf[p][q].list \in Seq(Nat)
    BY Types
  <2>2. Puts(recvBuf[p][q].list, Append(recvBuf[p][q].list, a), a)
    BY <1>b, <2>1, PutsAppend
  <2>3. L[t] = recvBuf[p][q].list /\ M[t] = recvBuf'[p][q].list
    BY ShelfParts, ShelfPartsNext
  <2>. QED
    BY <2>2, <2>3
<1>3. DOMAIN L[u] = {1} /\ L[u][1] = a /\ DOMAIN M[u] = {}
  <2>1. L[u] = Pending(recvBuf[p][q]) /\ M[u] = Pending(recvBuf'[p][q])
    BY ShelfParts, ShelfPartsNext
  <2>2. L[u] = <<a>> /\ M[u] = <<>>
    BY <2>1 DEF Pending
  <2>. HIDE DEF L, M
  <2>. QED
    BY <2>2
<1>4. \A s \in DOMAIN L : s # u /\ s # t => M[s] = L[s]
  <2>. SUFFICES ASSUME NEW s \in Shelf, s # u, s # t
                PROVE  M[s] = L[s]
    BY <1>1
  <2>. QED
    BY ShelfKept
<1>. HIDE DEF L, M, t, u, n, m, a
<1>e. DOMAIN M = DOMAIN L /\ t \in DOMAIN L /\ u \in DOMAIN L /\ t # u
  BY <1>1, <1>a
<1>g. Single(L[u]) /\ DOMAIN M[u] = {}
  BY <1>3 DEF Single
<1>f. Puts(L[t], M[t], L[u][1])
  BY <1>2, <1>3
<1>5. Tidy(M, n)
  BY <1>1, <1>e, <1>f, <1>g, <1>4, TidyKeep
<1>6. Tidy(Shelves(p), Len(packet[p]))' <=> Tidy(M, m)
  BY DEF Tidy, M, m
<1>. QED
  BY <1>b, <1>5, <1>6

\* The destructors of a peer's two buffers: both lists go back into the pool.
LEMMA TidyRelease ==
  ASSUME TypeOK, TidyInv, NEW p \in Rank, NEW q \in Rank,
         free'[p] = (free[p] \o recvBuf[p][q].list) \o sendBuf[p][q].list,
         Len(packet'[p]) = Len(packet[p]), recvBuf[p][q].completed,
         recvBuf'[p][q] = EmptyRecvBuf, sendBuf'[p][q] = EmptySendBuf,
         \A y \in Rank : y # q => recvBuf'[p][y] = recvBuf[p][y] /\ sendBuf'[p][y].list = sendBuf[p][y].list
  PROVE  Tidy(Shelves(p), Len(packet[p]))'
PROOF
<1>. DEFINE L == Shelves(p)
            M == Shelves(p)'
            t == <<"recv", q>>
            u == <<"send", q>>
            N == [s \in Shelf |-> IF s = Free THEN free[p] \o recvBuf[p][q].list ELSE IF s = t THEN <<>> ELSE L[s]]
            n == Len(packet[p])
            m == Len(packet'[p])
<1>1. Tidy(L, n) /\ n \in Nat /\ DOMAIN L = Shelf /\ DOMAIN M = Shelf
  BY TidyHere
<1>a. /\ Free \in Shelf /\ t \in Shelf /\ t # Free /\ u \in Shelf /\ u # Free /\ t # u
  BY ShelfNames
<1>2. free[p] \in Seq(Nat) /\ recvBuf[p][q].list \in Seq(Nat) /\ sendBuf[p][q].list \in Seq(Nat)
  <2>1. free[p] \in Seq(Nat \ {0})
    BY Types
  <2>2. free[p] \in Seq(Nat)
    BY <2>1
  <2>. QED
    BY <2>2, Types
<1>b. /\ L[Free] = free[p] /\ L[t] = recvBuf[p][q].list /\ L[u] = sendBuf[p][q].list
  BY ShelfParts, TidyHere
<1>c. /\ M[Free] = free'[p] /\ M[t] = recvBuf'[p][q].list /\ M[u] = sendBuf'[p][q].list
  BY ShelfPartsNext
<1>d. /\ N[Free] = free[p] \o recvBuf[p][q].list /\ N[t] = <<>> /\ N[u] = L[u]
      /\ \A s \in Shelf : s # Free /\ s # t => N[s] = L[s]
      /\ DOMAIN N = Shelf
  BY <1>a
<1>3. Joins(L[Free], L[t], N[Free])
  <2>1. Joins(free[p], recvBuf[p][q].list, free[p] \o recvBuf[p][q].list)
    BY <1>2, JoinsConcat
  <2>. QED
    BY <1>b, <1>d, <2>1
<1>4. Joins(N[Free], N[u], M[Free])
  <2>. DEFINE x == free[p] \o recvBuf[p][q].list
  <2>1. x \in Seq(Nat)
    BY <1>2
  <2>2. N[Free] = x /\ N[u] = sendBuf[p][q].list /\ M[Free] = x \o sendBuf[p][q].list
    BY <1>b, <1>c, <1>d
  <2>. HIDE DEF x
  <2>3. Joins(x, sendBuf[p][q].list, x \o sendBuf[p][q].list)
    BY <1>2, <2>1, JoinsConcat
  <2>. QED
    BY <2>2, <2>3
<1>5. M[t] = <<>> /\ M[u] = <<>>
  BY <1>c DEF EmptySendBuf, EmptyRecvBuf
<1>6. \A s \in Shelf : s # Free /\ s # t /\ s # u => M[s] = L[s]
  <2>. SUFFICES ASSUME NEW s \in Shelf, s # Free, s # t, s # u
                PROVE  M[s] = L[s]
    OBVIOUS
  <2>1. Pending(recvBuf[p][q]) = <<>> /\ Pending(recvBuf'[p][q]) = <<>>
    BY DEF Pending, EmptyRecvBuf
  <2>. QED
    BY <2>1, ShelfKept
<1>7. m = n
  OBVIOUS
<1>. HIDE DEF L, M, N, t, u, n, m
<1>8. DOMAIN N[t] = {} /\ DOMAIN M[u] = {}
  BY <1>5, <1>d
<1>e. /\ DOMAIN N = DOMAIN L /\ Free \in DOMAIN L /\ t \in DOMAIN L /\ t # Free
      /\ \A s \in DOMAIN L : s # Free /\ s # t => N[s] = L[s]
  BY <1>1, <1>a, <1>d
<1>9. Tidy(N, n)
  BY <1>1, <1>e, <1>3, <1>8, TidyClear
<1>10. \A s \in Shelf : s # Free /\ s # u => M[s] = N[s]
  BY <1>a, <1>5, <1>6, <1>d
<1>f. /\ DOMAIN M = DOMAIN N /\ Free \in DOMAIN N /\ u \in DOMAIN N /\ u # Free
      /\ \A s \in DOMAIN N : s # Free /\ s # u => M[s] = N[s]
  BY <1>1, <1>a, <1>d, <1>10
<1>11. Tidy(M, n)
  BY <1>1, <1>f, <1>4, <1>8, <1>9, TidyClear
<1>12. Tidy(Shelves(p), Len(packet[p]))' <=> Tidy(M, m)
  BY DEF Tidy, M, m
<1>. QED
  BY <1>7, <1>11, <1>12

-------------------------------------------------------------------------------
(* Packing *)

\* One process of an array is given a new value.
LEMMA SetOne ==
  ASSUME NEW S, NEW T, NEW f \in [S -> T], NEW p \in S, NEW v \in T
  PROVE  /\ [f EXCEPT ![p] = v] \in [S -> T] /\ [f EXCEPT ![p] = v][p] = v
         /\ \A x \in S : x # p => [f EXCEPT ![p] = v][x] = f[x]
OBVIOUS

\* One buffer of an array of buffers is given a new value.
LEMMA SetPair ==
  ASSUME NEW S, NEW T, NEW f \in [S -> [S -> T]], NEW p \in S, NEW q \in S, NEW v \in T
  PROVE  /\ [f EXCEPT ![p][q] = v] \in [S -> [S -> T]] /\ [f EXCEPT ![p][q] = v][p][q] = v
         /\ \A x, y \in S : x # p \/ y # q => [f EXCEPT ![p][q] = v][x][y] = f[x][y]
OBVIOUS

\* What allocating and filling packet n of a message changes, and what it leaves alone.
LEMMA AppendPacketFacts ==
  ASSUME TypeOK, TidyInv, NEW p \in Rank, NEW q \in Rank, NEW n \in 1..MaxPackets,
         round[p] # MaxRound + 1,
         AppendPacket(p, q, free[p], sendBuf[p][q].list, n)
  PROVE  /\ packet' \in [Rank -> Seq(Packets)] /\ free' \in [Rank -> Seq(Nat \ {0})]
         /\ sendBuf' \in [Rank -> [Rank -> [list : Seq(Nat \ {0}), completed : BOOLEAN]]]
         /\ \A z \in Rank : z # p => packet'[z] = packet[z] /\ free'[z] = free[z]
         /\ \A x, y \in Rank : x # p \/ y # q => sendBuf'[x][y] = sendBuf[x][y]
         /\ sendBuf'[p][q].list = Append(sendBuf[p][q].list, Popped(p))
         /\ free'[p] = PoolAfterPop(free[p])
         /\ Len(packet'[p]) = IF Popped(p) > Len(packet[p]) THEN Len(packet[p]) + 1 ELSE Len(packet[p])
         /\ \A j \in 1..Len(packet[p]) : j # Popped(p) => packet'[p][j] = packet[p][j]
         /\ packet'[p][Popped(p)].number = n /\ ~packet'[p][Popped(p)].eof
         /\ packet'[p][Popped(p)].buff.body = <<p, q, round[p], n>>
PROOF
<1>. DEFINE k == Popped(p)
            h == InitPacket(packet[p], k, n)
            b == <<p, q, round[p], n>>
            w == WriteBody(h, k, b)
            s == [sendBuf[p][q] EXCEPT !.list = Append(sendBuf[p][q].list, k)]
<1>1. packet[p] \in Seq(Packets) /\ k \in 1..(Len(packet[p]) + 1) /\ PoolAfterPop(free[p]) \in Seq(Nat \ {0})
  BY Types, PoppedApart
<1>2. /\ packet' = [packet EXCEPT ![p] = w]
      /\ free' = [free EXCEPT ![p] = PoolAfterPop(free[p])]
      /\ sendBuf' = [sendBuf EXCEPT ![p][q] = s]
  BY DEF AppendPacket, TypeOK, Popped
<1>3. n \in 0..MaxPackets /\ b \in Bodies
  <2>1. round[p] \in 1..MaxRound
    BY Types, BoundAssumption
  <2>. QED
    BY <2>1, BoundAssumption DEF Bodies
<1>4. /\ h \in Seq(Packets) /\ k \in 1..Len(h)
      /\ Len(h) = IF k > Len(packet[p]) THEN Len(packet[p]) + 1 ELSE Len(packet[p])
      /\ \A j \in 1..Len(packet[p]) : j # k => h[j] = packet[p][j]
      /\ h[k].number = n /\ ~h[k].eof
      /\ \A j \in 1..Len(packet[p]) : j \in 1..Len(h)
  <2>1. /\ h \in Seq(Packets)
        /\ Len(h) = IF k > Len(packet[p]) THEN Len(packet[p]) + 1 ELSE Len(packet[p])
        /\ \A j \in 1..Len(packet[p]) : j # k => h[j] = packet[p][j]
        /\ h[k].number = n /\ ~h[k].eof
    <3>1. packet[p] \in Seq(Packets) /\ k \in 1..(Len(packet[p]) + 1) /\ n \in 0..MaxPackets
      BY <1>1, <1>3
    <3>. HIDE DEF k
    <3>. QED
      BY <3>1, InitPacketFacts
  <2>2. Len(packet[p]) \in Nat
    BY <1>1
  <2>. HIDE DEF h
  <2>. QED
    BY <1>1, <2>1, <2>2
<1>. HIDE DEF h, b
<1>5. /\ w \in Seq(Packets) /\ Len(w) = Len(h)
      /\ \A j \in 1..Len(h) : j # k => w[j] = h[j]
      /\ w[k].buff.body = b /\ w[k].number = h[k].number /\ w[k].eof = h[k].eof
  BY <1>3, <1>4, WrittenFacts
<1>6. /\ s \in [list : Seq(Nat \ {0}), completed : BOOLEAN]
      /\ s.list = Append(sendBuf[p][q].list, k)
  <2>1. /\ sendBuf[p][q] \in [list : Seq(Nat \ {0}), completed : BOOLEAN]
        /\ sendBuf[p][q].list \in Seq(Nat \ {0})
    BY Types
  <2>2. k \in Nat \ {0}
    BY <1>1
  <2>3. Append(sendBuf[p][q].list, k) \in Seq(Nat \ {0})
    BY <2>1, <2>2
  <2>. QED
    BY <2>1, <2>3
<1>. HIDE DEF w, s
<1>7. /\ packet' \in [Rank -> Seq(Packets)] /\ packet'[p] = w
      /\ \A z \in Rank : z # p => packet'[z] = packet[z]
  BY <1>2, <1>5, SetOne DEF TypeOK
<1>8. /\ free' \in [Rank -> Seq(Nat \ {0})] /\ free'[p] = PoolAfterPop(free[p])
      /\ \A z \in Rank : z # p => free'[z] = free[z]
  BY <1>1, <1>2, SetOne DEF TypeOK
<1>9. /\ sendBuf' \in [Rank -> [Rank -> [list : Seq(Nat \ {0}), completed : BOOLEAN]]]
      /\ sendBuf'[p][q] = s
      /\ \A x, y \in Rank : x # p \/ y # q => sendBuf'[x][y] = sendBuf[x][y]
  <2>1. sendBuf \in [Rank -> [Rank -> [list : Seq(Nat \ {0}), completed : BOOLEAN]]]
    BY DEF TypeOK
  <2>. QED
    BY <1>2, <1>6, <2>1, SetPair
<1>10. \A j \in 1..Len(packet[p]) : j # k => packet'[p][j] = packet[p][j]
  BY <1>4, <1>5, <1>7
<1>. QED
  BY <1>4, <1>5, <1>6, <1>7, <1>8, <1>9, <1>10 DEF b

\* What both steps of packing do: p puts one more packet into its message to q.
Packing(p, q) ==
  /\ pc[p] \in {"pack", "write"} /\ pc'[p] = "write" /\ pc' = [pc EXCEPT ![p] = "write"]
  /\ todo' = todo /\ round' = round /\ entered' = entered
  /\ recvBuf' = recvBuf /\ chan' = chan /\ inbox' = inbox
  /\ Len(sendBuf[p][q].list) < MaxPackets
  /\ AppendPacket(p, q, free[p], sendBuf[p][q].list, Len(sendBuf[p][q].list) + 1)
  /\ Filled(p, q)'
  /\ \A y \in Rank : y # q => (Filled(p, y)' <=> Filled(p, y))

\* packAllData of one peer packs packet 1 into an empty buffer.
LEMMA PackDataPacks ==
  ASSUME ExchangeInv, NEW p \in Rank, NEW q \in Rank, PackData(p, q)
  PROVE  Packing(p, q)
PROOF
<1>. USE DEF ExchangeInv
<1>1. /\ ~Filled(p, q) /\ Filled(p, q)' /\ \A y \in Rank : y # q => (Filled(p, y)' <=> Filled(p, y))
  BY PackDataStage
<1>2. sendBuf[p][q].list = <<>>
  BY <1>1 DEF BufferInv, BuffersRight
<1>3. Clear(free[p], <<>>) = free[p]
  <2>1. free[p] \in Seq(Nat \ {0})
    BY Types
  <2>. QED
    BY <2>1 DEF Clear
<1>4. Len(<<>>) = 0 /\ 0 < MaxPackets /\ 0 + 1 = 1
  BY BoundAssumption
<1>. QED
  BY <1>1, <1>2, <1>3, <1>4 DEF PackData, Packing, TypeOK

\* __write packs the next packet behind the ones the buffer has.
LEMMA WriteMorePacks ==
  ASSUME ExchangeInv, NEW p \in Rank, NEW q \in Rank, WriteMore(p, q)
  PROVE  Packing(p, q)
PROOF
<1>. USE DEF ExchangeInv
<1>1. /\ pc' = pc /\ todo' = todo /\ round' = round /\ entered' = entered /\ pc[p] = "write"
      /\ Turn(p, q)
  BY DEF WriteMore, local
<1>2. \A y \in Rank : Filled(p, y)' <=> Filled(p, y)
  BY <1>1, SameStage
<1>3. Filled(p, q)
  BY <1>1 DEF Filled
<1>4. pc' = [pc EXCEPT ![p] = "write"]
  BY <1>1 DEF TypeOK
<1>. QED
  BY <1>1, <1>2, <1>3, <1>4 DEF WriteMore, Packing

\* Packing keeps the invariant: the packet comes from the pool, so no message on
\* the wire and no pending receive uses it.
LEMMA PackingKeeps ==
  ASSUME ExchangeInv, NEW p \in Rank, NEW q \in Rank, Packing(p, q)
  PROVE  ExchangeInv'
PROOF
<1>. DEFINE k == Popped(p)
            n == Len(sendBuf[p][q].list) + 1
<1>0. TypeOK /\ ControlInv /\ BarrierInv /\ BufferInv /\ TidyInv /\ IdleInv /\ SendInv /\ WireInv /\ ReadInv
  BY DEF ExchangeInv
<1>1. /\ \A y \in Rank :
           /\ ~OnTheWay(p, y) /\ ~OnTheWay(p, y)' /\ ~HasSent(p, y) /\ ~HasSent(p, y)'
           /\ ~Waiting(p, y) /\ ~Waiting(p, y)' /\ ~Got(p, y) /\ ~Got(p, y)'
           /\ ~Tested(p, y) /\ ~Tested(p, y)'
      /\ \A x \in Rank : Served(x, p)' <=> Served(x, p)
      /\ ~Left(p) /\ ~Left(p)'
  BY DEF Packing, Left, OnTheWay, HasSent, Waiting, Got, Tested, Served
<1>2. /\ \A z \in Rank : z # p => pc'[z] = pc[z]
      /\ todo' = todo /\ round' = round /\ entered' = entered
      /\ recvBuf' = recvBuf /\ chan' = chan /\ inbox' = inbox
      /\ pc' \in [Rank -> {"pack", "write", "init", "unpack", "barrier", "finish", "release", "done"}]
  BY <1>0 DEF Packing, TypeOK
<1>3. \A z \in Rank : z # p =>
        /\ Left(z)' <=> Left(z)
        /\ \A y \in Rank :
             /\ Filled(z, y)' <=> Filled(z, y)
             /\ OnTheWay(z, y)' <=> OnTheWay(z, y)
             /\ HasSent(z, y)' <=> HasSent(z, y)
             /\ Waiting(z, y)' <=> Waiting(z, y)
             /\ Got(z, y)' <=> Got(z, y)
             /\ Tested(z, y)' <=> Tested(z, y)
  BY <1>2, SameStage
<1>4. \A x, z \in Rank : Served(x, z)' <=> Served(x, z)
  BY <1>1, <1>2, SameServed
<1>5. sendBuf[p][q].list \in Seq(Nat \ {0}) /\ n \in 1..MaxPackets /\ Len(sendBuf[p][q].list) \in Nat
  <2>1. sendBuf[p][q].list \in Seq(Nat \ {0})
    BY <1>0, Types
  <2>2. Len(sendBuf[p][q].list) \in Nat
    BY <2>1
  <2>. QED
    BY <2>1, <2>2, BoundAssumption DEF Packing
<1>6. round[p] # MaxRound + 1
  BY <1>0 DEF Packing, ControlInv
<1>k. k \in Nat /\ k \in Nat \ {0}
  <2>1. k \in 1..(Len(packet[p]) + 1) /\ packet[p] \in Seq(Packets)
    BY <1>0, PoppedApart, Types
  <2>. QED
    BY <2>1
<1>7. /\ packet' \in [Rank -> Seq(Packets)] /\ free' \in [Rank -> Seq(Nat \ {0})]
      /\ sendBuf' \in [Rank -> [Rank -> [list : Seq(Nat \ {0}), completed : BOOLEAN]]]
      /\ \A z \in Rank : z # p => packet'[z] = packet[z] /\ free'[z] = free[z]
      /\ \A x, y \in Rank : x # p \/ y # q => sendBuf'[x][y] = sendBuf[x][y]
      /\ sendBuf'[p][q].list = Append(sendBuf[p][q].list, k)
      /\ free'[p] = PoolAfterPop(free[p])
      /\ Len(packet'[p]) = IF k > Len(packet[p]) THEN Len(packet[p]) + 1 ELSE Len(packet[p])
      /\ \A j \in 1..Len(packet[p]) : j # k => packet'[p][j] = packet[p][j]
      /\ packet'[p][k].number = n /\ ~packet'[p][k].eof
      /\ packet'[p][k].buff.body = <<p, q, round[p], n>>
  <2>1. AppendPacket(p, q, free[p], sendBuf[p][q].list, n)
    BY DEF Packing
  <2>. HIDE DEF n
  <2>. QED
    BY <1>0, <1>5, <1>6, <1>k, <2>1, AppendPacketFacts
<1>. HIDE DEF k
\* Packets on other shelves stay as they are.
<1>8. ASSUME NEW y \in Rank
      PROVE  /\ \A i \in DOMAIN sendBuf[p][y].list : packet'[p][sendBuf[p][y].list[i]] = packet[p][sendBuf[p][y].list[i]]
             /\ \A i \in DOMAIN recvBuf[p][y].list : packet'[p][recvBuf[p][y].list[i]] = packet[p][recvBuf[p][y].list[i]]
  <2>1. /\ \A i \in DOMAIN sendBuf[p][y].list : sendBuf[p][y].list[i] # k
        /\ \A i \in DOMAIN recvBuf[p][y].list : recvBuf[p][y].list[i] # k
    BY <1>0, PoppedApart DEF k
  <2>2. /\ \A i \in DOMAIN sendBuf[p][y].list : sendBuf[p][y].list[i] \in 1..Len(packet[p])
        /\ \A i \in DOMAIN recvBuf[p][y].list : recvBuf[p][y].list[i] \in 1..Len(packet[p])
    BY <1>0, Places
  <2>. QED
    BY <1>7, <2>1, <2>2
<1>9. /\ DOMAIN sendBuf'[p][q].list = 1..n /\ sendBuf'[p][q].list[n] = k
      /\ \A i \in 1..n : i # n => i \in DOMAIN sendBuf[p][q].list /\ sendBuf'[p][q].list[i] = sendBuf[p][q].list[i]
      /\ Len(sendBuf'[p][q].list) = n
  <2>. DEFINE s == sendBuf[p][q].list
              l == Len(s)
  <2>1. s \in Seq(Nat \ {0}) /\ l \in Nat
    BY <1>5
  <2>. HIDE DEF s
  <2>2. /\ DOMAIN Append(s, k) = 1..(l + 1) /\ Append(s, k)[l + 1] = k
        /\ \A i \in 1..(l + 1) : i # l + 1 => i \in DOMAIN s /\ Append(s, k)[i] = s[i]
        /\ Len(Append(s, k)) = l + 1
    BY <1>k, <2>1
  <2>3. sendBuf'[p][q].list = Append(s, k) /\ n = l + 1
    BY <1>7 DEF s
  <2>. QED
    BY <2>2, <2>3 DEF s
<1>. HIDE DEF n
<1>10. TypeOK'
  BY <1>0, <1>2, <1>7 DEF TypeOK
<1>11. ControlInv'
  <2>. SUFFICES ASSUME NEW z \in Rank
                PROVE  /\ entered'[z] = IF pc'[z] \in {"barrier", "finish", "release"} THEN round'[z] ELSE round'[z] - 1
                       /\ pc'[z] = "done" <=> round'[z] = MaxRound + 1
                       /\ pc'[z] = "barrier" => todo'[z] = {}
    BY DEF ControlInv
  <2>. QED
    BY <1>0, <1>2 DEF ControlInv, Packing
<1>12. BarrierInv'
  BY <1>0, <1>1, <1>2, <1>3 DEF BarrierInv, Passed
<1>13. BufferInv'
  <2>. SUFFICES ASSUME NEW x \in Rank, NEW y \in Rank
                PROVE  BuffersRight(x, y)'
    BY DEF BufferInv
  <2>0. BuffersRight(x, y)
    BY <1>0 DEF BufferInv
  <2>1. CASE x # p \/ y # q
    <3>1. /\ Filled(x, y)' <=> Filled(x, y)
          /\ Waiting(x, y)' <=> Waiting(x, y)
          /\ Got(x, y)' <=> Got(x, y)
      BY <1>1, <1>3, <2>1 DEF Packing
    <3>. QED
      BY <1>2, <1>7, <2>0, <2>1, <3>1, BuffersKept
  <2>2. CASE x = p /\ y = q
    <3>1. sendBuf'[p][q].list # <<>>
      BY <1>5, <1>9
    <3>2. Len(sendBuf'[p][q].list) <= MaxPackets
      BY <1>5, <1>9
    <3>. QED
      BY <1>1, <1>2, <2>0, <2>2, <3>1, <3>2 DEF BuffersRight, Packing, EmptyRecvBuf
  <2>. QED
    BY <2>1, <2>2
<1>14. TidyInv'
  <2>. SUFFICES ASSUME NEW z \in Rank
                PROVE  Tidy(Shelves(z), Len(packet[z]))'
    BY DEF TidyInv
  <2>1. CASE z = p
    <3>1. \A y \in Rank : /\ y # q => sendBuf'[p][y].list = sendBuf[p][y].list
                          /\ recvBuf'[p][y] = recvBuf[p][y]
      BY <1>2, <1>7
    <3>. QED
      BY <1>0, <1>7, <2>1, <3>1, TidySend DEF k
  <2>2. CASE z # p
    <3>1. /\ free'[z] = free[z] /\ Len(packet'[z]) = Len(packet[z])
          /\ \A y \in Rank : sendBuf'[z][y].list = sendBuf[z][y].list /\ recvBuf'[z][y] = recvBuf[z][y]
      BY <1>2, <1>7, <2>2
    <3>. QED
      BY <1>0, <3>1, TidySame
  <2>. QED
    BY <2>1, <2>2
<1>15. IdleInv'
  <2>. SUFFICES ASSUME NEW z \in Rank
                PROVE  PoolIdle(z)' /\ \A y \in Rank : BuffersIdle(z, y)'
    BY DEF IdleInv
  <2>0. PoolIdle(z) /\ \A y \in Rank : BuffersIdle(z, y)
    BY <1>0 DEF IdleInv
  <2>1. CASE z # p
    <3>1. PoolIdle(z)'
      BY <1>7, <2>0, <2>1 DEF PoolIdle
    <3>2. ASSUME NEW y \in Rank
          PROVE  BuffersIdle(z, y)'
      <4>1. sendBuf'[z][y] = sendBuf[z][y] /\ recvBuf'[z][y] = recvBuf[z][y] /\ packet'[z] = packet[z]
        BY <1>2, <1>7, <2>1
      <4>2. (Waiting(z, y)' <=> Waiting(z, y)) /\ (Tested(z, y)' <=> Tested(z, y))
        BY <1>3, <2>1
      <4>3. BuffersIdle(z, y)
        BY <2>0
      <4>. QED
        BY <4>1, <4>2, <4>3, IdleKept
    <3>. QED
      BY <3>1, <3>2
  <2>2. CASE z = p
    <3>1. PoolIdle(p)'
      <4>. DEFINE rest == PoolAfterPop(free[p])
      <4>a. \A i \in DOMAIN rest : /\ rest[i] \in 1..Len(packet[p]) /\ rest[i] # k
                                   /\ \E j \in DOMAIN free[p] : rest[i] = free[p][j]
        BY <1>0, PoppedApart DEF k
      <4>b. free'[p] = rest
        BY <1>7
      <4>. HIDE DEF rest
      <4>1. \A i \in DOMAIN free'[p] : /\ free'[p][i] \in 1..Len(packet[p]) /\ free'[p][i] # k
                                       /\ \E j \in DOMAIN free[p] : free'[p][i] = free[p][j]
        BY <4>a, <4>b
      <4>2. \A i \in DOMAIN free'[p] : packet'[p][free'[p][i]] = packet[p][free'[p][i]]
        BY <1>7, <4>1
      <4>. QED
        BY <2>0, <2>2, <4>1, <4>2 DEF PoolIdle
    <3>2. \A y \in Rank : BuffersIdle(p, y)'
      BY <1>1, <1>2, <1>8, <2>0, <2>2 DEF BuffersIdle
    <3>. QED
      BY <2>2, <3>1, <3>2
  <2>. QED
    BY <2>1, <2>2
<1>16. SendInv'
  <2>. SUFFICES ASSUME NEW x \in Rank, NEW y \in Rank
                PROVE  Packed(x, y)'
    BY DEF SendInv
  <2>0. Packed(x, y)
    BY <1>0 DEF SendInv
  <2>1. CASE x # p
    BY <1>2, <1>3, <1>7, <2>0, <2>1, PackedKept
  <2>2. CASE x = p /\ y # q
    BY <1>1, <1>2, <1>7, <1>8, <2>0, <2>2, PackedKept
  <2>3. CASE x = p /\ y = q
    <3>1. \A i \in DOMAIN sendBuf[p][q].list :
            /\ packet[p][sendBuf[p][q].list[i]].buff.body = <<p, q, round[p], i>>
            /\ packet[p][sendBuf[p][q].list[i]].number = i /\ ~packet[p][sendBuf[p][q].list[i]].eof
      BY <1>1, <2>0, <2>3 DEF Packed
    <3>2. \A i \in 1..n :
            /\ packet'[p][sendBuf'[p][q].list[i]].buff.body = <<p, q, round[p], i>>
            /\ packet'[p][sendBuf'[p][q].list[i]].number = i /\ ~packet'[p][sendBuf'[p][q].list[i]].eof
      <4>. TAKE i \in 1..n
      <4>1. CASE i = n
        BY <1>7, <1>9, <4>1
      <4>2. CASE i # n
        <5>1. i \in DOMAIN sendBuf[p][q].list /\ sendBuf'[p][q].list[i] = sendBuf[p][q].list[i]
          BY <1>9, <4>2
        <5>2. packet'[p][sendBuf[p][q].list[i]] = packet[p][sendBuf[p][q].list[i]]
          BY <1>8, <5>1
        <5>. QED
          BY <3>1, <5>1, <5>2
      <4>. QED
        BY <4>1, <4>2
    <3>. QED
      BY <1>2, <1>9, <2>3, <3>2 DEF Packed
  <2>. QED
    BY <2>1, <2>2, <2>3
<1>17. WireInv'
  <2>. SUFFICES ASSUME NEW x \in Rank, NEW y \in Rank
                PROVE  OnWire(x, y)'
    BY DEF WireInv
  <2>0. OnWire(x, y)
    BY <1>0 DEF WireInv
  <2>1. CASE x = p
    BY <1>1, <1>2, <2>0, <2>1, QuietKept
  <2>2. CASE x # p
    <3>1. Delivered(x, y)' = Delivered(x, y)
      <4>1. Waiting(y, x)' <=> Waiting(y, x)
        BY <1>1, <1>3
      <4>2. Waiting(y, x) => y # p
        BY <1>1
      <4>. QED
        BY <1>2, <1>7, <4>1, <4>2, DeliveredKept
    <3>. QED
      BY <1>0, <1>2, <1>3, <1>4, <1>7, <2>0, <2>2, <3>1, OnWireKept
  <2>. QED
    BY <2>1, <2>2
<1>18. ReadInv'
  <2>. SUFFICES ASSUME NEW x \in Rank, NEW y \in Rank
                PROVE  Reads(x, y)'
    BY DEF ReadInv
  <2>0. Reads(x, y)
    BY <1>0 DEF ReadInv
  <2>1. /\ OnTheWay(x, y)' <=> OnTheWay(x, y)
        /\ HasSent(x, y) => HasSent(x, y)'
        /\ Waiting(y, x)' <=> Waiting(y, x)
        /\ Got(y, x)' <=> Got(y, x)
    BY <1>1, <1>3
  <2>2. Filled(x, y)' /\ HasSent(x, y) => Filled(x, y) /\ sendBuf'[x][y].list = sendBuf[x][y].list
    BY <1>1, <1>3, <1>7
  <2>3. /\ \A i \in DOMAIN recvBuf[y][x].list :
             packet'[y][recvBuf[y][x].list[i]].buff = packet[y][recvBuf[y][x].list[i]].buff
        /\ Waiting(y, x) => packet'[y][recvBuf[y][x].active] = packet[y][recvBuf[y][x].active]
    <3>1. CASE y = p
      BY <1>1, <1>8, <3>1
    <3>2. CASE y # p
      BY <1>7, <3>2
    <3>. QED
      BY <3>1, <3>2
  <2>. QED
    BY <1>2, <2>0, <2>1, <2>2, <2>3, ReadsKept
<1>. QED
  BY <1>10, <1>11, <1>12, <1>13, <1>14, <1>15, <1>16, <1>17, <1>18 DEF ExchangeInv

-------------------------------------------------------------------------------
(* Calls that return, and the barrier *)

\* The other processes are where they were.
LEMMA OthersStage ==
  ASSUME NEW p \in Rank, \A z \in Rank : z # p => pc'[z] = pc[z] /\ todo'[z] = todo[z]
  PROVE  \A z \in Rank : z # p =>
           /\ Left(z)' <=> Left(z)
           /\ \A y \in Rank :
                /\ Filled(z, y)' <=> Filled(z, y)
                /\ OnTheWay(z, y)' <=> OnTheWay(z, y)
                /\ HasSent(z, y)' <=> HasSent(z, y)
                /\ Waiting(z, y)' <=> Waiting(z, y)
                /\ Got(z, y)' <=> Got(z, y)
                /\ Tested(z, y)' <=> Tested(z, y)
BY SameStage

\* What only moves the control of a process leaves its buffers right.
LEMMA CallKeepsMemory ==
  ASSUME ExchangeInv, UNCHANGED <<round, memory, chan, inbox>>,
         \A p, q \in Rank : /\ Filled(p, q)' <=> Filled(p, q)
                            /\ HasSent(p, q)' <=> HasSent(p, q)
                            /\ Waiting(p, q)' <=> Waiting(p, q)
                            /\ Got(p, q)' <=> Got(p, q)
                            /\ Tested(p, q)' <=> Tested(p, q)
  PROVE  BufferInv' /\ TidyInv' /\ IdleInv' /\ SendInv'
PROOF
<1>0. TypeOK /\ BufferInv /\ TidyInv /\ IdleInv /\ SendInv
  BY DEF ExchangeInv
<1>1. /\ packet' = packet /\ free' = free /\ sendBuf' = sendBuf /\ recvBuf' = recvBuf
      /\ chan' = chan /\ inbox' = inbox /\ round' = round
  BY DEF memory
<1>2. BufferInv'
  <2>. SUFFICES ASSUME NEW x \in Rank, NEW y \in Rank
                PROVE  BuffersRight(x, y)'
    BY DEF BufferInv
  <2>1. BuffersRight(x, y)
    BY <1>0 DEF BufferInv
  <2>. QED
    BY <1>1, <2>1, BuffersKept
<1>3. TidyInv'
  BY <1>0, <1>1, TidySame DEF TidyInv
<1>4. IdleInv'
  <2>. SUFFICES ASSUME NEW z \in Rank
                PROVE  PoolIdle(z)' /\ \A y \in Rank : BuffersIdle(z, y)'
    BY DEF IdleInv
  <2>1. PoolIdle(z) /\ \A y \in Rank : BuffersIdle(z, y)
    BY <1>0 DEF IdleInv
  <2>2. PoolIdle(z)'
    BY <1>1, <2>1 DEF PoolIdle
  <2>3. ASSUME NEW y \in Rank
        PROVE  BuffersIdle(z, y)'
    BY <1>1, <2>1, IdleKept
  <2>. QED
    BY <2>2, <2>3
<1>5. SendInv'
  <2>. SUFFICES ASSUME NEW x \in Rank, NEW y \in Rank
                PROVE  Packed(x, y)'
    BY DEF SendInv
  <2>1. Packed(x, y)
    BY <1>0 DEF SendInv
  <2>. QED
    BY <1>1, <2>1, PackedKept
<1>. QED
  BY <1>2, <1>3, <1>4, <1>5

\* And if it neither sends nor comes past the barrier, the messages too.
LEMMA CallKeepsMessages ==
  ASSUME ExchangeInv, UNCHANGED <<round, memory, chan, inbox>>,
         \A p, q \in Rank : /\ Filled(p, q)' <=> Filled(p, q)
                            /\ OnTheWay(p, q)' <=> OnTheWay(p, q)
                            /\ HasSent(p, q)' <=> HasSent(p, q)
                            /\ Waiting(p, q)' <=> Waiting(p, q)
                            /\ Got(p, q)' <=> Got(p, q)
                            /\ Served(p, q)' <=> Served(p, q)
  PROVE  WireInv' /\ ReadInv'
PROOF
<1>0. TypeOK /\ WireInv /\ ReadInv
  BY DEF ExchangeInv
<1>1. /\ packet' = packet /\ free' = free /\ sendBuf' = sendBuf /\ recvBuf' = recvBuf
      /\ chan' = chan /\ inbox' = inbox /\ round' = round
  BY DEF memory
<1>2. WireInv'
  <2>. SUFFICES ASSUME NEW x \in Rank, NEW y \in Rank
                PROVE  OnWire(x, y)'
    BY DEF WireInv
  <2>1. OnWire(x, y)
    BY <1>0 DEF WireInv
  <2>2. Delivered(x, y)' = Delivered(x, y)
    BY <1>1, DeliveredKept
  <2>. QED
    BY <1>0, <1>1, <2>1, <2>2, OnWireKept
<1>3. ReadInv'
  <2>. SUFFICES ASSUME NEW x \in Rank, NEW y \in Rank
                PROVE  Reads(x, y)'
    BY DEF ReadInv
  <2>1. Reads(x, y)
    BY <1>0 DEF ReadInv
  <2>. QED
    BY <1>1, <2>1, ReadsKept
<1>. QED
  BY <1>2, <1>3

\* The return of the pack function keeps the invariant.
LEMMA PackReturnKeeps ==
  ASSUME ExchangeInv, NEW p \in Rank, NEW q \in Rank, PackReturn(p, q)
  PROVE  ExchangeInv'
PROOF
<1>0. TypeOK /\ ControlInv /\ BarrierInv
  BY DEF ExchangeInv
<1>1. /\ \A y \in Rank :
           /\ ~OnTheWay(p, y) /\ ~OnTheWay(p, y)' /\ ~HasSent(p, y) /\ ~HasSent(p, y)'
           /\ ~Waiting(p, y) /\ ~Waiting(p, y)' /\ ~Got(p, y) /\ ~Got(p, y)'
           /\ ~Tested(p, y) /\ ~Tested(p, y)'
           /\ Filled(p, y)' <=> Filled(p, y)
      /\ \A x \in Rank : Served(x, p)' <=> Served(x, p)
      /\ ~Left(p) /\ ~Left(p)'
  BY <1>0, PackReturnStage
<1>2. /\ todo[p] = {q} => pc'[p] = "init" /\ todo'[p] = Rank
      /\ todo[p] # {q} => pc'[p] = "pack" /\ todo'[p] = todo[p] \ {q}
      /\ \A z \in Rank : z # p => pc'[z] = pc[z] /\ todo'[z] = todo[z]
  BY <1>0, NextPeerFacts DEF PackReturn
<1>3. pc[p] = "write" /\ round' = round /\ entered' = entered /\ UNCHANGED <<round, memory, chan, inbox>>
  BY DEF PackReturn
<1>4. \A z \in Rank : z # p =>
        /\ Left(z)' <=> Left(z)
        /\ \A y \in Rank :
             /\ Filled(z, y)' <=> Filled(z, y)
             /\ OnTheWay(z, y)' <=> OnTheWay(z, y)
             /\ HasSent(z, y)' <=> HasSent(z, y)
             /\ Waiting(z, y)' <=> Waiting(z, y)
             /\ Got(z, y)' <=> Got(z, y)
             /\ Tested(z, y)' <=> Tested(z, y)
  BY <1>2, OthersStage
<1>5. \A x, z \in Rank : Served(x, z)' <=> Served(x, z)
  BY <1>1, <1>2, <1>3, SameServed
<1>6. TypeOK'
  BY <1>0 DEF PackReturn, NextPeer, TypeOK, memory
<1>7. ControlInv'
  BY <1>0, <1>2, <1>3 DEF ControlInv
<1>8. BarrierInv'
  BY <1>0, <1>1, <1>3, <1>4 DEF BarrierInv, Passed
<1>9. BufferInv' /\ TidyInv' /\ IdleInv' /\ SendInv'
  BY <1>1, <1>3, <1>4, CallKeepsMemory
<1>10. WireInv' /\ ReadInv'
  BY <1>1, <1>3, <1>4, <1>5, CallKeepsMessages
<1>. QED
  BY <1>6, <1>7, <1>8, <1>9, <1>10 DEF ExchangeInv

\* Nobody can enter more barriers than it has begun rounds.
LEMMA EnteredBound ==
  ASSUME TypeOK, ControlInv, NEW p \in Rank
  PROVE  /\ entered[p] <= round[p]
         /\ pc[p] # "done" => round[p] \in 1..MaxRound
         /\ entered[p] = round[p] => pc[p] \in {"barrier", "finish", "release"}
         /\ entered[p] \in {round[p], round[p] - 1}
BY Types, BoundAssumption DEF ControlInv

\* MPI_Barrier is called with every message received: the invariant holds on.
LEMMA EnterBarrierKeeps ==
  ASSUME ExchangeInv, NEW p \in Rank, EnterBarrier(p)
  PROVE  ExchangeInv'
PROOF
<1>0. TypeOK /\ ControlInv /\ BarrierInv
  BY DEF ExchangeInv
<1>1. /\ \A y \in Rank :
           /\ Filled(p, y) /\ Filled(p, y)' /\ OnTheWay(p, y) /\ OnTheWay(p, y)'
           /\ HasSent(p, y) /\ HasSent(p, y)' /\ ~Waiting(p, y) /\ ~Waiting(p, y)'
           /\ Got(p, y) /\ Got(p, y)' /\ ~Tested(p, y) /\ ~Tested(p, y)'
      /\ \A x \in Rank : Served(x, p)' <=> Served(x, p)
      /\ ~Left(p) /\ ~Left(p)'
  BY <1>0, EnterBarrierStage
<1>2. /\ pc[p] = "unpack" /\ pc'[p] = "barrier" /\ todo[p] = {} /\ todo' = todo /\ round' = round
      /\ UNCHANGED <<round, memory, chan, inbox>>
      /\ \A z \in Rank : z # p => pc'[z] = pc[z] /\ todo'[z] = todo[z] /\ entered'[z] = entered[z]
      /\ entered'[p] = entered[p] + 1
  BY <1>0 DEF EnterBarrier, TypeOK
<1>3. \A z \in Rank : z # p =>
        /\ Left(z)' <=> Left(z)
        /\ \A y \in Rank :
             /\ Filled(z, y)' <=> Filled(z, y)
             /\ OnTheWay(z, y)' <=> OnTheWay(z, y)
             /\ HasSent(z, y)' <=> HasSent(z, y)
             /\ Waiting(z, y)' <=> Waiting(z, y)
             /\ Got(z, y)' <=> Got(z, y)
             /\ Tested(z, y)' <=> Tested(z, y)
  BY <1>2, OthersStage
<1>4. \A x, z \in Rank : Served(x, z)' <=> Served(x, z)
  BY <1>1, <1>2, SameServed
<1>5. round[p] \in 1..MaxRound /\ entered[p] = round[p] - 1 /\ round[p] \in Nat
  BY <1>0, <1>2, EnteredBound, Types DEF ControlInv
<1>6. TypeOK'
  <2>1. entered[p] + 1 \in 0..MaxRound
    BY <1>5, BoundAssumption
  <2>. QED
    BY <1>0, <2>1 DEF EnterBarrier, TypeOK, memory
<1>7. ControlInv'
  BY <1>0, <1>2, <1>5 DEF ControlInv
<1>8. BarrierInv'
  <2>. SUFFICES ASSUME NEW x \in Rank, NEW y \in Rank
                PROVE  Passed(x)' <= entered'[y]
    BY DEF BarrierInv
  <2>1. Passed(x)' = Passed(x)
    BY <1>1, <1>2, <1>3 DEF Passed
  <2>2. Passed(x) <= entered[y] /\ round[x] \in Nat /\ entered[y] \in Nat
    BY <1>0, Types DEF BarrierInv
  <2>3. Passed(x) \in Int
    BY <2>2 DEF Passed
  <2>. QED
    BY <1>2, <2>1, <2>2, <2>3
<1>9. BufferInv' /\ TidyInv' /\ IdleInv' /\ SendInv'
  BY <1>1, <1>2, <1>3, CallKeepsMemory
<1>10. WireInv' /\ ReadInv'
  BY <1>1, <1>2, <1>3, <1>4, CallKeepsMessages
<1>. QED
  BY <1>6, <1>7, <1>8, <1>9, <1>10 DEF ExchangeInv

\* Once every process has entered the barrier, nobody lacks anything of the round.
LEMMA AllServed ==
  ASSUME TypeOK, ControlInv, NEW p \in Rank, NEW q \in Rank, pc[p] = "barrier", entered[q] >= entered[p]
  PROVE  Served(p, q)
PROOF
<1>1. /\ entered[p] = round[p] /\ entered[q] = IF pc[q] \in {"barrier", "finish", "release"} THEN round[q] ELSE round[q] - 1
      /\ round[p] \in Nat /\ round[q] \in Nat
  BY Types DEF ControlInv
<1>. QED
  BY <1>1 DEF Served

\* MPI_Barrier returns when everybody has called it, so what p sent has been
\* received by all: the invariant holds on.
LEMMA LeaveBarrierKeeps ==
  ASSUME ExchangeInv, NEW p \in Rank, LeaveBarrier(p)
  PROVE  ExchangeInv'
PROOF
<1>0. TypeOK /\ ControlInv /\ BarrierInv /\ WireInv /\ ReadInv
  BY DEF ExchangeInv
<1>1. /\ \A y \in Rank :
           /\ Filled(p, y) /\ Filled(p, y)' /\ OnTheWay(p, y) /\ ~OnTheWay(p, y)'
           /\ HasSent(p, y) /\ HasSent(p, y)' /\ ~Waiting(p, y) /\ ~Waiting(p, y)'
           /\ Got(p, y) /\ Got(p, y)' /\ ~Tested(p, y) /\ ~Tested(p, y)'
      /\ \A x \in Rank : Served(x, p)' <=> Served(x, p)
      /\ ~Left(p) /\ Left(p)'
  BY <1>0, LeaveBarrierStage
<1>2. /\ pc[p] = "barrier" /\ pc'[p] = "finish" /\ todo'[p] = Rank /\ round' = round /\ entered' = entered
      /\ \A z \in Rank : z # p => pc'[z] = pc[z] /\ todo'[z] = todo[z]
      /\ UNCHANGED <<round, memory, chan, inbox>>
      /\ \A q \in Rank : entered[q] >= entered[p]
  BY <1>0 DEF LeaveBarrier, TypeOK, AllEntered
<1>m. /\ packet' = packet /\ free' = free /\ sendBuf' = sendBuf /\ recvBuf' = recvBuf
      /\ chan' = chan /\ inbox' = inbox
  BY <1>2 DEF memory
<1>3. \A z \in Rank : z # p =>
        /\ Left(z)' <=> Left(z)
        /\ \A y \in Rank :
             /\ Filled(z, y)' <=> Filled(z, y)
             /\ OnTheWay(z, y)' <=> OnTheWay(z, y)
             /\ HasSent(z, y)' <=> HasSent(z, y)
             /\ Waiting(z, y)' <=> Waiting(z, y)
             /\ Got(z, y)' <=> Got(z, y)
             /\ Tested(z, y)' <=> Tested(z, y)
  BY <1>2, OthersStage
<1>4. \A x, z \in Rank : Served(x, z)' <=> Served(x, z)
  BY <1>1, <1>2, SameServed
<1>5. \A y \in Rank : Served(p, y)
  BY <1>0, <1>2, AllServed
<1>6. TypeOK'
  BY <1>0 DEF LeaveBarrier, TypeOK, memory
<1>7. ControlInv'
  BY <1>0, <1>2 DEF ControlInv
<1>8. BarrierInv'
  <2>. SUFFICES ASSUME NEW x \in Rank, NEW y \in Rank
                PROVE  Passed(x)' <= entered'[y]
    BY DEF BarrierInv
  <2>1. CASE x # p
    <3>1. Passed(x)' = Passed(x)
      BY <1>2, <1>3, <2>1 DEF Passed
    <3>. QED
      BY <1>0, <1>2, <3>1 DEF BarrierInv
  <2>2. CASE x = p
    <3>1. Passed(p)' = round[p] /\ entered[p] = round[p]
      BY <1>0, <1>1, <1>2 DEF Passed, ControlInv
    <3>2. round[p] \in Nat /\ entered[y] \in Nat
      BY <1>0, Types
    <3>. QED
      BY <1>2, <2>2, <3>1, <3>2
  <2>. QED
    BY <2>1, <2>2
<1>9. BufferInv' /\ TidyInv' /\ IdleInv' /\ SendInv'
  BY <1>1, <1>2, <1>3, CallKeepsMemory
<1>10. WireInv'
  <2>. SUFFICES ASSUME NEW x \in Rank, NEW y \in Rank
                PROVE  OnWire(x, y)'
    BY DEF WireInv
  <2>0. OnWire(x, y)
    BY <1>0 DEF WireInv
  <2>1. CASE x = p
    BY <1>1, <1>5, <1>m, <2>0, <2>1 DEF OnWire
  <2>2. CASE x # p
    <3>1. Delivered(x, y)' = Delivered(x, y)
      BY <1>1, <1>2, <1>3, <1>m, DeliveredKept
    <3>. QED
      BY <1>0, <1>2, <1>3, <1>4, <1>m, <2>0, <2>2, <3>1, OnWireKept
  <2>. QED
    BY <2>1, <2>2
<1>11. ReadInv'
  <2>. SUFFICES ASSUME NEW x \in Rank, NEW y \in Rank
                PROVE  Reads(x, y)'
    BY DEF ReadInv
  <2>0. Reads(x, y)
    BY <1>0 DEF ReadInv
  <2>1. CASE x # p
    BY <1>1, <1>2, <1>3, <1>m, <2>0, <2>1, ReadsKept
  <2>2. CASE x = p
    <3>1. Waiting(y, p) => ~(round[p] = round[y])
      <4>1. Served(p, y) /\ round[p] \in Nat /\ round[y] \in Nat
        BY <1>0, <1>5, Types
      <4>. QED
        BY <4>1 DEF Served, Waiting
    <3>2. Waiting(y, p)' <=> Waiting(y, p)
      BY <1>1, <1>3
    <3>3. Got(y, p)' <=> Got(y, p)
      BY <1>1, <1>3
    <3>. QED
      BY <1>1, <1>2, <1>m, <2>0, <2>2, <3>1, <3>2, <3>3 DEF Reads
  <2>. QED
    BY <2>1, <2>2
<1>. QED
  BY <1>6, <1>7, <1>8, <1>9, <1>10, <1>11 DEF ExchangeInv

-------------------------------------------------------------------------------
(* The end of an exchange *)

\* waitCompletion frees the requests of the sends of one message and keeps the
\* invariant.
LEMMA FinishExchangeKeeps ==
  ASSUME ExchangeInv, NEW p \in Rank, NEW q \in Rank, FinishExchange(p, q)
  PROVE  ExchangeInv'
PROOF
<1>. DEFINE list == sendBuf[p][q].list
<1>0. TypeOK /\ ControlInv /\ BarrierInv /\ BufferInv /\ TidyInv /\ IdleInv /\ SendInv /\ WireInv /\ ReadInv
  BY DEF ExchangeInv
<1>1. /\ ~Tested(p, q) /\ Tested(p, q)'
      /\ \A y \in Rank :
           /\ Filled(p, y) /\ Filled(p, y)' /\ ~OnTheWay(p, y) /\ ~OnTheWay(p, y)'
           /\ HasSent(p, y) /\ HasSent(p, y)' /\ ~Waiting(p, y) /\ ~Waiting(p, y)'
           /\ Got(p, y) /\ Got(p, y)'
           /\ y # q => (Tested(p, y)' <=> Tested(p, y))
      /\ \A x \in Rank : Served(x, p)' <=> Served(x, p)
      /\ Left(p) /\ Left(p)'
  BY <1>0, FinishExchangeStage
<1>2. /\ todo[p] = {q} => pc'[p] = "release" /\ todo'[p] = Rank
      /\ todo[p] # {q} => pc'[p] = "finish" /\ todo'[p] = todo[p] \ {q}
      /\ \A z \in Rank : z # p => pc'[z] = pc[z] /\ todo'[z] = todo[z]
  BY <1>0, NextPeerFacts DEF FinishExchange
<1>3. /\ pc[p] = "finish" /\ round' = round /\ entered' = entered /\ free' = free
      /\ recvBuf' = recvBuf /\ chan' = chan /\ inbox' = inbox
  BY DEF FinishExchange
<1>4. \A z \in Rank : z # p =>
        /\ Left(z)' <=> Left(z)
        /\ \A y \in Rank :
             /\ Filled(z, y)' <=> Filled(z, y)
             /\ OnTheWay(z, y)' <=> OnTheWay(z, y)
             /\ HasSent(z, y)' <=> HasSent(z, y)
             /\ Waiting(z, y)' <=> Waiting(z, y)
             /\ Got(z, y)' <=> Got(z, y)
             /\ Tested(z, y)' <=> Tested(z, y)
  BY <1>2, OthersStage
<1>5. \A x, z \in Rank : Served(x, z)' <=> Served(x, z)
  BY <1>1, <1>2, <1>3, SameServed
<1>6. packet[p] \in Seq(Packets) /\ list \in Seq(Nat)
  BY <1>0, Types
<1>7. /\ packet' \in [Rank -> Seq(Packets)] /\ packet'[p] = TestSends(packet[p], list)
      /\ TestSends(packet[p], list) \in Seq(Packets)
      /\ \A z \in Rank : z # p => packet'[z] = packet[z]
  <2>1. TestSends(packet[p], list) \in Seq(Packets)
    BY <1>6, TestSendsFacts
  <2>2. packet' = [packet EXCEPT ![p] = TestSends(packet[p], list)]
    BY <1>0 DEF FinishExchange, TypeOK
  <2>. QED
    BY <1>0, <2>1, <2>2, SetOne DEF TypeOK
<1>8. /\ Len(packet'[p]) = Len(packet[p])
      /\ \A j \in 1..Len(packet[p]) : (\A i \in DOMAIN list : list[i] # j) => packet'[p][j] = packet[p][j]
      /\ \A j \in 1..Len(packet[p]) : packet'[p][j].buff = packet[p][j].buff
      /\ \A i \in DOMAIN list : list[i] \in 1..Len(packet[p]) => packet'[p][list[i]].request = "null"
  <2>. DEFINE h == packet[p]
  <2>. HIDE DEF h
  <2>1. packet'[p] = TestSends(h, list) /\ h \in Seq(Packets) /\ list \in Seq(Nat)
    BY <1>6, <1>7 DEF h
  <2>. HIDE DEF list
  <2>. QED
    BY <2>1, TestSendsFacts DEF h
<1>9. /\ sendBuf' \in [Rank -> [Rank -> [list : Seq(Nat \ {0}), completed : BOOLEAN]]]
      /\ \A x, y \in Rank : sendBuf'[x][y].list = sendBuf[x][y].list
  <2>. DEFINE s == [sendBuf[p][q] EXCEPT !.completed = TRUE]
  <2>1. sendBuf \in [Rank -> [Rank -> [list : Seq(Nat \ {0}), completed : BOOLEAN]]]
    BY <1>0 DEF TypeOK
  <2>a. sendBuf[p][q] \in [list : Seq(Nat \ {0}), completed : BOOLEAN]
    BY <1>0, Types
  <2>2. s \in [list : Seq(Nat \ {0}), completed : BOOLEAN] /\ s.list = sendBuf[p][q].list
    BY <2>a
  <2>3. sendBuf' = [sendBuf EXCEPT ![p][q] = s]
    BY <2>1 DEF FinishExchange
  <2>. HIDE DEF s
  <2>. QED
    BY <2>1, <2>2, <2>3, SetPair
<1>. HIDE DEF list
\* Only the packets of this message are touched, and none of their data.
<1>10. ASSUME NEW y \in Rank
       PROVE  /\ \A i \in DOMAIN free[p] : packet'[p][free[p][i]] = packet[p][free[p][i]]
              /\ \A i \in DOMAIN recvBuf[p][y].list : packet'[p][recvBuf[p][y].list[i]] = packet[p][recvBuf[p][y].list[i]]
              /\ \A i \in DOMAIN sendBuf[p][y].list : packet'[p][sendBuf[p][y].list[i]].buff = packet[p][sendBuf[p][y].list[i]].buff
              /\ y # q => \A i \in DOMAIN sendBuf[p][y].list : packet'[p][sendBuf[p][y].list[i]] = packet[p][sendBuf[p][y].list[i]]
  <2>1. /\ \A i \in DOMAIN free[p] : free[p][i] \in 1..Len(packet[p])
        /\ \A i \in DOMAIN sendBuf[p][y].list : sendBuf[p][y].list[i] \in 1..Len(packet[p])
        /\ \A i \in DOMAIN recvBuf[p][y].list : recvBuf[p][y].list[i] \in 1..Len(packet[p])
    BY <1>0, Places
  <2>2. /\ \A i \in DOMAIN free[p], j \in DOMAIN list : free[p][i] # list[j]
        /\ \A i \in DOMAIN recvBuf[p][y].list, j \in DOMAIN list : list[j] # recvBuf[p][y].list[i]
        /\ \A i \in DOMAIN sendBuf[p][y].list, j \in DOMAIN list : sendBuf[p][y].list[i] = list[j] => y = q
    BY <1>0, Apart DEF list
  <2>3. \A i \in DOMAIN free[p] : packet'[p][free[p][i]] = packet[p][free[p][i]]
    BY <1>8, <2>1, <2>2
  <2>4. \A i \in DOMAIN recvBuf[p][y].list : packet'[p][recvBuf[p][y].list[i]] = packet[p][recvBuf[p][y].list[i]]
    BY <1>8, <2>1, <2>2
  <2>5. \A i \in DOMAIN sendBuf[p][y].list : packet'[p][sendBuf[p][y].list[i]].buff = packet[p][sendBuf[p][y].list[i]].buff
    BY <1>8, <2>1
  <2>6. y # q => \A i \in DOMAIN sendBuf[p][y].list : packet'[p][sendBuf[p][y].list[i]] = packet[p][sendBuf[p][y].list[i]]
    BY <1>8, <2>1, <2>2
  <2>. QED
    BY <2>3, <2>4, <2>5, <2>6
<1>11. TypeOK'
  <2>1. /\ pc' \in [Rank -> {"pack", "write", "init", "unpack", "barrier", "finish", "release", "done"}]
        /\ todo' \in [Rank -> SUBSET Rank]
    BY <1>0 DEF FinishExchange, NextPeer, TypeOK
  <2>. QED
    BY <1>0, <1>3, <1>7, <1>9, <2>1 DEF TypeOK
<1>12. ControlInv'
  BY <1>0, <1>2, <1>3 DEF ControlInv
<1>13. BarrierInv'
  BY <1>0, <1>1, <1>3, <1>4 DEF BarrierInv, Passed
<1>14. BufferInv'
  <2>. SUFFICES ASSUME NEW x \in Rank, NEW y \in Rank
                PROVE  BuffersRight(x, y)'
    BY DEF BufferInv
  <2>0. BuffersRight(x, y)
    BY <1>0 DEF BufferInv
  <2>1. /\ Filled(x, y)' <=> Filled(x, y)
        /\ Waiting(x, y)' <=> Waiting(x, y)
        /\ Got(x, y)' <=> Got(x, y)
    BY <1>1, <1>4
  <2>. QED
    BY <1>3, <1>9, <2>0, <2>1, BuffersKept
<1>15. TidyInv'
  <2>. SUFFICES ASSUME NEW z \in Rank
                PROVE  Tidy(Shelves(z), Len(packet[z]))'
    BY DEF TidyInv
  <2>1. Len(packet'[z]) = Len(packet[z])
    BY <1>7, <1>8
  <2>. QED
    BY <1>0, <1>3, <1>9, <2>1, TidySame
<1>16. IdleInv'
  <2>. SUFFICES ASSUME NEW z \in Rank
                PROVE  PoolIdle(z)' /\ \A y \in Rank : BuffersIdle(z, y)'
    BY DEF IdleInv
  <2>0. PoolIdle(z) /\ \A y \in Rank : BuffersIdle(z, y)
    BY <1>0 DEF IdleInv
  <2>1. PoolIdle(z)'
    BY <1>3, <1>7, <1>10, <2>0 DEF PoolIdle
  <2>2. ASSUME NEW y \in Rank
        PROVE  BuffersIdle(z, y)'
    <3>0. BuffersIdle(z, y)
      BY <2>0
    <3>1. CASE z # p
      BY <1>3, <1>4, <1>7, <1>9, <3>0, <3>1, IdleKept
    <3>2. CASE z = p /\ y # q
      BY <1>1, <1>3, <1>9, <1>10, <3>0, <3>2, IdleKept
    <3>3. CASE z = p /\ y = q
      <4>1. \A i \in DOMAIN sendBuf'[p][q].list : packet'[p][sendBuf'[p][q].list[i]].request = "null"
        <5>1. \A i \in DOMAIN list : list[i] \in 1..Len(packet[p])
          BY <1>0, Places DEF list
        <5>. QED
          BY <1>8, <1>9, <5>1 DEF list
      <4>2. \A i \in DOMAIN recvBuf'[p][q].list : packet'[p][recvBuf'[p][q].list[i]].request = "null"
        BY <1>3, <1>10, <3>0, <3>3 DEF BuffersIdle
      <4>. QED
        BY <1>1, <3>3, <4>1, <4>2 DEF BuffersIdle
    <3>. QED
      BY <3>1, <3>2, <3>3
  <2>. QED
    BY <2>1, <2>2
<1>17. SendInv'
  <2>. SUFFICES ASSUME NEW x \in Rank, NEW y \in Rank
                PROVE  Packed(x, y)'
    BY DEF SendInv
  <2>0. Packed(x, y)
    BY <1>0 DEF SendInv
  <2>1. CASE x # p
    BY <1>3, <1>4, <1>7, <1>9, <2>0, <2>1, PackedKept
  <2>2. CASE x = p
    <3>1. /\ \A i \in DOMAIN sendBuf[p][y].list :
               packet'[p][sendBuf[p][y].list[i]].buff = packet[p][sendBuf[p][y].list[i]].buff
          /\ sendBuf'[p][y].list = sendBuf[p][y].list /\ HasSent(p, y)' /\ round'[p] = round[p]
      BY <1>1, <1>3, <1>9, <1>10
    <3>2. \A i \in DOMAIN sendBuf[p][y].list :
            LET k == sendBuf[p][y].list[i]
            IN /\ packet'[p][k].buff.body = packet[p][k].buff.body
               /\ HasSent(p, y)' \/ (packet'[p][k].number = packet[p][k].number /\ packet'[p][k].eof = packet[p][k].eof)
      BY <3>1
    <3>3. HasSent(p, y) => HasSent(p, y)'
      BY <3>1
    <3>4. Packed(p, y)
      BY <2>0, <2>2
    <3>5. Packed(p, y)'
      BY <3>1, <3>2, <3>3, <3>4, PackedKept
    <3>. QED
      BY <2>2, <3>5
  <2>. QED
    BY <2>1, <2>2
<1>18. WireInv'
  <2>. SUFFICES ASSUME NEW x \in Rank, NEW y \in Rank
                PROVE  OnWire(x, y)'
    BY DEF WireInv
  <2>0. OnWire(x, y)
    BY <1>0 DEF WireInv
  <2>1. CASE x = p
    BY <1>1, <1>3, <2>0, <2>1, QuietKept
  <2>2. CASE x # p
    <3>1. Delivered(x, y)' = Delivered(x, y)
      <4>1. (Waiting(y, x)' <=> Waiting(y, x)) /\ (Waiting(y, x) => y # p)
        BY <1>1, <1>4
      <4>. QED
        BY <1>3, <1>7, <4>1, DeliveredKept
    <3>. QED
      BY <1>0, <1>3, <1>4, <1>5, <1>7, <1>9, <2>0, <2>2, <3>1, OnWireKept
  <2>. QED
    BY <2>1, <2>2
<1>19. ReadInv'
  <2>. SUFFICES ASSUME NEW x \in Rank, NEW y \in Rank
                PROVE  Reads(x, y)'
    BY DEF ReadInv
  <2>0. Reads(x, y)
    BY <1>0 DEF ReadInv
  <2>1. /\ OnTheWay(x, y)' <=> OnTheWay(x, y)
        /\ HasSent(x, y) => HasSent(x, y)'
        /\ Waiting(y, x)' <=> Waiting(y, x)
        /\ Got(y, x)' <=> Got(y, x)
        /\ Filled(x, y)' => Filled(x, y)
    BY <1>1, <1>4
  <2>2. /\ \A i \in DOMAIN recvBuf[y][x].list :
             packet'[y][recvBuf[y][x].list[i]].buff = packet[y][recvBuf[y][x].list[i]].buff
        /\ Waiting(y, x) => packet'[y][recvBuf[y][x].active] = packet[y][recvBuf[y][x].active]
    <3>1. CASE y = p
      BY <1>1, <1>10, <3>1
    <3>2. CASE y # p
      BY <1>7, <3>2
    <3>. QED
      BY <3>1, <3>2
  <2>. QED
    BY <1>3, <1>9, <2>0, <2>1, <2>2, ReadsKept
<1>. QED
  BY <1>11, <1>12, <1>13, <1>14, <1>15, <1>16, <1>17, <1>18, <1>19 DEF ExchangeInv

\* What a concatenation holds.
LEMMA ConcatElements ==
  ASSUME NEW x \in Seq(Nat), NEW y \in Seq(Nat), NEW i \in DOMAIN (x \o y)
  PROVE  (\E j \in DOMAIN x : (x \o y)[i] = x[j]) \/ (\E j \in DOMAIN y : (x \o y)[i] = y[j])
PROOF
<1>1. PICK f \in Nat :
        /\ \A j \in DOMAIN x : j \in DOMAIN (x \o y) /\ j <= f /\ (x \o y)[j] = x[j]
        /\ \A j \in DOMAIN y : j \in Nat \ {0} /\ j + f \in DOMAIN (x \o y) /\ (x \o y)[j + f] = y[j]
        /\ \A j \in DOMAIN (x \o y) : j \in Nat /\ (j \in DOMAIN x \/ (j > f /\ j - f \in DOMAIN y))
  BY JoinsConcat DEF Joins
<1>2. CASE i \in DOMAIN x
  BY <1>1, <1>2
<1>3. CASE i \notin DOMAIN x
  <2>1. i \in Nat /\ i - f \in DOMAIN y /\ (i - f) + f = i
    BY <1>1, <1>3
  <2>. QED
    BY <1>1, <2>1
<1>. QED
  BY <1>2, <1>3

\* The destructors put two lists back into the pool; every packet in them is
\* idle, so the invariant holds on.
LEMMA ReleaseKeeps ==
  ASSUME ExchangeInv, NEW p \in Rank, NEW q \in Rank, Release(p, q)
  PROVE  ExchangeInv'
PROOF
<1>0. TypeOK /\ ControlInv /\ BarrierInv /\ BufferInv /\ TidyInv /\ IdleInv /\ SendInv /\ WireInv /\ ReadInv
  BY DEF ExchangeInv
<1>1. /\ Filled(p, q) /\ ~Filled(p, q)' /\ Got(p, q) /\ ~Got(p, q)' /\ Tested(p, q) /\ ~Tested(p, q)'
      /\ \A y \in Rank :
           /\ ~OnTheWay(p, y) /\ ~OnTheWay(p, y)' /\ HasSent(p, y)
           /\ ~Waiting(p, y) /\ ~Waiting(p, y)'
           /\ y # q => /\ Filled(p, y)' <=> Filled(p, y)
                       /\ Got(p, y)' <=> Got(p, y)
                       /\ Tested(p, y)' <=> Tested(p, y)
      /\ Left(p)
      /\ \/ Left(p)' /\ round'[p] = round[p] /\ (\A y \in Rank : HasSent(p, y)')
         \/ /\ ~Left(p)' /\ round'[p] = round[p] + 1
            /\ \A y \in Rank : ~Got(p, y)' /\ ~Filled(p, y)' /\ ~HasSent(p, y)'
      /\ \A z \in Rank : z # p => round'[z] = round[z]
  BY <1>0, ReleaseStage
<1>2. /\ pc[p] = "release" /\ q \in todo[p] /\ todo[p] \subseteq Rank
      /\ todo[p] = {q} => /\ pc'[p] = IF round[p] = MaxRound THEN "done" ELSE "pack"
                          /\ round'[p] = round[p] + 1
      /\ todo[p] # {q} => pc'[p] = "release" /\ round'[p] = round[p]
      /\ \A z \in Rank : z # p => pc'[z] = pc[z] /\ todo'[z] = todo[z]
  <2>1. /\ todo[p] = {q} => pc'[p] = IF round[p] = MaxRound THEN "done" ELSE "pack"
        /\ todo[p] # {q} => pc'[p] = "release"
        /\ \A z \in Rank : z # p => pc'[z] = pc[z] /\ todo'[z] = todo[z]
    <3>. DEFINE next == IF round[p] = MaxRound THEN "done" ELSE "pack"
    <3>1. NextPeer(p, q, "release", next)
      BY DEF Release
    <3>. HIDE DEF next
    <3>2. /\ todo[p] = {q} => pc'[p] = next
          /\ todo[p] # {q} => pc'[p] = "release"
          /\ \A z \in Rank : z # p => pc'[z] = pc[z] /\ todo'[z] = todo[z]
      BY <1>0, <3>1, NextPeerFacts
    <3>. QED
      BY <3>2 DEF next
  <2>. QED
    BY <1>0, <2>1 DEF Release, Turn, TypeOK
<1>3. packet' = packet /\ chan' = chan /\ entered' = entered
  BY DEF Release
<1>4. \A z \in Rank : z # p =>
        /\ Left(z)' <=> Left(z)
        /\ \A y \in Rank :
             /\ Filled(z, y)' <=> Filled(z, y)
             /\ OnTheWay(z, y)' <=> OnTheWay(z, y)
             /\ HasSent(z, y)' <=> HasSent(z, y)
             /\ Waiting(z, y)' <=> Waiting(z, y)
             /\ Got(z, y)' <=> Got(z, y)
             /\ Tested(z, y)' <=> Tested(z, y)
  BY <1>2, OthersStage
<1>r. /\ round[p] \in 1..MaxRound /\ round[p] \in Nat /\ round[p] + 1 \in 1..(MaxRound + 1)
      /\ \A z \in Rank : round[z] \in Nat
  <2>1. round[p] \in 1..MaxRound
    BY <1>0, <1>2, EnteredBound
  <2>2. \A z \in Rank : round[z] \in Nat
    BY <1>0, Types
  <2>. QED
    BY <2>1, <2>2, BoundAssumption
<1>5. \A x, z \in Rank : x # p => (Served(x, z)' <=> Served(x, z))
  <2>. SUFFICES ASSUME NEW x \in Rank, NEW z \in Rank, x # p
                PROVE  Served(x, z)' <=> Served(x, z)
    OBVIOUS
  <2>1. CASE z # p
    BY <1>1, <1>2, <2>1, SameServed
  <2>2. CASE z = p
    BY <1>1, <1>2, <1>r, <2>2 DEF Served
  <2>. QED
    BY <2>1, <2>2
<1>6. /\ free' \in [Rank -> Seq(Nat \ {0})]
      /\ free'[p] = (free[p] \o recvBuf[p][q].list) \o sendBuf[p][q].list
      /\ \A z \in Rank : z # p => free'[z] = free[z]
  <2>. DEFINE f == (free[p] \o recvBuf[p][q].list) \o sendBuf[p][q].list
  <2>1. f \in Seq(Nat \ {0})
    <3>1. free[p] \in Seq(Nat \ {0}) /\ recvBuf[p][q].list \in Seq(Nat \ {0}) /\ sendBuf[p][q].list \in Seq(Nat \ {0})
      BY <1>0, Types
    <3>. QED
      BY <3>1
  <2>2. free' = [free EXCEPT ![p] = f]
    BY <1>0 DEF Release, Clear, TypeOK
  <2>3. free \in [Rank -> Seq(Nat \ {0})]
    BY <1>0 DEF TypeOK
  <2>. HIDE DEF f
  <2>4. /\ free' \in [Rank -> Seq(Nat \ {0})] /\ free'[p] = f
        /\ \A z \in Rank : z # p => free'[z] = free[z]
    BY <2>1, <2>2, <2>3, SetOne
  <2>. QED
    BY <2>4 DEF f
<1>7. /\ recvBuf' \in [Rank -> [Rank -> [list : Seq(Nat \ {0}), active : Nat, completed : BOOLEAN]]]
      /\ recvBuf'[p][q] = EmptyRecvBuf
      /\ \A x, y \in Rank : x # p \/ y # q => recvBuf'[x][y] = recvBuf[x][y]
  <2>1. recvBuf \in [Rank -> [Rank -> [list : Seq(Nat \ {0}), active : Nat, completed : BOOLEAN]]]
    BY <1>0 DEF TypeOK
  <2>2. EmptyRecvBuf \in [list : Seq(Nat \ {0}), active : Nat, completed : BOOLEAN]
    BY DEF EmptyRecvBuf
  <2>3. recvBuf' = [recvBuf EXCEPT ![p][q] = EmptyRecvBuf]
    BY DEF Release
  <2>. QED
    BY <2>1, <2>2, <2>3, SetPair
<1>8. /\ sendBuf' \in [Rank -> [Rank -> [list : Seq(Nat \ {0}), completed : BOOLEAN]]]
      /\ sendBuf'[p][q] = EmptySendBuf
      /\ \A x, y \in Rank : x # p \/ y # q => sendBuf'[x][y] = sendBuf[x][y]
  <2>1. sendBuf \in [Rank -> [Rank -> [list : Seq(Nat \ {0}), completed : BOOLEAN]]]
    BY <1>0 DEF TypeOK
  <2>2. EmptySendBuf \in [list : Seq(Nat \ {0}), completed : BOOLEAN]
    BY DEF EmptySendBuf
  <2>3. sendBuf' = [sendBuf EXCEPT ![p][q] = EmptySendBuf]
    BY DEF Release
  <2>. QED
    BY <2>1, <2>2, <2>3, SetPair
<1>9. /\ inbox' \in [Rank -> [Rank -> Seq(Bodies)]]
      /\ inbox'[p][q] = <<>>
      /\ \A x, y \in Rank : x # p \/ y # q => inbox'[x][y] = inbox[x][y]
  <2>1. inbox \in [Rank -> [Rank -> Seq(Bodies)]]
    BY <1>0 DEF TypeOK
  <2>2. <<>> \in Seq(Bodies)
    OBVIOUS
  <2>3. inbox' = [inbox EXCEPT ![p][q] = <<>>]
    BY DEF Release
  <2>. QED
    BY <2>1, <2>2, <2>3, SetPair
<1>10. TypeOK'
  <2>1. /\ pc' \in [Rank -> {"pack", "write", "init", "unpack", "barrier", "finish", "release", "done"}]
        /\ todo' \in [Rank -> SUBSET Rank]
    BY <1>0 DEF Release, NextPeer, TypeOK
  <2>2. round' \in [Rank -> 1..(MaxRound + 1)]
    <3>1. round' = [round EXCEPT ![p] = IF todo[p] = {q} THEN round[p] + 1 ELSE round[p]]
      BY <1>0 DEF Release, TypeOK
    <3>2. (IF todo[p] = {q} THEN round[p] + 1 ELSE round[p]) \in 1..(MaxRound + 1)
      BY <1>0, <1>r, Types
    <3>. QED
      BY <1>0, <3>1, <3>2 DEF TypeOK
  <2>. QED
    BY <1>0, <1>3, <1>6, <1>7, <1>8, <1>9, <2>1, <2>2 DEF TypeOK
<1>11. ControlInv'
  <2>. SUFFICES ASSUME NEW z \in Rank
                PROVE  /\ entered'[z] = IF pc'[z] \in {"barrier", "finish", "release"} THEN round'[z] ELSE round'[z] - 1
                       /\ pc'[z] = "done" <=> round'[z] = MaxRound + 1
                       /\ pc'[z] = "barrier" => todo'[z] = {}
    BY DEF ControlInv
  <2>1. CASE z # p
    BY <1>0, <1>1, <1>2, <1>3, <2>1 DEF ControlInv
  <2>2. CASE z = p
    <3>1. entered[p] = round[p] /\ (pc[p] = "done" <=> round[p] = MaxRound + 1)
      BY <1>0, <1>2 DEF ControlInv
    <3>2. MaxRound \in Nat
      BY BoundAssumption
    <3>. QED
      BY <1>2, <1>3, <1>r, <2>2, <3>1, <3>2
  <2>. QED
    BY <2>1, <2>2
<1>12. BarrierInv'
  <2>1. \A x \in Rank : Passed(x)' = Passed(x)
    BY <1>1, <1>2, <1>4, <1>r DEF Passed
  <2>. QED
    BY <1>0, <1>3, <2>1 DEF BarrierInv
<1>13. BufferInv'
  <2>. SUFFICES ASSUME NEW x \in Rank, NEW y \in Rank
                PROVE  BuffersRight(x, y)'
    BY DEF BufferInv
  <2>0. BuffersRight(x, y)
    BY <1>0 DEF BufferInv
  <2>1. CASE x # p \/ y # q
    <3>1. /\ Filled(x, y)' <=> Filled(x, y)
          /\ Waiting(x, y)' <=> Waiting(x, y)
          /\ Got(x, y)' <=> Got(x, y)
      BY <1>1, <1>4, <2>1
    <3>. QED
      BY <1>7, <1>8, <1>9, <2>0, <2>1, <3>1, BuffersKept
  <2>2. CASE x = p /\ y = q
    <3>1. sendBuf'[p][q].list = <<>> /\ Len(<<>>) <= MaxPackets
      BY <1>8, BoundAssumption DEF EmptySendBuf
    <3>. QED
      BY <1>1, <1>7, <1>9, <2>2, <3>1 DEF BuffersRight, EmptyRecvBuf
  <2>. QED
    BY <2>1, <2>2
<1>14. TidyInv'
  <2>. SUFFICES ASSUME NEW z \in Rank
                PROVE  Tidy(Shelves(z), Len(packet[z]))'
    BY DEF TidyInv
  <2>1. CASE z = p
    <3>1. recvBuf[p][q].completed
      BY <1>0, <1>1 DEF BufferInv, BuffersRight
    <3>2. \A y \in Rank : y # q => recvBuf'[p][y] = recvBuf[p][y] /\ sendBuf'[p][y].list = sendBuf[p][y].list
      BY <1>7, <1>8
    <3>. QED
      BY <1>0, <1>3, <1>6, <1>7, <1>8, <2>1, <3>1, <3>2, TidyRelease
  <2>2. CASE z # p
    <3>1. /\ free'[z] = free[z] /\ Len(packet'[z]) = Len(packet[z])
          /\ \A y \in Rank : sendBuf'[z][y].list = sendBuf[z][y].list /\ recvBuf'[z][y] = recvBuf[z][y]
      BY <1>3, <1>6, <1>7, <1>8, <2>2
    <3>. QED
      BY <1>0, <3>1, TidySame
  <2>. QED
    BY <2>1, <2>2
<1>15. IdleInv'
  <2>. SUFFICES ASSUME NEW z \in Rank
                PROVE  PoolIdle(z)' /\ \A y \in Rank : BuffersIdle(z, y)'
    BY DEF IdleInv
  <2>0. PoolIdle(z) /\ \A y \in Rank : BuffersIdle(z, y)
    BY <1>0 DEF IdleInv
  <2>1. PoolIdle(z)'
    <3>1. CASE z # p
      BY <1>3, <1>6, <2>0, <3>1 DEF PoolIdle
    <3>2. CASE z = p
      <4>. DEFINE f == free[p]
                  r == recvBuf[p][q].list
                  s == sendBuf[p][q].list
      <4>1. /\ \A i \in DOMAIN f : packet[p][f[i]].request = "null"
            /\ \A i \in DOMAIN r : packet[p][r[i]].request = "null"
            /\ \A i \in DOMAIN s : packet[p][s[i]].request = "null"
        BY <1>1, <2>0, <3>2 DEF PoolIdle, BuffersIdle
      <4>2. f \in Seq(Nat) /\ r \in Seq(Nat) /\ s \in Seq(Nat)
        <5>1. f \in Seq(Nat \ {0})
          BY <1>0, Types
        <5>2. f \in Seq(Nat)
          BY <5>1
        <5>. QED
          BY <1>0, <5>2, Types
      <4>3. free'[p] = (f \o r) \o s
        BY <1>6
      <4>. HIDE DEF f, r, s
      <4>4. f \o r \in Seq(Nat)
        BY <4>2
      <4>5. \A i \in DOMAIN ((f \o r) \o s) : \/ \E j \in DOMAIN (f \o r) : ((f \o r) \o s)[i] = (f \o r)[j]
                                              \/ \E j \in DOMAIN s : ((f \o r) \o s)[i] = s[j]
        BY <4>2, <4>4, ConcatElements
      <4>6. \A i \in DOMAIN (f \o r) : (\E j \in DOMAIN f : (f \o r)[i] = f[j]) \/ (\E j \in DOMAIN r : (f \o r)[i] = r[j])
        BY <4>2, ConcatElements
      <4>7. \A i \in DOMAIN ((f \o r) \o s) : packet[p][((f \o r) \o s)[i]].request = "null"
        BY <4>1, <4>5, <4>6
      <4>. QED
        BY <1>3, <3>2, <4>3, <4>7 DEF PoolIdle
    <3>. QED
      BY <3>1, <3>2
  <2>2. ASSUME NEW y \in Rank
        PROVE  BuffersIdle(z, y)'
    <3>0. BuffersIdle(z, y)
      BY <2>0
    <3>1. CASE z # p
      BY <1>3, <1>4, <1>7, <1>8, <3>0, <3>1, IdleKept
    <3>2. CASE z = p /\ y # q
      BY <1>1, <1>3, <1>7, <1>8, <3>0, <3>2, IdleKept
    <3>3. CASE z = p /\ y = q
      BY <1>1, <1>7, <3>3 DEF BuffersIdle, EmptyRecvBuf
    <3>. QED
      BY <3>1, <3>2, <3>3
  <2>. QED
    BY <2>1, <2>2
<1>16. SendInv'
  <2>. SUFFICES ASSUME NEW x \in Rank, NEW y \in Rank
                PROVE  Packed(x, y)'
    BY DEF SendInv
  <2>0. Packed(x, y)
    BY <1>0 DEF SendInv
  <2>1. CASE x # p
    BY <1>1, <1>3, <1>4, <1>8, <2>0, <2>1, PackedKept
  <2>2. CASE x = p /\ sendBuf'[p][y].list = <<>>
    BY <2>2 DEF Packed
  <2>3. CASE x = p /\ sendBuf'[p][y].list # <<>>
    <3>1. Filled(p, y)' /\ y # q /\ round'[p] = round[p] /\ HasSent(p, y)'
      BY <1>1, <1>8, <1>13, <2>3 DEF BufferInv, BuffersRight, EmptySendBuf
    <3>. QED
      BY <1>1, <1>3, <1>8, <2>0, <2>3, <3>1, PackedKept
  <2>. QED
    BY <2>1, <2>2, <2>3
<1>17. WireInv'
  <2>. SUFFICES ASSUME NEW x \in Rank, NEW y \in Rank
                PROVE  OnWire(x, y)'
    BY DEF WireInv
  <2>0. OnWire(x, y)
    BY <1>0 DEF WireInv
  <2>1. CASE x = p
    BY <1>1, <1>3, <2>0, <2>1, QuietKept
  <2>2. CASE x # p
    <3>1. Delivered(x, y)' = Delivered(x, y)
      <4>1. CASE y = p
        BY <1>1, <4>1 DEF Delivered
      <4>2. CASE y # p
        BY <1>1, <1>3, <1>4, <1>7, <2>2, <4>2, DeliveredKept
      <4>. QED
        BY <4>1, <4>2
    <3>. QED
      BY <1>0, <1>1, <1>3, <1>4, <1>5, <1>8, <2>0, <2>2, <3>1, OnWireKept
  <2>. QED
    BY <2>1, <2>2
<1>18. ReadInv'
  <2>. SUFFICES ASSUME NEW x \in Rank, NEW y \in Rank
                PROVE  Reads(x, y)'
    BY DEF ReadInv
  <2>0. Reads(x, y)
    BY <1>0 DEF ReadInv
  <2>1. CASE x # p /\ y # p
    BY <1>1, <1>3, <1>4, <1>7, <1>8, <1>9, <2>0, <2>1, ReadsKept
  <2>2. CASE y = p
    <3>1. ~Waiting(p, x)'
      BY <1>1
    <3>2. CASE ~Got(p, x)'
      BY <2>2, <3>1, <3>2 DEF Reads
    <3>3. CASE Got(p, x)'
      <4>1. /\ x # q /\ Got(p, x) /\ round'[p] = round[p] /\ round'[x] = round[x]
            /\ HasSent(x, p) => HasSent(x, p)'
            /\ Filled(x, p)' => Filled(x, p)
        BY <1>1, <1>4, <3>3
      <4>2. /\ recvBuf'[p][x] = recvBuf[p][x] /\ inbox'[p][x] = inbox[p][x]
        BY <1>7, <1>9, <4>1
      <4>3. Filled(x, p)' => sendBuf'[x][p] = sendBuf[x][p]
        BY <1>1, <1>8
      <4>. QED
        BY <2>0, <2>2, <3>1, <4>1, <4>2, <4>3 DEF Reads
    <3>. QED
      BY <3>2, <3>3
  <2>3. CASE x = p /\ y # p
    <3>1. /\ recvBuf'[y][p] = recvBuf[y][p] /\ inbox'[y][p] = inbox[y][p] /\ round'[y] = round[y]
          /\ Waiting(y, p)' <=> Waiting(y, p)
          /\ Got(y, p)' <=> Got(y, p)
          /\ ~OnTheWay(p, y) /\ ~OnTheWay(p, y)' /\ HasSent(p, y)
      BY <1>1, <1>4, <1>7, <1>9, <2>3
    <3>2. Waiting(y, p) => recvBuf[y][p].list = <<>> /\ packet[y][recvBuf[y][p].active].request = "active"
      BY <2>0, <2>3, <3>1 DEF Reads
    <3>3. ASSUME Got(y, p)
          PROVE  /\ recvBuf[y][p].list # <<>>
                 /\ inbox[y][p] = [i \in DOMAIN recvBuf[y][p].list |-> <<p, y, round[y], i>>]
                 /\ round[y] <= round'[p]
                 /\ round[y] = round'[p] => HasSent(p, y)'
                 /\ round[y] = round'[p] /\ Filled(p, y)' => Len(recvBuf[y][p].list) = Len(sendBuf'[p][y].list)
      <4>1. /\ recvBuf[y][p].list # <<>>
            /\ inbox[y][p] = [i \in DOMAIN recvBuf[y][p].list |-> <<p, y, round[y], i>>]
            /\ round[y] <= round[p]
            /\ round[y] = round[p] /\ Filled(p, y) => Len(recvBuf[y][p].list) = Len(sendBuf[p][y].list)
        BY <2>0, <2>3, <3>3 DEF Reads
      <4>2. CASE round'[p] = round[p] + 1
        BY <1>r, <4>1, <4>2
      <4>3. CASE round'[p] = round[p] /\ \A z \in Rank : HasSent(p, z)'
        <5>1. Filled(p, y)' => Filled(p, y) /\ y # q
          BY <1>1
        <5>2. Filled(p, y)' => sendBuf'[p][y] = sendBuf[p][y]
          BY <1>8, <5>1
        <5>. QED
          BY <4>1, <4>3, <5>1, <5>2
      <4>. QED
        BY <1>1, <4>1, <4>2, <4>3
    <3>. QED
      BY <1>3, <2>3, <3>1, <3>2, <3>3 DEF Reads
  <2>. QED
    BY <2>1, <2>2, <2>3
<1>. QED
  BY <1>10, <1>11, <1>12, <1>13, <1>14, <1>15, <1>16, <1>17, <1>18 DEF ExchangeInv

-------------------------------------------------------------------------------
(* The network *)

\* A process that waits for a message under way is in the round of its sender.
LEMMA MeetInRound ==
  ASSUME TypeOK, ControlInv, BarrierInv, NEW p \in Rank, NEW q \in Rank,
         Waiting(q, p), OnTheWay(p, q), ~Served(p, q)
  PROVE  round[q] = round[p]
PROOF
<1>1. /\ Passed(p) = round[p] - 1 /\ entered[q] = round[q] - 1 /\ round[p] \in Nat /\ round[q] \in Nat
  BY Types DEF ControlInv, Passed, Left, OnTheWay, Waiting
<1>2. Passed(p) <= entered[q]
  BY DEF BarrierInv
<1>3. ~(round[q] > round[p])
  BY DEF Served
<1>. QED
  BY <1>1, <1>2, <1>3

\* The packet a process waits for lies on no other shelf.
LEMMA PendingApart ==
  ASSUME TypeOK, TidyInv, BufferInv, NEW p \in Rank, NEW r \in Rank, Waiting(p, r), NEW q \in Rank
  PROVE  /\ recvBuf[p][r].active \in 1..Len(packet[p])
         /\ \A i \in DOMAIN free[p] : free[p][i] # recvBuf[p][r].active
         /\ \A i \in DOMAIN sendBuf[p][q].list : sendBuf[p][q].list[i] # recvBuf[p][r].active
         /\ \A i \in DOMAIN recvBuf[p][q].list : recvBuf[p][q].list[i] # recvBuf[p][r].active
         /\ Waiting(p, q) /\ q # r => recvBuf[p][q].active # recvBuf[p][r].active
PROOF
<1>1. \A y \in Rank : Waiting(p, y) => recvBuf[p][y].active # 0 /\ ~recvBuf[p][y].completed
  BY DEF BufferInv, BuffersRight
<1>2. recvBuf[p][r].active # 0 /\ ~recvBuf[p][r].completed
  BY <1>1
<1>3. recvBuf[p][r].active \in 1..Len(packet[p])
  BY <1>2, Places
<1>4. \A i \in DOMAIN free[p] : free[p][i] # recvBuf[p][r].active
  BY <1>2, Apart
<1>5. /\ \A i \in DOMAIN sendBuf[p][q].list : sendBuf[p][q].list[i] # recvBuf[p][r].active
      /\ \A i \in DOMAIN recvBuf[p][q].list : recvBuf[p][q].list[i] # recvBuf[p][r].active
      /\ Waiting(p, q) /\ q # r => recvBuf[p][q].active # recvBuf[p][r].active
  BY <1>1, <1>2, Apart
<1>. QED
  BY <1>3, <1>4, <1>5

\* A step of the network touches packets of one message only: those it is sent
\* from, whose data it leaves alone, and the one it is received into.
NetworkStep(p, q) ==
  /\ UNCHANGED <<local, free, sendBuf, recvBuf, inbox>>
  /\ packet' \in [Rank -> Seq(Packets)]
  /\ chan' \in [Rank -> [Rank -> Seq([ref : Nat, data : Wires])]]
  /\ \A x, y \in Rank : x # p \/ y # q => chan'[x][y] = chan[x][y]
  /\ \A z \in Rank : Len(packet'[z]) = Len(packet[z])
  /\ \A z \in Rank : \A j \in 1..Len(packet[z]) :
       /\ z = p => \A i \in DOMAIN sendBuf[p][q].list : sendBuf[p][q].list[i] # j
       /\ z = q /\ Waiting(q, p) => recvBuf[q][p].active # j
       => packet'[z][j] = packet[z][j]
  /\ \A i \in DOMAIN sendBuf[p][q].list :
       LET k == sendBuf[p][q].list[i]
       IN /\ packet'[p][k].buff = packet[p][k].buff
          /\ packet'[p][k].number = packet[p][k].number /\ packet'[p][k].eof = packet[p][k].eof
  /\ Waiting(q, p) =>
       \/ packet'[q][recvBuf[q][p].active].request = packet[q][recvBuf[q][p].active].request
       \/ packet'[q][recvBuf[q][p].active].request = "complete"

\* A step of MPI for one pair keeps the invariant if the messages of that pair
\* stay right.
LEMMA NetworkKeeps ==
  ASSUME ExchangeInv, NEW p \in Rank, NEW q \in Rank, OnTheWay(p, q), NetworkStep(p, q),
         OnWire(p, q)', Reads(p, q)'
  PROVE  ExchangeInv'
PROOF
<1>. DEFINE a == recvBuf[q][p].active
            list == sendBuf[p][q].list
<1>0. TypeOK /\ ControlInv /\ BarrierInv /\ BufferInv /\ TidyInv /\ IdleInv /\ SendInv /\ WireInv /\ ReadInv
  BY DEF ExchangeInv
<1>1. /\ pc' = pc /\ todo' = todo /\ round' = round /\ entered' = entered
      /\ free' = free /\ sendBuf' = sendBuf /\ recvBuf' = recvBuf /\ inbox' = inbox
      /\ packet' \in [Rank -> Seq(Packets)]
      /\ chan' \in [Rank -> [Rank -> Seq([ref : Nat, data : Wires])]]
      /\ \A x, y \in Rank : x # p \/ y # q => chan'[x][y] = chan[x][y]
      /\ \A z \in Rank : Len(packet'[z]) = Len(packet[z])
  BY DEF NetworkStep, local
<1>2. \A z \in Rank :
        /\ Left(z)' <=> Left(z)
        /\ \A y \in Rank :
             /\ Filled(z, y)' <=> Filled(z, y)
             /\ OnTheWay(z, y)' <=> OnTheWay(z, y)
             /\ HasSent(z, y)' <=> HasSent(z, y)
             /\ Waiting(z, y)' <=> Waiting(z, y)
             /\ Got(z, y)' <=> Got(z, y)
             /\ Tested(z, y)' <=> Tested(z, y)
  BY <1>1, SameStage
<1>3. \A x, z \in Rank : Served(x, z)' <=> Served(x, z)
  BY <1>1, SameServed
<1>w. ASSUME NEW z \in Rank, NEW y \in Rank, z = q, Waiting(q, p)
      PROVE  /\ \A i \in DOMAIN free[z] : free[z][i] # a
             /\ \A i \in DOMAIN sendBuf[z][y].list : sendBuf[z][y].list[i] # a
             /\ \A i \in DOMAIN recvBuf[z][y].list : recvBuf[z][y].list[i] # a
             /\ Waiting(z, y) /\ y # p => recvBuf[z][y].active # a
  <2>1. /\ \A i \in DOMAIN free[q] : free[q][i] # a
        /\ \A i \in DOMAIN sendBuf[q][y].list : sendBuf[q][y].list[i] # a
        /\ \A i \in DOMAIN recvBuf[q][y].list : recvBuf[q][y].list[i] # a
        /\ Waiting(q, y) /\ y # p => recvBuf[q][y].active # a
    <3>0. Waiting(q, p)
      BY <1>w
    <3>1. \A i \in DOMAIN free[q] : free[q][i] # recvBuf[q][p].active
      BY <1>0, <3>0, PendingApart
    <3>2. \A i \in DOMAIN sendBuf[q][y].list : sendBuf[q][y].list[i] # recvBuf[q][p].active
      BY <1>0, <3>0, PendingApart
    <3>3. \A i \in DOMAIN recvBuf[q][y].list : recvBuf[q][y].list[i] # recvBuf[q][p].active
      BY <1>0, <3>0, PendingApart
    <3>4. Waiting(q, y) /\ y # p => recvBuf[q][y].active # recvBuf[q][p].active
      BY <1>0, <3>0, PendingApart
    <3>. QED
      BY <3>1, <3>2, <3>3, <3>4
  <2>. QED
    BY <1>w, <2>1
\* The packets elsewhere.
<1>a. ASSUME NEW z \in Rank, NEW j \in 1..Len(packet[z]),
             z = p => \A i \in DOMAIN list : list[i] # j,
             z = q /\ Waiting(q, p) => a # j
      PROVE  packet'[z][j] = packet[z][j]
  BY <1>a DEF NetworkStep
<1>l. /\ \A i \in DOMAIN list : /\ packet'[p][list[i]].buff = packet[p][list[i]].buff
                                 /\ packet'[p][list[i]].number = packet[p][list[i]].number
                                 /\ packet'[p][list[i]].eof = packet[p][list[i]].eof
  BY DEF NetworkStep
<1>s. Waiting(q, p) =>
        \/ packet'[q][a].request = packet[q][a].request
        \/ packet'[q][a].request = "complete"
  BY DEF NetworkStep
<1>. HIDE DEF a, list
<1>4. ASSUME NEW z \in Rank, NEW y \in Rank
      PROVE  \A i \in DOMAIN sendBuf[z][y].list :
               /\ packet'[z][sendBuf[z][y].list[i]].buff = packet[z][sendBuf[z][y].list[i]].buff
               /\ packet'[z][sendBuf[z][y].list[i]].number = packet[z][sendBuf[z][y].list[i]].number
               /\ packet'[z][sendBuf[z][y].list[i]].eof = packet[z][sendBuf[z][y].list[i]].eof
               /\ z # p \/ y # q => packet'[z][sendBuf[z][y].list[i]] = packet[z][sendBuf[z][y].list[i]]
  <2>. TAKE i \in DOMAIN sendBuf[z][y].list
  <2>1. CASE z = p /\ y = q
    BY <1>l, <2>1 DEF list
  <2>2. CASE z # p \/ y # q
    <3>1. sendBuf[z][y].list[i] \in 1..Len(packet[z])
      BY <1>0, Places
    <3>2. z = p => \A l \in DOMAIN list : list[l] # sendBuf[z][y].list[i]
      BY <1>0, <2>2, Apart DEF list
    <3>3. z = q /\ Waiting(q, p) => a # sendBuf[z][y].list[i]
      BY <1>w
    <3>. QED
      BY <1>a, <3>1, <3>2, <3>3
  <2>. QED
    BY <2>1, <2>2
<1>5. ASSUME NEW z \in Rank, NEW y \in Rank
      PROVE  \A i \in DOMAIN recvBuf[z][y].list :
               packet'[z][recvBuf[z][y].list[i]] = packet[z][recvBuf[z][y].list[i]]
  <2>. TAKE i \in DOMAIN recvBuf[z][y].list
  <2>1. recvBuf[z][y].list[i] \in 1..Len(packet[z])
    BY <1>0, Places
  <2>2. z = p => \A l \in DOMAIN list : list[l] # recvBuf[z][y].list[i]
    BY <1>0, Apart DEF list
  <2>3. z = q /\ Waiting(q, p) => a # recvBuf[z][y].list[i]
    BY <1>w
  <2>. QED
    BY <1>a, <2>1, <2>2, <2>3
<1>6. ASSUME NEW z \in Rank
      PROVE  \A i \in DOMAIN free[z] : packet'[z][free[z][i]] = packet[z][free[z][i]]
  <2>. TAKE i \in DOMAIN free[z]
  <2>1. free[z][i] \in 1..Len(packet[z])
    BY <1>0, Places
  <2>2. z = p => \A l \in DOMAIN list : list[l] # free[z][i]
    BY <1>0, Apart DEF list
  <2>3. z = q /\ Waiting(q, p) => a # free[z][i]
    BY <1>w
  <2>. QED
    BY <1>a, <2>1, <2>2, <2>3
<1>7. ASSUME NEW z \in Rank, NEW y \in Rank, z # q \/ y # p, Waiting(z, y)
      PROVE  packet'[z][recvBuf[z][y].active] = packet[z][recvBuf[z][y].active]
  <2>1. recvBuf[z][y].active \in 1..Len(packet[z])
    BY <1>0, <1>7, PendingApart
  <2>2. z = p => \A l \in DOMAIN list : list[l] # recvBuf[z][y].active
    <3>1. \A l \in DOMAIN sendBuf[z][q].list : sendBuf[z][q].list[l] # recvBuf[z][y].active
      BY <1>0, <1>7, PendingApart
    <3>. QED
      BY <3>1 DEF list
  <2>3. z = q /\ Waiting(q, p) => a # recvBuf[z][y].active
    BY <1>w, <1>7
  <2>. QED
    BY <1>a, <2>1, <2>2, <2>3
<1>8. ~Tested(p, q)
  BY DEF OnTheWay, Tested
<1>10. TypeOK'
  BY <1>0, <1>1 DEF TypeOK
<1>11. ControlInv' /\ BarrierInv'
  BY <1>0, <1>1, <1>2 DEF ControlInv, BarrierInv, Passed
<1>12. BufferInv'
  <2>. SUFFICES ASSUME NEW x \in Rank, NEW y \in Rank
                PROVE  BuffersRight(x, y)'
    BY DEF BufferInv
  <2>1. BuffersRight(x, y)
    BY <1>0 DEF BufferInv
  <2>. QED
    BY <1>1, <1>2, <2>1, BuffersKept
<1>13. TidyInv'
  BY <1>0, <1>1, TidySame DEF TidyInv
<1>14. IdleInv'
  <2>. SUFFICES ASSUME NEW z \in Rank
                PROVE  PoolIdle(z)' /\ \A y \in Rank : BuffersIdle(z, y)'
    BY DEF IdleInv
  <2>1. PoolIdle(z) /\ \A y \in Rank : BuffersIdle(z, y)
    BY <1>0 DEF IdleInv
  <2>2. PoolIdle(z)'
    <3>1. \A i \in DOMAIN free[z] : packet'[z][free[z][i]] = packet[z][free[z][i]]
      BY <1>6
    <3>. QED
      BY <1>1, <2>1, <3>1 DEF PoolIdle
  <2>3. ASSUME NEW y \in Rank
        PROVE  BuffersIdle(z, y)'
    <3>1. BuffersIdle(z, y)
      BY <2>1
    <3>2. \A i \in DOMAIN recvBuf[z][y].list :
            packet'[z][recvBuf[z][y].list[i]].request = packet[z][recvBuf[z][y].list[i]].request
      BY <1>5
    <3>3. Tested(z, y)' =>
            /\ Tested(z, y) /\ sendBuf'[z][y].list = sendBuf[z][y].list
            /\ \A i \in DOMAIN sendBuf[z][y].list :
                 packet'[z][sendBuf[z][y].list[i]].request = packet[z][sendBuf[z][y].list[i]].request
      <4>1. Tested(z, y)' => Tested(z, y) /\ (z # p \/ y # q)
        BY <1>2, <1>8
      <4>2. z # p \/ y # q => \A i \in DOMAIN sendBuf[z][y].list :
              packet'[z][sendBuf[z][y].list[i]].request = packet[z][sendBuf[z][y].list[i]].request
        BY <1>4
      <4>. QED
        BY <1>1, <4>1, <4>2
    <3>4. Waiting(z, y)' =>
            /\ Waiting(z, y) /\ recvBuf'[z][y].active = recvBuf[z][y].active
            /\ \/ packet'[z][recvBuf[z][y].active].request = packet[z][recvBuf[z][y].active].request
               \/ packet'[z][recvBuf[z][y].active].request = "complete"
      BY <1>1, <1>2, <1>7, <1>s DEF a
    <3>. QED
      BY <1>1, <3>1, <3>2, <3>3, <3>4, IdleKept
  <2>. QED
    BY <2>2, <2>3
<1>15. SendInv'
  <2>. SUFFICES ASSUME NEW x \in Rank, NEW y \in Rank
                PROVE  Packed(x, y)'
    BY DEF SendInv
  <2>1. Packed(x, y)
    BY <1>0 DEF SendInv
  <2>2. \A i \in DOMAIN sendBuf[x][y].list :
          LET k == sendBuf[x][y].list[i]
          IN /\ packet'[x][k].buff.body = packet[x][k].buff.body
             /\ HasSent(x, y)' \/ (packet'[x][k].number = packet[x][k].number /\ packet'[x][k].eof = packet[x][k].eof)
    BY <1>4
  <2>. QED
    BY <1>1, <1>2, <2>1, <2>2, PackedKept
<1>16. WireInv'
  <2>. SUFFICES ASSUME NEW x \in Rank, NEW y \in Rank, x # p \/ y # q
                PROVE  OnWire(x, y)'
    BY DEF WireInv
  <2>1. OnWire(x, y)
    BY <1>0 DEF WireInv
  <2>2. Delivered(x, y)' = Delivered(x, y)
    BY <1>1, <1>2, <1>7, DeliveredKept
  <2>3. \A i \in DOMAIN sendBuf[x][y].list :
          packet'[x][sendBuf[x][y].list[i]].buff = packet[x][sendBuf[x][y].list[i]].buff
    BY <1>4
  <2>. QED
    BY <1>0, <1>1, <1>2, <1>3, <2>1, <2>2, <2>3, OnWireKept
<1>17. ReadInv'
  <2>. SUFFICES ASSUME NEW x \in Rank, NEW y \in Rank, x # p \/ y # q
                PROVE  Reads(x, y)'
    BY DEF ReadInv
  <2>1. Reads(x, y)
    BY <1>0 DEF ReadInv
  <2>2. \A i \in DOMAIN recvBuf[y][x].list :
          packet'[y][recvBuf[y][x].list[i]].buff = packet[y][recvBuf[y][x].list[i]].buff
    BY <1>5
  <2>3. Waiting(y, x) => packet'[y][recvBuf[y][x].active] = packet[y][recvBuf[y][x].active]
    BY <1>7
  <2>. QED
    BY <1>1, <1>2, <2>1, <2>2, <2>3, ReadsKept
<1>. QED
  BY <1>10, <1>11, <1>12, <1>13, <1>14, <1>15, <1>16, <1>17 DEF ExchangeInv

\* Something is on the wire only while its message is under way.
LEMMA WireFacts ==
  ASSUME TypeOK, TidyInv, WireInv, NEW p \in Rank, NEW q \in Rank, NEW i \in DOMAIN chan[p][q]
  PROVE  LET d == Delivered(p, q)
             list == sendBuf[p][q].list
             c == chan[p][q]
         IN /\ OnTheWay(p, q) /\ ~Served(p, q)
            /\ d \in Nat /\ i \in Nat /\ d + i \in DOMAIN list /\ list[d + i] \in 1..Len(packet[p])
            /\ Len(c) + d = Len(list)
            /\ c[i].ref = 0 \/ c[i].ref = list[d + i]
            /\ Wire(p, c[i]) = WirePacket(p, q, round[p], d + i, Len(list))
            /\ Wire(p, c[i]) \in Wires /\ c[i].data \in Wires
PROOF
<1>. DEFINE d == Delivered(p, q)
            list == sendBuf[p][q].list
            c == chan[p][q]
<1>1. list \in Seq(Nat) /\ c \in Seq([ref : Nat, data : Wires]) /\ d \in Nat /\ packet[p] \in Seq(Packets)
  BY Types, DeliveredNat
<1>2. OnTheWay(p, q) /\ ~Served(p, q)
  <2>1. c # <<>>
    OBVIOUS
  <2>. QED
    BY <2>1 DEF WireInv, OnWire
<1>3. /\ Len(c) + d = Len(list)
      /\ Wire(p, c[i]) = WirePacket(p, q, round[p], d + i, Len(list))
      /\ c[i].ref = 0 \/ c[i].ref = list[d + i]
  BY <1>2 DEF WireInv, OnWire
<1>i. i \in DOMAIN c
  OBVIOUS
<1>. HIDE DEF d, c
<1>4. /\ i \in Nat /\ d + i \in DOMAIN list /\ c[i].data \in Wires /\ c[i].ref \in Nat
  <2>1. i \in 1..Len(c) /\ Len(c) \in Nat /\ c[i] \in [ref : Nat, data : Wires]
    <3>. DEFINE T == [ref : Nat, data : Wires]
    <3>1. c \in Seq(T)
      BY <1>1
    <3>. HIDE DEF T
    <3>2. i \in 1..Len(c) /\ Len(c) \in Nat /\ c[i] \in T
      BY <1>i, <3>1, SeqElement
    <3>. QED
      BY <3>2 DEF T
  <2>2. DOMAIN list = 1..Len(list)
    BY <1>1
  <2>. HIDE DEF list
  <2>3. d + i \in 1..Len(list)
    <3>1. Len(c) + d = Len(list) /\ list \in Seq(Nat) /\ d \in Nat
      BY <1>1, <1>3
    <3>2. i \in 1..Len(c) /\ Len(c) \in Nat
      BY <2>1
    <3>. QED
      BY <3>1, <3>2
  <2>. QED
    BY <2>1, <2>2, <2>3
<1>5. list[d + i] \in 1..Len(packet[p])
  BY <1>4, Places
<1>6. packet[p][list[d + i]].buff \in Wires
  <2>. DEFINE j == list[d + i]
              k == packet[p][j]
  <2>1. packet[p] \in Seq(Packets) /\ j \in 1..Len(packet[p])
    BY <1>1, <1>5
  <2>. HIDE DEF j
  <2>2. k \in Packets
    BY <2>1
  <2>. HIDE DEF k
  <2>3. k.buff \in Wires
    BY <2>2, PacketTypes
  <2>. QED
    BY <2>3 DEF k, j
<1>7. Wire(p, c[i]) \in Wires
  BY <1>3, <1>4, <1>6 DEF Wire
<1>. QED
  BY <1>1, <1>2, <1>3, <1>4, <1>5, <1>7 DEF d, c

\* The packets once the send of packet k of p has completed.
Completed(p, k) == [packet EXCEPT ![p][k].request = "complete"]

\* A request completes; the packet keeps its data.
LEMMA CompletedFacts ==
  ASSUME TypeOK, NEW p \in Rank, NEW k \in 1..Len(packet[p]), NEW h, h = Completed(p, k)
  PROVE  /\ h \in [Rank -> Seq(Packets)]
         /\ \A z \in Rank : /\ Len(h[z]) = Len(packet[z])
                            /\ \A j \in 1..Len(packet[z]) :
                                 /\ h[z][j].buff = packet[z][j].buff
                                 /\ h[z][j].number = packet[z][j].number
                                 /\ h[z][j].eof = packet[z][j].eof
                                 /\ z # p \/ j # k => h[z][j] = packet[z][j]
PROOF
<1>. DEFINE x == [packet[p][k] EXCEPT !.request = "complete"]
            g == [packet[p] EXCEPT ![k] = x]
<1>1. packet[p] \in Seq(Packets) /\ packet[p][k] \in Packets
  BY Types, PacketTypes
<1>2. h = [packet EXCEPT ![p] = g]
  BY DEF Completed
<1>t. packet \in [Rank -> Seq(Packets)]
  BY DEF TypeOK
<1>3. x \in Packets /\ x.buff = packet[p][k].buff /\ x.number = packet[p][k].number /\ x.eof = packet[p][k].eof
  BY <1>1 DEF Packets
<1>. HIDE DEF x
<1>4. /\ g \in Seq(Packets) /\ Len(g) = Len(packet[p]) /\ g[k] = x
      /\ \A j \in 1..Len(packet[p]) : j # k => g[j] = packet[p][j]
  BY <1>1, <1>3, ExceptSeq
<1>5. \A j \in 1..Len(packet[p]) : /\ g[j].buff = packet[p][j].buff
                                   /\ g[j].number = packet[p][j].number
                                   /\ g[j].eof = packet[p][j].eof
  BY <1>3, <1>4
<1>. HIDE DEF g
<1>6. /\ h \in [Rank -> Seq(Packets)] /\ h[p] = g
      /\ \A z \in Rank : z # p => h[z] = packet[z]
  BY <1>2, <1>4, <1>t, SetOne
<1>. QED
  BY <1>4, <1>5, <1>6

\* MPI copies a packet out of its buffer: what travels is the same.
LEMMA CopyKeeps ==
  ASSUME ExchangeInv, NEW p \in Rank, NEW q \in Rank, Copy(p, q)
  PROVE  ExchangeInv'
PROOF
<1>. DEFINE c == chan[p][q]
            list == sendBuf[p][q].list
            d == Delivered(p, q)
<1>0. TypeOK /\ ControlInv /\ BarrierInv /\ BufferInv /\ TidyInv /\ IdleInv /\ SendInv /\ WireInv /\ ReadInv
  BY DEF ExchangeInv
<1>1. PICK i \in DOMAIN c :
        /\ c[i].ref # 0
        /\ chan' = [chan EXCEPT ![p][q][i] = [ref |-> 0, data |-> packet[p][c[i].ref].buff]]
        /\ packet' = [packet EXCEPT ![p][c[i].ref].request = "complete"]
  BY DEF Copy
<1>. DEFINE k == list[d + i]
<1>2. /\ OnTheWay(p, q) /\ ~Served(p, q)
      /\ d \in Nat /\ d + i \in DOMAIN list /\ k \in 1..Len(packet[p])
      /\ c[i].ref = k
      /\ Len(c) + d = Len(list)
  BY <1>0, <1>1, WireFacts
<1>3. /\ UNCHANGED <<local, free, sendBuf, recvBuf, inbox>>
      /\ pc' = pc /\ todo' = todo /\ round' = round /\ entered' = entered
      /\ free' = free /\ sendBuf' = sendBuf /\ recvBuf' = recvBuf /\ inbox' = inbox
  BY DEF Copy, local
<1>4. /\ packet' \in [Rank -> Seq(Packets)]
      /\ \A z \in Rank : /\ Len(packet'[z]) = Len(packet[z])
                         /\ \A j \in 1..Len(packet[z]) :
                              /\ packet'[z][j].buff = packet[z][j].buff
                              /\ packet'[z][j].number = packet[z][j].number
                              /\ packet'[z][j].eof = packet[z][j].eof
                              /\ z # p \/ j # k => packet'[z][j] = packet[z][j]
  <2>. HIDE DEF k
  <2>1. packet' = Completed(p, k)
    BY <1>1, <1>2 DEF Completed
  <2>2. TypeOK /\ k \in 1..Len(packet[p])
    BY <1>0, <1>2
  <2>. DEFINE h == packet'
  <2>3. h = Completed(p, k)
    BY <2>1
  <2>. HIDE DEF h
  <2>4. /\ h \in [Rank -> Seq(Packets)]
        /\ \A z \in Rank : /\ Len(h[z]) = Len(packet[z])
                           /\ \A j \in 1..Len(packet[z]) :
                                /\ h[z][j].buff = packet[z][j].buff
                                /\ h[z][j].number = packet[z][j].number
                                /\ h[z][j].eof = packet[z][j].eof
                                /\ z # p \/ j # k => h[z][j] = packet[z][j]
    BY <2>2, <2>3, CompletedFacts
  <2>. QED
    BY <2>4 DEF h
<1>5. packet[p][k].buff \in Wires
  <2>. DEFINE x == packet[p][k]
  <2>1. packet[p] \in Seq(Packets) /\ k \in 1..Len(packet[p])
    BY <1>0, <1>2, Types
  <2>. HIDE DEF k
  <2>2. x \in Packets
    BY <2>1
  <2>. HIDE DEF x
  <2>3. x.buff \in Wires
    BY <2>2, PacketTypes
  <2>. QED
    BY <2>3 DEF x
<1>. DEFINE e == [ref |-> 0, data |-> packet[p][k].buff]
            cc == [c EXCEPT ![i] = e]
<1>6. e \in [ref : Nat, data : Wires] /\ e.ref = 0 /\ e.data = packet[p][k].buff
  BY <1>5
<1>7. c \in Seq([ref : Nat, data : Wires])
  BY <1>0, Types
<1>8. chan' = [chan EXCEPT ![p][q] = cc]
  BY <1>1, <1>2
<1>. HIDE DEF e
<1>9. /\ cc \in Seq([ref : Nat, data : Wires]) /\ Len(cc) = Len(c) /\ DOMAIN cc = DOMAIN c
      /\ cc[i] = e /\ \A l \in DOMAIN c : l # i => cc[l] = c[l]
  BY <1>6, <1>7
<1>. HIDE DEF cc
<1>10. /\ chan' \in [Rank -> [Rank -> Seq([ref : Nat, data : Wires])]] /\ chan'[p][q] = cc
       /\ \A x, y \in Rank : x # p \/ y # q => chan'[x][y] = chan[x][y]
  <2>. DEFINE T == Seq([ref : Nat, data : Wires])
  <2>1. chan \in [Rank -> [Rank -> T]] /\ cc \in T
    BY <1>0, <1>9 DEF TypeOK
  <2>. HIDE DEF T, c
  <2>2. /\ chan' \in [Rank -> [Rank -> T]] /\ chan'[p][q] = cc
        /\ \A x, y \in Rank : x # p \/ y # q => chan'[x][y] = chan[x][y]
    BY <1>8, <2>1, SetPair
  <2>. QED
    BY <2>2 DEF T
<1>11. Waiting(q, p) => packet'[q][recvBuf[q][p].active] = packet[q][recvBuf[q][p].active]
  <2>. SUFFICES ASSUME Waiting(q, p)
                PROVE  packet'[q][recvBuf[q][p].active] = packet[q][recvBuf[q][p].active]
    OBVIOUS
  <2>1. recvBuf[q][p].active \in 1..Len(packet[q])
    BY <1>0, PendingApart
  <2>2. q = p => recvBuf[q][p].active # k
    <3>1. \A l \in DOMAIN sendBuf[q][q].list : sendBuf[q][q].list[l] # recvBuf[q][p].active
      BY <1>0, PendingApart
    <3>. QED
      BY <1>2, <3>1
  <2>. HIDE DEF k
  <2>. QED
    BY <1>4, <2>1, <2>2
<1>12. \A l \in DOMAIN list : list[l] \in 1..Len(packet[p])
  BY <1>0, Places
<1>13. NetworkStep(p, q)
  <2>1. \A z \in Rank : \A j \in 1..Len(packet[z]) :
          (z = p => \A l \in DOMAIN list : list[l] # j) => packet'[z][j] = packet[z][j]
    BY <1>2, <1>4
  <2>2. \A l \in DOMAIN list : /\ packet'[p][list[l]].buff = packet[p][list[l]].buff
                               /\ packet'[p][list[l]].number = packet[p][list[l]].number
                               /\ packet'[p][list[l]].eof = packet[p][list[l]].eof
    BY <1>4, <1>12
  <2>3. \A z \in Rank : Len(packet'[z]) = Len(packet[z])
    BY <1>4
  <2>4. \A z \in Rank : \A j \in 1..Len(packet[z]) :
          /\ z = p => \A l \in DOMAIN list : list[l] # j
          /\ z = q /\ Waiting(q, p) => recvBuf[q][p].active # j
          => packet'[z][j] = packet[z][j]
    BY <2>1
  <2>5. Waiting(q, p) => packet'[q][recvBuf[q][p].active].request = packet[q][recvBuf[q][p].active].request
    BY <1>11
  <2>6. packet' \in [Rank -> Seq(Packets)]
    BY <1>4
  <2>. QED
    BY <1>3, <1>10, <2>2, <2>3, <2>4, <2>5, <2>6 DEF NetworkStep
<1>14. /\ OnTheWay(p, q)' <=> OnTheWay(p, q)
       /\ HasSent(p, q)' <=> HasSent(p, q)
       /\ Filled(p, q)' <=> Filled(p, q)
       /\ Waiting(q, p)' <=> Waiting(q, p)
       /\ Got(q, p)' <=> Got(q, p)
       /\ Served(p, q)' <=> Served(p, q)
  BY <1>3, SameStage, SameServed
<1>15. Delivered(p, q)' = d
  BY <1>3, <1>11, <1>14, DeliveredKept
<1>16. OnWire(p, q)'
  <2>. DEFINE r == round[p]
              n == Len(list)
              new == chan'[p][q]
              W(x) == IF x.ref = 0 THEN x.data ELSE packet'[p][x.ref].buff
  <2>0. /\ new[i] = e /\ (\A l \in DOMAIN c : l # i => new[l] = c[l])
        /\ Len(new) = Len(c) /\ DOMAIN new = DOMAIN c
    BY <1>9, <1>10
  <2>. HIDE DEF new
  <2>1. ASSUME NEW l \in DOMAIN c
        PROVE  /\ W(new[l]) = WirePacket(p, q, r, d + l, n)
               /\ new[l].ref = 0 \/ new[l].ref = list[d + l]
    <3>1. /\ d + l \in DOMAIN list
          /\ c[l].ref = 0 \/ c[l].ref = list[d + l]
          /\ Wire(p, c[l]) = WirePacket(p, q, r, d + l, n)
      BY <1>0, WireFacts
    <3>2. packet'[p][list[d + l]].buff = packet[p][list[d + l]].buff
      <4>1. list[d + l] \in 1..Len(packet[p])
        BY <1>12, <3>1
      <4>. QED
        BY <1>4, <4>1
    <3>. HIDE DEF c, list, d, r, n
    <3>3. CASE l = i
      <4>1. W(new[l]) = e.data
        BY <1>6, <2>0, <3>3
      <4>2. Wire(p, c[l]) = e.data
        BY <1>1, <1>2, <1>6, <3>3 DEF Wire
      <4>. QED
        BY <1>6, <2>0, <3>1, <3>3, <4>1, <4>2
    <3>4. CASE l # i
      BY <2>0, <3>1, <3>2, <3>4 DEF Wire
    <3>. QED
      BY <3>3, <3>4
  <2>2. Len(new) + d = n
    BY <1>2, <2>0
  <2>3. sendBuf'[p][q].list = list /\ round'[p] = r
    BY <1>3
  <2>4. OnTheWay(p, q)' /\ ~Served(p, q)'
    BY <1>2, <1>14
  <2>5. \A l \in DOMAIN new : /\ W(new[l]) = WirePacket(p, q, r, d + l, n)
                              /\ new[l].ref = 0 \/ new[l].ref = list[d + l]
    BY <2>0, <2>1
  <2>. HIDE DEF d, r, n, list
  <2>. QED
    BY <1>15, <2>2, <2>3, <2>4, <2>5 DEF OnWire, Wire, new, n
<1>17. Reads(p, q)'
  <2>1. Reads(p, q)
    BY <1>0 DEF ReadInv
  <2>2. \A l \in DOMAIN recvBuf[q][p].list :
          packet'[q][recvBuf[q][p].list[l]].buff = packet[q][recvBuf[q][p].list[l]].buff
    <3>1. \A l \in DOMAIN recvBuf[q][p].list : recvBuf[q][p].list[l] \in 1..Len(packet[q])
      BY <1>0, Places
    <3>. QED
      BY <1>4, <3>1
  <2>. QED
    BY <1>3, <1>11, <1>14, <2>1, <2>2, ReadsKept
<1>. QED
  BY <1>2, <1>13, <1>16, <1>17, NetworkKeeps

\* The packets once data w have been received into packet a of q.
ReceivedInto(g, q, a, w) == [g EXCEPT ![q][a] = [@ EXCEPT !.request = "complete", !.buff = w]]

\* A packet that data have come into.
LEMMA ReceivedFacts ==
  ASSUME NEW g \in [Rank -> Seq(Packets)], NEW q \in Rank, NEW a \in 1..Len(g[q]), NEW w \in Wires,
         NEW h, h = ReceivedInto(g, q, a, w)
  PROVE  /\ h \in [Rank -> Seq(Packets)]
         /\ h[q][a].request = "complete" /\ h[q][a].buff = w
         /\ \A z \in Rank : /\ Len(h[z]) = Len(g[z])
                            /\ \A j \in 1..Len(g[z]) : z # q \/ j # a => h[z][j] = g[z][j]
PROOF
<1>. DEFINE x == [g[q][a] EXCEPT !.request = "complete", !.buff = w]
            y == [g[q] EXCEPT ![a] = x]
<1>1. g[q] \in Seq(Packets)
  OBVIOUS
<1>2. g[q][a] \in Packets
  BY <1>1, PacketTypes
<1>3. h = [g EXCEPT ![q] = y]
  BY DEF ReceivedInto
<1>4. x \in Packets /\ x.request = "complete" /\ x.buff = w
  BY <1>2 DEF Packets
<1>. HIDE DEF x
<1>5. /\ y \in Seq(Packets) /\ Len(y) = Len(g[q]) /\ y[a] = x
      /\ \A j \in 1..Len(g[q]) : j # a => y[j] = g[q][j]
  BY <1>1, <1>4, ExceptSeq
<1>. HIDE DEF y
<1>6. /\ h \in [Rank -> Seq(Packets)] /\ h[q] = y
      /\ \A z \in Rank : z # q => h[z] = g[z]
  BY <1>3, <1>5, SetOne
<1>7. \A z \in Rank : /\ Len(h[z]) = Len(g[z])
                      /\ \A j \in 1..Len(g[z]) : z # q \/ j # a => h[z][j] = g[z][j]
  BY <1>5, <1>6
<1>. QED
  BY <1>4, <1>5, <1>6, <1>7

\* The next packet of a message comes to the receive posted for it.
LEMMA DeliverKeeps ==
  ASSUME ExchangeInv, NEW p \in Rank, NEW q \in Rank, Deliver(p, q)
  PROVE  ExchangeInv'
PROOF
<1>. DEFINE c == chan[p][q]
            list == sendBuf[p][q].list
            d == Delivered(p, q)
            a == recvBuf[q][p].active
            e == Head(c)
            w == Wire(p, e)
            r == round[p]
            n == Len(list)
            sent == IF e.ref = 0 THEN packet ELSE [packet EXCEPT ![p][e.ref].request = "complete"]
<1>0. TypeOK /\ ControlInv /\ BarrierInv /\ BufferInv /\ TidyInv /\ IdleInv /\ SendInv /\ WireInv /\ ReadInv
  BY DEF ExchangeInv
<1>1. /\ c # <<>> /\ a # 0 /\ ~recvBuf[q][p].completed /\ packet[q][a].request = "active"
      /\ chan' = [chan EXCEPT ![p][q] = Tail(c)]
      /\ packet' = [sent EXCEPT ![q][a] = [@ EXCEPT !.request = "complete", !.buff = w]]
  BY DEF Deliver
<1>2. c \in Seq([ref : Nat, data : Wires]) /\ list \in Seq(Nat)
  BY <1>0, Types
<1>3. 1 \in DOMAIN c /\ e = c[1] /\ Len(c) \in Nat /\ Len(c) >= 1
  <2>. DEFINE T == [ref : Nat, data : Wires]
  <2>1. c # <<>> /\ c \in Seq(T)
    BY <1>1, <1>2
  <2>. HIDE DEF T, c
  <2>. QED
    BY <2>1
<1>4. /\ OnTheWay(p, q) /\ ~Served(p, q)
      /\ d \in Nat /\ d + 1 \in DOMAIN list /\ list[d + 1] \in 1..Len(packet[p])
      /\ Len(c) + d = n
      /\ e.ref = 0 \/ e.ref = list[d + 1]
      /\ w = WirePacket(p, q, r, d + 1, n) /\ w \in Wires
  <2>. HIDE DEF d, n, list, e
  <2>1. /\ OnTheWay(p, q) /\ ~Served(p, q)
        /\ d \in Nat /\ d + 1 \in DOMAIN list /\ list[d + 1] \in 1..Len(packet[p])
        /\ Len(c) + d = n
        /\ c[1].ref = 0 \/ c[1].ref = list[d + 1]
        /\ Wire(p, c[1]) = WirePacket(p, q, r, d + 1, n) /\ Wire(p, c[1]) \in Wires
    BY <1>0, <1>3, WireFacts DEF d, n, list
  <2>. QED
    BY <1>3, <2>1
<1>5. Waiting(q, p) /\ ~Got(q, p)
  <2>1. Waiting(q, p) \/ Got(q, p) \/ recvBuf[q][p] = EmptyRecvBuf
    BY <1>0 DEF BufferInv, BuffersRight
  <2>2. Got(q, p) => recvBuf[q][p].completed
    BY <1>0 DEF BufferInv, BuffersRight
  <2>3. a # 0 /\ ~recvBuf[q][p].completed
    BY <1>1
  <2>4. recvBuf[q][p] # EmptyRecvBuf
    BY <2>3 DEF EmptyRecvBuf
  <2>. QED
    BY <2>1, <2>2, <2>3, <2>4
<1>6. round[q] = r
  BY <1>0, <1>4, <1>5, MeetInRound
<1>7. /\ UNCHANGED <<local, free, sendBuf, recvBuf, inbox>>
      /\ pc' = pc /\ todo' = todo /\ round' = round /\ entered' = entered
      /\ free' = free /\ sendBuf' = sendBuf /\ recvBuf' = recvBuf /\ inbox' = inbox
  BY DEF Deliver, local
<1>8. /\ OnTheWay(p, q)' <=> OnTheWay(p, q)
      /\ Waiting(q, p)' <=> Waiting(q, p)
      /\ Got(q, p)' <=> Got(q, p)
      /\ Served(p, q)' <=> Served(p, q)
  BY <1>7, SameStage, SameServed
<1>9. d = Len(recvBuf[q][p].list)
  <2>1. recvBuf[q][p].list \in Seq(Nat)
    BY <1>0, Types
  <2>2. packet[q][a].request = "active"
    BY <1>1
  <2>3. d = Len(recvBuf[q][p].list) + 0
    BY <1>5, <1>6, <2>2 DEF Delivered
  <2>. QED
    BY <2>1, <2>3
<1>10. /\ sent \in [Rank -> Seq(Packets)]
       /\ \A z \in Rank : /\ Len(sent[z]) = Len(packet[z])
                          /\ \A j \in 1..Len(packet[z]) :
                               /\ sent[z][j].buff = packet[z][j].buff
                               /\ sent[z][j].number = packet[z][j].number
                               /\ sent[z][j].eof = packet[z][j].eof
                               /\ z # p \/ j # list[d + 1] => sent[z][j] = packet[z][j]
  <2>1. CASE e.ref = 0
    BY <1>0, <2>1 DEF TypeOK
  <2>2. CASE e.ref # 0
    <3>. DEFINE k == list[d + 1]
    <3>1. e.ref = k /\ k \in 1..Len(packet[p])
      BY <1>4, <2>2
    <3>. HIDE DEF e, k
    <3>2. sent = Completed(p, k)
      BY <2>2, <3>1 DEF Completed
    <3>. HIDE DEF sent
    <3>3. TypeOK /\ list[d + 1] = k
      BY <1>0 DEF k
    <3>4. /\ sent \in [Rank -> Seq(Packets)]
          /\ \A z \in Rank : /\ Len(sent[z]) = Len(packet[z])
                             /\ \A j \in 1..Len(packet[z]) :
                                  /\ sent[z][j].buff = packet[z][j].buff
                                  /\ sent[z][j].number = packet[z][j].number
                                  /\ sent[z][j].eof = packet[z][j].eof
                                  /\ z # p \/ j # k => sent[z][j] = packet[z][j]
      BY <3>1, <3>2, <3>3, CompletedFacts
    <3>. QED
      BY <3>3, <3>4
  <2>. QED
    BY <2>1, <2>2
<1>. HIDE DEF sent, w, e, d
<1>11. a \in 1..Len(packet[q]) /\ \A l \in DOMAIN sendBuf[q][q].list : sendBuf[q][q].list[l] # a
  BY <1>0, <1>5, PendingApart
<1>12. /\ packet' \in [Rank -> Seq(Packets)]
       /\ packet'[q][a].request = "complete" /\ packet'[q][a].buff = w
       /\ \A z \in Rank : /\ Len(packet'[z]) = Len(sent[z])
                          /\ \A j \in 1..Len(sent[z]) : z # q \/ j # a => packet'[z][j] = sent[z][j]
  <2>1. a \in 1..Len(sent[q])
    BY <1>10, <1>11
  <2>. HIDE DEF a
  <2>2. packet' = ReceivedInto(sent, q, a, w) /\ w \in Wires /\ sent \in [Rank -> Seq(Packets)]
    BY <1>1, <1>4, <1>10 DEF ReceivedInto
  <2>3. packet' \in [Rank -> Seq(Packets)]
    BY <2>1, <2>2, ReceivedFacts
  <2>4. packet'[q][a].request = "complete" /\ packet'[q][a].buff = w
    BY <2>1, <2>2, ReceivedFacts
  <2>5. \A z \in Rank : /\ Len(packet'[z]) = Len(sent[z])
                         /\ \A j \in 1..Len(sent[z]) : z # q \/ j # a => packet'[z][j] = sent[z][j]
    <3>. TAKE z \in Rank
    <3>1. Len(packet'[z]) = Len(sent[z])
      BY <2>1, <2>2, ReceivedFacts
    <3>2. \A j \in 1..Len(sent[z]) : z # q \/ j # a => packet'[z][j] = sent[z][j]
      BY <2>1, <2>2, ReceivedFacts
    <3>. QED
      BY <3>1, <3>2
  <2>. QED
    BY <2>3, <2>4, <2>5
<1>13. \A z \in Rank : Len(packet'[z]) = Len(packet[z])
  BY <1>10, <1>12
<1>14. ASSUME NEW z \in Rank, NEW j \in 1..Len(packet[z]), z # q \/ j # a
       PROVE  /\ packet'[z][j].buff = packet[z][j].buff
              /\ packet'[z][j].number = packet[z][j].number
              /\ packet'[z][j].eof = packet[z][j].eof
              /\ z # p \/ j # list[d + 1] => packet'[z][j] = packet[z][j]
  <2>1. packet'[z][j] = sent[z][j]
    BY <1>10, <1>12, <1>14
  <2>. QED
    BY <1>10, <2>1
<1>15. ASSUME NEW l \in DOMAIN list
       PROVE  /\ packet'[p][list[l]].buff = packet[p][list[l]].buff
              /\ packet'[p][list[l]].number = packet[p][list[l]].number
              /\ packet'[p][list[l]].eof = packet[p][list[l]].eof
  <2>1. list[l] \in 1..Len(packet[p])
    BY <1>0, Places
  <2>2. p # q \/ list[l] # a
    BY <1>11
  <2>. HIDE DEF list, a
  <2>. QED
    BY <1>14, <2>1, <2>2
<1>16. /\ chan' \in [Rank -> [Rank -> Seq([ref : Nat, data : Wires])]] /\ chan'[p][q] = Tail(c)
       /\ \A x, y \in Rank : x # p \/ y # q => chan'[x][y] = chan[x][y]
  <2>. DEFINE T == [ref : Nat, data : Wires]
              S == Seq(T)
              t == Tail(c)
  <2>1. t \in S
    <3>1. c \in Seq(T)
      BY <1>2
    <3>. HIDE DEF T, c
    <3>. QED
      BY <1>1, <3>1
  <2>2. chan \in [Rank -> [Rank -> S]]
    BY <1>0 DEF TypeOK
  <2>3. chan' = [chan EXCEPT ![p][q] = t]
    BY <1>1
  <2>. HIDE DEF S, t
  <2>4. /\ chan' \in [Rank -> [Rank -> S]] /\ chan'[p][q] = t
        /\ \A x, y \in Rank : x # p \/ y # q => chan'[x][y] = chan[x][y]
    BY <2>1, <2>2, <2>3, SetPair
  <2>. QED
    BY <2>4 DEF S, T, t
<1>17. NetworkStep(p, q)
  <2>1. \A z \in Rank : \A j \in 1..Len(packet[z]) :
          /\ z = p => \A l \in DOMAIN list : list[l] # j
          /\ z = q /\ Waiting(q, p) => a # j
          => packet'[z][j] = packet[z][j]
    BY <1>4, <1>5, <1>14
  <2>2. Waiting(q, p) => packet'[q][a].request = "complete"
    BY <1>12
  <2>3. packet' \in [Rank -> Seq(Packets)]
    BY <1>12
  <2>. QED
    BY <1>7, <1>13, <1>15, <1>16, <2>1, <2>2, <2>3 DEF NetworkStep
<1>18. Delivered(p, q)' = d + 1
  <2>1. recvBuf[q][p].list \in Seq(Nat)
    BY <1>0, Types
  <2>2. /\ round'[q] = round'[p] /\ Waiting(q, p)' /\ recvBuf'[q][p] = recvBuf[q][p]
        /\ packet'[q][a].request = "complete"
    BY <1>5, <1>6, <1>7, <1>8, <1>12
  <2>. QED
    BY <1>9, <2>1, <2>2 DEF Delivered
<1>19. OnWire(p, q)'
  <2>. DEFINE new == chan'[p][q]
              W(x) == IF x.ref = 0 THEN x.data ELSE packet'[p][x.ref].buff
  <2>1. Len(new) = Len(c) - 1 /\ \A l \in DOMAIN new : l \in Nat /\ l + 1 \in DOMAIN c /\ new[l] = c[l + 1]
    BY <1>1, <1>2, <1>16
  <2>2. \A l \in DOMAIN new : /\ W(new[l]) = WirePacket(p, q, r, (d + 1) + l, n)
                              /\ new[l].ref = 0 \/ new[l].ref = list[(d + 1) + l]
    <3>. TAKE l \in DOMAIN new
    <3>0. l \in Nat /\ l + 1 \in DOMAIN c /\ new[l] = c[l + 1]
      BY <2>1
    <3>. DEFINE m == l + 1
    <3>. HIDE DEF m, new
    <3>m. m \in DOMAIN c
      BY <3>0 DEF m
    <3>1. /\ d + m \in DOMAIN list
          /\ c[m].ref = 0 \/ c[m].ref = list[d + m]
          /\ Wire(p, c[m]) = WirePacket(p, q, r, d + m, n)
      BY <1>0, <3>m, WireFacts DEF d
    <3>2. packet'[p][list[d + m]].buff = packet[p][list[d + m]].buff
      BY <1>15, <3>1
    <3>3. d + m = (d + 1) + l /\ new[l] = c[m]
      BY <1>4, <3>0 DEF m
    <3>. HIDE DEF c, list, r, n
    <3>4. W(c[m]) = Wire(p, c[m])
      BY <3>1, <3>2 DEF Wire
    <3>. QED
      BY <3>1, <3>3, <3>4
  <2>3. Len(new) + (d + 1) = n
    <3>1. Len(new) = Len(c) - 1 /\ Len(c) \in Nat /\ d \in Nat /\ Len(c) + d = n
      BY <1>3, <1>4, <2>1
    <3>. HIDE DEF new, c, n
    <3>. QED
      BY <3>1
  <2>4. sendBuf'[p][q].list = list /\ round'[p] = r /\ OnTheWay(p, q)' /\ ~Served(p, q)'
    BY <1>4, <1>7, <1>8
  <2>. HIDE DEF r, n, list, c, new
  <2>. QED
    BY <1>18, <2>2, <2>3, <2>4 DEF OnWire, Wire, new, n
<1>20. Reads(p, q)'
  <2>. DEFINE b == recvBuf[q][p]
  <2>1. \A l \in DOMAIN b.list : l < n /\ packet[q][b.list[l]].buff = WirePacket(p, q, round[q], l, n)
    BY <1>0, <1>4, <1>5, <1>6 DEF ReadInv, Reads
  <2>2. \A l \in DOMAIN b.list : packet'[q][b.list[l]].buff = packet[q][b.list[l]].buff
    <3>. TAKE l \in DOMAIN b.list
    <3>1. b.list[l] \in 1..Len(packet[q])
      BY <1>0, Places
    <3>2. b.list[l] # a
      BY <1>0, <1>5, PendingApart
    <3>. HIDE DEF b, a
    <3>. QED
      BY <1>14, <3>1, <3>2
  <2>3. packet'[q][a].buff = WirePacket(p, q, round[q], Len(b.list) + 1, n)
    BY <1>4, <1>6, <1>9, <1>12
  <2>4. /\ recvBuf'[q][p] = b /\ sendBuf'[p][q].list = list /\ round'[p] = round'[q] /\ round'[q] = round[q]
        /\ OnTheWay(p, q)' /\ Waiting(q, p)' /\ ~Got(q, p)'
    BY <1>4, <1>5, <1>6, <1>7, <1>8
  <2>5. b.active = a
    OBVIOUS
  <2>. HIDE DEF b, a, list
  <2>6. \A l \in DOMAIN b.list : l < n /\ packet'[q][b.list[l]].buff = WirePacket(p, q, round[q], l, n)
    BY <2>1, <2>2
  <2>. QED
    BY <2>3, <2>4, <2>5, <2>6 DEF Reads
<1>. QED
  BY <1>4, <1>17, <1>19, <1>20, NetworkKeeps

-------------------------------------------------------------------------------
(* Receiving *)

\* What is known when a packet has come in: it is the next one of the message
\* that the peer sends in the same round.
LEMMA ArrivedFacts ==
  ASSUME ExchangeInv, NEW p \in Rank, NEW q \in Rank, Received(p, q)
  PROVE  LET a == recvBuf[p][q].active
             list == recvBuf[p][q].list
             n == Len(sendBuf[q][p].list)
         IN /\ Waiting(p, q) /\ ~Got(p, q) /\ round[q] = round[p]
            /\ OnTheWay(q, p) /\ HasSent(q, p) /\ ~Served(q, p)
            /\ packet[p][a].request = "complete"
            /\ \A i \in DOMAIN list : i < n /\ packet[p][list[i]].buff = WirePacket(q, p, round[p], i, n)
            /\ packet[p][a].buff = WirePacket(q, p, round[p], Len(list) + 1, n)
            /\ Delivered(q, p) = Len(list) + 1
            /\ Len(chan[q][p]) + (Len(list) + 1) = n
            /\ n <= MaxPackets /\ n \in Nat /\ Len(list) \in Nat /\ Len(chan[q][p]) \in Nat
PROOF
<1>. DEFINE a == recvBuf[p][q].active
            list == recvBuf[p][q].list
            n == Len(sendBuf[q][p].list)
<1>0. TypeOK /\ BufferInv /\ IdleInv /\ WireInv /\ ReadInv
  BY DEF ExchangeInv
<1>1. pc[p] = "unpack" /\ q \in todo[p] /\ packet[p][a].request # "active"
  BY DEF Received
<1>2. Waiting(p, q) /\ ~Got(p, q)
  BY <1>1 DEF Waiting, Got
<1>3. packet[p][a].request = "complete"
  BY <1>0, <1>1, <1>2 DEF IdleInv, BuffersIdle
<1>4. round[q] = round[p] /\ OnTheWay(q, p)
  BY <1>0, <1>1, <1>2 DEF ReadInv, Reads
<1>5. HasSent(q, p)
  BY <1>4 DEF HasSent
<1>6. ~Served(q, p)
  BY <1>0, <1>1, <1>4, Types DEF Served
<1>7. /\ \A i \in DOMAIN list : i < n /\ packet[p][list[i]].buff = WirePacket(q, p, round[p], i, n)
      /\ packet[p][a].buff = WirePacket(q, p, round[p], Len(list) + 1, n)
  BY <1>0, <1>2, <1>3, <1>4 DEF ReadInv, Reads
<1>8. Delivered(q, p) = Len(list) + 1
  BY <1>1, <1>2, <1>4 DEF Delivered
<1>9. Len(chan[q][p]) + Delivered(q, p) = n
  BY <1>0, <1>4, <1>6 DEF WireInv, OnWire
<1>10. n <= MaxPackets
  BY <1>0 DEF BufferInv, BuffersRight
<1>11. n \in Nat /\ Len(list) \in Nat /\ Len(chan[q][p]) \in Nat
  <2>1. list \in Seq(Nat) /\ chan[q][p] \in Seq([ref : Nat, data : Wires]) /\ sendBuf[q][p].list \in Seq(Nat)
    BY <1>0, Types
  <2>2. n \in Nat
    BY <2>1
  <2>3. Len(list) \in Nat
    BY <2>1
  <2>4. Len(chan[q][p]) \in Nat
    BY <2>1
  <2>. QED
    BY <2>2, <2>3, <2>4
<1>. QED
  BY <1>2, <1>3, <1>4, <1>5, <1>6, <1>7, <1>8, <1>9, <1>10, <1>11

\* A list with one more packet.
LEMMA AppendFacts ==
  ASSUME NEW x \in Seq(Nat \ {0}), NEW k \in Nat \ {0}
  PROVE  /\ Append(x, k) \in Seq(Nat \ {0}) /\ DOMAIN Append(x, k) = 1..(Len(x) + 1)
         /\ Append(x, k)[Len(x) + 1] = k /\ Len(Append(x, k)) = Len(x) + 1
         /\ \A i \in 1..(Len(x) + 1) : i # Len(x) + 1 => i \in DOMAIN x /\ Append(x, k)[i] = x[i]
         /\ Append(x, k) # <<>>
OBVIOUS

\* An inner packet is kept and the next receive is posted into a packet of the
\* pool: the invariant holds on.
LEMMA ReceivePacketKeeps ==
  ASSUME ExchangeInv, NEW p \in Rank, NEW q \in Rank, ReceivePacket(p, q)
  PROVE  ExchangeInv'
PROOF
<1>. DEFINE b == recvBuf[p][q]
            a == recvBuf[p][q].active
            k == Popped(p)
            n == Len(sendBuf[q][p].list)
            m == Len(b.list) + 1
            heap == UnpackHeader(packet[p], a)
            P == packet[p]
            N == PostReceive(heap, k, m + 1)
<1>0. TypeOK /\ ControlInv /\ BarrierInv /\ BufferInv /\ TidyInv /\ IdleInv /\ SendInv /\ WireInv /\ ReadInv
  BY DEF ExchangeInv
<1>1. /\ Waiting(p, q) /\ ~Got(p, q) /\ round[q] = round[p]
      /\ OnTheWay(q, p) /\ HasSent(q, p) /\ ~Served(q, p)
      /\ P[a].request = "complete"
      /\ \A i \in DOMAIN b.list : i < n /\ P[b.list[i]].buff = WirePacket(q, p, round[p], i, n)
      /\ P[a].buff = WirePacket(q, p, round[p], m, n)
      /\ Delivered(q, p) = m
      /\ Len(chan[q][p]) + m = n
      /\ n <= MaxPackets /\ n \in Nat /\ Len(b.list) \in Nat /\ Len(chan[q][p]) \in Nat
  BY ArrivedFacts DEF ReceivePacket
<1>2. m # n /\ m \in Nat /\ m < n /\ m + 1 \in 0..MaxPackets
  <2>1. ~P[a].buff.eof
    BY DEF ReceivePacket
  <2>2. P[a].buff.eof = (m = n)
    BY <1>1 DEF WirePacket
  <2>3. m # n
    BY <2>1, <2>2
  <2>4. Len(b.list) \in Nat /\ Len(chan[q][p]) + m = n /\ n <= MaxPackets /\ Len(chan[q][p]) \in Nat
    BY <1>1
  <2>5. MaxPackets \in Nat
    BY BoundAssumption
  <2>. DEFINE l == Len(b.list)
              c == Len(chan[q][p])
  <2>6. l \in Nat /\ c + (l + 1) = n /\ n <= MaxPackets /\ c \in Nat /\ n \in Nat /\ l + 1 # n /\ m = l + 1
    BY <1>1, <2>3, <2>4
  <2>. HIDE DEF n, m, l, c
  <2>7. m \in Nat
    BY <2>6
  <2>8. m < n
    BY <2>6
  <2>9. m + 1 \in 0..MaxPackets
    BY <2>5, <2>6
  <2>. QED
    BY <2>3, <2>7, <2>8, <2>9
<1>3. P \in Seq(Packets) /\ b.list \in Seq(Nat \ {0}) /\ free[p] \in Seq(Nat \ {0})
      /\ b \in [list : Seq(Nat \ {0}), active : Nat, completed : BOOLEAN]
  BY <1>0, Types
<1>4. a # 0 /\ ~b.completed /\ inbox[p][q] = <<>> /\ a \in Nat \ {0}
  BY <1>0, <1>1, <1>3 DEF BufferInv, BuffersRight
<1>5. a \in 1..Len(P)
  BY <1>0, <1>1, PendingApart
<1>6. k \in 1..(Len(P) + 1) /\ PoolAfterPop(free[p]) \in Seq(Nat \ {0}) /\ a # k /\ k \in Nat \ {0}
  <2>1. k \in 1..(Len(P) + 1) /\ PoolAfterPop(free[p]) \in Seq(Nat \ {0})
    BY <1>0, PoppedApart
  <2>2. a # k
    BY <1>0, <1>4, PoppedApart
  <2>. QED
    BY <2>1, <2>2
<1>. HIDE DEF k
<1>7. /\ heap \in Seq(Packets) /\ Len(heap) = Len(P)
      /\ \A j \in 1..Len(P) : j # a => heap[j] = P[j]
      /\ heap[a].request = "null" /\ heap[a].buff = P[a].buff
  <2>. HIDE DEF a, P
  <2>. QED
    BY <1>3, <1>5, UnpackHeaderFacts DEF P
<1>8. PopPacket(heap, free[p]) = k
  BY <1>7 DEF Popped, PopPacket, k
<1>9. /\ packet' = [packet EXCEPT ![p] = N]
      /\ free' = [free EXCEPT ![p] = PoolAfterPop(free[p])]
      /\ recvBuf' = [recvBuf EXCEPT ![p][q] = [b EXCEPT !.list = Append(b.list, a), !.active = k]]
      /\ UNCHANGED <<local, sendBuf, chan, inbox>>
  <2>1. Len(Append(b.list, a)) = m
    BY <1>3, <1>4, AppendFacts
  <2>. QED
    BY <1>0, <1>8, <2>1 DEF ReceivePacket, TypeOK
<1>10. /\ pc' = pc /\ todo' = todo /\ round' = round /\ entered' = entered
       /\ sendBuf' = sendBuf /\ chan' = chan /\ inbox' = inbox
  BY <1>9 DEF local
<1>. HIDE DEF heap
<1>11. /\ N \in Seq(Packets)
       /\ Len(N) = IF k > Len(P) THEN Len(P) + 1 ELSE Len(P)
       /\ \A j \in 1..Len(P) : j # k => N[j] = heap[j]
       /\ N[k].request = "active"
  <2>. HIDE DEF P, m
  <2>1. k \in 1..(Len(heap) + 1)
    BY <1>6, <1>7
  <2>2. heap \in Seq(Packets) /\ Len(heap) = Len(P) /\ m + 1 \in 0..MaxPackets
    BY <1>2, <1>7
  <2>. QED
    BY <2>1, <2>2, PostReceiveFacts
<1>. HIDE DEF N, m
<1>12. /\ packet' \in [Rank -> Seq(Packets)] /\ packet'[p] = N
       /\ \A z \in Rank : z # p => packet'[z] = packet[z]
  <2>1. packet \in [Rank -> Seq(Packets)]
    BY <1>0 DEF TypeOK
  <2>. QED
    BY <1>9, <1>11, <2>1, SetOne
<1>13. /\ free' \in [Rank -> Seq(Nat \ {0})] /\ free'[p] = PoolAfterPop(free[p])
       /\ \A z \in Rank : z # p => free'[z] = free[z]
  BY <1>0, <1>6, <1>9, SetOne DEF TypeOK
<1>14. /\ recvBuf' \in [Rank -> [Rank -> [list : Seq(Nat \ {0}), active : Nat, completed : BOOLEAN]]]
       /\ recvBuf'[p][q] = [b EXCEPT !.list = Append(b.list, a), !.active = k]
       /\ \A x, y \in Rank : x # p \/ y # q => recvBuf'[x][y] = recvBuf[x][y]
  <2>. DEFINE T == [list : Seq(Nat \ {0}), active : Nat, completed : BOOLEAN]
              v == [b EXCEPT !.list = Append(b.list, a), !.active = k]
  <2>1. recvBuf \in [Rank -> [Rank -> T]]
    BY <1>0 DEF TypeOK
  <2>2. v \in T
    <3>1. Append(b.list, a) \in Seq(Nat \ {0})
      BY <1>3, <1>4, AppendFacts
    <3>. HIDE DEF b, a
    <3>. QED
      BY <1>3, <1>6, <3>1
  <2>3. recvBuf' = [recvBuf EXCEPT ![p][q] = v]
    BY <1>9
  <2>. HIDE DEF T, v
  <2>4. /\ recvBuf' \in [Rank -> [Rank -> T]] /\ recvBuf'[p][q] = v
        /\ \A x, y \in Rank : x # p \/ y # q => recvBuf'[x][y] = recvBuf[x][y]
    BY <2>1, <2>2, <2>3, SetPair
  <2>. QED
    BY <2>4 DEF T, v
<1>15. /\ recvBuf'[p][q].list = Append(b.list, a) /\ recvBuf'[p][q].active = k /\ ~recvBuf'[p][q].completed
  <2>. HIDE DEF b, a
  <2>. QED
    BY <1>3, <1>4, <1>14
\* Only the packet that came and the one that is posted change.
<1>16. /\ Len(packet'[p]) = IF k > Len(P) THEN Len(P) + 1 ELSE Len(P)
       /\ \A j \in 1..Len(P) : j # k /\ j # a => packet'[p][j] = P[j]
       /\ packet'[p][a].request = "null" /\ packet'[p][a].buff = P[a].buff
       /\ packet'[p][k].request = "active"
  BY <1>5, <1>6, <1>7, <1>11, <1>12
<1>. HIDE DEF P
<1>17. ASSUME NEW y \in Rank
       PROVE  /\ \A i \in DOMAIN sendBuf[p][y].list : packet'[p][sendBuf[p][y].list[i]] = packet[p][sendBuf[p][y].list[i]]
              /\ \A i \in DOMAIN recvBuf[p][y].list : packet'[p][recvBuf[p][y].list[i]] = packet[p][recvBuf[p][y].list[i]]
              /\ Waiting(p, y) /\ y # q => packet'[p][recvBuf[p][y].active] = packet[p][recvBuf[p][y].active]
  <2>1. \A i \in DOMAIN sendBuf[p][y].list : packet'[p][sendBuf[p][y].list[i]] = packet[p][sendBuf[p][y].list[i]]
    <3>. TAKE i \in DOMAIN sendBuf[p][y].list
    <3>1. sendBuf[p][y].list[i] # k
      BY <1>0, PoppedApart DEF k
    <3>2. sendBuf[p][y].list[i] # a
      BY <1>0, <1>1, PendingApart
    <3>3. sendBuf[p][y].list[i] \in 1..Len(P)
      BY <1>0, Places DEF P
    <3>. QED
      BY <1>16, <3>1, <3>2, <3>3 DEF P
  <2>2. \A i \in DOMAIN recvBuf[p][y].list : packet'[p][recvBuf[p][y].list[i]] = packet[p][recvBuf[p][y].list[i]]
    <3>. TAKE i \in DOMAIN recvBuf[p][y].list
    <3>1. recvBuf[p][y].list[i] # k
      BY <1>0, PoppedApart DEF k
    <3>2. recvBuf[p][y].list[i] # a
      BY <1>0, <1>1, PendingApart
    <3>3. recvBuf[p][y].list[i] \in 1..Len(P)
      BY <1>0, Places DEF P
    <3>. QED
      BY <1>16, <3>1, <3>2, <3>3 DEF P
  <2>3. ASSUME Waiting(p, y), y # q
        PROVE  packet'[p][recvBuf[p][y].active] = packet[p][recvBuf[p][y].active]
    <3>0. recvBuf[p][y].active # 0 /\ ~recvBuf[p][y].completed
      BY <1>0, <2>3 DEF BufferInv, BuffersRight
    <3>1. recvBuf[p][y].active # k
      BY <1>0, <3>0, PoppedApart DEF k
    <3>2. recvBuf[p][y].active # a
      BY <1>0, <1>1, <2>3, PendingApart
    <3>3. recvBuf[p][y].active \in 1..Len(P)
      BY <1>0, <2>3, PendingApart DEF P
    <3>. QED
      BY <1>16, <3>1, <3>2, <3>3 DEF P
  <2>. QED
    BY <2>1, <2>2, <2>3
<1>18. \A z \in Rank :
         /\ Left(z)' <=> Left(z)
         /\ \A y \in Rank :
              /\ Filled(z, y)' <=> Filled(z, y)
              /\ OnTheWay(z, y)' <=> OnTheWay(z, y)
              /\ HasSent(z, y)' <=> HasSent(z, y)
              /\ Waiting(z, y)' <=> Waiting(z, y)
              /\ Got(z, y)' <=> Got(z, y)
              /\ Tested(z, y)' <=> Tested(z, y)
  BY <1>10, SameStage
<1>19. \A x, z \in Rank : Served(x, z)' <=> Served(x, z)
  BY <1>10, SameServed
<1>20. \A y \in Rank : ~Tested(p, y)
  BY DEF ReceivePacket, Received, Tested
\* The list with the packet that came.
<1>21. /\ DOMAIN Append(b.list, a) = 1..m /\ Append(b.list, a)[m] = a /\ Len(Append(b.list, a)) = m
       /\ \A i \in 1..m : i # m => i \in DOMAIN b.list /\ Append(b.list, a)[i] = b.list[i]
  BY <1>3, <1>4, AppendFacts DEF m
<1>. HIDE DEF b, a, n
<1>22. TypeOK'
  BY <1>0, <1>10, <1>12, <1>13, <1>14 DEF TypeOK
<1>23. ControlInv' /\ BarrierInv'
  BY <1>0, <1>10, <1>18 DEF ControlInv, BarrierInv, Passed
<1>24. BufferInv'
  <2>. SUFFICES ASSUME NEW x \in Rank, NEW y \in Rank
                PROVE  BuffersRight(x, y)'
    BY DEF BufferInv
  <2>0. BuffersRight(x, y)
    BY <1>0 DEF BufferInv
  <2>1. CASE x # p \/ y # q
    BY <1>10, <1>14, <1>18, <2>0, <2>1, BuffersKept
  <2>2. CASE x = p /\ y = q
    <3>1. /\ recvBuf'[p][q].active # 0 /\ ~recvBuf'[p][q].completed /\ inbox'[p][q] = <<>>
          /\ Waiting(p, q)' /\ ~Got(p, q)'
      BY <1>1, <1>4, <1>6, <1>10, <1>15, <1>18
    <3>. QED
      BY <1>10, <1>18, <2>0, <2>2, <3>1 DEF BuffersRight
  <2>. QED
    BY <2>1, <2>2
<1>25. TidyInv'
  <2>. SUFFICES ASSUME NEW z \in Rank
                PROVE  Tidy(Shelves(z), Len(packet[z]))'
    BY DEF TidyInv
  <2>1. CASE z = p
    <3>1. Len(packet'[p]) = IF Popped(p) > Len(packet[p]) THEN Len(packet[p]) + 1 ELSE Len(packet[p])
      BY <1>16 DEF k, P
    <3>2. recvBuf'[p][q] = [recvBuf[p][q] EXCEPT !.list = Append(@, recvBuf[p][q].active), !.active = Popped(p)]
      BY <1>14 DEF b, a, k
    <3>3. recvBuf[p][q].active # 0 /\ ~recvBuf[p][q].completed
      BY <1>4 DEF b, a
    <3>4. \A y \in Rank : /\ y # q => recvBuf'[p][y] = recvBuf[p][y]
                          /\ sendBuf'[p][y].list = sendBuf[p][y].list
      BY <1>10, <1>14
    <3>5. Tidy(Shelves(p), Len(packet[p]))'
      BY <1>0, <1>13, <3>1, <3>2, <3>3, <3>4, TidyNext
    <3>. QED
      BY <2>1, <3>5
  <2>2. CASE z # p
    <3>1. /\ free'[z] = free[z] /\ Len(packet'[z]) = Len(packet[z])
          /\ \A y \in Rank : sendBuf'[z][y].list = sendBuf[z][y].list /\ recvBuf'[z][y] = recvBuf[z][y]
      BY <1>10, <1>12, <1>13, <1>14, <2>2
    <3>. QED
      BY <1>0, <3>1, TidySame
  <2>. QED
    BY <2>1, <2>2
<1>26. IdleInv'
  <2>. SUFFICES ASSUME NEW z \in Rank
                PROVE  PoolIdle(z)' /\ \A y \in Rank : BuffersIdle(z, y)'
    BY DEF IdleInv
  <2>0. PoolIdle(z) /\ \A y \in Rank : BuffersIdle(z, y)
    BY <1>0 DEF IdleInv
  <2>1. CASE z # p
    <3>1. PoolIdle(z)'
      BY <1>12, <1>13, <2>0, <2>1 DEF PoolIdle
    <3>2. ASSUME NEW y \in Rank
          PROVE  BuffersIdle(z, y)'
      <4>1. sendBuf'[z][y] = sendBuf[z][y] /\ recvBuf'[z][y] = recvBuf[z][y] /\ packet'[z] = packet[z]
        BY <1>10, <1>12, <1>14, <2>1
      <4>2. (Waiting(z, y)' <=> Waiting(z, y)) /\ (Tested(z, y)' <=> Tested(z, y))
        BY <1>18
      <4>3. BuffersIdle(z, y)
        BY <2>0
      <4>. QED
        BY <4>1, <4>2, <4>3, IdleKept
    <3>. QED
      BY <3>1, <3>2
  <2>2. CASE z = p
    <3>1. PoolIdle(p)'
      <4>. DEFINE rest == PoolAfterPop(free[p])
      <4>1. ASSUME NEW i \in DOMAIN rest
            PROVE  packet'[p][rest[i]].request = "null"
        <5>1. /\ rest[i] \in 1..Len(packet[p]) /\ rest[i] # k
          BY <1>0, PoppedApart DEF k
        <5>2. PICK j \in DOMAIN free[p] : rest[i] = free[p][j]
          BY <1>0, PoppedApart
        <5>3. free[p][j] # a
          BY <1>0, <1>1, PendingApart DEF a
        <5>4. packet[p][free[p][j]].request = "null"
          BY <2>0, <2>2 DEF PoolIdle
        <5>. HIDE DEF rest
        <5>. QED
          BY <1>16, <5>1, <5>2, <5>3, <5>4 DEF P
      <4>2. free'[p] = rest
        BY <1>13
      <4>. HIDE DEF rest
      <4>. QED
        BY <4>1, <4>2 DEF PoolIdle
    <3>2. ASSUME NEW y \in Rank, y # q
          PROVE  BuffersIdle(p, y)'
      <4>1. recvBuf'[p][y] = recvBuf[p][y] /\ BuffersIdle(p, y)
        BY <1>14, <2>0, <2>2, <3>2
      <4>2. /\ \A i \in DOMAIN recvBuf[p][y].list :
                 packet'[p][recvBuf[p][y].list[i]].request = packet[p][recvBuf[p][y].list[i]].request
            /\ Waiting(p, y)' => Waiting(p, y)
            /\ ~Tested(p, y)'
            /\ Waiting(p, y) => packet'[p][recvBuf[p][y].active].request = packet[p][recvBuf[p][y].active].request
        BY <1>17, <1>18, <1>20, <3>2
      <4>. QED
        BY <4>1, <4>2, IdleKept
    <3>3. BuffersIdle(p, q)'
      <4>1. \A i \in 1..m : packet'[p][Append(b.list, a)[i]].request = "null"
        <5>. TAKE i \in 1..m
        <5>1. CASE i = m
          BY <1>16, <1>21, <5>1
        <5>2. CASE i # m
          <6>1. i \in DOMAIN b.list /\ Append(b.list, a)[i] = b.list[i]
            BY <1>21, <5>2
          <6>2. packet'[p][b.list[i]] = packet[p][b.list[i]]
            BY <1>17, <6>1 DEF b
          <6>3. packet[p][b.list[i]].request = "null"
            BY <2>0, <2>2, <6>1 DEF BuffersIdle, b
          <6>. QED
            BY <6>1, <6>2, <6>3
        <5>. QED
          BY <5>1, <5>2
      <4>2. ~Tested(p, q)'
        BY <1>18, <1>20
      <4>. QED
        BY <1>15, <1>16, <1>21, <4>1, <4>2 DEF BuffersIdle
    <3>. QED
      BY <2>2, <3>1, <3>2, <3>3
  <2>. QED
    BY <2>1, <2>2
<1>27. SendInv'
  <2>. SUFFICES ASSUME NEW x \in Rank, NEW y \in Rank
                PROVE  Packed(x, y)'
    BY DEF SendInv
  <2>0. Packed(x, y)
    BY <1>0 DEF SendInv
  <2>1. CASE x # p
    BY <1>10, <1>12, <1>18, <2>0, <2>1, PackedKept
  <2>2. CASE x = p
    BY <1>10, <1>17, <1>18, <2>0, <2>2, PackedKept
  <2>. QED
    BY <2>1, <2>2
<1>28. \A x, y \in Rank : Delivered(x, y)' = Delivered(x, y)
  <2>. SUFFICES ASSUME NEW x \in Rank, NEW y \in Rank
                PROVE  Delivered(x, y)' = Delivered(x, y)
    OBVIOUS
  <2>1. CASE x = q /\ y = p
    <3>1. Delivered(q, p)' = Len(recvBuf'[p][q].list) + 0
      BY <1>1, <1>10, <1>15, <1>16, <1>18 DEF Delivered
    <3>. QED
      BY <1>1, <1>2, <1>15, <1>21, <2>1, <3>1
  <2>2. CASE y = p /\ x # q
    <3>1. /\ recvBuf'[p][x] = recvBuf[p][x]
          /\ Waiting(p, x) => packet'[p][recvBuf[p][x].active].request = packet[p][recvBuf[p][x].active].request
      BY <1>14, <1>17, <2>2
    <3>. QED
      BY <1>10, <1>18, <2>2, <3>1, DeliveredKept
  <2>3. CASE y # p
    BY <1>10, <1>12, <1>14, <1>18, <2>3, DeliveredKept
  <2>. QED
    BY <2>1, <2>2, <2>3
<1>29. WireInv'
  <2>. SUFFICES ASSUME NEW x \in Rank, NEW y \in Rank
                PROVE  OnWire(x, y)'
    BY DEF WireInv
  <2>1. OnWire(x, y)
    BY <1>0 DEF WireInv
  <2>2. \A i \in DOMAIN sendBuf[x][y].list :
          packet'[x][sendBuf[x][y].list[i]].buff = packet[x][sendBuf[x][y].list[i]].buff
    <3>1. CASE x = p
      BY <1>17, <3>1
    <3>2. CASE x # p
      BY <1>12, <3>2
    <3>. QED
      BY <3>1, <3>2
  <2>3. Delivered(x, y)' = Delivered(x, y)
    BY <1>28
  <2>. QED
    BY <1>0, <1>10, <1>18, <1>19, <2>1, <2>2, <2>3, OnWireKept
<1>30. ReadInv'
  <2>. SUFFICES ASSUME NEW x \in Rank, NEW y \in Rank
                PROVE  Reads(x, y)'
    BY DEF ReadInv
  <2>0. Reads(x, y)
    BY <1>0 DEF ReadInv
  <2>1. CASE x = q /\ y = p
    <3>1. \A i \in 1..m : i < n /\ packet'[p][Append(b.list, a)[i]].buff = WirePacket(q, p, round[p], i, n)
      <4>. TAKE i \in 1..m
      <4>1. CASE i = m
        BY <1>1, <1>2, <1>16, <1>21, <4>1
      <4>2. CASE i # m
        <5>1. i \in DOMAIN b.list /\ Append(b.list, a)[i] = b.list[i]
          BY <1>21, <4>2
        <5>2. packet'[p][b.list[i]] = packet[p][b.list[i]]
          BY <1>17, <5>1 DEF b
        <5>. QED
          BY <1>1, <5>1, <5>2 DEF P
      <4>. QED
        BY <4>1, <4>2
    <3>2. /\ Waiting(p, q)' /\ ~Got(p, q)' /\ OnTheWay(q, p)' /\ round'[q] = round[q] /\ round'[p] = round[p]
          /\ sendBuf'[q][p] = sendBuf[q][p]
      BY <1>1, <1>10, <1>18
    <3>. QED
      <4>1. /\ DOMAIN recvBuf'[p][q].list = 1..m
            /\ \A i \in 1..m : recvBuf'[p][q].list[i] = Append(b.list, a)[i]
            /\ packet'[p][recvBuf'[p][q].active].request = "active"
        BY <1>15, <1>16, <1>21
      <4>2. Len(sendBuf'[q][p].list) = n
        BY <3>2 DEF n
      <4>3. \A i \in DOMAIN recvBuf'[p][q].list :
              i < n /\ packet'[p][recvBuf'[p][q].list[i]].buff = WirePacket(q, p, round'[p], i, n)
        BY <3>1, <3>2, <4>1
      <4>4. Reads(q, p)'
        BY Zenon, <1>1, <3>2, <4>1, <4>2, <4>3 DEF Reads
      <4>. QED
        BY <2>1, <4>4
  <2>2. CASE x # q \/ y # p
    <3>1. recvBuf'[y][x] = recvBuf[y][x]
      BY <1>14, <2>2
    <3>2. /\ \A i \in DOMAIN recvBuf[y][x].list :
               packet'[y][recvBuf[y][x].list[i]].buff = packet[y][recvBuf[y][x].list[i]].buff
          /\ Waiting(y, x) => packet'[y][recvBuf[y][x].active] = packet[y][recvBuf[y][x].active]
      <4>1. CASE y = p
        BY <1>17, <2>2, <4>1
      <4>2. CASE y # p
        BY <1>12, <4>2
      <4>. QED
        BY <4>1, <4>2
    <3>. QED
      BY <1>10, <1>18, <2>0, <3>1, <3>2, ReadsKept
  <2>. QED
    BY <2>1, <2>2
<1>. QED
  BY <1>22, <1>23, <1>24, <1>25, <1>26, <1>27, <1>29, <1>30 DEF ExchangeInv

\* The message is complete: the buffer keeps its last packet and the unpack
\* function reads what its sender packed.
LEMMA ReceiveLastKeeps ==
  ASSUME ExchangeInv, NEW p \in Rank, NEW q \in Rank, ReceiveLast(p, q)
  PROVE  ExchangeInv'
PROOF
<1>. DEFINE b == recvBuf[p][q]
            a == recvBuf[p][q].active
            n == Len(sendBuf[q][p].list)
            m == Len(b.list) + 1
            P == packet[p]
            L == Append(b.list, a)
<1>0. TypeOK /\ ControlInv /\ BarrierInv /\ BufferInv /\ TidyInv /\ IdleInv /\ SendInv /\ WireInv /\ ReadInv
  BY DEF ExchangeInv
<1>1. /\ Waiting(p, q) /\ ~Got(p, q) /\ round[q] = round[p]
      /\ OnTheWay(q, p) /\ HasSent(q, p) /\ ~Served(q, p)
      /\ \A i \in DOMAIN b.list : i < n /\ P[b.list[i]].buff = WirePacket(q, p, round[p], i, n)
      /\ P[a].buff = WirePacket(q, p, round[p], m, n)
      /\ Len(chan[q][p]) + m = n
      /\ n <= MaxPackets /\ n \in Nat /\ Len(b.list) \in Nat /\ Len(chan[q][p]) \in Nat
  BY ArrivedFacts DEF ReceiveLast
<1>2. m = n /\ chan[q][p] = <<>> /\ m \in 1..MaxPackets
  <2>1. P[a].buff.eof
    BY DEF ReceiveLast
  <2>2. P[a].buff.eof = (m = n)
    BY <1>1 DEF WirePacket
  <2>3. m = n
    BY <2>1, <2>2
  <2>4. chan[q][p] \in Seq([ref : Nat, data : Wires])
    BY <1>0, Types
  <2>. DEFINE c == chan[q][p]
              l == Len(b.list)
              lc == Len(c)
  <2>5. lc + m = n /\ l \in Nat /\ lc \in Nat /\ n <= MaxPackets /\ m = l + 1
    BY <1>1
  <2>6. c = <<>> <=> lc = 0
    BY <2>4
  <2>7. MaxPackets \in Nat
    BY BoundAssumption
  <2>. HIDE DEF c, l, lc, m, n
  <2>8. lc = 0
    BY <2>3, <2>5
  <2>9. m \in 1..MaxPackets
    BY <2>3, <2>5, <2>7
  <2>. QED
    BY <2>3, <2>6, <2>8, <2>9 DEF c
<1>3. P \in Seq(Packets) /\ b.list \in Seq(Nat \ {0})
      /\ b \in [list : Seq(Nat \ {0}), active : Nat, completed : BOOLEAN]
  BY <1>0, Types
<1>4. a # 0 /\ ~b.completed /\ a \in Nat \ {0}
  BY <1>0, <1>1, <1>3 DEF BufferInv, BuffersRight
<1>5. a \in 1..Len(P)
  BY <1>0, <1>1, PendingApart
\* The list with the packet that came.
<1>6. /\ L \in Seq(Nat \ {0}) /\ DOMAIN L = 1..m /\ L[m] = a /\ Len(L) = m /\ L # <<>>
      /\ \A i \in 1..m : i # m => i \in DOMAIN b.list /\ L[i] = b.list[i]
  BY <1>3, <1>4, AppendFacts
<1>7. /\ pc[p] = "unpack" /\ pc' = pc /\ round' = round /\ entered' = entered /\ free' = free
      /\ sendBuf' = sendBuf /\ chan' = chan
      /\ todo' = [todo EXCEPT ![p] = @ \ {q}]
      /\ packet' = [packet EXCEPT ![p] = UnpackHeader(P, a)]
      /\ recvBuf' = [recvBuf EXCEPT ![p][q] = [list |-> L, active |-> ActivePacket(L), completed |-> TRUE]]
      /\ inbox' = [inbox EXCEPT ![p][q] = [i \in DOMAIN L |-> P[L[i]].buff.body]]
  BY <1>0 DEF ReceiveLast, Received, TypeOK
<1>8. \A i \in 1..m : P[L[i]].buff = WirePacket(q, p, round[p], i, n) /\ P[L[i]].buff.body = <<q, p, round[p], i>>
  <2>. TAKE i \in 1..m
  <2>1. P[L[i]].buff = WirePacket(q, p, round[p], i, n)
    <3>1. CASE i = m
      BY <1>1, <1>6, <3>1
    <3>2. CASE i # m
      BY <1>1, <1>6, <3>2
    <3>. QED
      BY <3>1, <3>2
  <2>. QED
    BY <2>1 DEF WirePacket
<1>. HIDE DEF L, m
<1>9. /\ packet' \in [Rank -> Seq(Packets)] /\ packet'[p] = UnpackHeader(P, a)
      /\ \A z \in Rank : z # p => packet'[z] = packet[z]
  <2>. DEFINE v == UnpackHeader(P, a)
  <2>1. v \in Seq(Packets)
    <3>. HIDE DEF P, a
    <3>. QED
      BY <1>3, <1>5, UnpackHeaderFacts DEF P
  <2>2. packet \in [Rank -> Seq(Packets)] /\ packet' = [packet EXCEPT ![p] = v]
    BY <1>0, <1>7 DEF TypeOK
  <2>. HIDE DEF v
  <2>3. /\ packet' \in [Rank -> Seq(Packets)] /\ packet'[p] = v
        /\ \A z \in Rank : z # p => packet'[z] = packet[z]
    BY <2>1, <2>2, SetOne
  <2>. QED
    BY <2>3 DEF v
<1>10. /\ Len(packet'[p]) = Len(P)
       /\ \A j \in 1..Len(P) : j # a => packet'[p][j] = P[j]
       /\ packet'[p][a].request = "null" /\ packet'[p][a].buff = P[a].buff
  <2>1. P \in Seq(Packets) /\ a \in 1..Len(P) /\ packet'[p] = UnpackHeader(P, a)
    BY <1>3, <1>5, <1>9
  <2>. HIDE DEF P, a
  <2>. QED
    BY <2>1, UnpackHeaderFacts DEF P
<1>11. /\ recvBuf' \in [Rank -> [Rank -> [list : Seq(Nat \ {0}), active : Nat, completed : BOOLEAN]]]
       /\ recvBuf'[p][q].list = L /\ recvBuf'[p][q].completed
       /\ \A x, y \in Rank : x # p \/ y # q => recvBuf'[x][y] = recvBuf[x][y]
  <2>. DEFINE T == [list : Seq(Nat \ {0}), active : Nat, completed : BOOLEAN]
              v == [list |-> L, active |-> ActivePacket(L), completed |-> TRUE]
  <2>1. recvBuf \in [Rank -> [Rank -> T]]
    BY <1>0 DEF TypeOK
  <2>2. v \in T
    <3>1. ActivePacket(L) = a
      BY <1>6 DEF ActivePacket
    <3>2. L \in Seq(Nat \ {0}) /\ a \in Nat
      BY <1>4, <1>6
    <3>. QED
      BY <3>1, <3>2
  <2>3. recvBuf' = [recvBuf EXCEPT ![p][q] = v]
    BY <1>7
  <2>4. v.list = L /\ v.completed
    OBVIOUS
  <2>. HIDE DEF T, v
  <2>5. /\ recvBuf' \in [Rank -> [Rank -> T]] /\ recvBuf'[p][q] = v
        /\ \A x, y \in Rank : x # p \/ y # q => recvBuf'[x][y] = recvBuf[x][y]
    BY <2>1, <2>2, <2>3, SetPair
  <2>. QED
    BY <2>4, <2>5 DEF T
<1>12. /\ inbox' \in [Rank -> [Rank -> Seq(Bodies)]]
       /\ inbox'[p][q] = [i \in 1..m |-> <<q, p, round[p], i>>]
       /\ \A x, y \in Rank : x # p \/ y # q => inbox'[x][y] = inbox[x][y]
  <2>. DEFINE T == Seq(Bodies)
              v == [i \in 1..m |-> <<q, p, round[p], i>>]
  <2>1. inbox \in [Rank -> [Rank -> T]]
    BY <1>0 DEF TypeOK
  <2>2. v \in T
    <3>1. \A i \in 1..m : <<q, p, round[p], i>> \in Bodies
      <4>1. round[p] \in 1..MaxRound
        BY <1>0, <1>7, EnteredBound
      <4>2. \A i \in 1..m : i \in 1..MaxPackets
        BY <1>2, BoundAssumption
      <4>. QED
        BY <4>1, <4>2 DEF Bodies
    <3>2. m \in Nat
      BY <1>2, BoundAssumption
    <3>. QED
      BY <3>1, <3>2
  <2>3. [i \in DOMAIN L |-> P[L[i]].buff.body] = v
    BY <1>6, <1>8
  <2>4. inbox' = [inbox EXCEPT ![p][q] = v]
    BY <1>7, <2>3
  <2>. HIDE DEF T, v
  <2>5. /\ inbox' \in [Rank -> [Rank -> T]] /\ inbox'[p][q] = v
        /\ \A x, y \in Rank : x # p \/ y # q => inbox'[x][y] = inbox[x][y]
    BY <2>1, <2>2, <2>4, SetPair
  <2>. QED
    BY <2>5 DEF T, v
<1>13. /\ Waiting(p, q) /\ ~Waiting(p, q)' /\ ~Got(p, q) /\ Got(p, q)'
       /\ \A y \in Rank :
            /\ Filled(p, y) /\ Filled(p, y)'
            /\ OnTheWay(p, y) /\ OnTheWay(p, y)' /\ HasSent(p, y) /\ HasSent(p, y)'
            /\ ~Tested(p, y) /\ ~Tested(p, y)'
            /\ y # q => /\ Waiting(p, y)' <=> Waiting(p, y)
                        /\ Got(p, y)' <=> Got(p, y)
       /\ \A x \in Rank : x # q => (Served(x, p)' <=> Served(x, p))
       /\ Served(q, p)'
       /\ ~Left(p) /\ ~Left(p)'
  BY <1>0, <1>1, ReceiveLastStage
<1>14. \A z \in Rank : z # p => pc'[z] = pc[z] /\ todo'[z] = todo[z]
  BY <1>0, <1>7 DEF TypeOK
<1>15. \A z \in Rank : z # p =>
         /\ Left(z)' <=> Left(z)
         /\ \A y \in Rank :
              /\ Filled(z, y)' <=> Filled(z, y)
              /\ OnTheWay(z, y)' <=> OnTheWay(z, y)
              /\ HasSent(z, y)' <=> HasSent(z, y)
              /\ Waiting(z, y)' <=> Waiting(z, y)
              /\ Got(z, y)' <=> Got(z, y)
              /\ Tested(z, y)' <=> Tested(z, y)
  BY <1>14, OthersStage
<1>16. \A x, z \in Rank : x # q \/ z # p => (Served(x, z)' <=> Served(x, z))
  BY <1>7, <1>13, <1>14, SameServed
<1>17. ASSUME NEW y \in Rank
       PROVE  /\ \A i \in DOMAIN free[p] : packet'[p][free[p][i]] = packet[p][free[p][i]]
              /\ \A i \in DOMAIN sendBuf[p][y].list : packet'[p][sendBuf[p][y].list[i]] = packet[p][sendBuf[p][y].list[i]]
              /\ \A i \in DOMAIN recvBuf[p][y].list : packet'[p][recvBuf[p][y].list[i]] = packet[p][recvBuf[p][y].list[i]]
              /\ Waiting(p, y) /\ y # q => packet'[p][recvBuf[p][y].active] = packet[p][recvBuf[p][y].active]
  <2>1. /\ \A i \in DOMAIN free[p] : free[p][i] \in 1..Len(P)
        /\ \A i \in DOMAIN sendBuf[p][y].list : sendBuf[p][y].list[i] \in 1..Len(P)
        /\ \A i \in DOMAIN recvBuf[p][y].list : recvBuf[p][y].list[i] \in 1..Len(P)
    BY <1>0, Places
  <2>2. /\ \A i \in DOMAIN free[p] : free[p][i] # a
        /\ \A i \in DOMAIN sendBuf[p][y].list : sendBuf[p][y].list[i] # a
        /\ \A i \in DOMAIN recvBuf[p][y].list : recvBuf[p][y].list[i] # a
        /\ Waiting(p, y) /\ y # q => recvBuf[p][y].active # a
    BY <1>0, <1>1, PendingApart
  <2>3. Waiting(p, y) => recvBuf[p][y].active \in 1..Len(P)
    BY <1>0, PendingApart
  <2>. HIDE DEF a
  <2>4. \A i \in DOMAIN free[p] : packet'[p][free[p][i]] = packet[p][free[p][i]]
    BY <1>10, <2>1, <2>2
  <2>5. \A i \in DOMAIN sendBuf[p][y].list : packet'[p][sendBuf[p][y].list[i]] = packet[p][sendBuf[p][y].list[i]]
    BY <1>10, <2>1, <2>2
  <2>6. \A i \in DOMAIN recvBuf[p][y].list : packet'[p][recvBuf[p][y].list[i]] = packet[p][recvBuf[p][y].list[i]]
    BY <1>10, <2>1, <2>2
  <2>7. Waiting(p, y) /\ y # q => packet'[p][recvBuf[p][y].active] = packet[p][recvBuf[p][y].active]
    BY <1>10, <2>2, <2>3
  <2>. QED
    BY <2>4, <2>5, <2>6, <2>7
<1>18. \A z \in Rank : Len(packet'[z]) = Len(packet[z])
  BY <1>9, <1>10
<1>19. \A i \in 1..m : packet'[p][L[i]].request = "null"
  <2>. TAKE i \in 1..m
  <2>1. CASE i = m
    BY <1>6, <1>10, <2>1
  <2>2. CASE i # m
    <3>1. i \in DOMAIN b.list /\ L[i] = b.list[i]
      BY <1>6, <2>2
    <3>2. packet'[p][b.list[i]] = packet[p][b.list[i]]
      BY <1>17, <3>1
    <3>3. packet[p][b.list[i]].request = "null"
      BY <1>0, <3>1 DEF IdleInv, BuffersIdle
    <3>. QED
      BY <3>1, <3>2, <3>3
  <2>. QED
    BY <2>1, <2>2
<1>. HIDE DEF b, a, n, P
<1>20. TypeOK'
  <2>1. todo' \in [Rank -> SUBSET Rank]
    BY <1>0, <1>7 DEF TypeOK
  <2>. QED
    BY <1>0, <1>7, <1>9, <1>11, <1>12, <2>1 DEF TypeOK
<1>21. ControlInv' /\ BarrierInv'
  <2>1. ControlInv'
    BY <1>0, <1>7, <1>14 DEF ControlInv
  <2>2. BarrierInv'
    BY <1>0, <1>7, <1>13, <1>15 DEF BarrierInv, Passed
  <2>. QED
    BY <2>1, <2>2
<1>22. BufferInv'
  <2>. SUFFICES ASSUME NEW x \in Rank, NEW y \in Rank
                PROVE  BuffersRight(x, y)'
    BY DEF BufferInv
  <2>0. BuffersRight(x, y)
    BY <1>0 DEF BufferInv
  <2>1. CASE x # p \/ y # q
    <3>1. /\ Filled(x, y)' <=> Filled(x, y)
          /\ Waiting(x, y)' <=> Waiting(x, y)
          /\ Got(x, y)' <=> Got(x, y)
      BY <1>13, <1>15, <2>1
    <3>2. /\ sendBuf'[x][y].list = sendBuf[x][y].list /\ recvBuf'[x][y] = recvBuf[x][y]
          /\ inbox'[x][y] = inbox[x][y]
      BY <1>7, <1>11, <1>12, <2>1
    <3>. QED
      BY <2>0, <3>1, <3>2, BuffersKept
  <2>2. CASE x = p /\ y = q
    BY <1>7, <1>11, <1>13, <2>0, <2>2 DEF BuffersRight
  <2>. QED
    BY <2>1, <2>2
<1>23. TidyInv'
  <2>. SUFFICES ASSUME NEW z \in Rank
                PROVE  Tidy(Shelves(z), Len(packet[z]))'
    BY DEF TidyInv
  <2>1. CASE z = p
    <3>1. free'[p] = free[p] /\ Len(packet'[p]) = Len(packet[p])
      BY <1>7, <1>18
    <3>2. recvBuf'[p][q].list = Append(recvBuf[p][q].list, recvBuf[p][q].active)
      BY <1>11 DEF L, b, a
    <3>3. recvBuf[p][q].active # 0 /\ ~recvBuf[p][q].completed
      BY <1>4 DEF b, a
    <3>4. \A y \in Rank : /\ y # q => recvBuf'[p][y] = recvBuf[p][y]
                          /\ sendBuf'[p][y].list = sendBuf[p][y].list
      BY <1>7, <1>11
    <3>5. Tidy(Shelves(p), Len(packet[p]))'
      BY <1>0, <1>11, <3>1, <3>2, <3>3, <3>4, TidyLast
    <3>. QED
      BY <2>1, <3>5
  <2>2. CASE z # p
    <3>1. /\ free'[z] = free[z] /\ Len(packet'[z]) = Len(packet[z])
          /\ \A y \in Rank : sendBuf'[z][y].list = sendBuf[z][y].list /\ recvBuf'[z][y] = recvBuf[z][y]
      BY <1>7, <1>11, <1>18, <2>2
    <3>. QED
      BY <1>0, <3>1, TidySame
  <2>. QED
    BY <2>1, <2>2
<1>24. IdleInv'
  <2>. SUFFICES ASSUME NEW z \in Rank
                PROVE  PoolIdle(z)' /\ \A y \in Rank : BuffersIdle(z, y)'
    BY DEF IdleInv
  <2>0. PoolIdle(z) /\ \A y \in Rank : BuffersIdle(z, y)
    BY <1>0 DEF IdleInv
  <2>1. PoolIdle(z)'
    <3>1. \A i \in DOMAIN free[z] : packet'[z][free[z][i]] = packet[z][free[z][i]]
      BY <1>9, <1>17
    <3>. QED
      BY <1>7, <2>0, <3>1 DEF PoolIdle
  <2>2. ASSUME NEW y \in Rank
        PROVE  BuffersIdle(z, y)'
    <3>0. BuffersIdle(z, y)
      BY <2>0
    <3>1. CASE z # p
      BY <1>7, <1>9, <1>11, <1>15, <3>0, <3>1, IdleKept
    <3>2. CASE z = p /\ y # q
      <4>1. recvBuf'[p][y] = recvBuf[p][y]
        BY <1>11, <3>2
      <4>. QED
        BY <1>7, <1>13, <1>17, <3>0, <3>2, <4>1, IdleKept
    <3>3. CASE z = p /\ y = q
      BY <1>6, <1>11, <1>13, <1>19, <3>3 DEF BuffersIdle
    <3>. QED
      BY <3>1, <3>2, <3>3
  <2>. QED
    BY <2>1, <2>2
<1>25. SendInv'
  <2>. SUFFICES ASSUME NEW x \in Rank, NEW y \in Rank
                PROVE  Packed(x, y)'
    BY DEF SendInv
  <2>0. Packed(x, y)
    BY <1>0 DEF SendInv
  <2>1. CASE x # p
    BY <1>7, <1>9, <1>15, <2>0, <2>1, PackedKept
  <2>2. CASE x = p
    BY <1>7, <1>13, <1>17, <2>0, <2>2, PackedKept
  <2>. QED
    BY <2>1, <2>2
<1>26. WireInv'
  <2>. SUFFICES ASSUME NEW x \in Rank, NEW y \in Rank
                PROVE  OnWire(x, y)'
    BY DEF WireInv
  <2>0. OnWire(x, y)
    BY <1>0 DEF WireInv
  <2>1. CASE x = q /\ y = p
    BY <1>2, <1>7, <1>13, <2>1 DEF OnWire
  <2>2. CASE x # q \/ y # p
    <3>1. Delivered(x, y)' = Delivered(x, y)
      <4>1. CASE y = p
        <5>1. /\ recvBuf'[p][x] = recvBuf[p][x]
              /\ Waiting(p, x) => packet'[p][recvBuf[p][x].active].request = packet[p][recvBuf[p][x].active].request
              /\ Waiting(p, x)' <=> Waiting(p, x)
          BY <1>11, <1>13, <1>17, <2>2, <4>1
        <5>. QED
          BY <1>7, <4>1, <5>1, DeliveredKept
      <4>2. CASE y # p
        BY <1>7, <1>9, <1>11, <1>15, <4>2, DeliveredKept
      <4>. QED
        BY <4>1, <4>2
    <3>2. \A i \in DOMAIN sendBuf[x][y].list :
            packet'[x][sendBuf[x][y].list[i]].buff = packet[x][sendBuf[x][y].list[i]].buff
      BY <1>9, <1>17
    <3>3. (OnTheWay(x, y)' <=> OnTheWay(x, y)) /\ (Served(x, y)' <=> Served(x, y))
      BY <1>13, <1>15, <1>16, <2>2
    <3>. QED
      BY <1>0, <1>7, <2>0, <3>1, <3>2, <3>3, OnWireKept
  <2>. QED
    BY <2>1, <2>2
<1>27. ReadInv'
  <2>. SUFFICES ASSUME NEW x \in Rank, NEW y \in Rank
                PROVE  Reads(x, y)'
    BY DEF ReadInv
  <2>0. Reads(x, y)
    BY <1>0 DEF ReadInv
  <2>1. CASE x = q /\ y = p
    <3>1. HasSent(q, p)'
      BY <1>1, <1>13, <1>15
    <3>2. /\ ~Waiting(p, q)' /\ round'[q] = round'[p] /\ round'[p] = round[p] /\ round'[q] <= round'[p]
          /\ sendBuf'[q][p] = sendBuf[q][p]
      <4>1. round[p] \in Nat
        BY <1>0, Types
      <4>. QED
        BY <1>1, <1>7, <1>13, <4>1
    <3>3. /\ L # <<>> /\ inbox'[p][q] = [i \in DOMAIN L |-> <<q, p, round'[p], i>>] /\ Len(L) = n
      BY <1>2, <1>6, <1>7, <1>12
    <3>. QED
      BY <1>11, <2>1, <3>1, <3>2, <3>3 DEF Reads, n
  <2>2. CASE x # q \/ y # p
    <3>1. recvBuf'[y][x] = recvBuf[y][x] /\ inbox'[y][x] = inbox[y][x]
      BY <1>11, <1>12, <2>2
    <3>2. /\ \A i \in DOMAIN recvBuf[y][x].list :
               packet'[y][recvBuf[y][x].list[i]].buff = packet[y][recvBuf[y][x].list[i]].buff
          /\ Waiting(y, x) => packet'[y][recvBuf[y][x].active] = packet[y][recvBuf[y][x].active]
      BY <1>9, <1>17, <2>2
    <3>3. /\ Waiting(y, x)' <=> Waiting(y, x)
          /\ Got(y, x)' <=> Got(y, x)
          /\ OnTheWay(x, y)' <=> OnTheWay(x, y)
          /\ HasSent(x, y) => HasSent(x, y)'
          /\ Filled(x, y)' <=> Filled(x, y)
      BY <1>13, <1>15, <2>2
    <3>. QED
      BY <1>7, <2>0, <3>1, <3>2, <3>3, ReadsKept
  <2>. QED
    BY <2>1, <2>2
<1>. QED
  BY <1>20, <1>21, <1>22, <1>23, <1>24, <1>25, <1>26, <1>27 DEF ExchangeInv

-------------------------------------------------------------------------------
(* initExchange *)

\* The sends of a message, before MPI has copied any of them.
LEMMA SendEntriesFacts ==
  ASSUME NEW list \in Seq(Nat)
  PROVE  /\ SendEntries(list) \in Seq([ref : Nat, data : Wires])
         /\ Len(SendEntries(list)) = Len(list) /\ DOMAIN SendEntries(list) = DOMAIN list
         /\ \A i \in DOMAIN list : SendEntries(list)[i].ref = list[i]
PROOF
<1>. DEFINE T == [ref : Nat, data : Wires]
            e(i) == [ref |-> list[i], data |-> Blank]
<1>1. \A i \in 1..Len(list) : e(i) \in T /\ e(i).ref = list[i]
  BY FreshTypes
<1>2. DOMAIN list = 1..Len(list) /\ Len(list) \in Nat
  OBVIOUS
<1>3. SendEntries(list) = [i \in 1..Len(list) |-> e(i)]
  BY <1>2 DEF SendEntries
<1>. HIDE DEF e, T
<1>4. SendEntries(list) \in Seq(T) /\ Len(SendEntries(list)) = Len(list) /\ DOMAIN SendEntries(list) = 1..Len(list)
  BY <1>1, <1>2, <1>3
<1>5. \A i \in 1..Len(list) : SendEntries(list)[i].ref = list[i]
  BY <1>1, <1>3
<1>. QED
  BY <1>2, <1>4, <1>5 DEF T

\* Nobody has a message that has not been sent yet.
LEMMA NotServedYet ==
  ASSUME ExchangeInv, NEW p \in Rank, NEW q \in Rank, pc[p] = "init", ~HasSent(p, q)
  PROVE  ~Served(p, q)
PROOF
<1>0. TypeOK /\ ControlInv /\ BarrierInv /\ ReadInv
  BY DEF ExchangeInv
<1>1. round[p] \in Nat /\ round[q] \in Nat /\ entered[p] = round[p] - 1
  BY <1>0, Types DEF ControlInv
<1>2. Passed(q) <= round[p] - 1
  BY <1>0, <1>1 DEF BarrierInv
<1>3. ~Left(q) => round[q] <= round[p]
  BY <1>1, <1>2 DEF Passed
<1>4. Left(q) => round[q] < round[p]
  BY <1>1, <1>2 DEF Passed
<1>5. ASSUME round[q] = round[p], pc[q] = "barrier" \/ (pc[q] = "unpack" /\ p \notin todo[q])
      PROVE  FALSE
  <2>1. Got(q, p)
    BY <1>5 DEF Got
  <2>. QED
    BY <1>0, <1>5, <2>1 DEF ReadInv, Reads
<1>. QED
  BY <1>1, <1>3, <1>4, <1>5 DEF Served, Left

\* What a process that is about to send finds.
LEMMA BeforeSending ==
  ASSUME ExchangeInv, NEW p \in Rank, NEW q \in Rank, InitExchange(p, q)
  PROVE  /\ recvBuf[p][q] = EmptyRecvBuf /\ inbox[p][q] = <<>> /\ chan[p][q] = <<>>
         /\ sendBuf[p][q].list # <<>> /\ ~Served(p, q)
         /\ \A i \in DOMAIN sendBuf[p][q].list :
              /\ packet[p][sendBuf[p][q].list[i]].number = i /\ ~packet[p][sendBuf[p][q].list[i]].eof
              /\ packet[p][sendBuf[p][q].list[i]].buff.body = <<p, q, round[p], i>>
         /\ Waiting(q, p) => recvBuf[q][p].list = <<>> /\ packet[q][recvBuf[q][p].active].request = "active"
PROOF
<1>0. TypeOK /\ BufferInv /\ SendInv /\ WireInv /\ ReadInv
  BY DEF ExchangeInv
<1>1. /\ ~OnTheWay(p, q) /\ ~HasSent(p, q) /\ ~Waiting(p, q) /\ Filled(p, q) /\ ~Got(p, q)
      /\ pc[p] = "init"
  BY <1>0, InitExchangeStage DEF InitExchange
<1>2. recvBuf[p][q] = EmptyRecvBuf /\ inbox[p][q] = <<>> /\ sendBuf[p][q].list # <<>>
  BY <1>0, <1>1 DEF BufferInv, BuffersRight
<1>3. chan[p][q] = <<>>
  BY <1>0, <1>1 DEF WireInv, OnWire
<1>4. ~Served(p, q)
  BY <1>1, NotServedYet
<1>5. \A i \in DOMAIN sendBuf[p][q].list :
        /\ packet[p][sendBuf[p][q].list[i]].number = i /\ ~packet[p][sendBuf[p][q].list[i]].eof
        /\ packet[p][sendBuf[p][q].list[i]].buff.body = <<p, q, round[p], i>>
  <2>1. Packed(p, q) /\ ~HasSent(p, q)
    BY <1>0, <1>1 DEF SendInv
  <2>. QED
    BY <2>1 DEF Packed
<1>6. Waiting(q, p) => recvBuf[q][p].list = <<>> /\ packet[q][recvBuf[q][p].active].request = "active"
  BY <1>0, <1>1 DEF ReadInv, Reads
<1>. QED
  BY <1>2, <1>3, <1>4, <1>5, <1>6

\* What initExchange does to the memory of p: the packets of the message carry
\* their headers, one more packet waits for data, nothing else changes.
LEMMA InitExchangeMemory ==
  ASSUME ExchangeInv, NEW p \in Rank, NEW q \in Rank, InitExchange(p, q)
  PROVE  /\ packet' \in [Rank -> Seq(Packets)] /\ free' \in [Rank -> Seq(Nat \ {0})]
         /\ \A z \in Rank : z # p => packet'[z] = packet[z] /\ free'[z] = free[z]
         /\ free'[p] = PoolAfterPop(free[p])
         /\ Len(packet'[p]) = IF Popped(p) > Len(packet[p]) THEN Len(packet[p]) + 1 ELSE Len(packet[p])
         /\ \A j \in 1..Len(packet[p]) :
              j # Popped(p) /\ (\A i \in DOMAIN sendBuf[p][q].list : sendBuf[p][q].list[i] # j)
              => packet'[p][j] = packet[p][j]
         /\ \A i \in DOMAIN sendBuf[p][q].list :
              packet'[p][sendBuf[p][q].list[i]].buff
                = WirePacket(p, q, round[p], i, Len(sendBuf[p][q].list))
         /\ packet'[p][Popped(p)].request = "active"
PROOF
<1>. DEFINE k == Popped(p)
            P == packet[p]
            list == sendBuf[p][q].list
            n == Len(list)
            heap == SentHeap(P, list)
            N == PostReceive(heap, k, 1)
<1>0. TypeOK /\ BufferInv /\ TidyInv
  BY DEF ExchangeInv
<1>1. /\ recvBuf[p][q].list = <<>> /\ list # <<>>
      /\ \A i \in DOMAIN list : P[list[i]].number = i /\ ~P[list[i]].eof
                                /\ P[list[i]].buff.body = <<p, q, round[p], i>>
  <2>1. recvBuf[p][q] = EmptyRecvBuf
    BY BeforeSending
  <2>2. list # <<>>
    BY BeforeSending
  <2>3. \A i \in DOMAIN list : P[list[i]].number = i /\ ~P[list[i]].eof
                               /\ P[list[i]].buff.body = <<p, q, round[p], i>>
    BY BeforeSending
  <2>4. recvBuf[p][q].list = <<>>
    BY <2>1 DEF EmptyRecvBuf
  <2>. QED
    BY <2>2, <2>3, <2>4
<1>2. P \in Seq(Packets) /\ list \in Seq(Nat) /\ free[p] \in Seq(Nat \ {0})
  BY <1>0, Types
<1>3. k \in 1..(Len(P) + 1) /\ PoolAfterPop(free[p]) \in Seq(Nat \ {0})
      /\ \A i \in DOMAIN list : list[i] # k
  BY <1>0, PoppedApart
<1>4. Clear(free[p], recvBuf[p][q].list) = free[p]
  <2>1. free[p] \o <<>> = free[p]
    BY <1>2
  <2>. QED
    BY <1>1, <2>1 DEF Clear
<1>5. \A i \in DOMAIN list : list[i] \in 1..Len(P)
  BY <1>0, Places
<1>6. \A i \in DOMAIN list, j \in DOMAIN list : list[i] = list[j] => i = j
  BY <1>0, Apart
<1>7. n \in DOMAIN list /\ n \in Nat
  <2>1. list # <<>> /\ list \in Seq(Nat)
    BY <1>1, <1>2
  <2>. HIDE DEF list
  <2>. QED
    BY <2>1
<1>. HIDE DEF P, list, k
<1>8. /\ heap \in Seq(Packets) /\ Len(heap) = Len(P)
      /\ \A j \in 1..Len(P) : (\A i \in DOMAIN list : list[i] # j) => heap[j] = P[j]
  BY <1>2, SentHeapFacts
<1>9. \A i \in DOMAIN list : heap[list[i]].buff = WirePacket(p, q, round[p], i, n)
  <2>. TAKE i \in DOMAIN list
  <2>1. /\ heap[list[i]].buff.number = P[list[i]].number
        /\ heap[list[i]].buff.eof <=> P[list[i]].eof \/ list[i] = list[Len(list)]
        /\ heap[list[i]].buff.body = P[list[i]].buff.body
    BY <1>2, <1>5, SentHeapFacts
  <2>2. heap[list[i]].buff \in Wires
    <3>1. list[i] \in 1..Len(heap)
      BY <1>5, <1>8
    <3>. HIDE DEF heap
    <3>2. heap[list[i]] \in Packets
      BY <1>8, <3>1
    <3>. QED
      BY <3>2, PacketTypes
  <2>3. list[i] = list[Len(list)] <=> i = n
    BY <1>6, <1>7
  <2>. HIDE DEF heap, n
  <2>4. /\ heap[list[i]].buff.number = i
        /\ heap[list[i]].buff.eof <=> i = n
        /\ heap[list[i]].buff.body = <<p, q, round[p], i>>
    BY <1>1, <2>1, <2>3
  <2>. QED
    BY <2>2, <2>4, WireEqual
<1>10. /\ packet' = [packet EXCEPT ![p] = N]
       /\ free' = [free EXCEPT ![p] = PoolAfterPop(free[p])]
  <2>1. PopPacket(heap, free[p]) = k
    BY <1>8 DEF PopPacket, Popped, k, P
  <2>. QED
    BY <1>4, <2>1 DEF InitExchange, P, list
<1>. HIDE DEF heap
<1>11. /\ N \in Seq(Packets)
       /\ Len(N) = IF k > Len(P) THEN Len(P) + 1 ELSE Len(P)
       /\ \A j \in 1..Len(P) : j # k => N[j] = heap[j]
       /\ N[k].request = "active"
  <2>1. k \in 1..(Len(heap) + 1)
    BY <1>3, <1>8
  <2>2. 1 \in 0..MaxPackets
    BY BoundAssumption
  <2>. QED
    BY <1>8, <2>1, <2>2, PostReceiveFacts
<1>. HIDE DEF N
<1>12. /\ packet' \in [Rank -> Seq(Packets)] /\ packet'[p] = N
       /\ \A z \in Rank : z # p => packet'[z] = packet[z]
  <2>1. packet \in [Rank -> Seq(Packets)]
    BY <1>0 DEF TypeOK
  <2>. QED
    BY <1>10, <1>11, <2>1, SetOne
<1>13. /\ free' \in [Rank -> Seq(Nat \ {0})] /\ free'[p] = PoolAfterPop(free[p])
       /\ \A z \in Rank : z # p => free'[z] = free[z]
  BY <1>0, <1>3, <1>10, SetOne DEF TypeOK
<1>14. \A j \in 1..Len(P) : j # k /\ (\A i \in DOMAIN list : list[i] # j) => packet'[p][j] = P[j]
  BY <1>8, <1>11, <1>12
<1>15. \A i \in DOMAIN list : packet'[p][list[i]].buff = WirePacket(p, q, round[p], i, n)
  BY <1>3, <1>5, <1>9, <1>11, <1>12
<1>. QED
  BY <1>11, <1>12, <1>13, <1>14, <1>15 DEF P, k, list

\* initExchange of one peer puts the whole message on the wire and posts the
\* first receive: the invariant holds on.
LEMMA InitExchangeKeeps ==
  ASSUME ExchangeInv, NEW p \in Rank, NEW q \in Rank, InitExchange(p, q)
  PROVE  ExchangeInv'
PROOF
<1>. DEFINE k == Popped(p)
            P == packet[p]
            list == sendBuf[p][q].list
            n == Len(list)
<1>0. TypeOK /\ ControlInv /\ BarrierInv /\ BufferInv /\ TidyInv /\ IdleInv /\ SendInv /\ WireInv /\ ReadInv
  BY DEF ExchangeInv
<1>1. /\ recvBuf[p][q] = EmptyRecvBuf /\ inbox[p][q] = <<>> /\ chan[p][q] = <<>>
      /\ list # <<>> /\ ~Served(p, q)
      /\ \A i \in DOMAIN list : P[list[i]].buff.body = <<p, q, round[p], i>>
      /\ Waiting(q, p) => recvBuf[q][p].list = <<>> /\ packet[q][recvBuf[q][p].active].request = "active"
  <2>1. recvBuf[p][q] = EmptyRecvBuf /\ inbox[p][q] = <<>> /\ chan[p][q] = <<>> /\ list # <<>> /\ ~Served(p, q)
    BY BeforeSending
  <2>2. \A i \in DOMAIN list : P[list[i]].buff.body = <<p, q, round[p], i>>
    BY BeforeSending
  <2>3. Waiting(q, p) => recvBuf[q][p].list = <<>> /\ packet[q][recvBuf[q][p].active].request = "active"
    BY BeforeSending
  <2>. QED
    BY <2>1, <2>2, <2>3
<1>2. /\ packet' \in [Rank -> Seq(Packets)] /\ free' \in [Rank -> Seq(Nat \ {0})]
      /\ \A z \in Rank : z # p => packet'[z] = packet[z] /\ free'[z] = free[z]
      /\ free'[p] = PoolAfterPop(free[p])
      /\ Len(packet'[p]) = IF k > Len(P) THEN Len(P) + 1 ELSE Len(P)
      /\ \A j \in 1..Len(P) : j # k /\ (\A i \in DOMAIN list : list[i] # j) => packet'[p][j] = P[j]
      /\ \A i \in DOMAIN list : packet'[p][list[i]].buff = WirePacket(p, q, round[p], i, n)
      /\ packet'[p][k].request = "active"
  BY InitExchangeMemory
<1>3. /\ ~OnTheWay(p, q) /\ OnTheWay(p, q)' /\ ~HasSent(p, q) /\ HasSent(p, q)'
      /\ ~Waiting(p, q) /\ Waiting(p, q)'
      /\ \A y \in Rank :
           /\ Filled(p, y) /\ Filled(p, y)' /\ ~Got(p, y) /\ ~Got(p, y)'
           /\ ~Tested(p, y) /\ ~Tested(p, y)'
           /\ y # q => /\ OnTheWay(p, y)' <=> OnTheWay(p, y)
                       /\ HasSent(p, y)' <=> HasSent(p, y)
                       /\ Waiting(p, y)' <=> Waiting(p, y)
      /\ \A x \in Rank : Served(x, p)' <=> Served(x, p)
      /\ ~Left(p) /\ ~Left(p)'
  BY <1>0, InitExchangeStage
<1>4. /\ todo[p] = {q} => pc'[p] = "unpack" /\ todo'[p] = Rank
      /\ todo[p] # {q} => pc'[p] = "init" /\ todo'[p] = todo[p] \ {q}
      /\ \A z \in Rank : z # p => pc'[z] = pc[z] /\ todo'[z] = todo[z]
  BY <1>0, NextPeerFacts DEF InitExchange
<1>5. pc[p] = "init" /\ round' = round /\ entered' = entered /\ inbox' = inbox
  BY DEF InitExchange
<1>6. \A z \in Rank : z # p =>
        /\ Left(z)' <=> Left(z)
        /\ \A y \in Rank :
             /\ Filled(z, y)' <=> Filled(z, y)
             /\ OnTheWay(z, y)' <=> OnTheWay(z, y)
             /\ HasSent(z, y)' <=> HasSent(z, y)
             /\ Waiting(z, y)' <=> Waiting(z, y)
             /\ Got(z, y)' <=> Got(z, y)
             /\ Tested(z, y)' <=> Tested(z, y)
  BY <1>4, OthersStage
<1>7. \A x, z \in Rank : Served(x, z)' <=> Served(x, z)
  BY <1>3, <1>4, <1>5, SameServed
<1>8. list \in Seq(Nat) /\ n \in Nat /\ P \in Seq(Packets)
  <2>1. list \in Seq(Nat) /\ P \in Seq(Packets)
    BY <1>0, Types
  <2>. QED
    BY <2>1
<1>9. k \in Nat \ {0}
  <2>1. k \in 1..(Len(P) + 1) /\ Len(P) \in Nat
    BY <1>0, <1>8, PoppedApart
  <2>. HIDE DEF k, P
  <2>. QED
    BY <2>1
<1>. HIDE DEF k, P, list, n
<1>10. /\ sendBuf' \in [Rank -> [Rank -> [list : Seq(Nat \ {0}), completed : BOOLEAN]]]
       /\ \A x, y \in Rank : sendBuf'[x][y].list = sendBuf[x][y].list
  <2>. DEFINE T == [list : Seq(Nat \ {0}), completed : BOOLEAN]
              s == [sendBuf[p][q] EXCEPT !.completed = FALSE]
  <2>1. sendBuf \in [Rank -> [Rank -> T]]
    BY <1>0 DEF TypeOK
  <2>a. sendBuf[p][q] \in [list : Seq(Nat \ {0}), completed : BOOLEAN]
    BY <1>0, Types
  <2>2. s \in T /\ s.list = sendBuf[p][q].list
    BY <2>a
  <2>3. sendBuf' = [sendBuf EXCEPT ![p][q] = s]
    BY <2>1 DEF InitExchange
  <2>. HIDE DEF s, T
  <2>4. /\ sendBuf' \in [Rank -> [Rank -> T]] /\ sendBuf'[p][q] = s
        /\ \A x, y \in Rank : x # p \/ y # q => sendBuf'[x][y] = sendBuf[x][y]
    BY <2>1, <2>2, <2>3, SetPair
  <2>. QED
    BY <2>2, <2>4 DEF T
<1>11. /\ recvBuf' \in [Rank -> [Rank -> [list : Seq(Nat \ {0}), active : Nat, completed : BOOLEAN]]]
       /\ recvBuf'[p][q] = [list |-> <<>>, active |-> k, completed |-> FALSE]
       /\ \A x, y \in Rank : x # p \/ y # q => recvBuf'[x][y] = recvBuf[x][y]
  <2>. DEFINE T == [list : Seq(Nat \ {0}), active : Nat, completed : BOOLEAN]
              v == [list |-> <<>>, active |-> k, completed |-> FALSE]
  <2>1. recvBuf \in [Rank -> [Rank -> T]]
    BY <1>0 DEF TypeOK
  <2>2. v \in T
    BY <1>9
  <2>3. recvBuf' = [recvBuf EXCEPT ![p][q] = v]
    <3>1. Len(SentHeap(packet[p], sendBuf[p][q].list)) = Len(packet[p])
      BY <1>8, SentHeapFacts DEF P, list
    <3>2. Clear(free[p], recvBuf[p][q].list) = free[p]
      <4>1. free[p] \in Seq(Nat \ {0})
        BY <1>0, Types
      <4>2. free[p] \o <<>> = free[p]
        BY <4>1
      <4>. QED
        BY <1>1, <4>2 DEF Clear, EmptyRecvBuf
    <3>3. PopPacket(SentHeap(packet[p], sendBuf[p][q].list), Clear(free[p], recvBuf[p][q].list)) = k
      BY <3>1, <3>2 DEF PopPacket, Popped, k
    <3>. QED
      BY <3>3 DEF InitExchange
  <2>. HIDE DEF T, v
  <2>4. /\ recvBuf' \in [Rank -> [Rank -> T]] /\ recvBuf'[p][q] = v
        /\ \A x, y \in Rank : x # p \/ y # q => recvBuf'[x][y] = recvBuf[x][y]
    BY <2>1, <2>2, <2>3, SetPair
  <2>. QED
    BY <2>4 DEF T, v
<1>12. /\ recvBuf'[p][q].list = <<>> /\ recvBuf'[p][q].active = k /\ ~recvBuf'[p][q].completed
  BY <1>11
<1>13. /\ chan' \in [Rank -> [Rank -> Seq([ref : Nat, data : Wires])]]
       /\ chan'[p][q] = SendEntries(list)
       /\ \A x, y \in Rank : x # p \/ y # q => chan'[x][y] = chan[x][y]
  <2>. DEFINE T == Seq([ref : Nat, data : Wires])
              v == SendEntries(list)
  <2>1. chan \in [Rank -> [Rank -> T]]
    BY <1>0 DEF TypeOK
  <2>2. v \in T
    BY <1>8, SendEntriesFacts
  <2>3. <<>> \o v = v
    BY <2>2
  <2>4. chan' = [chan EXCEPT ![p][q] = v]
    <3>1. chan' = [chan EXCEPT ![p][q] = chan[p][q] \o v]
      BY <2>1 DEF InitExchange, list
    <3>. HIDE DEF v
    <3>. QED
      BY <1>1, <2>3, <3>1
  <2>. HIDE DEF T, v
  <2>5. /\ chan' \in [Rank -> [Rank -> T]] /\ chan'[p][q] = v
        /\ \A x, y \in Rank : x # p \/ y # q => chan'[x][y] = chan[x][y]
    BY <2>1, <2>2, <2>4, SetPair
  <2>. QED
    BY <2>5 DEF T, v
\* No other buffer of p notices.
<1>14. ASSUME NEW y \in Rank
       PROVE  /\ y # q => \A i \in DOMAIN sendBuf[p][y].list :
                            packet'[p][sendBuf[p][y].list[i]] = packet[p][sendBuf[p][y].list[i]]
              /\ \A i \in DOMAIN recvBuf[p][y].list : packet'[p][recvBuf[p][y].list[i]] = packet[p][recvBuf[p][y].list[i]]
              /\ Waiting(p, y) => packet'[p][recvBuf[p][y].active] = packet[p][recvBuf[p][y].active]
  <2>1. y # q => \A i \in DOMAIN sendBuf[p][y].list :
                   packet'[p][sendBuf[p][y].list[i]] = packet[p][sendBuf[p][y].list[i]]
    <3>. SUFFICES ASSUME y # q, NEW i \in DOMAIN sendBuf[p][y].list
                  PROVE  packet'[p][sendBuf[p][y].list[i]] = packet[p][sendBuf[p][y].list[i]]
      OBVIOUS
    <3>1. sendBuf[p][y].list[i] # k
      BY <1>0, PoppedApart DEF k
    <3>2. \A j \in DOMAIN list : list[j] # sendBuf[p][y].list[i]
      BY <1>0, Apart DEF list
    <3>3. sendBuf[p][y].list[i] \in 1..Len(P)
      BY <1>0, Places DEF P
    <3>. QED
      BY <1>2, <3>1, <3>2, <3>3 DEF P
  <2>2. \A i \in DOMAIN recvBuf[p][y].list : packet'[p][recvBuf[p][y].list[i]] = packet[p][recvBuf[p][y].list[i]]
    <3>. TAKE i \in DOMAIN recvBuf[p][y].list
    <3>1. recvBuf[p][y].list[i] # k
      BY <1>0, PoppedApart DEF k
    <3>2. \A j \in DOMAIN list : list[j] # recvBuf[p][y].list[i]
      BY <1>0, Apart DEF list
    <3>3. recvBuf[p][y].list[i] \in 1..Len(P)
      BY <1>0, Places DEF P
    <3>. QED
      BY <1>2, <3>1, <3>2, <3>3 DEF P
  <2>3. ASSUME Waiting(p, y)
        PROVE  packet'[p][recvBuf[p][y].active] = packet[p][recvBuf[p][y].active]
    <3>0. recvBuf[p][y].active # 0 /\ ~recvBuf[p][y].completed
      BY <1>0, <2>3 DEF BufferInv, BuffersRight
    <3>1. recvBuf[p][y].active # k
      BY <1>0, <3>0, PoppedApart DEF k
    <3>2. \A j \in DOMAIN list : list[j] # recvBuf[p][y].active
      BY <1>0, <2>3, PendingApart DEF list
    <3>3. recvBuf[p][y].active \in 1..Len(P)
      BY <1>0, <2>3, PendingApart DEF P
    <3>. QED
      BY <1>2, <3>1, <3>2, <3>3 DEF P
  <2>. QED
    BY <2>1, <2>2, <2>3
<1>15. TypeOK'
  <2>1. /\ pc' \in [Rank -> {"pack", "write", "init", "unpack", "barrier", "finish", "release", "done"}]
        /\ todo' \in [Rank -> SUBSET Rank]
    BY <1>0 DEF InitExchange, NextPeer, TypeOK
  <2>. QED
    BY <1>0, <1>2, <1>5, <1>10, <1>11, <1>13, <2>1 DEF TypeOK
<1>16. ControlInv' /\ BarrierInv'
  <2>1. ControlInv'
    BY <1>0, <1>4, <1>5 DEF ControlInv
  <2>2. BarrierInv'
    BY <1>0, <1>3, <1>5, <1>6 DEF BarrierInv, Passed
  <2>. QED
    BY <2>1, <2>2
<1>17. BufferInv'
  <2>. SUFFICES ASSUME NEW x \in Rank, NEW y \in Rank
                PROVE  BuffersRight(x, y)'
    BY DEF BufferInv
  <2>0. BuffersRight(x, y)
    BY <1>0 DEF BufferInv
  <2>1. CASE x # p \/ y # q
    <3>1. /\ Filled(x, y)' <=> Filled(x, y)
          /\ Waiting(x, y)' <=> Waiting(x, y)
          /\ Got(x, y)' <=> Got(x, y)
      BY <1>3, <1>6, <2>1
    <3>2. /\ sendBuf'[x][y].list = sendBuf[x][y].list /\ recvBuf'[x][y] = recvBuf[x][y]
          /\ inbox'[x][y] = inbox[x][y]
      BY <1>5, <1>10, <1>11, <2>1
    <3>. QED
      BY <2>0, <3>1, <3>2, BuffersKept
  <2>2. CASE x = p /\ y = q
    <3>1. inbox'[p][q] = <<>> /\ sendBuf'[p][q].list = sendBuf[p][q].list
      BY <1>1, <1>5, <1>10
    <3>. QED
      BY <1>3, <1>9, <1>12, <2>0, <2>2, <3>1 DEF BuffersRight
  <2>. QED
    BY <2>1, <2>2
<1>18. TidyInv'
  <2>. SUFFICES ASSUME NEW z \in Rank
                PROVE  Tidy(Shelves(z), Len(packet[z]))'
    BY DEF TidyInv
  <2>1. CASE z = p
    <3>1. Len(packet'[p]) = IF Popped(p) > Len(packet[p]) THEN Len(packet[p]) + 1 ELSE Len(packet[p])
      BY <1>2 DEF k, P
    <3>2. recvBuf'[p][q] = [list |-> <<>>, active |-> Popped(p), completed |-> FALSE]
      BY <1>11 DEF k
    <3>3. \A y \in Rank : /\ y # q => recvBuf'[p][y] = recvBuf[p][y]
                          /\ sendBuf'[p][y].list = sendBuf[p][y].list
      BY <1>10, <1>11
    <3>4. Tidy(Shelves(p), Len(packet[p]))'
      BY <1>0, <1>1, <1>2, <3>1, <3>2, <3>3, TidyPost
    <3>. QED
      BY <2>1, <3>4
  <2>2. CASE z # p
    <3>1. /\ free'[z] = free[z] /\ Len(packet'[z]) = Len(packet[z])
          /\ \A y \in Rank : sendBuf'[z][y].list = sendBuf[z][y].list /\ recvBuf'[z][y] = recvBuf[z][y]
      BY <1>2, <1>10, <1>11, <2>2
    <3>. QED
      BY <1>0, <3>1, TidySame
  <2>. QED
    BY <2>1, <2>2
<1>19. IdleInv'
  <2>. SUFFICES ASSUME NEW z \in Rank
                PROVE  PoolIdle(z)' /\ \A y \in Rank : BuffersIdle(z, y)'
    BY DEF IdleInv
  <2>0. PoolIdle(z) /\ \A y \in Rank : BuffersIdle(z, y)
    BY <1>0 DEF IdleInv
  <2>1. CASE z # p
    <3>1. PoolIdle(z)'
      BY <1>2, <2>0, <2>1 DEF PoolIdle
    <3>2. ASSUME NEW y \in Rank
          PROVE  BuffersIdle(z, y)'
      <4>1. BuffersIdle(z, y) /\ recvBuf'[z][y] = recvBuf[z][y] /\ packet'[z] = packet[z]
            /\ sendBuf'[z][y].list = sendBuf[z][y].list
        BY <1>2, <1>10, <1>11, <2>0, <2>1
      <4>2. (Waiting(z, y)' <=> Waiting(z, y)) /\ (Tested(z, y)' <=> Tested(z, y))
        BY <1>6, <2>1
      <4>. QED
        BY <4>1, <4>2, IdleKept
    <3>. QED
      BY <3>1, <3>2
  <2>2. CASE z = p
    <3>1. PoolIdle(p)'
      <4>. DEFINE rest == PoolAfterPop(free[p])
      <4>1. ASSUME NEW i \in DOMAIN rest
            PROVE  packet'[p][rest[i]].request = "null"
        <5>1. /\ rest[i] \in 1..Len(packet[p]) /\ rest[i] # k
          BY <1>0, PoppedApart DEF k
        <5>2. PICK j \in DOMAIN free[p] : rest[i] = free[p][j]
          BY <1>0, PoppedApart
        <5>3. \A l \in DOMAIN list : list[l] # free[p][j]
          BY <1>0, Apart DEF list
        <5>4. packet[p][free[p][j]].request = "null"
          BY <2>0, <2>2 DEF PoolIdle
        <5>. HIDE DEF rest
        <5>. QED
          BY <1>2, <5>1, <5>2, <5>3, <5>4 DEF P
      <4>2. free'[p] = rest
        BY <1>2
      <4>. HIDE DEF rest
      <4>. QED
        BY <4>1, <4>2 DEF PoolIdle
    <3>2. ASSUME NEW y \in Rank, y # q
          PROVE  BuffersIdle(p, y)'
      <4>1. recvBuf'[p][y] = recvBuf[p][y] /\ BuffersIdle(p, y)
        BY <1>11, <2>0, <2>2, <3>2
      <4>2. /\ \A i \in DOMAIN recvBuf[p][y].list :
                 packet'[p][recvBuf[p][y].list[i]].request = packet[p][recvBuf[p][y].list[i]].request
            /\ Waiting(p, y)' <=> Waiting(p, y)
            /\ ~Tested(p, y)'
            /\ Waiting(p, y) => packet'[p][recvBuf[p][y].active].request = packet[p][recvBuf[p][y].active].request
        BY <1>3, <1>14, <3>2
      <4>. QED
        BY <4>1, <4>2, IdleKept
    <3>3. BuffersIdle(p, q)'
      BY <1>2, <1>3, <1>12 DEF BuffersIdle
    <3>. QED
      BY <2>2, <3>1, <3>2, <3>3
  <2>. QED
    BY <2>1, <2>2
<1>20. SendInv'
  <2>. SUFFICES ASSUME NEW x \in Rank, NEW y \in Rank
                PROVE  Packed(x, y)'
    BY DEF SendInv
  <2>0. Packed(x, y)
    BY <1>0 DEF SendInv
  <2>1. CASE x # p
    BY <1>2, <1>5, <1>6, <1>10, <2>0, <2>1, PackedKept
  <2>2. CASE x = p /\ y # q
    BY <1>3, <1>5, <1>10, <1>14, <2>0, <2>2, PackedKept
  <2>3. CASE x = p /\ y = q
    <3>1. \A i \in DOMAIN list : packet'[p][list[i]].buff.body = <<p, q, round'[p], i>>
      <4>. TAKE i \in DOMAIN list
      <4>1. packet'[p][list[i]].buff = WirePacket(p, q, round[p], i, n)
        BY <1>2
      <4>2. packet'[p][list[i]].buff.body = <<p, q, round[p], i>>
        BY <4>1 DEF WirePacket
      <4>. QED
        BY <1>5, <4>2
    <3>2. sendBuf'[p][q].list = list
      BY <1>10 DEF list
    <3>. QED
      BY <1>3, <2>3, <3>1, <3>2 DEF Packed
  <2>. QED
    BY <2>1, <2>2, <2>3
<1>21. ASSUME NEW x \in Rank, NEW y \in Rank
       PROVE  /\ x # p \/ y # q => Delivered(x, y)' = Delivered(x, y)
              /\ Delivered(p, q)' = 0
  <2>1. Delivered(p, q)' = 0
    <3>1. CASE p = q
      <4>1. recvBuf'[q][p].list = <<>> /\ packet'[q][recvBuf'[q][p].active].request = "active"
        BY <1>2, <1>12, <3>1
      <4>2. Len(recvBuf'[q][p].list) = 0
        BY <4>1
      <4>. QED
        BY <4>1, <4>2 DEF Delivered
    <3>2. CASE p # q
      <4>1. /\ Waiting(q, p)' <=> Waiting(q, p)
            /\ recvBuf'[q][p] = recvBuf[q][p] /\ packet'[q] = packet[q]
        BY <1>2, <1>6, <1>11, <3>2
      <4>2. Waiting(q, p)' => /\ recvBuf'[q][p].list = <<>> /\ Len(recvBuf'[q][p].list) = 0
                              /\ packet'[q][recvBuf'[q][p].active].request = "active"
        BY <1>1, <4>1
      <4>3. CASE Waiting(q, p)'
        <5>1. Len(recvBuf'[q][p].list) = 0 /\ packet'[q][recvBuf'[q][p].active].request = "active"
          BY <4>2, <4>3
        <5>. QED
          BY <5>1 DEF Delivered
      <4>4. CASE ~Waiting(q, p)'
        BY <4>4 DEF Delivered
      <4>. QED
        BY <4>3, <4>4
    <3>. QED
      BY <3>1, <3>2
  <2>2. ASSUME x # p \/ y # q
        PROVE  Delivered(x, y)' = Delivered(x, y)
    <3>1. CASE y # p
      BY <1>2, <1>5, <1>6, <1>11, <3>1, DeliveredKept
    <3>2. CASE y = p /\ x # q
      <4>1. /\ recvBuf'[p][x] = recvBuf[p][x]
            /\ Waiting(p, x)' <=> Waiting(p, x)
            /\ Waiting(p, x) => packet'[p][recvBuf[p][x].active].request = packet[p][recvBuf[p][x].active].request
        BY <1>3, <1>11, <1>14, <3>2
      <4>. QED
        BY <1>5, <3>2, <4>1, DeliveredKept
    <3>3. CASE y = p /\ x = q
      <4>1. Delivered(q, p) = 0
        BY <1>3 DEF Delivered
      <4>2. Delivered(q, p)' = 0
        BY <1>2, <1>12 DEF Delivered
      <4>. QED
        BY <3>3, <4>1, <4>2
    <3>. QED
      BY <3>1, <3>2, <3>3
  <2>. QED
    BY <2>1, <2>2
<1>22. WireInv'
  <2>. SUFFICES ASSUME NEW x \in Rank, NEW y \in Rank
                PROVE  OnWire(x, y)'
    BY DEF WireInv
  <2>0. OnWire(x, y)
    BY <1>0 DEF WireInv
  <2>1. CASE x = p /\ y = q
    <3>. DEFINE new == chan'[p][q]
                W(e) == IF e.ref = 0 THEN e.data ELSE packet'[p][e.ref].buff
    <3>1. /\ Len(new) = n /\ DOMAIN new = DOMAIN list
          /\ \A i \in DOMAIN list : new[i].ref = list[i]
      BY <1>8, <1>13, SendEntriesFacts DEF n
    <3>2. \A i \in DOMAIN new : /\ W(new[i]) = WirePacket(p, q, round[p], 0 + i, n)
                                /\ new[i].ref = 0 \/ new[i].ref = list[0 + i]
      <4>. TAKE i \in DOMAIN new
      <4>1. i \in DOMAIN list /\ new[i].ref = list[i]
        BY <3>1
      <4>2. list[i] \in 1..Len(P) /\ 0 + i = i
        <5>1. list[i] \in 1..Len(P)
          BY <1>0, <4>1, Places DEF list, P
        <5>2. i \in Nat
          BY <1>8, <4>1
        <5>. QED
          BY <5>1, <5>2
      <4>3. new[i].ref # 0
        BY <4>1, <4>2
      <4>4. packet'[p][list[i]].buff = WirePacket(p, q, round[p], i, n)
        BY <1>2, <4>1
      <4>. HIDE DEF new
      <4>. QED
        BY <4>1, <4>2, <4>3, <4>4
    <3>3. /\ sendBuf'[p][q].list = list /\ round'[p] = round[p] /\ OnTheWay(p, q)' /\ ~Served(p, q)'
          /\ Delivered(p, q)' = 0
      BY <1>1, <1>3, <1>5, <1>7, <1>10, <1>21 DEF list
    <3>4. Len(new) + 0 = n
      BY <1>8, <3>1
    <3>. HIDE DEF new
    <3>. QED
      BY <2>1, <3>2, <3>3, <3>4 DEF OnWire, Wire, new, n
  <2>2. CASE x # p \/ y # q
    <3>1. \A i \in DOMAIN sendBuf[x][y].list :
            packet'[x][sendBuf[x][y].list[i]].buff = packet[x][sendBuf[x][y].list[i]].buff
      <4>1. CASE x # p
        <5>1. packet'[x] = packet[x]
          BY <1>2, <4>1
        <5>. QED
          BY <5>1
      <4>2. CASE x = p
        <5>1. \A i \in DOMAIN sendBuf[p][y].list :
                packet'[p][sendBuf[p][y].list[i]] = packet[p][sendBuf[p][y].list[i]]
          BY <1>14, <2>2, <4>2
        <5>. QED
          BY <4>2, <5>1
      <4>. QED
        BY <4>1, <4>2
    <3>2. (OnTheWay(x, y)' <=> OnTheWay(x, y)) /\ (Served(x, y)' <=> Served(x, y))
      BY <1>3, <1>6, <1>7, <2>2
    <3>3. chan'[x][y] = chan[x][y] /\ Delivered(x, y)' = Delivered(x, y)
      BY <1>13, <1>21, <2>2
    <3>. QED
      BY <1>0, <1>5, <1>10, <2>0, <3>1, <3>2, <3>3, OnWireKept
  <2>. QED
    BY <2>1, <2>2
<1>23. ReadInv'
  <2>. SUFFICES ASSUME NEW x \in Rank, NEW y \in Rank
                PROVE  Reads(x, y)'
    BY DEF ReadInv
  <2>0. Reads(x, y)
    BY <1>0 DEF ReadInv
  <2>1. CASE x = q /\ y = p
    BY <1>2, <1>3, <1>12, <2>1 DEF Reads
  <2>2. CASE x = p /\ y = q /\ p # q
    <3>1. /\ recvBuf'[q][p] = recvBuf[q][p] /\ inbox'[q][p] = inbox[q][p] /\ packet'[q] = packet[q]
          /\ sendBuf'[p][q].list = sendBuf[p][q].list
          /\ round' = round
      BY <1>2, <1>5, <1>10, <1>11, <2>2
    <3>2. /\ Waiting(q, p)' <=> Waiting(q, p)
          /\ Got(q, p)' <=> Got(q, p)
          /\ Filled(p, q) /\ HasSent(p, q)'
      BY <1>3, <1>6, <2>2
    <3>. QED
      BY <1>1, <2>0, <2>2, <3>1, <3>2 DEF Reads
  <2>3. CASE ~(x = q /\ y = p) /\ ~(x = p /\ y = q)
    <3>1. recvBuf'[y][x] = recvBuf[y][x] /\ inbox'[y][x] = inbox[y][x]
      BY <1>5, <1>11, <2>3
    <3>2. /\ \A i \in DOMAIN recvBuf[y][x].list :
               packet'[y][recvBuf[y][x].list[i]].buff = packet[y][recvBuf[y][x].list[i]].buff
          /\ Waiting(y, x) => packet'[y][recvBuf[y][x].active] = packet[y][recvBuf[y][x].active]
      <4>1. CASE y = p
        BY <1>14, <4>1
      <4>2. CASE y # p
        BY <1>2, <4>2
      <4>. QED
        BY <4>1, <4>2
    <3>3. /\ Waiting(y, x)' <=> Waiting(y, x)
          /\ Got(y, x)' <=> Got(y, x)
          /\ OnTheWay(x, y)' <=> OnTheWay(x, y)
          /\ HasSent(x, y)' <=> HasSent(x, y)
          /\ Filled(x, y)' <=> Filled(x, y)
      BY <1>3, <1>6, <2>3
    <3>. QED
      BY <1>5, <1>10, <2>0, <3>1, <3>2, <3>3, ReadsKept
  <2>. QED
    BY <2>1, <2>2, <2>3
<1>. QED
  BY <1>15, <1>16, <1>17, <1>18, <1>19, <1>20, <1>22, <1>23 DEF ExchangeInv

-------------------------------------------------------------------------------
(* The invariant *)

\* Nothing happens, nothing changes.
LEMMA StutterKeeps ==
  ASSUME ExchangeInv, UNCHANGED vars
  PROVE  ExchangeInv'
PROOF
<1>1. /\ pc' = pc /\ todo' = todo /\ round' = round /\ entered' = entered
      /\ UNCHANGED <<round, memory, chan, inbox>>
  BY DEF vars, local
<1>2. \A p, q \in Rank : /\ Left(p)' <=> Left(p)
                         /\ Filled(p, q)' <=> Filled(p, q)
                         /\ OnTheWay(p, q)' <=> OnTheWay(p, q)
                         /\ HasSent(p, q)' <=> HasSent(p, q)
                         /\ Waiting(p, q)' <=> Waiting(p, q)
                         /\ Got(p, q)' <=> Got(p, q)
                         /\ Tested(p, q)' <=> Tested(p, q)
  BY <1>1, SameStage
<1>3. \A p, q \in Rank : Served(p, q)' <=> Served(p, q)
  BY <1>1, SameServed
<1>4. TypeOK'
  <2>1. /\ packet' = packet /\ free' = free /\ sendBuf' = sendBuf /\ recvBuf' = recvBuf
        /\ chan' = chan /\ inbox' = inbox
    BY DEF vars, memory
  <2>. QED
    BY <1>1, <2>1 DEF ExchangeInv, TypeOK
<1>5. ControlInv' /\ BarrierInv'
  BY <1>1, <1>2 DEF ExchangeInv, ControlInv, BarrierInv, Passed
<1>6. BufferInv' /\ TidyInv' /\ IdleInv' /\ SendInv'
  BY <1>1, <1>2, CallKeepsMemory
<1>7. WireInv' /\ ReadInv'
  BY <1>1, <1>2, <1>3, CallKeepsMessages
<1>. QED
  BY <1>4, <1>5, <1>6, <1>7 DEF ExchangeInv

\* Before the first exchange the invariant holds.
LEMMA InitExchangeInv == Init => ExchangeInv
PROOF
<1>. SUFFICES ASSUME Init
              PROVE  ExchangeInv
  OBVIOUS
<1>1. ASSUME NEW p \in Rank
      PROVE  /\ pc[p] = "pack" /\ todo[p] = Rank /\ round[p] = 1 /\ entered[p] = 0
             /\ packet[p] = <<>> /\ free[p] = <<>>
  BY DEF Init
<1>2. ASSUME NEW p \in Rank, NEW q \in Rank
      PROVE  /\ sendBuf[p][q] = EmptySendBuf /\ recvBuf[p][q] = EmptyRecvBuf
             /\ chan[p][q] = <<>> /\ inbox[p][q] = <<>>
             /\ sendBuf[p][q].list = <<>> /\ recvBuf[p][q].list = <<>>
  BY DEF Init, EmptySendBuf, EmptyRecvBuf
<1>3. \A p \in Rank : ~Left(p) /\ \A q \in Rank : /\ ~Filled(p, q) /\ ~OnTheWay(p, q) /\ ~HasSent(p, q)
                                                /\ ~Waiting(p, q) /\ ~Got(p, q) /\ ~Tested(p, q)
  BY <1>1 DEF Left, Filled, OnTheWay, HasSent, Waiting, Got, Tested
<1>4. TypeOK
  <2>. DEFINE S == [list : Seq(Nat \ {0}), completed : BOOLEAN]
              R == [list : Seq(Nat \ {0}), active : Nat, completed : BOOLEAN]
              C == Seq([ref : Nat, data : Wires])
              B == Seq(Bodies)
  <2>1. EmptySendBuf \in S /\ EmptyRecvBuf \in R /\ <<>> \in C /\ <<>> \in B
    BY DEF EmptySendBuf, EmptyRecvBuf
  <2>2. /\ <<>> \in Seq(Packets) /\ <<>> \in Seq(Nat \ {0}) /\ 1 \in 1..(MaxRound + 1) /\ 0 \in 0..MaxRound
    BY BoundAssumption
  <2>. HIDE DEF S, R, C, B
  <2>3. /\ sendBuf \in [Rank -> [Rank -> S]] /\ recvBuf \in [Rank -> [Rank -> R]]
        /\ chan \in [Rank -> [Rank -> C]] /\ inbox \in [Rank -> [Rank -> B]]
    BY <2>1 DEF Init
  <2>4. /\ pc \in [Rank -> {"pack", "write", "init", "unpack", "barrier", "finish", "release", "done"}]
        /\ todo \in [Rank -> SUBSET Rank]
        /\ round \in [Rank -> 1..(MaxRound + 1)]
        /\ entered \in [Rank -> 0..MaxRound]
        /\ packet \in [Rank -> Seq(Packets)]
        /\ free \in [Rank -> Seq(Nat \ {0})]
    BY <2>2 DEF Init
  <2>. QED
    BY <2>3, <2>4 DEF TypeOK, S, R, C, B
<1>5. ControlInv
  BY <1>1, BoundAssumption DEF ControlInv
<1>6. BarrierInv
  BY <1>1, <1>3 DEF BarrierInv, Passed
<1>7. BufferInv
  BY <1>2, <1>3, BoundAssumption DEF BufferInv, BuffersRight
<1>8. TidyInv
  <2>. SUFFICES ASSUME NEW p \in Rank
                PROVE  Tidy(Shelves(p), Len(packet[p]))
    BY DEF TidyInv
  <2>1. \A s \in DOMAIN Shelves(p) : DOMAIN Shelves(p)[s] = {}
    <3>. SUFFICES ASSUME NEW s \in Shelf
                  PROVE  DOMAIN Shelves(p)[s] = {}
      BY DEF Shelves
    <3>1. CASE s = Free
      BY <1>1, <3>1 DEF Shelves, Free
    <3>2. CASE \E y \in Rank : s = <<"send", y>> \/ s = <<"recv", y>> \/ s = <<"pending", y>>
      <4>1. PICK y \in Rank : s = <<"send", y>> \/ s = <<"recv", y>> \/ s = <<"pending", y>>
        BY <3>2
      <4>2. Pending(recvBuf[p][y]) = <<>>
        BY <1>2 DEF Pending, EmptyRecvBuf
      <4>3. /\ Shelves(p)[<<"send", y>>] = <<>> /\ Shelves(p)[<<"recv", y>>] = <<>>
            /\ Shelves(p)[<<"pending", y>>] = <<>>
        BY <1>2, <4>2, ShelfParts
      <4>. QED
        BY <4>1, <4>3
    <3>. QED
      BY <3>1, <3>2, ShelfCases
  <2>2. 1..Len(packet[p]) = {}
    BY <1>1
  <2>. QED
    BY <2>1, <2>2 DEF Tidy
<1>9. IdleInv
  BY <1>1, <1>2, <1>3 DEF IdleInv, PoolIdle, BuffersIdle
<1>10. SendInv
  <2>1. \A p, q \in Rank : DOMAIN sendBuf[p][q].list = {}
    BY <1>2 DEF EmptySendBuf
  <2>2. \A p, q \in Rank : Packed(p, q)
    BY <2>1, Zenon DEF Packed
  <2>. QED
    BY <2>2, Zenon DEF SendInv
<1>11. WireInv
  BY <1>2, <1>3 DEF WireInv, OnWire
<1>12. ReadInv
  BY <1>3 DEF ReadInv, Reads
<1>. QED
  BY <1>4, <1>5, <1>6, <1>7, <1>8, <1>9, <1>10, <1>11, <1>12 DEF ExchangeInv

\* Every step of the processes and of MPI keeps the invariant.
LEMMA NextKeeps ==
  ASSUME ExchangeInv, [Next]_vars
  PROVE  ExchangeInv'
PROOF
<1>1. ASSUME NEW p \in Rank, NEW q \in Rank, PackData(p, q) \/ WriteMore(p, q)
      PROVE  ExchangeInv'
  BY <1>1, PackDataPacks, WriteMorePacks, PackingKeeps
<1>2. ASSUME NEW p \in Rank, NEW q \in Rank, PackReturn(p, q)
      PROVE  ExchangeInv'
  BY <1>2, PackReturnKeeps
<1>3. ASSUME NEW p \in Rank, NEW q \in Rank, InitExchange(p, q)
      PROVE  ExchangeInv'
  BY <1>3, InitExchangeKeeps
<1>4. ASSUME NEW p \in Rank, NEW q \in Rank, ReceivePacket(p, q)
      PROVE  ExchangeInv'
  BY <1>4, ReceivePacketKeeps
<1>5. ASSUME NEW p \in Rank, NEW q \in Rank, ReceiveLast(p, q)
      PROVE  ExchangeInv'
  BY <1>5, ReceiveLastKeeps
<1>6. ASSUME NEW p \in Rank, NEW q \in Rank, FinishExchange(p, q)
      PROVE  ExchangeInv'
  BY <1>6, FinishExchangeKeeps
<1>7. ASSUME NEW p \in Rank, NEW q \in Rank, Release(p, q)
      PROVE  ExchangeInv'
  BY <1>7, ReleaseKeeps
<1>8. ASSUME NEW p \in Rank, EnterBarrier(p) \/ LeaveBarrier(p)
      PROVE  ExchangeInv'
  BY <1>8, EnterBarrierKeeps, LeaveBarrierKeeps
<1>9. ASSUME NEW p \in Rank, NEW q \in Rank, Copy(p, q)
      PROVE  ExchangeInv'
  BY <1>9, CopyKeeps
<1>10. ASSUME NEW p \in Rank, NEW q \in Rank, Deliver(p, q)
      PROVE  ExchangeInv'
  BY <1>10, DeliverKeeps
<1>11. CASE UNCHANGED vars
  BY <1>11, StutterKeeps
<1>. QED
  BY <1>1, <1>2, <1>3, <1>4, <1>5, <1>6, <1>7, <1>8, <1>9, <1>10, <1>11 DEF Next, Process, Network

\* The inductive invariant: in every reachable state, for any number of processes,
\* any message length and any number of rounds, the buffers, the pool, the packets
\* on the wire and the stages of the processes fit together.
THEOREM ExchangeInvariant == Spec => []ExchangeInv
PROOF
<1>1. Init => ExchangeInv
  BY InitExchangeInv
<1>2. ExchangeInv /\ [Next]_vars => ExchangeInv'
  BY NextKeeps
<1>. QED
  BY <1>1, <1>2, PTL DEF Spec

-------------------------------------------------------------------------------
(* What the invariant says of the properties that are model-checked *)

\* Every variable of the exchange keeps its type; a packet index names an
\* allocated packet.
THEOREM ExchangeTypeCorrect == Spec => []TypeOK
PROOF
<1>1. ExchangeInv => TypeOK
  BY DEF ExchangeInv
<1>. QED
  BY <1>1, ExchangeInvariant, PTL

\* The name PacketsHeldOnce gives to place i of shelf s.
Spot(p, s, i) == <<s[1], IF s = Free THEN p ELSE s[2], i>>

\* A place of a shelf is one of the holders PacketsHeldOnce counts.
LEMMA SpotIsHolder ==
  ASSUME NEW p \in Rank, NEW k, NEW s \in Shelf, NEW i \in DOMAIN Shelves(p)[s], Shelves(p)[s][i] = k,
         k # 0
  PROVE  Spot(p, s, i) \in Holders(p, k)
PROOF
<1>1. CASE s = Free
  <2>1. i \in DOMAIN free[p] /\ free[p][i] = k
    BY <1>1 DEF Shelves, Free
  <2>2. Spot(p, s, i) = <<"free", p, i>>
    BY <1>1 DEF Spot, Free
  <2>. QED
    BY <2>1, <2>2 DEF Holders
<1>2. CASE \E q \in Rank : s = <<"send", q>>
  <2>1. PICK q \in Rank : s = <<"send", q>>
    BY <1>2
  <2>2. i \in DOMAIN sendBuf[p][q].list /\ sendBuf[p][q].list[i] = k
    BY <2>1, ShelfParts
  <2>3. Spot(p, s, i) = <<"send", q, i>>
    BY <2>1 DEF Spot, Free
  <2>. QED
    BY <2>2, <2>3 DEF Holders
<1>3. CASE \E q \in Rank : s = <<"recv", q>>
  <2>1. PICK q \in Rank : s = <<"recv", q>>
    BY <1>3
  <2>2. i \in DOMAIN recvBuf[p][q].list /\ recvBuf[p][q].list[i] = k
    BY <2>1, ShelfParts
  <2>3. Spot(p, s, i) = <<"recv", q, i>>
    BY <2>1 DEF Spot, Free
  <2>. QED
    BY <2>2, <2>3 DEF Holders
<1>4. CASE \E q \in Rank : s = <<"pending", q>>
  <2>1. PICK q \in Rank : s = <<"pending", q>>
    BY <1>4
  <2>2. Shelves(p)[s] = Pending(recvBuf[p][q])
    BY <2>1, ShelfParts
  <2>3. /\ i = 1 /\ recvBuf[p][q].active = k /\ ~recvBuf[p][q].completed
    BY <2>2 DEF Pending
  <2>4. Spot(p, s, i) = <<"pending", q, 1>>
    BY <2>1, <2>3 DEF Spot, Free
  <2>. QED
    BY <2>3, <2>4 DEF Holders
<1>. QED
  BY <1>1, <1>2, <1>3, <1>4, ShelfCases

\* Every holder PacketsHeldOnce counts is a place of a shelf.
LEMMA HolderIsSpot ==
  ASSUME NEW p \in Rank, NEW k, k # 0, NEW h \in Holders(p, k)
  PROVE  \E s \in Shelf : \E i \in DOMAIN Shelves(p)[s] : Shelves(p)[s][i] = k /\ h = Spot(p, s, i)
PROOF
<1>1. CASE \E i \in DOMAIN free[p] : free[p][i] = k /\ h = <<"free", p, i>>
  <2>1. PICK i \in DOMAIN free[p] : free[p][i] = k /\ h = <<"free", p, i>>
    BY <1>1
  <2>2. Free \in Shelf /\ Shelves(p)[Free] = free[p] /\ Spot(p, Free, i) = <<"free", p, i>>
    BY DEF Shelves, Shelf, Free, Spot
  <2>. QED
    BY <2>1, <2>2
<1>2. CASE \E q \in Rank : \E i \in DOMAIN sendBuf[p][q].list :
             sendBuf[p][q].list[i] = k /\ h = <<"send", q, i>>
  <2>1. PICK q \in Rank : \E i \in DOMAIN sendBuf[p][q].list :
               sendBuf[p][q].list[i] = k /\ h = <<"send", q, i>>
    BY <1>2
  <2>2. /\ <<"send", q>> \in Shelf /\ Shelves(p)[<<"send", q>>] = sendBuf[p][q].list
        /\ \A i : Spot(p, <<"send", q>>, i) = <<"send", q, i>>
    BY ShelfParts DEF Spot, Free
  <2>. QED
    BY <2>1, <2>2
<1>3. CASE \E q \in Rank : \E i \in DOMAIN recvBuf[p][q].list :
             recvBuf[p][q].list[i] = k /\ h = <<"recv", q, i>>
  <2>1. PICK q \in Rank : \E i \in DOMAIN recvBuf[p][q].list :
               recvBuf[p][q].list[i] = k /\ h = <<"recv", q, i>>
    BY <1>3
  <2>2. /\ <<"recv", q>> \in Shelf /\ Shelves(p)[<<"recv", q>>] = recvBuf[p][q].list
        /\ \A i : Spot(p, <<"recv", q>>, i) = <<"recv", q, i>>
    BY ShelfParts DEF Spot, Free
  <2>. QED
    BY <2>1, <2>2
<1>4. CASE \E q \in Rank : recvBuf[p][q].active = k /\ ~recvBuf[p][q].completed /\ h = <<"pending", q, 1>>
  <2>1. PICK q \in Rank : recvBuf[p][q].active = k /\ ~recvBuf[p][q].completed /\ h = <<"pending", q, 1>>
    BY <1>4
  <2>2. /\ <<"pending", q>> \in Shelf /\ Shelves(p)[<<"pending", q>>] = Pending(recvBuf[p][q])
        /\ Spot(p, <<"pending", q>>, 1) = <<"pending", q, 1>>
    BY ShelfParts DEF Spot, Free
  <2>3. 1 \in DOMAIN Pending(recvBuf[p][q]) /\ Pending(recvBuf[p][q])[1] = k
    BY <2>1 DEF Pending
  <2>. QED
    BY <2>1, <2>2, <2>3
<1>. QED
  BY <1>1, <1>2, <1>3, <1>4 DEF Holders

\* A tidy shelf holds every packet in exactly one place.
LEMMA TidyHeldOnce == ExchangeInv => PacketsHeldOnce
PROOF
<1>. SUFFICES ASSUME ExchangeInv, NEW p \in Rank, NEW k \in DOMAIN packet[p]
              PROVE  Cardinality(Holders(p, k)) = 1
  BY DEF PacketsHeldOnce
<1>1. TypeOK /\ Tidy(Shelves(p), Len(packet[p])) /\ DOMAIN Shelves(p) = Shelf
  BY DEF ExchangeInv, TidyInv, Shelves
<1>2. packet[p] \in Seq(Packets)
  BY <1>1, Types
<1>3. k \in 1..Len(packet[p]) /\ k # 0
  BY <1>2
<1>4. PICK s \in Shelf : \E i \in DOMAIN Shelves(p)[s] : Shelves(p)[s][i] = k
  BY <1>1, <1>3 DEF Tidy
<1>5. PICK i \in DOMAIN Shelves(p)[s] : Shelves(p)[s][i] = k
  BY <1>4
<1>6. Spot(p, s, i) \in Holders(p, k)
  BY <1>3, <1>5, SpotIsHolder
<1>7. \A h \in Holders(p, k) : h = Spot(p, s, i)
  <2>. TAKE h \in Holders(p, k)
  <2>1. PICK t \in Shelf : \E j \in DOMAIN Shelves(p)[t] : Shelves(p)[t][j] = k /\ h = Spot(p, t, j)
    BY <1>3, HolderIsSpot
  <2>2. PICK j \in DOMAIN Shelves(p)[t] : Shelves(p)[t][j] = k /\ h = Spot(p, t, j)
    BY <2>1
  <2>3. t = s /\ j = i
    BY <1>1, <1>5, <2>2, TidyOne
  <2>. QED
    BY <2>2, <2>3
<1>8. Holders(p, k) = {Spot(p, s, i)}
  BY <1>6, <1>7
<1>. QED
  BY <1>8, FS_Singleton

\* The invariant says that pooled packets are idle and that packets on the wire
\* hold what was packed for them.
LEMMA IdleNotReused == ExchangeInv => NoReuseInFlight
PROOF
<1>. SUFFICES ASSUME ExchangeInv
              PROVE  NoReuseInFlight
  OBVIOUS
<1>0. TypeOK /\ TidyInv /\ IdleInv /\ WireInv
  BY DEF ExchangeInv
<1>1. ASSUME NEW p \in Rank, NEW i \in DOMAIN free[p]
      PROVE  packet[p][free[p][i]].request = "null"
  BY <1>0 DEF IdleInv, PoolIdle
<1>2. ASSUME NEW p \in Rank, NEW q \in Rank, NEW i \in DOMAIN chan[p][q]
      PROVE  LET b == Wire(p, chan[p][q][i]).body
             IN b[1] = p /\ b[2] = q /\ b[3] = round[p]
  <2>1. Wire(p, chan[p][q][i]) = WirePacket(p, q, round[p], Delivered(p, q) + i, Len(sendBuf[p][q].list))
    BY <1>0, WireFacts
  <2>2. Wire(p, chan[p][q][i]).body = <<p, q, round[p], Delivered(p, q) + i>>
    BY <2>1 DEF WirePacket
  <2>. QED
    BY <2>2
<1>. QED
  BY <1>1, <1>2 DEF NoReuseInFlight

\* The invariant says that what was read is the whole message.
LEMMA ReadsWhole == ExchangeInv => MessageIntegrity
PROOF
<1>. SUFFICES ASSUME ExchangeInv, NEW p \in Rank, NEW q \in Rank, inbox[p][q] # <<>>
              PROVE  /\ \A i \in DOMAIN inbox[p][q] : inbox[p][q][i] = <<q, p, round[p], i>>
                     /\ round[q] = round[p] /\ pc[q] # "release"
                           => Len(inbox[p][q]) = Len(sendBuf[q][p].list)
  BY DEF MessageIntegrity
<1>0. TypeOK /\ BufferInv /\ ReadInv
  BY DEF ExchangeInv
<1>1. Got(p, q)
  BY <1>0 DEF BufferInv, BuffersRight
<1>. DEFINE list == recvBuf[p][q].list
<1>2. /\ inbox[p][q] = [i \in DOMAIN list |-> <<q, p, round[p], i>>]
      /\ round[q] = round[p] => HasSent(q, p)
      /\ round[q] = round[p] /\ Filled(q, p) => Len(list) = Len(sendBuf[q][p].list)
  BY <1>0, <1>1 DEF ReadInv, Reads
<1>3. list \in Seq(Nat) /\ inbox[p][q] \in Seq(Bodies)
  BY <1>0, Types
<1>4. HasSent(q, p) /\ pc[q] # "release" => Filled(q, p)
  BY DEF HasSent, OnTheWay, Left, Filled
<1>. HIDE DEF list
<1>5. Len(inbox[p][q]) = Len(list)
  <2>1. DOMAIN inbox[p][q] = DOMAIN list
    BY <1>2
  <2>. QED
    BY <1>3, <2>1
<1>6. \A i \in DOMAIN inbox[p][q] : inbox[p][q][i] = <<q, p, round[p], i>>
  BY <1>2
<1>. QED
  BY <1>2, <1>4, <1>5, <1>6

\* The invariant says that nothing of a round is left once its barrier is passed.
LEMMA BarrierQuiet == ExchangeInv => QuietAfterBarrier
PROOF
<1>. SUFFICES ASSUME ExchangeInv, NEW p \in Rank, NEW q \in Rank
              PROVE  /\ round[p] > round[q] => round[p] = round[q] + 1 /\ pc[q] \in {"barrier", "finish", "release"}
                     /\ pc[p] \in {"finish", "release"} => chan[q][p] = <<>> \/ round[q] > round[p]
  BY DEF QuietAfterBarrier
<1>0. TypeOK /\ ControlInv /\ BarrierInv /\ WireInv
  BY DEF ExchangeInv
<1>1. round[p] \in Nat /\ round[q] \in Nat /\ entered[q] \in Nat
  BY <1>0, Types
<1>2. ASSUME round[p] > round[q]
      PROVE  round[p] = round[q] + 1 /\ pc[q] \in {"barrier", "finish", "release"}
  <2>1. Passed(p) <= entered[q] /\ Passed(p) \in {round[p], round[p] - 1}
    BY <1>0 DEF BarrierInv, Passed
  <2>2. entered[q] <= round[q] /\ (entered[q] = round[q] => pc[q] \in {"barrier", "finish", "release"})
    BY <1>0, EnteredBound
  <2>. HIDE DEF Passed
  <2>3. round[p] - 1 <= entered[q]
    BY <1>1, <2>1
  <2>4. round[p] = round[q] + 1 /\ entered[q] = round[q]
    BY <1>1, <1>2, <2>2, <2>3
  <2>. QED
    BY <2>2, <2>4
<1>3. ASSUME pc[p] \in {"finish", "release"}, ~(round[q] > round[p])
      PROVE  chan[q][p] = <<>>
  <2>1. Served(q, p)
    BY <1>1, <1>3 DEF Served
  <2>. QED
    BY <1>0, <2>1 DEF WireInv, OnWire
<1>. QED
  BY <1>2, <1>3

\* CommunicationPacketPool: a packet is in the pool, in one buffer or in one
\* pending receive, never in two of them and never lost.
THEOREM PacketsStayHeldOnce == Spec => []PacketsHeldOnce
PROOF BY ExchangeInvariant, TidyHeldOnce, PTL

\* popPacket never hands out a packet that MPI still reads or writes: pooled
\* packets are idle, and what is on the wire is what was packed for this round.
THEOREM NeverReusedInFlight == Spec => []NoReuseInFlight
PROOF BY ExchangeInvariant, IdleNotReused, PTL

\* unpackAllData hands the unpack function the whole message of the peer's same
\* round, its packets in order, none missing and none of another message.
THEOREM MessagesStayWhole == Spec => []MessageIntegrity
PROOF BY ExchangeInvariant, ReadsWhole, PTL

\* The barrier at the end of unpackAllData keeps the rounds apart: nobody is more
\* than one ahead, and nothing of a round is on the wire when it is over.
THEOREM StaysQuietAfterBarrier == Spec => []QuietAfterBarrier
PROOF BY ExchangeInvariant, BarrierQuiet, PTL

-------------------------------------------------------------------------------
(* The rounds of BulkExchange, as the buffers and the pool show them *)

\* What a process sees of the exchange: its round, what it has taken.
Rnd(p) == IF Left(p) THEN round[p] + 1 ELSE round[p]
Taken(p, q) == IF Left(p) THEN <<>> ELSE inbox[p][q]
AtBarrier(p) == pc[p] = "barrier"

\* The message p packs for q in this round.
Whole(p, q) == [i \in 1..Len(sendBuf[p][q].list) |-> <<p, q, round[p], i>>]
PostedRight == \A p, q \in Rank : Posted(p, q) = IF OnTheWay(p, q) THEN Whole(p, q) ELSE <<>>

\* A step after which p looks the same to the callers.
Unseen(p) ==
  /\ Rnd(p)' = Rnd(p)
  /\ AtBarrier(p)' <=> AtBarrier(p)
  /\ \A q \in Rank : Posted(p, q)' = Posted(p, q) /\ Taken(p, q)' = Taken(p, q)

\* What p has posted is the whole message it has packed, once it is on the way.
LEMMA PostsWhole == ExchangeInv => PostedRight
PROOF
<1>. SUFFICES ASSUME ExchangeInv, NEW p \in Rank, NEW q \in Rank
              PROVE  Posted(p, q) = IF OnTheWay(p, q) THEN Whole(p, q) ELSE <<>>
  BY DEF PostedRight
<1>. DEFINE list == sendBuf[p][q].list
<1>0. TypeOK /\ SendInv
  BY DEF ExchangeInv
<1>1. list \in Seq(Nat) /\ pc[p] \in {"pack", "write", "init", "unpack", "barrier", "finish", "release", "done"}
  BY <1>0, Types
<1>2. CASE OnTheWay(p, q)
  <2>1. Posted(p, q) = [i \in DOMAIN list |-> packet[p][list[i]].buff.body]
    BY <1>2 DEF Posted, OnTheWay, Left
  <2>2. DOMAIN list = 1..Len(list)
    BY <1>1
  <2>3. \A i \in 1..Len(list) : packet[p][list[i]].buff.body = <<p, q, round[p], i>>
    <3>1. Packed(p, q)
      BY <1>0 DEF SendInv
    <3>. HIDE DEF list
    <3>2. \A i \in DOMAIN list : packet[p][list[i]].buff.body = <<p, q, round[p], i>>
      BY <3>1 DEF Packed, list
    <3>. QED
      BY <2>2, <3>2
  <2>. QED
    BY <1>2, <2>1, <2>2, <2>3 DEF Whole
<1>3. CASE ~OnTheWay(p, q)
  BY <1>1, <1>3 DEF Posted, OnTheWay, Left
<1>. QED
  BY <1>2, <1>3

\* The same after a step.
LEMMA PostsWholeNext == ExchangeInv' => PostedRight'
PROOF BY PostsWhole, PTL

\* Messages that are on the way have a packet.
LEMMA WholeIsMessage ==
  ASSUME ExchangeInv, NEW p \in Rank, NEW q \in Rank, Filled(p, q)
  PROVE  /\ Whole(p, q) \in Bulk!Messages(p, q, round[p])
         /\ Whole(p, q) # <<>>
PROOF
<1>. DEFINE n == Len(sendBuf[p][q].list)
<1>0. TypeOK /\ BufferInv
  BY DEF ExchangeInv
<1>1. sendBuf[p][q].list \in Seq(Nat) /\ sendBuf[p][q].list # <<>> /\ n <= MaxPackets
  BY <1>0, Types DEF BufferInv, BuffersRight
<1>2. n \in 1..MaxPackets
  BY <1>1, BoundAssumption
<1>3. Whole(p, q) = Bulk!Message(p, q, round[p], n)
  BY DEF Whole, Bulk!Message
<1>4. 1 \in DOMAIN Whole(p, q)
  BY <1>2 DEF Whole
<1>5. Whole(p, q) # <<>>
  BY <1>4
<1>6. Whole(p, q) \in Bulk!Messages(p, q, round[p])
  BY <1>2, <1>3 DEF Bulk!Messages
<1>. QED
  BY <1>5, <1>6

\* The step of a process on which its posted messages and its inbox do not depend.
LEMMA PostedSame ==
  ASSUME PostedRight, PostedRight', NEW p \in Rank, NEW q \in Rank,
         OnTheWay(p, q)' <=> OnTheWay(p, q),
         OnTheWay(p, q) => round'[p] = round[p] /\ sendBuf'[p][q].list = sendBuf[p][q].list
  PROVE  Posted(p, q)' = Posted(p, q)
PROOF
<1>1. Posted(p, q) = IF OnTheWay(p, q) THEN Whole(p, q) ELSE <<>>
  BY DEF PostedRight
<1>2. Posted(p, q)' = IF OnTheWay(p, q)' THEN Whole(p, q)' ELSE <<>>
  BY DEF PostedRight
<1>3. OnTheWay(p, q) => Whole(p, q)' = Whole(p, q)
  BY DEF Whole
<1>. QED
  BY <1>1, <1>2, <1>3

\* A process whose control, send buffers and inbox are left alone looks the same.
LEMMA OthersUnseen ==
  ASSUME PostedRight, PostedRight', NEW p \in Rank,
         pc'[p] = pc[p], todo'[p] = todo[p], round'[p] = round[p],
         sendBuf'[p] = sendBuf[p], inbox'[p] = inbox[p]
  PROVE  Unseen(p)
PROOF
<1>1. \A q \in Rank : OnTheWay(p, q)' <=> OnTheWay(p, q)
  BY SameStage
<1>2. \A q \in Rank : Posted(p, q)' = Posted(p, q)
  BY <1>1, PostedSame
<1>3. Left(p)' <=> Left(p)
  BY SameStage
<1>4. \A q \in Rank : Taken(p, q)' = Taken(p, q)
  BY <1>3 DEF Taken
<1>5. Rnd(p)' = Rnd(p) /\ (AtBarrier(p)' <=> AtBarrier(p))
  BY <1>3 DEF Rnd, AtBarrier
<1>. QED
  BY <1>2, <1>4, <1>5 DEF Unseen
-------------------------------------------------------------------------------
(* From what the processes see to a step of BulkExchange *)

\* If every process looks the same the rounds have not moved.
LEMMA BulkStutters ==
  ASSUME \A p \in Rank : Unseen(p)
  PROVE  UNCHANGED Bulk!vars
PROOF
<1>1. /\ [p \in Rank |-> Rnd(p)]' = [p \in Rank |-> Rnd(p)]
      /\ [p \in Rank |-> [q \in Rank |-> Posted(p, q)]]' = [p \in Rank |-> [q \in Rank |-> Posted(p, q)]]
      /\ [p \in Rank |-> [q \in Rank |-> Taken(p, q)]]' = [p \in Rank |-> [q \in Rank |-> Taken(p, q)]]
      /\ {p \in Rank : AtBarrier(p)}' = {p \in Rank : AtBarrier(p)}
  BY DEF Unseen
<1>. QED
  BY <1>1 DEF Bulk!vars, Rnd, Taken, AtBarrier

\* One process has posted one message.
LEMMA BulkPosts ==
  ASSUME NEW p \in Rank, NEW q \in Rank, \A z \in Rank : z # p => Unseen(z),
         Rnd(p)' = Rnd(p), Rnd(p) <= MaxRound, ~AtBarrier(p), ~AtBarrier(p)',
         \A y \in Rank : Taken(p, y)' = Taken(p, y),
         \A y \in Rank : y # q => Posted(p, y)' = Posted(p, y),
         Posted(p, q) = <<>>, Posted(p, q)' \in Bulk!Messages(p, q, Rnd(p))
  PROVE  Bulk!Post(p, q)
PROOF
<1>. DEFINE R == [x \in Rank |-> Rnd(x)]
            M == [x \in Rank |-> [y \in Rank |-> Posted(x, y)]]
            T == [x \in Rank |-> [y \in Rank |-> Taken(x, y)]]
            S == {x \in Rank : AtBarrier(x)}
            m == Posted(p, q)'
<1>1. R' = R /\ T' = T /\ S' = S
  BY DEF Unseen
<1>2. M' = [M EXCEPT ![p][q] = m]
  BY DEF Unseen
<1>3. R[p] <= MaxRound /\ p \notin S /\ M[p][q] = <<>> /\ m \in Bulk!Messages(p, q, R[p])
  OBVIOUS
<1>. QED
  BY <1>1, <1>2, <1>3 DEF Bulk!Post, Rnd, Taken, AtBarrier

\* One process has taken one message of its own round.
LEMMA BulkTakes ==
  ASSUME NEW p \in Rank, NEW q \in Rank, \A z \in Rank : z # p => Unseen(z),
         Rnd(p)' = Rnd(p), Rnd(q) = Rnd(p), ~AtBarrier(p), ~AtBarrier(p)',
         \A y \in Rank : Posted(p, y)' = Posted(p, y),
         \A y \in Rank : y # q => Taken(p, y)' = Taken(p, y),
         Taken(p, q) = <<>>, Posted(q, p) # <<>>, Taken(p, q)' = Posted(q, p)
  PROVE  Bulk!Take(p, q)
PROOF
<1>. DEFINE R == [x \in Rank |-> Rnd(x)]
            M == [x \in Rank |-> [y \in Rank |-> Posted(x, y)]]
            T == [x \in Rank |-> [y \in Rank |-> Taken(x, y)]]
            S == {x \in Rank : AtBarrier(x)}
<1>1. R' = R /\ M' = M /\ S' = S
  BY DEF Unseen
<1>2. T' = [T EXCEPT ![p][q] = Taken(p, q)'] /\ Taken(p, q)' = M[q][p]
  <2>1. \A x, y \in Rank : x # p \/ y # q => Taken(x, y)' = Taken(x, y)
    BY Zenon DEF Unseen
  <2>2. ASSUME NEW x \in Rank
        PROVE  [y \in Rank |-> Taken(x, y)']
                 = IF x = p THEN [T[x] EXCEPT ![q] = Taken(p, q)'] ELSE T[x]
    <3>1. CASE x = p
      BY <2>1, <3>1
    <3>2. CASE x # p
      BY <2>1, <3>2
    <3>. QED
      BY <3>1, <3>2
  <2>3. T' = [x \in Rank |-> IF x = p THEN [T[x] EXCEPT ![q] = Taken(p, q)'] ELSE T[x]]
    BY <2>2
  <2>4. Taken(p, q)' = M[q][p]
    OBVIOUS
  <2>. QED
    BY <2>3, <2>4
<1>3. R[q] = R[p] /\ p \notin S /\ T[p][q] = <<>> /\ M[q][p] # <<>>
  OBVIOUS
<1>. QED
  BY <1>1, <1>2, <1>3 DEF Bulk!Take, Rnd, Taken, AtBarrier

\* One process waits at the end of its round.
LEMMA BulkSyncs ==
  ASSUME NEW p \in Rank, \A z \in Rank : z # p => Unseen(z),
         Rnd(p)' = Rnd(p), ~AtBarrier(p), AtBarrier(p)',
         \A y \in Rank : Posted(p, y)' = Posted(p, y) /\ Taken(p, y)' = Taken(p, y),
         \A y \in Rank : Posted(p, y) # <<>> /\ Taken(p, y) # <<>>
  PROVE  Bulk!Sync(p)
PROOF
<1>. DEFINE R == [x \in Rank |-> Rnd(x)]
            M == [x \in Rank |-> [y \in Rank |-> Posted(x, y)]]
            T == [x \in Rank |-> [y \in Rank |-> Taken(x, y)]]
            S == {x \in Rank : AtBarrier(x)}
<1>1. R' = R /\ M' = M /\ T' = T
  BY DEF Unseen
<1>2. S' = S \union {p} /\ p \notin S
  BY DEF Unseen
<1>3. \A y \in Rank : M[p][y] # <<>> /\ T[p][y] # <<>>
  OBVIOUS
<1>. QED
  BY <1>1, <1>2, <1>3 DEF Bulk!Sync, Rnd, Taken, AtBarrier

\* One process has started its next round.
LEMMA BulkAdvances ==
  ASSUME NEW p \in Rank, \A z \in Rank : z # p => Unseen(z),
         Rnd(p) <= MaxRound, Rnd(p)' = Rnd(p) + 1, AtBarrier(p), ~AtBarrier(p)',
         \A y \in Rank : Posted(p, y)' = <<>> /\ Taken(p, y)' = <<>>,
         \A q \in Rank : AtBarrier(q) \/ Rnd(q) > Rnd(p)
  PROVE  Bulk!Advance(p)
PROOF
<1>. DEFINE R == [x \in Rank |-> Rnd(x)]
            M == [x \in Rank |-> [y \in Rank |-> Posted(x, y)]]
            T == [x \in Rank |-> [y \in Rank |-> Taken(x, y)]]
            S == {x \in Rank : AtBarrier(x)}
            N == [y \in Rank |-> <<>>]
<1>1. R' = [R EXCEPT ![p] = @ + 1] /\ S' = S \ {p}
  BY DEF Unseen
<1>2. M' = [M EXCEPT ![p] = N] /\ T' = [T EXCEPT ![p] = N]
  BY DEF Unseen
<1>3. R[p] <= MaxRound /\ p \in S /\ \A q \in Rank : q \in S \/ R[q] > R[p]
  OBVIOUS
<1>. QED
  BY <1>1, <1>2, <1>3 DEF Bulk!Advance, Bulk!Nothing, Rnd, Taken, AtBarrier

-------------------------------------------------------------------------------
(* Every step is a step of the rounds, or the callers do not see it *)

\* Processes other than the one that acts look the same.
LEMMA OthersLeftAlone ==
  ASSUME ExchangeInv, ExchangeInv', NEW p \in Rank,
         \A z \in Rank : z # p => /\ pc'[z] = pc[z] /\ todo'[z] = todo[z] /\ round'[z] = round[z]
                                  /\ sendBuf'[z] = sendBuf[z] /\ inbox'[z] = inbox[z]
  PROVE  \A z \in Rank : z # p => Unseen(z)
PROOF
<1>1. PostedRight /\ PostedRight'
  BY PostsWhole, PostsWholeNext
<1>. QED
  BY <1>1, OthersUnseen

\* Packing goes on in packets nobody can see.
LEMMA PackingUnseen ==
  ASSUME ExchangeInv, ExchangeInv', NEW p \in Rank, NEW q \in Rank, Packing(p, q)
  PROVE  UNCHANGED Bulk!vars
PROOF
<1>0. TypeOK /\ TypeOK' /\ PostedRight /\ PostedRight'
  BY PostsWhole, PostsWholeNext DEF ExchangeInv
<1>1. /\ \A z \in Rank : z # p => pc'[z] = pc[z]
      /\ todo' = todo /\ round' = round /\ inbox' = inbox
      /\ pc[p] \in {"pack", "write"} /\ pc'[p] \in {"pack", "write"}
  BY <1>0 DEF Packing, TypeOK
<1>2. \A z \in Rank : z # p => sendBuf'[z] = sendBuf[z]
  BY <1>0 DEF Packing, AppendPacket, TypeOK
<1>3. \A y \in Rank : ~OnTheWay(p, y) /\ ~OnTheWay(p, y)'
  BY <1>1 DEF OnTheWay
<1>4. ~Left(p) /\ ~Left(p)' /\ ~AtBarrier(p) /\ ~AtBarrier(p)'
  BY <1>1 DEF Left, AtBarrier
<1>5. \A y \in Rank : Posted(p, y)' = Posted(p, y)
  BY <1>0, <1>3, PostedSame
<1>6. Unseen(p)
  BY <1>1, <1>4, <1>5 DEF Unseen, Rnd, Taken
<1>7. \A z \in Rank : z # p => Unseen(z)
  BY <1>1, <1>2, OthersLeftAlone
<1>. QED
  BY <1>6, <1>7, BulkStutters

\* The return of the pack function is not seen by the other processes.
LEMMA PackReturnUnseen ==
  ASSUME ExchangeInv, ExchangeInv', NEW p \in Rank, NEW q \in Rank, PackReturn(p, q)
  PROVE  UNCHANGED Bulk!vars
PROOF
<1>0. TypeOK /\ TypeOK' /\ PostedRight /\ PostedRight'
  BY PostsWhole, PostsWholeNext DEF ExchangeInv
<1>1. /\ round' = round /\ sendBuf' = sendBuf /\ inbox' = inbox
      /\ NextPeer(p, q, "pack", "init") /\ pc[p] = "write"
  BY DEF PackReturn, memory
<1>2. /\ \A z \in Rank : z # p => pc'[z] = pc[z] /\ todo'[z] = todo[z]
      /\ pc'[p] \in {"pack", "init"}
  BY <1>0, <1>1, NextPeerFacts
<1>3. /\ \A y \in Rank : ~OnTheWay(p, y) /\ ~OnTheWay(p, y)'
      /\ ~Left(p) /\ ~Left(p)'
  BY <1>0, PackReturnStage
<1>4. ~AtBarrier(p) /\ ~AtBarrier(p)'
  BY <1>1, <1>2 DEF AtBarrier
<1>5. \A y \in Rank : Posted(p, y)' = Posted(p, y)
  BY <1>0, <1>3, PostedSame
<1>6. Unseen(p)
  BY <1>1, <1>3, <1>4, <1>5 DEF Unseen, Rnd, Taken
<1>7. \A z \in Rank : z # p => Unseen(z)
  BY <1>1, <1>2, OthersLeftAlone
<1>. QED
  BY <1>6, <1>7, BulkStutters

\* initExchange posts the message.
LEMMA InitExchangePosts ==
  ASSUME ExchangeInv, ExchangeInv', NEW p \in Rank, NEW q \in Rank, InitExchange(p, q)
  PROVE  Bulk!Post(p, q)
PROOF
<1>0. TypeOK /\ TypeOK' /\ ControlInv /\ PostedRight /\ PostedRight'
  BY PostsWhole, PostsWholeNext DEF ExchangeInv
<1>1. /\ round' = round /\ inbox' = inbox /\ sendBuf' = [sendBuf EXCEPT ![p][q].completed = FALSE]
      /\ NextPeer(p, q, "init", "unpack") /\ pc[p] = "init"
  BY DEF InitExchange
<1>2. /\ \A z \in Rank : z # p => pc'[z] = pc[z] /\ todo'[z] = todo[z]
      /\ pc'[p] \in {"init", "unpack"}
  BY <1>0, <1>1, NextPeerFacts
<1>3. /\ ~OnTheWay(p, q) /\ OnTheWay(p, q)' /\ Filled(p, q)'
      /\ ~Left(p) /\ ~Left(p)'
      /\ \A y \in Rank : y # q => (OnTheWay(p, y)' <=> OnTheWay(p, y))
  BY <1>0, InitExchangeStage
<1>4. /\ \A z \in Rank : z # p => sendBuf'[z] = sendBuf[z]
      /\ \A y \in Rank : sendBuf'[p][y].list = sendBuf[p][y].list
  BY <1>0, <1>1 DEF TypeOK
<1>5. ~AtBarrier(p) /\ ~AtBarrier(p)'
  BY <1>1, <1>2 DEF AtBarrier
<1>6. \A y \in Rank : y # q => Posted(p, y)' = Posted(p, y)
  BY <1>0, <1>1, <1>3, <1>4, PostedSame
<1>7. Posted(p, q) = <<>> /\ Posted(p, q)' = Whole(p, q)'
  BY <1>0, <1>3 DEF PostedRight
<1>8. Rnd(p) = round[p] /\ Rnd(p)' = Rnd(p) /\ \A y \in Rank : Taken(p, y)' = Taken(p, y)
  BY <1>1, <1>3 DEF Rnd, Taken
<1>9. Whole(p, q)' = Whole(p, q) /\ Filled(p, q)
  BY <1>0, <1>1, <1>4, InitExchangeStage DEF Whole
<1>10. Posted(p, q)' \in Bulk!Messages(p, q, Rnd(p))
  BY <1>7, <1>8, <1>9, WholeIsMessage
<1>11. Rnd(p) <= MaxRound
  BY <1>0, <1>1, <1>8, EnteredBound, BoundAssumption
<1>12. \A z \in Rank : z # p => Unseen(z)
  BY <1>1, <1>2, <1>4, OthersLeftAlone
<1>. QED
  BY <1>5, <1>6, <1>7, <1>8, <1>10, <1>11, <1>12, BulkPosts

\* The pieces of a message are not seen one by one.
LEMMA ReceivePacketUnseen ==
  ASSUME ExchangeInv, ExchangeInv', NEW p \in Rank, NEW q \in Rank, ReceivePacket(p, q)
  PROVE  UNCHANGED Bulk!vars
PROOF
<1>1. pc' = pc /\ todo' = todo /\ round' = round /\ sendBuf' = sendBuf /\ inbox' = inbox
  BY DEF ReceivePacket, local
<1>2. \A z \in Rank : Unseen(z)
  BY <1>1, PostsWhole, PostsWholeNext, OthersUnseen
<1>. QED
  BY <1>2, BulkStutters

\* Nor is a step of MPI.
LEMMA NetworkUnseen ==
  ASSUME ExchangeInv, ExchangeInv', NEW p \in Rank, NEW q \in Rank, Copy(p, q) \/ Deliver(p, q)
  PROVE  UNCHANGED Bulk!vars
PROOF
<1>1. pc' = pc /\ todo' = todo /\ round' = round /\ sendBuf' = sendBuf /\ inbox' = inbox
  BY DEF Copy, Deliver, local
<1>2. \A z \in Rank : Unseen(z)
  BY <1>1, PostsWhole, PostsWholeNext, OthersUnseen
<1>. QED
  BY <1>2, BulkStutters

\* The last packet: the unpack function takes the whole message.
LEMMA ReceiveLastTakes ==
  ASSUME ExchangeInv, ExchangeInv', NEW p \in Rank, NEW q \in Rank, ReceiveLast(p, q)
  PROVE  Bulk!Take(p, q)
PROOF
<1>0. /\ TypeOK /\ TypeOK' /\ ControlInv /\ BufferInv /\ BufferInv' /\ ReadInv'
      /\ PostedRight /\ PostedRight'
  BY PostsWhole, PostsWholeNext DEF ExchangeInv
<1>1. /\ pc' = pc /\ round' = round /\ sendBuf' = sendBuf /\ pc[p] = "unpack"
      /\ \A z \in Rank : z # p => todo'[z] = todo[z] /\ inbox'[z] = inbox[z]
      /\ \A y \in Rank : y # q => inbox'[p][y] = inbox[p][y]
  <2>. DEFINE list == Append(recvBuf[p][q].list, recvBuf[p][q].active)
              x == [i \in DOMAIN list |-> packet[p][list[i]].buff.body]
  <2>1. /\ pc' = pc /\ round' = round /\ sendBuf' = sendBuf /\ pc[p] = "unpack"
        /\ todo' = [todo EXCEPT ![p] = @ \ {q}] /\ inbox' = [inbox EXCEPT ![p][q] = x]
    BY DEF ReceiveLast, Received
  <2>. HIDE DEF x
  <2>2. todo \in [Rank -> SUBSET Rank] /\ inbox \in [Rank -> [Rank -> Seq(Bodies)]]
    BY <1>0 DEF TypeOK
  <2>. QED
    BY <2>1, <2>2
<1>2. /\ Waiting(p, q) /\ Got(p, q)' /\ ~Left(p) /\ ~Left(p)'
      /\ \A y \in Rank : OnTheWay(p, y) /\ OnTheWay(p, y)'
  BY <1>0, ReceiveLastStage
<1>3. round[q] = round[p] /\ OnTheWay(q, p)
  BY ArrivedFacts DEF ReceiveLast
<1>4. Filled(q, p) /\ ~Left(q)
  BY <1>3 DEF OnTheWay, Filled, Left
<1>5. Filled(q, p)'
  <2>1. CASE q = p
    BY <1>1, <2>1 DEF Filled
  <2>2. CASE q # p
    BY <1>1, <1>4, <2>2, SameStage
  <2>. QED
    BY <2>1, <2>2
<1>6. ~AtBarrier(p) /\ ~AtBarrier(p)'
  BY <1>1 DEF AtBarrier
<1>7. \A y \in Rank : Posted(p, y)' = Posted(p, y)
  BY <1>0, <1>1, <1>2, PostedSame
<1>8. /\ Rnd(p)' = Rnd(p) /\ Rnd(q) = Rnd(p)
      /\ \A y \in Rank : y # q => Taken(p, y)' = Taken(p, y)
  BY <1>1, <1>2, <1>3, <1>4 DEF Rnd, Taken
<1>9. Taken(p, q) = <<>>
  BY <1>0, <1>2 DEF Taken, BufferInv, BuffersRight
<1>10. Posted(q, p) = Whole(q, p) /\ Whole(q, p) # <<>>
  BY <1>0, <1>3, <1>4, WholeIsMessage DEF PostedRight
<1>11. Taken(p, q)' = Posted(q, p)
  <2>1. Reads(q, p)'
    BY <1>0 DEF ReadInv
  <2>2. /\ inbox'[p][q] = [i \in DOMAIN recvBuf'[p][q].list |-> <<q, p, round'[p], i>>]
        /\ Len(recvBuf'[p][q].list) = Len(sendBuf'[q][p].list)
    BY <1>1, <1>2, <1>3, <1>5, <2>1 DEF Reads
  <2>3. recvBuf'[p][q].list \in Seq(Nat \ {0})
    BY <1>0 DEF TypeOK
  <2>4. DOMAIN recvBuf'[p][q].list = 1..Len(sendBuf[q][p].list)
    BY <1>1, <2>2, <2>3
  <2>5. inbox'[p][q] = Whole(q, p)
    BY <1>1, <1>3, <2>2, <2>4 DEF Whole
  <2>. QED
    BY <1>2, <1>10, <2>5 DEF Taken
<1>12. \A z \in Rank : z # p => Unseen(z)
  BY <1>1, OthersLeftAlone
<1>. QED
  BY <1>6, <1>7, <1>8, <1>9, <1>10, <1>11, <1>12, BulkTakes

\* MPI_Barrier: p has everybody's message.
LEMMA EnterBarrierSyncs ==
  ASSUME ExchangeInv, ExchangeInv', NEW p \in Rank, EnterBarrier(p)
  PROVE  Bulk!Sync(p)
PROOF
<1>0. TypeOK /\ TypeOK' /\ ReadInv /\ PostedRight /\ PostedRight'
  BY PostsWhole, PostsWholeNext DEF ExchangeInv
<1>1. /\ pc[p] = "unpack" /\ pc'[p] = "barrier" /\ todo' = todo /\ round' = round
      /\ sendBuf' = sendBuf /\ inbox' = inbox
      /\ \A z \in Rank : z # p => pc'[z] = pc[z]
  BY <1>0 DEF EnterBarrier, memory, TypeOK
<1>2. /\ \A y \in Rank : Filled(p, y) /\ OnTheWay(p, y) /\ OnTheWay(p, y)' /\ Got(p, y)
      /\ ~Left(p) /\ ~Left(p)'
  BY <1>0, EnterBarrierStage
<1>3. ~AtBarrier(p) /\ AtBarrier(p)'
  BY <1>1 DEF AtBarrier
<1>4. \A y \in Rank : Posted(p, y)' = Posted(p, y) /\ Posted(p, y) # <<>>
  <2>. TAKE y \in Rank
  <2>1. Posted(p, y)' = Posted(p, y)
    BY <1>0, <1>1, <1>2, PostedSame
  <2>2. Posted(p, y) = Whole(p, y)
    BY <1>0, <1>2 DEF PostedRight
  <2>. QED
    BY <1>2, <2>1, <2>2, WholeIsMessage
<1>5. Rnd(p)' = Rnd(p) /\ \A y \in Rank : Taken(p, y)' = Taken(p, y)
  BY <1>1, <1>2 DEF Rnd, Taken
<1>6. \A y \in Rank : Taken(p, y) # <<>>
  <2>. TAKE y \in Rank
  <2>1. Reads(y, p) /\ Got(p, y)
    BY <1>0, <1>2 DEF ReadInv
  <2>2. /\ recvBuf[p][y].list # <<>> /\ recvBuf[p][y].list \in Seq(Nat \ {0})
        /\ inbox[p][y] = [i \in DOMAIN recvBuf[p][y].list |-> <<y, p, round[p], i>>]
    BY <1>0, <2>1, Types DEF Reads
  <2>3. 1 \in DOMAIN recvBuf[p][y].list
    BY <2>2
  <2>4. 1 \in DOMAIN inbox[p][y]
    BY <2>2, <2>3
  <2>5. inbox[p][y] # <<>>
    BY <2>4
  <2>. QED
    BY <1>2, <2>5 DEF Taken
<1>7. \A z \in Rank : z # p => Unseen(z)
  BY <1>1, OthersLeftAlone
<1>. QED
  BY <1>3, <1>4, <1>5, <1>6, <1>7, BulkSyncs

\* MPI_Barrier returns: p is in its next round.
LEMMA LeaveBarrierAdvances ==
  ASSUME ExchangeInv, ExchangeInv', NEW p \in Rank, LeaveBarrier(p)
  PROVE  Bulk!Advance(p)
PROOF
<1>0. TypeOK /\ TypeOK' /\ ControlInv /\ PostedRight /\ PostedRight'
  BY PostsWhole, PostsWholeNext DEF ExchangeInv
<1>1. /\ pc[p] = "barrier" /\ pc'[p] = "finish" /\ round' = round
      /\ sendBuf' = sendBuf /\ inbox' = inbox
      /\ \A z \in Rank : z # p => pc'[z] = pc[z] /\ todo'[z] = todo[z]
  BY <1>0 DEF LeaveBarrier, memory, TypeOK
<1>2. /\ \A y \in Rank : ~OnTheWay(p, y)'
      /\ ~Left(p) /\ Left(p)'
  BY <1>0, LeaveBarrierStage
<1>3. AtBarrier(p) /\ ~AtBarrier(p)'
  BY <1>1 DEF AtBarrier
<1>4. \A y \in Rank : Posted(p, y)' = <<>> /\ Taken(p, y)' = <<>>
  BY <1>0, <1>2 DEF PostedRight, Taken
<1>5. Rnd(p) = round[p] /\ Rnd(p)' = Rnd(p) + 1
  BY <1>1, <1>2 DEF Rnd
<1>6. Rnd(p) <= MaxRound
  BY <1>0, <1>1, <1>5, EnteredBound, BoundAssumption
<1>7. \A q \in Rank : AtBarrier(q) \/ Rnd(q) > Rnd(p)
  <2>. TAKE q \in Rank
  <2>1. entered[q] >= entered[p] /\ entered[p] = round[p] /\ round[p] \in Nat /\ round[q] \in Nat
    BY <1>0, <1>1, Types DEF LeaveBarrier, AllEntered, ControlInv
  <2>2. entered[q] <= round[q] /\ (entered[q] = round[q] => pc[q] \in {"barrier", "finish", "release"})
        /\ entered[q] \in {round[q], round[q] - 1}
    BY <1>0, EnteredBound
  <2>3. CASE entered[q] = round[q]
    BY <1>5, <2>1, <2>2, <2>3 DEF AtBarrier, Rnd, Left
  <2>4. CASE entered[q] = round[q] - 1
    <3>1. round[q] > round[p]
      BY <2>1, <2>4
    <3>. QED
      BY <1>5, <2>1, <3>1 DEF Rnd
  <2>. QED
    BY <2>2, <2>3, <2>4
<1>8. \A z \in Rank : z # p => Unseen(z)
  BY <1>1, OthersLeftAlone
<1>. QED
  BY <1>3, <1>4, <1>5, <1>6, <1>7, <1>8, BulkAdvances

\* Tests and destructors come after the round.
LEMMA FinishExchangeUnseen ==
  ASSUME ExchangeInv, ExchangeInv', NEW p \in Rank, NEW q \in Rank, FinishExchange(p, q)
  PROVE  UNCHANGED Bulk!vars
PROOF
<1>0. TypeOK /\ TypeOK' /\ PostedRight /\ PostedRight'
  BY PostsWhole, PostsWholeNext DEF ExchangeInv
<1>1. /\ round' = round /\ inbox' = inbox /\ sendBuf' = [sendBuf EXCEPT ![p][q].completed = TRUE]
      /\ NextPeer(p, q, "finish", "release") /\ pc[p] = "finish"
  BY DEF FinishExchange
<1>2. /\ \A z \in Rank : z # p => pc'[z] = pc[z] /\ todo'[z] = todo[z]
      /\ pc'[p] \in {"finish", "release"}
  BY <1>0, <1>1, NextPeerFacts
<1>3. /\ \A y \in Rank : ~OnTheWay(p, y) /\ ~OnTheWay(p, y)'
      /\ Left(p) /\ Left(p)'
  BY <1>0, FinishExchangeStage
<1>4. ~AtBarrier(p) /\ ~AtBarrier(p)'
  BY <1>1, <1>2 DEF AtBarrier
<1>5. \A y \in Rank : Posted(p, y)' = Posted(p, y)
  BY <1>0, <1>3, PostedSame
<1>6. Unseen(p)
  BY <1>1, <1>3, <1>4, <1>5 DEF Unseen, Rnd, Taken
<1>7. \A z \in Rank : z # p => sendBuf'[z] = sendBuf[z]
  BY <1>0, <1>1 DEF TypeOK
<1>8. \A z \in Rank : z # p => Unseen(z)
  BY <1>1, <1>2, <1>7, OthersLeftAlone
<1>. QED
  BY <1>6, <1>8, BulkStutters

\* The destructors run after the round: nothing is left to be seen.
LEMMA ReleaseUnseen ==
  ASSUME ExchangeInv, ExchangeInv', NEW p \in Rank, NEW q \in Rank, Release(p, q)
  PROVE  UNCHANGED Bulk!vars
PROOF
<1>. DEFINE next == IF round[p] = MaxRound THEN "done" ELSE "pack"
<1>0. /\ TypeOK /\ TypeOK' /\ BufferInv' /\ PostedRight /\ PostedRight'
  BY PostsWhole, PostsWholeNext DEF ExchangeInv
<1>1. /\ NextPeer(p, q, "release", next) /\ pc[p] = "release"
      /\ \A z \in Rank : z # p => /\ round'[z] = round[z] /\ inbox'[z] = inbox[z]
                                  /\ sendBuf'[z] = sendBuf[z]
  BY <1>0 DEF Release, TypeOK
<1>2. /\ \A z \in Rank : z # p => pc'[z] = pc[z] /\ todo'[z] = todo[z]
      /\ pc'[p] \in {"release", "done", "pack"}
  BY <1>0, <1>1, NextPeerFacts
<1>3. /\ \A y \in Rank : ~OnTheWay(p, y) /\ ~OnTheWay(p, y)' /\ ~Waiting(p, y)'
      /\ Left(p)
      /\ \/ Left(p)' /\ round'[p] = round[p]
         \/ /\ ~Left(p)' /\ round'[p] = round[p] + 1
            /\ \A y \in Rank : ~Got(p, y)'
  BY <1>0, ReleaseStage
<1>4. ~AtBarrier(p) /\ ~AtBarrier(p)'
  BY <1>1, <1>2 DEF AtBarrier
<1>5. \A y \in Rank : Posted(p, y)' = Posted(p, y)
  BY <1>0, <1>3, PostedSame
<1>6. Rnd(p)' = Rnd(p)
  BY <1>3 DEF Rnd
<1>7. \A y \in Rank : Taken(p, y)' = <<>> /\ Taken(p, y) = <<>>
  <2>. TAKE y \in Rank
  <2>1. BuffersRight(p, y)'
    BY <1>0 DEF BufferInv
  <2>2. ~Left(p)' => inbox'[p][y] = <<>>
    BY <1>3, <2>1 DEF BuffersRight
  <2>. QED
    BY <1>3, <2>2 DEF Taken
<1>8. Unseen(p)
  BY <1>4, <1>5, <1>6, <1>7 DEF Unseen
<1>9. \A z \in Rank : z # p => Unseen(z)
  BY <1>1, <1>2, OthersLeftAlone
<1>. QED
  BY <1>8, <1>9, BulkStutters

\* Nothing happens, nothing is seen.
LEMMA StutterUnseen ==
  ASSUME ExchangeInv, ExchangeInv', UNCHANGED vars
  PROVE  UNCHANGED Bulk!vars
PROOF
<1>1. pc' = pc /\ todo' = todo /\ round' = round /\ sendBuf' = sendBuf /\ inbox' = inbox
  BY DEF vars, local, memory
<1>2. \A z \in Rank : Unseen(z)
  BY <1>1, PostsWhole, PostsWholeNext, OthersUnseen
<1>. QED
  BY <1>2, BulkStutters

\* Before the first exchange everybody is in round 1 with nothing posted.
LEMMA InitOfRounds == Init => Bulk!Init
PROOF
<1>. SUFFICES ASSUME Init
              PROVE  Bulk!Init
  OBVIOUS
<1>1. ExchangeInv
  BY InitExchangeInv
<1>2. \A p \in Rank : pc[p] = "pack" /\ round[p] = 1 /\ \A q \in Rank : inbox[p][q] = <<>>
  BY DEF Init
<1>3. \A p \in Rank : /\ Rnd(p) = 1 /\ ~AtBarrier(p)
                      /\ \A q \in Rank : Posted(p, q) = <<>> /\ Taken(p, q) = <<>>
  BY <1>2 DEF Rnd, AtBarrier, Posted, Taken, Left
<1>4. /\ [p \in Rank |-> Rnd(p)] = [p \in Rank |-> 1]
      /\ [p \in Rank |-> [q \in Rank |-> Posted(p, q)]] = [p \in Rank |-> [q \in Rank |-> <<>>]]
      /\ [p \in Rank |-> [q \in Rank |-> Taken(p, q)]] = [p \in Rank |-> [q \in Rank |-> <<>>]]
      /\ {p \in Rank : AtBarrier(p)} = {}
  BY <1>3
<1>. QED
  BY <1>4 DEF Bulk!Init, Bulk!Nothing, Rnd, Taken, AtBarrier

\* Every step of the buffers, the pool and MPI is a step of the rounds or is not
\* seen.
LEMMA StepOfRounds ==
  ASSUME ExchangeInv, ExchangeInv', [Next]_vars
  PROVE  [Bulk!Next]_(Bulk!vars)
PROOF
<1>1. ASSUME NEW p \in Rank, NEW q \in Rank, PackData(p, q) \/ WriteMore(p, q)
      PROVE  UNCHANGED Bulk!vars
  BY <1>1, PackDataPacks, WriteMorePacks, PackingUnseen
<1>2. ASSUME NEW p \in Rank, NEW q \in Rank, PackReturn(p, q)
      PROVE  UNCHANGED Bulk!vars
  BY <1>2, PackReturnUnseen
<1>3. ASSUME NEW p \in Rank, NEW q \in Rank, InitExchange(p, q)
      PROVE  Bulk!Next
  BY <1>3, InitExchangePosts DEF Bulk!Next
<1>4. ASSUME NEW p \in Rank, NEW q \in Rank, ReceivePacket(p, q)
      PROVE  UNCHANGED Bulk!vars
  BY <1>4, ReceivePacketUnseen
<1>5. ASSUME NEW p \in Rank, NEW q \in Rank, ReceiveLast(p, q)
      PROVE  Bulk!Next
  BY <1>5, ReceiveLastTakes DEF Bulk!Next
<1>6. ASSUME NEW p \in Rank, NEW q \in Rank, FinishExchange(p, q) \/ Release(p, q)
      PROVE  UNCHANGED Bulk!vars
  BY <1>6, FinishExchangeUnseen, ReleaseUnseen
<1>7. ASSUME NEW p \in Rank, EnterBarrier(p) \/ LeaveBarrier(p)
      PROVE  Bulk!Next
  BY <1>7, EnterBarrierSyncs, LeaveBarrierAdvances DEF Bulk!Next
<1>8. ASSUME NEW p \in Rank, NEW q \in Rank, Copy(p, q) \/ Deliver(p, q)
      PROVE  UNCHANGED Bulk!vars
  BY <1>8, NetworkUnseen
<1>9. CASE UNCHANGED vars
  BY <1>9, StutterUnseen
<1>. QED
  BY <1>1, <1>2, <1>3, <1>4, <1>5, <1>6, <1>7, <1>8, <1>9 DEF Next, Process, Network

\* packAllData, initExchange, unpackAllData and finishExchange over packets and a
\* shared pool implement the rounds of BulkExchange: each process posts one whole
\* message to each, takes one from each of the same round, and goes on only when
\* nobody is still busy with that round.
THEOREM ExchangeImplementsRounds == Spec => ImplementsBulk
PROOF
<1>1. Init => Bulk!Init
  BY InitOfRounds
<1>2. ExchangeInv /\ ExchangeInv' /\ [Next]_vars => [Bulk!Next]_(Bulk!vars)
  BY StepOfRounds
<1>. QED
  BY <1>1, <1>2, ExchangeInvariant, PTL DEF Spec, ImplementsBulk, Bulk!Spec
===============================================================================
