---------------------------- MODULE FETISolverProofs ----------------------------
(***************************************************************************)
(* The exchanges of FETISolver::solve stay in step, for any number of      *)
(* processes, any partitioned problem, any number of iterations and of     *)
(* solves, and wherever the master breaks off the iteration.               *)
(*                                                                         *)
(* Each part of the solve is a series of rounds, each of which ends with a *)
(* barrier.  The invariant says in which round a process is, what is on    *)
(* its way in that round and that all of them are in the same one.         *)
(***************************************************************************)
EXTENDS FETISolver, FiniteSetTheorems, TLAPS

(* Rounds, and the inductive invariant part by part *)

Parts == {"setup", "step", "energy", "finish"}

\* The number of the barrier that comes next in a part, for each operation of it.
SlaveRound ==
  [setup  |-> <<1, 1, 2, 2, 3, 4, 5, 5, 6, 6, 7, 7, 8, 8, 9, 9>>,
   step   |-> <<1, 1, 2, 2, 3>>,
   energy |-> <<1, 1, 2, 2>>,
   finish |-> <<1, 1, 2, 2, 3, 3>>]
MasterRound ==
  [setup  |-> <<1, 1, 2, 2, 2, 3, 3, 4, 5, 5, 5, 6, 6, 6, 7, 7, 7, 7, 8, 8, 8, 9, 9, 10>>,
   step   |-> <<1, 1, 2, 2, 2, 3, 3>>,
   energy |-> <<1, 1, 2, 2, 2, 3>>,
   finish |-> <<1, 1, 2, 2, 2, 3, 3, 3>>]

\* What goes on in a round: messages up to the master, down from it, a broadcast or nothing,
\* and which.
Way ==
  [setup  |-> <<"up", "up", "none", "none", "up", "up", "up", "down", "up", "none">>,
   step   |-> <<"down", "up", "cast">>,
   energy |-> <<"down", "up", "none">>,
   finish |-> <<"down", "up", "down">>]
Subject ==
  [setup  |-> <<"boundary", "records", "maps", "start", "modes", "RBM", "QQ", "Solution", "Residual", "none">>,
   step   |-> <<"Direction", "PP", "stop">>,
   energy |-> <<"Solution", "PP", "none">>,
   finish |-> <<"Solution", "Residual", "Gammas">>]

\* The rounds in which a part ends for the slaves.
Finals == {<<"setup", 9>>, <<"energy", 2>>, <<"finish", 3>>}

\* The operations of the master from which it may still take a message before the next
\* barrier, and those after it has given one.
Open == [setup |-> {1, 3, 4, 9, 12, 13, 15, 16, 17, 22}, step |-> {3, 4}, energy |-> {3, 4},
         finish |-> {3, 4}]
Given == [setup |-> {21}, step |-> {2}, energy |-> {2}, finish |-> {2, 8}]

\* Where a process goes on after the last operation of a part.
Beyond(a, stop, energy) ==
  CASE a.part = "setup" -> Loop(a, 0)
    [] a.part = "step" /\ stop -> Enter(a, "finish")
    [] a.part = "step" /\ ~stop /\ energy -> Enter(a, "energy")
    [] a.part = "step" /\ ~stop /\ ~energy -> Loop(a, a.iter + 1)
    [] a.part = "energy" -> Loop(a, a.iter + 1)
    [] a.part = "finish" /\ a.solve < MaxSolves ->
         [part |-> "setup", i |-> 1, iter |-> 0, solve |-> a.solve + 1]
    [] a.part = "finish" /\ a.solve = MaxSolves -> Enter(a, "done")

\* The exchange a process is in: the master maps its own values after the last barrier of
\* a part, a slave may have a broadcast to take.
Closing(a) == (a.part = "setup" /\ a.i = 24) \/ (a.part = "energy" /\ a.i = 6)
Reached == IF Closing(at[0]) THEN Beyond(at[0], FALSE, mesh.energy) ELSE at[0]
Seen(q) == IF cast[q] = <<>> THEN at[q] ELSE Beyond(at[q], cast[q][1], mesh.energy)

SameRound(a, b) ==
  /\ a.part = b.part /\ a.solve = b.solve /\ a.iter = b.iter
  /\ a.part \in Parts => MasterRound[a.part][a.i] = SlaveRound[b.part][b.i]

\* The slave's operation at a, and the one before it; the same operation of the master.
Does(a) == SlaveCode[a.part][a.i]
Did(a) == SlaveCode[a.part][a.i - 1]
Leads(a) == MasterCode[a.part][a.i]

Spot == [part : Parts \union {"done", "aborted"}, i : Nat, iter : Nat, solve : Nat]
Records(q) == Packed(q, "records")
SlaveSpot(a) == a.part # "aborted" /\ (a.part \in Parts => a.i \in 1..Len(SlaveCode[a.part]))
MasterSpot(a) == a.part \in Parts => a.i \in 1..Len(MasterCode[a.part])
InSolve(a) == a.solve <= MaxSolves \/ a.part = "done"

ControlType ==
  /\ mesh \in Meshes /\ at \in [Proc -> Spot]
  /\ \A p \in Proc : InSolve(at[p])
  /\ MasterSpot(at[0]) /\ \A q \in Slave : SlaveSpot(at[q])

WireType ==
  /\ up = [q \in Slave |-> up[q]] /\ down = [q \in Slave |-> down[q]]
  /\ cast = [q \in Slave |-> cast[q]]
  /\ buf = [q \in Slave |-> [b \in {"maps", "comm", "out", "in"} |-> buf[q][b]]]
  /\ got \in Seq(Slave)
  /\ cmap = [p \in Proc |-> cmap[p]]

\* Only a slave that waits for it has a broadcast to take, and one.
CastInv(q) == cast[q] = <<>> \/
  ((cast[q] = <<TRUE>> \/ cast[q] = <<FALSE>>) /\ at[q].part = "step" /\ at[q].i = 5)

\* The master and a slave are always between the same two barriers.
LockInv(q) == at[0].part # "aborted" => SameRound(Reached, Seen(q))

\* When the program has ended because of a message, the slaves are left where they send.
AbortInv(q) == at[0].part = "aborted" => At(q, "send") \/ At(q, "barrier")

\* A message on its way to the master is that of the exchange going on.
UpInv(q) == up[q] # <<>> =>
  /\ At(q, "barrier") /\ at[q].i > 1 /\ Did(at[q]).do = "send"
  /\ LET w == Did(at[q]).what
         m == buf[q][Buffer(w)]
     IN /\ up[q] = <<Message(w, Buffer(w))>>
        /\ m.what = w /\ m.stamp = Stamp(q) /\ (w = "records" => m.values = Records(q))
        /\ w \notin AnySource => Shares(q)
  /\ at[0].part \in Parts => at[0].i \in Open[at[0].part]
  /\ q \notin Range(got)

\* The master does not go on before the slaves have sent what they send.
SendInv(q) == At(q, "send") /\ at[0].part \in Parts /\ at[0].i \notin Open[at[0].part] =>
  What(q) \notin AnySource /\ ~Shares(q)

\* A message on its way to a slave is the one it is to receive next.
DownInv(q) == down[q] # <<>> =>
  /\ Seen(q).part \in Parts /\ Does(Seen(q)).do = "receive" /\ Shares(q)
  /\ LET w == Does(Seen(q)).what
     IN /\ down[q] = <<Message(w, "in")>>
        /\ buf[q]["in"].what = w /\ buf[q]["in"].stamp = <<Seen(q).solve, Seen(q).iter>>
  /\ at[0].part \in Parts /\ at[0].i \in Given[at[0].part]

\* A slave that is done with a message of the master was sent it.
ReceiveInv(q) ==
  At(q, "barrier") /\ at[q].i > 1 /\ Did(at[q]).do = "receive" /\ Shares(q) /\ at[0].part \in Parts =>
    at[0].i \in Given[at[0].part]

\* Once the master has the records of a slave, their maps are both empty or neither.
MapInv(q) ==
  (at[0].part \in Parts /\ (at[0].part = "setup" => at[0].i > 4 \/ (at[0].i = 4 /\ q \in Range(got)))) =>
    (cmap[q] # <<>> <=> Shares(q))

SlaveInv(q) == /\ CastInv(q) /\ LockInv(q) /\ AbortInv(q) /\ UpInv(q) /\ SendInv(q)
               /\ DownInv(q) /\ ReceiveInv(q) /\ MapInv(q)

\* The master counts a slave once, in the exchange going on.
GotInv ==
  /\ got # <<>> /\ at[0].part # "aborted" => At(0, "take")
  /\ \A i, j \in DOMAIN got : got[i] = got[j] => i = j
  /\ \A q \in Range(got) : At(q, "barrier")

\* When the program has ended because of a message, the slaves are in one exchange.
TogetherInv ==
  at[0].part = "aborted" => \A p, q \in Slave :
    /\ at[p].part = at[q].part /\ Stamp(p) = Stamp(q)
    /\ SlaveRound[at[p].part][at[p].i] = SlaveRound[at[q].part][at[q].i]

FInv == ControlType /\ WireType /\ GotInv /\ TogetherInv /\ \A q \in Slave : SlaveInv(q)
-------------------------------------------------------------------------------
(* What the tables say *)

\* Operation i of a part at a slave: a message is that of its round, the barrier of the round
\* comes right after it, and after a barrier the next round, or the end of the part.
SlaveRule(part, i) ==
  LET op == SlaveCode[part][i].do
      k == SlaveRound[part][i]
  IN /\ op \in {"send", "receive", "barrier", "hear"}
     /\ op # "hear" => SlaveCode[part][i].what = Subject[part][k]
     /\ op = "hear" <=> (part = "step" /\ i = 5)
     /\ op = "hear" => i = Len(SlaveCode[part])
     /\ op = "send" => Way[part][k] = "up"
     /\ op = "receive" => Way[part][k] = "down"
     /\ Way[part][k] = "up" => op # "receive"
     /\ Way[part][k] = "down" => op # "send"
     /\ Way[part][k] = "none" => op = "barrier"
     /\ Way[part][k] = "cast" <=> op = "hear"
     /\ op \in {"send", "receive"} =>
          /\ i < Len(SlaveCode[part]) /\ SlaveCode[part][i + 1].do = "barrier"
          /\ SlaveRound[part][i + 1] = k
     /\ op = "barrier" /\ Way[part][k] = "up" =>
          i > 1 /\ SlaveCode[part][i - 1].do = "send" /\ SlaveCode[part][i - 1].what = Subject[part][k]
     /\ op = "barrier" /\ Way[part][k] = "down" => i > 1 /\ SlaveCode[part][i - 1].do = "receive"
     /\ op = "barrier" /\ i > 1 /\ SlaveCode[part][i - 1].do = "send" => Way[part][k] = "up"
     /\ op = "barrier" /\ i > 1 /\ SlaveCode[part][i - 1].do = "receive" => Way[part][k] = "down"
     /\ op = "barrier" /\ i < Len(SlaveCode[part]) => SlaveRound[part][i + 1] = k + 1
     /\ op = "barrier" => (i = Len(SlaveCode[part]) <=> <<part, k>> \in Finals)

\* The same at the master, which may have to map its own values once it is in the next round.
MasterRule(part, i) ==
  LET op == MasterCode[part][i].do
      what == MasterCode[part][i].what
      k == MasterRound[part][i]
  IN /\ op \in {"take", "own", "clear", "number", "give", "broadcast", "barrier"}
     /\ op \in {"take", "give", "barrier"} => what = Subject[part][k]
     /\ op = "take" => Way[part][k] = "up"
     /\ op = "give" => Way[part][k] = "down"
     /\ op = "broadcast" <=> (part = "step" /\ i = 7)
     /\ op = "broadcast" => Way[part][k] = "cast"
     /\ op = "number" <=> (part = "setup" /\ i = 6)
     /\ op = "number" => Way[part][k] = "none"
     /\ op = "own" /\ what = "records" <=> (part = "setup" /\ i = 3)
     /\ op = "take" /\ what = "records" <=> (part = "setup" /\ i = 4)
     /\ op = "take" /\ what \notin AnySource /\ part = "setup" => i > 9
     /\ op = "give" /\ part = "setup" => i > 4

\* How it goes on: with what it may take and has given, within the round and after it.
MasterOrder(part, i) ==
  LET op == MasterCode[part][i].do
      k == MasterRound[part][i]
  IN /\ op = "take" => i \in Open[part] /\ i + 1 \notin Open[part]
     /\ op = "give" => i \notin Given[part] /\ i + 1 \in Given[part]
     /\ op \in {"take", "clear", "number", "give"} => i < Len(MasterCode[part])
     /\ op # "barrier" /\ i < Len(MasterCode[part]) =>
          /\ MasterRound[part][i + 1] = k
          /\ ~(part = "setup" /\ i + 1 = 24) /\ ~(part = "energy" /\ i + 1 = 6)
          /\ op # "take" => (i + 1 \in Open[part] <=> i \in Open[part])
          /\ op # "give" => i + 1 \notin Given[part]
     /\ op # "barrier" => i \notin Given[part]
     /\ op \in {"barrier", "broadcast"} => i \notin Open[part]
     /\ op = "barrier" /\ Way[part][k] = "down" => i \in Given[part]
     /\ i = Len(MasterCode[part]) =>
          \/ part = "setup" /\ i = 24 /\ op = "own"
          \/ part = "step" /\ i = 7
          \/ part = "energy" /\ i = 6 /\ op = "own"
          \/ part = "finish" /\ i = 8 /\ op = "barrier"
     /\ (part = "setup" /\ i = 24) \/ (part = "energy" /\ i = 6) =>
          i = Len(MasterCode[part]) /\ op = "own" /\ i \notin Open[part]

\* After a barrier it is in the next round, or at the end of the solve.
MasterBarrier(part, i) ==
  LET k == MasterRound[part][i]
  IN MasterCode[part][i].do = "barrier" =>
       /\ i < Len(MasterCode[part]) =>
            /\ MasterRound[part][i + 1] = k + 1
            /\ Way[part][k + 1] = "up" => i + 1 \in Open[part]
            /\ <<part, k>> \in Finals <=> ((part = "setup" /\ i + 1 = 24) \/ (part = "energy" /\ i + 1 = 6))
       /\ i = Len(MasterCode[part]) <=> (part = "finish" /\ k = 3)

\* The lists of a slave keep the rules, operation by operation.
LEMMA SlaveRules ==
  ASSUME NEW part \in Parts, NEW i \in 1..Len(SlaveCode[part])
  PROVE  SlaveRule(part, i)
PROOF
<1>1. CASE part = "setup"
  <2>1. Len(SlaveCode[part]) = 16
    BY <1>1 DEF SlaveCode, SlaveSetUp
  <2>2. CASE i = 1
    BY <1>1, <2>1, <2>2 DEF SlaveRule, SlaveCode, SlaveRound, SlaveSetUp, Way, Subject, Finals, Do, Barrier
  <2>3. CASE i = 2
    BY <1>1, <2>1, <2>3 DEF SlaveRule, SlaveCode, SlaveRound, SlaveSetUp, Way, Subject, Finals, Do, Barrier
  <2>4. CASE i = 3
    BY <1>1, <2>1, <2>4 DEF SlaveRule, SlaveCode, SlaveRound, SlaveSetUp, Way, Subject, Finals, Do, Barrier
  <2>5. CASE i = 4
    BY <1>1, <2>1, <2>5 DEF SlaveRule, SlaveCode, SlaveRound, SlaveSetUp, Way, Subject, Finals, Do, Barrier
  <2>6. CASE i = 5
    BY <1>1, <2>1, <2>6 DEF SlaveRule, SlaveCode, SlaveRound, SlaveSetUp, Way, Subject, Finals, Do, Barrier
  <2>7. CASE i = 6
    BY <1>1, <2>1, <2>7 DEF SlaveRule, SlaveCode, SlaveRound, SlaveSetUp, Way, Subject, Finals, Do, Barrier
  <2>8. CASE i = 7
    BY <1>1, <2>1, <2>8 DEF SlaveRule, SlaveCode, SlaveRound, SlaveSetUp, Way, Subject, Finals, Do, Barrier
  <2>9. CASE i = 8
    BY <1>1, <2>1, <2>9 DEF SlaveRule, SlaveCode, SlaveRound, SlaveSetUp, Way, Subject, Finals, Do, Barrier
  <2>10. CASE i = 9
    BY <1>1, <2>1, <2>10 DEF SlaveRule, SlaveCode, SlaveRound, SlaveSetUp, Way, Subject, Finals, Do, Barrier
  <2>11. CASE i = 10
    BY <1>1, <2>1, <2>11 DEF SlaveRule, SlaveCode, SlaveRound, SlaveSetUp, Way, Subject, Finals, Do, Barrier
  <2>12. CASE i = 11
    BY <1>1, <2>1, <2>12 DEF SlaveRule, SlaveCode, SlaveRound, SlaveSetUp, Way, Subject, Finals, Do, Barrier
  <2>13. CASE i = 12
    BY <1>1, <2>1, <2>13 DEF SlaveRule, SlaveCode, SlaveRound, SlaveSetUp, Way, Subject, Finals, Do, Barrier
  <2>14. CASE i = 13
    BY <1>1, <2>1, <2>14 DEF SlaveRule, SlaveCode, SlaveRound, SlaveSetUp, Way, Subject, Finals, Do, Barrier
  <2>15. CASE i = 14
    BY <1>1, <2>1, <2>15 DEF SlaveRule, SlaveCode, SlaveRound, SlaveSetUp, Way, Subject, Finals, Do, Barrier
  <2>16. CASE i = 15
    BY <1>1, <2>1, <2>16 DEF SlaveRule, SlaveCode, SlaveRound, SlaveSetUp, Way, Subject, Finals, Do, Barrier
  <2>17. CASE i = 16
    BY <1>1, <2>1, <2>17 DEF SlaveRule, SlaveCode, SlaveRound, SlaveSetUp, Way, Subject, Finals, Do, Barrier
  <2>18. QED
    BY <2>1, <2>2, <2>3, <2>4, <2>5, <2>6, <2>7, <2>8, <2>9, <2>10, <2>11, <2>12, <2>13, <2>14, <2>15, <2>16, <2>17
<1>2. CASE part = "step"
  <2>1. Len(SlaveCode[part]) = 5
    BY <1>2 DEF SlaveCode, SlaveStep
  <2>2. CASE i = 1
    BY <1>2, <2>1, <2>2 DEF SlaveRule, SlaveCode, SlaveRound, SlaveStep, Way, Subject, Finals, Do, Barrier
  <2>3. CASE i = 2
    BY <1>2, <2>1, <2>3 DEF SlaveRule, SlaveCode, SlaveRound, SlaveStep, Way, Subject, Finals, Do, Barrier
  <2>4. CASE i = 3
    BY <1>2, <2>1, <2>4 DEF SlaveRule, SlaveCode, SlaveRound, SlaveStep, Way, Subject, Finals, Do, Barrier
  <2>5. CASE i = 4
    BY <1>2, <2>1, <2>5 DEF SlaveRule, SlaveCode, SlaveRound, SlaveStep, Way, Subject, Finals, Do, Barrier
  <2>6. CASE i = 5
    BY <1>2, <2>1, <2>6 DEF SlaveRule, SlaveCode, SlaveRound, SlaveStep, Way, Subject, Finals, Do, Barrier
  <2>7. QED
    BY <2>1, <2>2, <2>3, <2>4, <2>5, <2>6
<1>3. CASE part = "energy"
  <2>1. Len(SlaveCode[part]) = 4
    BY <1>3 DEF SlaveCode
  <2>2. CASE i = 1
    BY <1>3, <2>1, <2>2 DEF SlaveRule, SlaveCode, SlaveRound, Way, Subject, Finals, Do, Barrier
  <2>3. CASE i = 2
    BY <1>3, <2>1, <2>3 DEF SlaveRule, SlaveCode, SlaveRound, Way, Subject, Finals, Do, Barrier
  <2>4. CASE i = 3
    BY <1>3, <2>1, <2>4 DEF SlaveRule, SlaveCode, SlaveRound, Way, Subject, Finals, Do, Barrier
  <2>5. CASE i = 4
    BY <1>3, <2>1, <2>5 DEF SlaveRule, SlaveCode, SlaveRound, Way, Subject, Finals, Do, Barrier
  <2>6. QED
    BY <2>1, <2>2, <2>3, <2>4, <2>5
<1>4. CASE part = "finish"
  <2>1. Len(SlaveCode[part]) = 6
    BY <1>4 DEF SlaveCode
  <2>2. CASE i = 1
    BY <1>4, <2>1, <2>2 DEF SlaveRule, SlaveCode, SlaveRound, Way, Subject, Finals, Do, Barrier
  <2>3. CASE i = 2
    BY <1>4, <2>1, <2>3 DEF SlaveRule, SlaveCode, SlaveRound, Way, Subject, Finals, Do, Barrier
  <2>4. CASE i = 3
    BY <1>4, <2>1, <2>4 DEF SlaveRule, SlaveCode, SlaveRound, Way, Subject, Finals, Do, Barrier
  <2>5. CASE i = 4
    BY <1>4, <2>1, <2>5 DEF SlaveRule, SlaveCode, SlaveRound, Way, Subject, Finals, Do, Barrier
  <2>6. CASE i = 5
    BY <1>4, <2>1, <2>6 DEF SlaveRule, SlaveCode, SlaveRound, Way, Subject, Finals, Do, Barrier
  <2>7. CASE i = 6
    BY <1>4, <2>1, <2>7 DEF SlaveRule, SlaveCode, SlaveRound, Way, Subject, Finals, Do, Barrier
  <2>8. QED
    BY <2>1, <2>2, <2>3, <2>4, <2>5, <2>6, <2>7
<1>5. QED
  BY <1>1, <1>2, <1>3, <1>4 DEF Parts

\* So do those of the master.
LEMMA MasterRules ==
  ASSUME NEW part \in Parts, NEW i \in 1..Len(MasterCode[part])
  PROVE  MasterRule(part, i) /\ MasterOrder(part, i) /\ MasterBarrier(part, i)
PROOF
<1>1. CASE part = "setup"
  <2>1. Len(MasterCode[part]) = 24
    BY <1>1 DEF MasterCode
  <2>2. CASE i = 1
    <3>1. MasterRule(part, i)
      BY <1>1, <2>1, <2>2 DEF MasterRule, MasterCode, MasterRound, Way, Subject, AnySource, Do, Barrier
    <3>2. MasterOrder(part, i)
      BY <1>1, <2>1, <2>2 DEF MasterOrder, MasterCode, MasterRound, Way, Open, Given, Do, Barrier
    <3>3. MasterBarrier(part, i)
      BY <1>1, <2>1, <2>2 DEF MasterBarrier, MasterCode, MasterRound, Way, Open, Finals, Do, Barrier
    <3>4. QED
      BY <3>1, <3>2, <3>3
  <2>3. CASE i = 2
    <3>1. MasterRule(part, i)
      BY <1>1, <2>1, <2>3 DEF MasterRule, MasterCode, MasterRound, Way, Subject, AnySource, Do, Barrier
    <3>2. MasterOrder(part, i)
      BY <1>1, <2>1, <2>3 DEF MasterOrder, MasterCode, MasterRound, Way, Open, Given, Do, Barrier
    <3>3. MasterBarrier(part, i)
      BY <1>1, <2>1, <2>3 DEF MasterBarrier, MasterCode, MasterRound, Way, Open, Finals, Do, Barrier
    <3>4. QED
      BY <3>1, <3>2, <3>3
  <2>4. CASE i = 3
    <3>1. MasterRule(part, i)
      BY <1>1, <2>1, <2>4 DEF MasterRule, MasterCode, MasterRound, Way, Subject, AnySource, Do, Barrier
    <3>2. MasterOrder(part, i)
      BY <1>1, <2>1, <2>4 DEF MasterOrder, MasterCode, MasterRound, Way, Open, Given, Do, Barrier
    <3>3. MasterBarrier(part, i)
      BY <1>1, <2>1, <2>4 DEF MasterBarrier, MasterCode, MasterRound, Way, Open, Finals, Do, Barrier
    <3>4. QED
      BY <3>1, <3>2, <3>3
  <2>5. CASE i = 4
    <3>1. MasterRule(part, i)
      BY <1>1, <2>1, <2>5 DEF MasterRule, MasterCode, MasterRound, Way, Subject, AnySource, Do, Barrier
    <3>2. MasterOrder(part, i)
      BY <1>1, <2>1, <2>5 DEF MasterOrder, MasterCode, MasterRound, Way, Open, Given, Do, Barrier
    <3>3. MasterBarrier(part, i)
      BY <1>1, <2>1, <2>5 DEF MasterBarrier, MasterCode, MasterRound, Way, Open, Finals, Do, Barrier
    <3>4. QED
      BY <3>1, <3>2, <3>3
  <2>6. CASE i = 5
    <3>1. MasterRule(part, i)
      BY <1>1, <2>1, <2>6 DEF MasterRule, MasterCode, MasterRound, Way, Subject, AnySource, Do, Barrier
    <3>2. MasterOrder(part, i)
      BY <1>1, <2>1, <2>6 DEF MasterOrder, MasterCode, MasterRound, Way, Open, Given, Do, Barrier
    <3>3. MasterBarrier(part, i)
      BY <1>1, <2>1, <2>6 DEF MasterBarrier, MasterCode, MasterRound, Way, Open, Finals, Do, Barrier
    <3>4. QED
      BY <3>1, <3>2, <3>3
  <2>7. CASE i = 6
    <3>1. MasterRule(part, i)
      BY <1>1, <2>1, <2>7 DEF MasterRule, MasterCode, MasterRound, Way, Subject, AnySource, Do, Barrier
    <3>2. MasterOrder(part, i)
      BY <1>1, <2>1, <2>7 DEF MasterOrder, MasterCode, MasterRound, Way, Open, Given, Do, Barrier
    <3>3. MasterBarrier(part, i)
      BY <1>1, <2>1, <2>7 DEF MasterBarrier, MasterCode, MasterRound, Way, Open, Finals, Do, Barrier
    <3>4. QED
      BY <3>1, <3>2, <3>3
  <2>8. CASE i = 7
    <3>1. MasterRule(part, i)
      BY <1>1, <2>1, <2>8 DEF MasterRule, MasterCode, MasterRound, Way, Subject, AnySource, Do, Barrier
    <3>2. MasterOrder(part, i)
      BY <1>1, <2>1, <2>8 DEF MasterOrder, MasterCode, MasterRound, Way, Open, Given, Do, Barrier
    <3>3. MasterBarrier(part, i)
      BY <1>1, <2>1, <2>8 DEF MasterBarrier, MasterCode, MasterRound, Way, Open, Finals, Do, Barrier
    <3>4. QED
      BY <3>1, <3>2, <3>3
  <2>9. CASE i = 8
    <3>1. MasterRule(part, i)
      BY <1>1, <2>1, <2>9 DEF MasterRule, MasterCode, MasterRound, Way, Subject, AnySource, Do, Barrier
    <3>2. MasterOrder(part, i)
      BY <1>1, <2>1, <2>9 DEF MasterOrder, MasterCode, MasterRound, Way, Open, Given, Do, Barrier
    <3>3. MasterBarrier(part, i)
      BY <1>1, <2>1, <2>9 DEF MasterBarrier, MasterCode, MasterRound, Way, Open, Finals, Do, Barrier
    <3>4. QED
      BY <3>1, <3>2, <3>3
  <2>10. CASE i = 9
    <3>1. MasterRule(part, i)
      BY <1>1, <2>1, <2>10 DEF MasterRule, MasterCode, MasterRound, Way, Subject, AnySource, Do, Barrier
    <3>2. MasterOrder(part, i)
      BY <1>1, <2>1, <2>10 DEF MasterOrder, MasterCode, MasterRound, Way, Open, Given, Do, Barrier
    <3>3. MasterBarrier(part, i)
      BY <1>1, <2>1, <2>10 DEF MasterBarrier, MasterCode, MasterRound, Way, Open, Finals, Do, Barrier
    <3>4. QED
      BY <3>1, <3>2, <3>3
  <2>11. CASE i = 10
    <3>1. MasterRule(part, i)
      BY <1>1, <2>1, <2>11 DEF MasterRule, MasterCode, MasterRound, Way, Subject, AnySource, Do, Barrier
    <3>2. MasterOrder(part, i)
      BY <1>1, <2>1, <2>11 DEF MasterOrder, MasterCode, MasterRound, Way, Open, Given, Do, Barrier
    <3>3. MasterBarrier(part, i)
      BY <1>1, <2>1, <2>11 DEF MasterBarrier, MasterCode, MasterRound, Way, Open, Finals, Do, Barrier
    <3>4. QED
      BY <3>1, <3>2, <3>3
  <2>12. CASE i = 11
    <3>1. MasterRule(part, i)
      BY <1>1, <2>1, <2>12 DEF MasterRule, MasterCode, MasterRound, Way, Subject, AnySource, Do, Barrier
    <3>2. MasterOrder(part, i)
      BY <1>1, <2>1, <2>12 DEF MasterOrder, MasterCode, MasterRound, Way, Open, Given, Do, Barrier
    <3>3. MasterBarrier(part, i)
      BY <1>1, <2>1, <2>12 DEF MasterBarrier, MasterCode, MasterRound, Way, Open, Finals, Do, Barrier
    <3>4. QED
      BY <3>1, <3>2, <3>3
  <2>13. CASE i = 12
    <3>1. MasterRule(part, i)
      BY <1>1, <2>1, <2>13 DEF MasterRule, MasterCode, MasterRound, Way, Subject, AnySource, Do, Barrier
    <3>2. MasterOrder(part, i)
      BY <1>1, <2>1, <2>13 DEF MasterOrder, MasterCode, MasterRound, Way, Open, Given, Do, Barrier
    <3>3. MasterBarrier(part, i)
      BY <1>1, <2>1, <2>13 DEF MasterBarrier, MasterCode, MasterRound, Way, Open, Finals, Do, Barrier
    <3>4. QED
      BY <3>1, <3>2, <3>3
  <2>14. CASE i = 13
    <3>1. MasterRule(part, i)
      BY <1>1, <2>1, <2>14 DEF MasterRule, MasterCode, MasterRound, Way, Subject, AnySource, Do, Barrier
    <3>2. MasterOrder(part, i)
      BY <1>1, <2>1, <2>14 DEF MasterOrder, MasterCode, MasterRound, Way, Open, Given, Do, Barrier
    <3>3. MasterBarrier(part, i)
      BY <1>1, <2>1, <2>14 DEF MasterBarrier, MasterCode, MasterRound, Way, Open, Finals, Do, Barrier
    <3>4. QED
      BY <3>1, <3>2, <3>3
  <2>15. CASE i = 14
    <3>1. MasterRule(part, i)
      BY <1>1, <2>1, <2>15 DEF MasterRule, MasterCode, MasterRound, Way, Subject, AnySource, Do, Barrier
    <3>2. MasterOrder(part, i)
      BY <1>1, <2>1, <2>15 DEF MasterOrder, MasterCode, MasterRound, Way, Open, Given, Do, Barrier
    <3>3. MasterBarrier(part, i)
      BY <1>1, <2>1, <2>15 DEF MasterBarrier, MasterCode, MasterRound, Way, Open, Finals, Do, Barrier
    <3>4. QED
      BY <3>1, <3>2, <3>3
  <2>16. CASE i = 15
    <3>1. MasterRule(part, i)
      BY <1>1, <2>1, <2>16 DEF MasterRule, MasterCode, MasterRound, Way, Subject, AnySource, Do, Barrier
    <3>2. MasterOrder(part, i)
      BY <1>1, <2>1, <2>16 DEF MasterOrder, MasterCode, MasterRound, Way, Open, Given, Do, Barrier
    <3>3. MasterBarrier(part, i)
      BY <1>1, <2>1, <2>16 DEF MasterBarrier, MasterCode, MasterRound, Way, Open, Finals, Do, Barrier
    <3>4. QED
      BY <3>1, <3>2, <3>3
  <2>17. CASE i = 16
    <3>1. MasterRule(part, i)
      BY <1>1, <2>1, <2>17 DEF MasterRule, MasterCode, MasterRound, Way, Subject, AnySource, Do, Barrier
    <3>2. MasterOrder(part, i)
      BY <1>1, <2>1, <2>17 DEF MasterOrder, MasterCode, MasterRound, Way, Open, Given, Do, Barrier
    <3>3. MasterBarrier(part, i)
      BY <1>1, <2>1, <2>17 DEF MasterBarrier, MasterCode, MasterRound, Way, Open, Finals, Do, Barrier
    <3>4. QED
      BY <3>1, <3>2, <3>3
  <2>18. CASE i = 17
    <3>1. MasterRule(part, i)
      BY <1>1, <2>1, <2>18 DEF MasterRule, MasterCode, MasterRound, Way, Subject, AnySource, Do, Barrier
    <3>2. MasterOrder(part, i)
      BY <1>1, <2>1, <2>18 DEF MasterOrder, MasterCode, MasterRound, Way, Open, Given, Do, Barrier
    <3>3. MasterBarrier(part, i)
      BY <1>1, <2>1, <2>18 DEF MasterBarrier, MasterCode, MasterRound, Way, Open, Finals, Do, Barrier
    <3>4. QED
      BY <3>1, <3>2, <3>3
  <2>19. CASE i = 18
    <3>1. MasterRule(part, i)
      BY <1>1, <2>1, <2>19 DEF MasterRule, MasterCode, MasterRound, Way, Subject, AnySource, Do, Barrier
    <3>2. MasterOrder(part, i)
      BY <1>1, <2>1, <2>19 DEF MasterOrder, MasterCode, MasterRound, Way, Open, Given, Do, Barrier
    <3>3. MasterBarrier(part, i)
      BY <1>1, <2>1, <2>19 DEF MasterBarrier, MasterCode, MasterRound, Way, Open, Finals, Do, Barrier
    <3>4. QED
      BY <3>1, <3>2, <3>3
  <2>20. CASE i = 19
    <3>1. MasterRule(part, i)
      BY <1>1, <2>1, <2>20 DEF MasterRule, MasterCode, MasterRound, Way, Subject, AnySource, Do, Barrier
    <3>2. MasterOrder(part, i)
      BY <1>1, <2>1, <2>20 DEF MasterOrder, MasterCode, MasterRound, Way, Open, Given, Do, Barrier
    <3>3. MasterBarrier(part, i)
      BY <1>1, <2>1, <2>20 DEF MasterBarrier, MasterCode, MasterRound, Way, Open, Finals, Do, Barrier
    <3>4. QED
      BY <3>1, <3>2, <3>3
  <2>21. CASE i = 20
    <3>1. MasterRule(part, i)
      BY <1>1, <2>1, <2>21 DEF MasterRule, MasterCode, MasterRound, Way, Subject, AnySource, Do, Barrier
    <3>2. MasterOrder(part, i)
      BY <1>1, <2>1, <2>21 DEF MasterOrder, MasterCode, MasterRound, Way, Open, Given, Do, Barrier
    <3>3. MasterBarrier(part, i)
      BY <1>1, <2>1, <2>21 DEF MasterBarrier, MasterCode, MasterRound, Way, Open, Finals, Do, Barrier
    <3>4. QED
      BY <3>1, <3>2, <3>3
  <2>22. CASE i = 21
    <3>1. MasterRule(part, i)
      BY <1>1, <2>1, <2>22 DEF MasterRule, MasterCode, MasterRound, Way, Subject, AnySource, Do, Barrier
    <3>2. MasterOrder(part, i)
      BY <1>1, <2>1, <2>22 DEF MasterOrder, MasterCode, MasterRound, Way, Open, Given, Do, Barrier
    <3>3. MasterBarrier(part, i)
      BY <1>1, <2>1, <2>22 DEF MasterBarrier, MasterCode, MasterRound, Way, Open, Finals, Do, Barrier
    <3>4. QED
      BY <3>1, <3>2, <3>3
  <2>23. CASE i = 22
    <3>1. MasterRule(part, i)
      BY <1>1, <2>1, <2>23 DEF MasterRule, MasterCode, MasterRound, Way, Subject, AnySource, Do, Barrier
    <3>2. MasterOrder(part, i)
      BY <1>1, <2>1, <2>23 DEF MasterOrder, MasterCode, MasterRound, Way, Open, Given, Do, Barrier
    <3>3. MasterBarrier(part, i)
      BY <1>1, <2>1, <2>23 DEF MasterBarrier, MasterCode, MasterRound, Way, Open, Finals, Do, Barrier
    <3>4. QED
      BY <3>1, <3>2, <3>3
  <2>24. CASE i = 23
    <3>1. MasterRule(part, i)
      BY <1>1, <2>1, <2>24 DEF MasterRule, MasterCode, MasterRound, Way, Subject, AnySource, Do, Barrier
    <3>2. MasterOrder(part, i)
      BY <1>1, <2>1, <2>24 DEF MasterOrder, MasterCode, MasterRound, Way, Open, Given, Do, Barrier
    <3>3. MasterBarrier(part, i)
      BY <1>1, <2>1, <2>24 DEF MasterBarrier, MasterCode, MasterRound, Way, Open, Finals, Do, Barrier
    <3>4. QED
      BY <3>1, <3>2, <3>3
  <2>25. CASE i = 24
    <3>1. MasterRule(part, i)
      BY <1>1, <2>1, <2>25 DEF MasterRule, MasterCode, MasterRound, Way, Subject, AnySource, Do, Barrier
    <3>2. MasterOrder(part, i)
      BY <1>1, <2>1, <2>25 DEF MasterOrder, MasterCode, MasterRound, Way, Open, Given, Do, Barrier
    <3>3. MasterBarrier(part, i)
      BY <1>1, <2>1, <2>25 DEF MasterBarrier, MasterCode, MasterRound, Way, Open, Finals, Do, Barrier
    <3>4. QED
      BY <3>1, <3>2, <3>3
  <2>26. QED
    BY <2>1, <2>2, <2>3, <2>4, <2>5, <2>6, <2>7, <2>8, <2>9, <2>10, <2>11, <2>12, <2>13, <2>14, <2>15, <2>16, <2>17, <2>18, <2>19, <2>20, <2>21, <2>22, <2>23, <2>24, <2>25
<1>2. CASE part = "step"
  <2>1. Len(MasterCode[part]) = 7
    BY <1>2 DEF MasterCode
  <2>2. CASE i = 1
    <3>1. MasterRule(part, i)
      BY <1>2, <2>1, <2>2 DEF MasterRule, MasterCode, MasterRound, Way, Subject, AnySource, Do, Barrier
    <3>2. MasterOrder(part, i)
      BY <1>2, <2>1, <2>2 DEF MasterOrder, MasterCode, MasterRound, Way, Open, Given, Do, Barrier
    <3>3. MasterBarrier(part, i)
      BY <1>2, <2>1, <2>2 DEF MasterBarrier, MasterCode, MasterRound, Way, Open, Finals, Do, Barrier
    <3>4. QED
      BY <3>1, <3>2, <3>3
  <2>3. CASE i = 2
    <3>1. MasterRule(part, i)
      BY <1>2, <2>1, <2>3 DEF MasterRule, MasterCode, MasterRound, Way, Subject, AnySource, Do, Barrier
    <3>2. MasterOrder(part, i)
      BY <1>2, <2>1, <2>3 DEF MasterOrder, MasterCode, MasterRound, Way, Open, Given, Do, Barrier
    <3>3. MasterBarrier(part, i)
      BY <1>2, <2>1, <2>3 DEF MasterBarrier, MasterCode, MasterRound, Way, Open, Finals, Do, Barrier
    <3>4. QED
      BY <3>1, <3>2, <3>3
  <2>4. CASE i = 3
    <3>1. MasterRule(part, i)
      BY <1>2, <2>1, <2>4 DEF MasterRule, MasterCode, MasterRound, Way, Subject, AnySource, Do, Barrier
    <3>2. MasterOrder(part, i)
      BY <1>2, <2>1, <2>4 DEF MasterOrder, MasterCode, MasterRound, Way, Open, Given, Do, Barrier
    <3>3. MasterBarrier(part, i)
      BY <1>2, <2>1, <2>4 DEF MasterBarrier, MasterCode, MasterRound, Way, Open, Finals, Do, Barrier
    <3>4. QED
      BY <3>1, <3>2, <3>3
  <2>5. CASE i = 4
    <3>1. MasterRule(part, i)
      BY <1>2, <2>1, <2>5 DEF MasterRule, MasterCode, MasterRound, Way, Subject, AnySource, Do, Barrier
    <3>2. MasterOrder(part, i)
      BY <1>2, <2>1, <2>5 DEF MasterOrder, MasterCode, MasterRound, Way, Open, Given, Do, Barrier
    <3>3. MasterBarrier(part, i)
      BY <1>2, <2>1, <2>5 DEF MasterBarrier, MasterCode, MasterRound, Way, Open, Finals, Do, Barrier
    <3>4. QED
      BY <3>1, <3>2, <3>3
  <2>6. CASE i = 5
    <3>1. MasterRule(part, i)
      BY <1>2, <2>1, <2>6 DEF MasterRule, MasterCode, MasterRound, Way, Subject, AnySource, Do, Barrier
    <3>2. MasterOrder(part, i)
      BY <1>2, <2>1, <2>6 DEF MasterOrder, MasterCode, MasterRound, Way, Open, Given, Do, Barrier
    <3>3. MasterBarrier(part, i)
      BY <1>2, <2>1, <2>6 DEF MasterBarrier, MasterCode, MasterRound, Way, Open, Finals, Do, Barrier
    <3>4. QED
      BY <3>1, <3>2, <3>3
  <2>7. CASE i = 6
    <3>1. MasterRule(part, i)
      BY <1>2, <2>1, <2>7 DEF MasterRule, MasterCode, MasterRound, Way, Subject, AnySource, Do, Barrier
    <3>2. MasterOrder(part, i)
      BY <1>2, <2>1, <2>7 DEF MasterOrder, MasterCode, MasterRound, Way, Open, Given, Do, Barrier
    <3>3. MasterBarrier(part, i)
      BY <1>2, <2>1, <2>7 DEF MasterBarrier, MasterCode, MasterRound, Way, Open, Finals, Do, Barrier
    <3>4. QED
      BY <3>1, <3>2, <3>3
  <2>8. CASE i = 7
    <3>1. MasterRule(part, i)
      BY <1>2, <2>1, <2>8 DEF MasterRule, MasterCode, MasterRound, Way, Subject, AnySource, Do, Barrier
    <3>2. MasterOrder(part, i)
      BY <1>2, <2>1, <2>8 DEF MasterOrder, MasterCode, MasterRound, Way, Open, Given, Do, Barrier
    <3>3. MasterBarrier(part, i)
      BY <1>2, <2>1, <2>8 DEF MasterBarrier, MasterCode, MasterRound, Way, Open, Finals, Do, Barrier
    <3>4. QED
      BY <3>1, <3>2, <3>3
  <2>9. QED
    BY <2>1, <2>2, <2>3, <2>4, <2>5, <2>6, <2>7, <2>8
<1>3. CASE part = "energy"
  <2>1. Len(MasterCode[part]) = 6
    BY <1>3 DEF MasterCode
  <2>2. CASE i = 1
    <3>1. MasterRule(part, i)
      BY <1>3, <2>1, <2>2 DEF MasterRule, MasterCode, MasterRound, Way, Subject, AnySource, Do, Barrier
    <3>2. MasterOrder(part, i)
      BY <1>3, <2>1, <2>2 DEF MasterOrder, MasterCode, MasterRound, Way, Open, Given, Do, Barrier
    <3>3. MasterBarrier(part, i)
      BY <1>3, <2>1, <2>2 DEF MasterBarrier, MasterCode, MasterRound, Way, Open, Finals, Do, Barrier
    <3>4. QED
      BY <3>1, <3>2, <3>3
  <2>3. CASE i = 2
    <3>1. MasterRule(part, i)
      BY <1>3, <2>1, <2>3 DEF MasterRule, MasterCode, MasterRound, Way, Subject, AnySource, Do, Barrier
    <3>2. MasterOrder(part, i)
      BY <1>3, <2>1, <2>3 DEF MasterOrder, MasterCode, MasterRound, Way, Open, Given, Do, Barrier
    <3>3. MasterBarrier(part, i)
      BY <1>3, <2>1, <2>3 DEF MasterBarrier, MasterCode, MasterRound, Way, Open, Finals, Do, Barrier
    <3>4. QED
      BY <3>1, <3>2, <3>3
  <2>4. CASE i = 3
    <3>1. MasterRule(part, i)
      BY <1>3, <2>1, <2>4 DEF MasterRule, MasterCode, MasterRound, Way, Subject, AnySource, Do, Barrier
    <3>2. MasterOrder(part, i)
      BY <1>3, <2>1, <2>4 DEF MasterOrder, MasterCode, MasterRound, Way, Open, Given, Do, Barrier
    <3>3. MasterBarrier(part, i)
      BY <1>3, <2>1, <2>4 DEF MasterBarrier, MasterCode, MasterRound, Way, Open, Finals, Do, Barrier
    <3>4. QED
      BY <3>1, <3>2, <3>3
  <2>5. CASE i = 4
    <3>1. MasterRule(part, i)
      BY <1>3, <2>1, <2>5 DEF MasterRule, MasterCode, MasterRound, Way, Subject, AnySource, Do, Barrier
    <3>2. MasterOrder(part, i)
      BY <1>3, <2>1, <2>5 DEF MasterOrder, MasterCode, MasterRound, Way, Open, Given, Do, Barrier
    <3>3. MasterBarrier(part, i)
      BY <1>3, <2>1, <2>5 DEF MasterBarrier, MasterCode, MasterRound, Way, Open, Finals, Do, Barrier
    <3>4. QED
      BY <3>1, <3>2, <3>3
  <2>6. CASE i = 5
    <3>1. MasterRule(part, i)
      BY <1>3, <2>1, <2>6 DEF MasterRule, MasterCode, MasterRound, Way, Subject, AnySource, Do, Barrier
    <3>2. MasterOrder(part, i)
      BY <1>3, <2>1, <2>6 DEF MasterOrder, MasterCode, MasterRound, Way, Open, Given, Do, Barrier
    <3>3. MasterBarrier(part, i)
      BY <1>3, <2>1, <2>6 DEF MasterBarrier, MasterCode, MasterRound, Way, Open, Finals, Do, Barrier
    <3>4. QED
      BY <3>1, <3>2, <3>3
  <2>7. CASE i = 6
    <3>1. MasterRule(part, i)
      BY <1>3, <2>1, <2>7 DEF MasterRule, MasterCode, MasterRound, Way, Subject, AnySource, Do, Barrier
    <3>2. MasterOrder(part, i)
      BY <1>3, <2>1, <2>7 DEF MasterOrder, MasterCode, MasterRound, Way, Open, Given, Do, Barrier
    <3>3. MasterBarrier(part, i)
      BY <1>3, <2>1, <2>7 DEF MasterBarrier, MasterCode, MasterRound, Way, Open, Finals, Do, Barrier
    <3>4. QED
      BY <3>1, <3>2, <3>3
  <2>8. QED
    BY <2>1, <2>2, <2>3, <2>4, <2>5, <2>6, <2>7
<1>4. CASE part = "finish"
  <2>1. Len(MasterCode[part]) = 8
    BY <1>4 DEF MasterCode
  <2>2. CASE i = 1
    <3>1. MasterRule(part, i)
      BY <1>4, <2>1, <2>2 DEF MasterRule, MasterCode, MasterRound, Way, Subject, AnySource, Do, Barrier
    <3>2. MasterOrder(part, i)
      BY <1>4, <2>1, <2>2 DEF MasterOrder, MasterCode, MasterRound, Way, Open, Given, Do, Barrier
    <3>3. MasterBarrier(part, i)
      BY <1>4, <2>1, <2>2 DEF MasterBarrier, MasterCode, MasterRound, Way, Open, Finals, Do, Barrier
    <3>4. QED
      BY <3>1, <3>2, <3>3
  <2>3. CASE i = 2
    <3>1. MasterRule(part, i)
      BY <1>4, <2>1, <2>3 DEF MasterRule, MasterCode, MasterRound, Way, Subject, AnySource, Do, Barrier
    <3>2. MasterOrder(part, i)
      BY <1>4, <2>1, <2>3 DEF MasterOrder, MasterCode, MasterRound, Way, Open, Given, Do, Barrier
    <3>3. MasterBarrier(part, i)
      BY <1>4, <2>1, <2>3 DEF MasterBarrier, MasterCode, MasterRound, Way, Open, Finals, Do, Barrier
    <3>4. QED
      BY <3>1, <3>2, <3>3
  <2>4. CASE i = 3
    <3>1. MasterRule(part, i)
      BY <1>4, <2>1, <2>4 DEF MasterRule, MasterCode, MasterRound, Way, Subject, AnySource, Do, Barrier
    <3>2. MasterOrder(part, i)
      BY <1>4, <2>1, <2>4 DEF MasterOrder, MasterCode, MasterRound, Way, Open, Given, Do, Barrier
    <3>3. MasterBarrier(part, i)
      BY <1>4, <2>1, <2>4 DEF MasterBarrier, MasterCode, MasterRound, Way, Open, Finals, Do, Barrier
    <3>4. QED
      BY <3>1, <3>2, <3>3
  <2>5. CASE i = 4
    <3>1. MasterRule(part, i)
      BY <1>4, <2>1, <2>5 DEF MasterRule, MasterCode, MasterRound, Way, Subject, AnySource, Do, Barrier
    <3>2. MasterOrder(part, i)
      BY <1>4, <2>1, <2>5 DEF MasterOrder, MasterCode, MasterRound, Way, Open, Given, Do, Barrier
    <3>3. MasterBarrier(part, i)
      BY <1>4, <2>1, <2>5 DEF MasterBarrier, MasterCode, MasterRound, Way, Open, Finals, Do, Barrier
    <3>4. QED
      BY <3>1, <3>2, <3>3
  <2>6. CASE i = 5
    <3>1. MasterRule(part, i)
      BY <1>4, <2>1, <2>6 DEF MasterRule, MasterCode, MasterRound, Way, Subject, AnySource, Do, Barrier
    <3>2. MasterOrder(part, i)
      BY <1>4, <2>1, <2>6 DEF MasterOrder, MasterCode, MasterRound, Way, Open, Given, Do, Barrier
    <3>3. MasterBarrier(part, i)
      BY <1>4, <2>1, <2>6 DEF MasterBarrier, MasterCode, MasterRound, Way, Open, Finals, Do, Barrier
    <3>4. QED
      BY <3>1, <3>2, <3>3
  <2>7. CASE i = 6
    <3>1. MasterRule(part, i)
      BY <1>4, <2>1, <2>7 DEF MasterRule, MasterCode, MasterRound, Way, Subject, AnySource, Do, Barrier
    <3>2. MasterOrder(part, i)
      BY <1>4, <2>1, <2>7 DEF MasterOrder, MasterCode, MasterRound, Way, Open, Given, Do, Barrier
    <3>3. MasterBarrier(part, i)
      BY <1>4, <2>1, <2>7 DEF MasterBarrier, MasterCode, MasterRound, Way, Open, Finals, Do, Barrier
    <3>4. QED
      BY <3>1, <3>2, <3>3
  <2>8. CASE i = 7
    <3>1. MasterRule(part, i)
      BY <1>4, <2>1, <2>8 DEF MasterRule, MasterCode, MasterRound, Way, Subject, AnySource, Do, Barrier
    <3>2. MasterOrder(part, i)
      BY <1>4, <2>1, <2>8 DEF MasterOrder, MasterCode, MasterRound, Way, Open, Given, Do, Barrier
    <3>3. MasterBarrier(part, i)
      BY <1>4, <2>1, <2>8 DEF MasterBarrier, MasterCode, MasterRound, Way, Open, Finals, Do, Barrier
    <3>4. QED
      BY <3>1, <3>2, <3>3
  <2>9. CASE i = 8
    <3>1. MasterRule(part, i)
      BY <1>4, <2>1, <2>9 DEF MasterRule, MasterCode, MasterRound, Way, Subject, AnySource, Do, Barrier
    <3>2. MasterOrder(part, i)
      BY <1>4, <2>1, <2>9 DEF MasterOrder, MasterCode, MasterRound, Way, Open, Given, Do, Barrier
    <3>3. MasterBarrier(part, i)
      BY <1>4, <2>1, <2>9 DEF MasterBarrier, MasterCode, MasterRound, Way, Open, Finals, Do, Barrier
    <3>4. QED
      BY <3>1, <3>2, <3>3
  <2>10. QED
    BY <2>1, <2>2, <2>3, <2>4, <2>5, <2>6, <2>7, <2>8, <2>9
<1>5. QED
  BY <1>1, <1>2, <1>3, <1>4 DEF Parts

LEMMA Lists == DOMAIN SlaveCode = Parts /\ DOMAIN MasterCode = Parts
BY DEF SlaveCode, MasterCode, Parts
-------------------------------------------------------------------------------
(* Where the processes are *)

\* The master and its slaves are different processes.
LEMMA Ranks == 0 \in Proc /\ Slave \subseteq Proc /\ 0 \notin Slave /\ Slave \subseteq Nat \ {0} /\ IsFiniteSet(Slave)
BY ProcAssumption, FS_Subset DEF Slave

\* A slave, by where it is.
LEMMA AtSlave ==
  ASSUME NEW q \in Slave
  PROVE  /\ \A op : At(q, op) <=> at[q].part \in Parts /\ Does(at[q]).do = op
         /\ \A op : At(q, op)' <=> at'[q].part \in Parts /\ Does(at'[q]).do = op
         /\ What(q) = Does(at[q]).what /\ What(q)' = Does(at'[q]).what
BY Lists, Ranks DEF At, Running, Code, What, Does

\* The master, by where it is.
LEMMA AtMaster ==
  /\ \A op : At(0, op) <=> at[0].part \in Parts /\ Leads(at[0]).do = op
  /\ \A op : At(0, op)' <=> at'[0].part \in Parts /\ Leads(at'[0]).do = op
  /\ What(0) = Leads(at[0]).what /\ What(0)' = Leads(at'[0]).what
BY Lists DEF At, Running, Code, What, Leads

\* Where a process goes on.
LEMMA AfterSlave ==
  ASSUME NEW q \in Slave, at[q].part \in Parts, NEW stop
  PROVE  After(q, stop) = IF at[q].i < Len(SlaveCode[at[q].part]) THEN [at[q] EXCEPT !.i = @ + 1]
                          ELSE Beyond(at[q], stop, mesh.energy)
<1>1. q # 0
  BY Ranks
<1>2. Code(q) = SlaveCode
  BY <1>1 DEF Code
<1>3. QED
  BY <1>2 DEF After, Beyond

LEMMA AfterMaster ==
  ASSUME at[0].part \in Parts, NEW stop
  PROVE  After(0, stop) = IF at[0].i < Len(MasterCode[at[0].part]) THEN [at[0] EXCEPT !.i = @ + 1]
                          ELSE Beyond(at[0], stop, mesh.energy)
BY DEF After, Code, Beyond

\* The loop of the iterations and the other parts are entered at their first operation.
LEMMA EnterSpot ==
  ASSUME NEW a \in Spot, NEW part \in Parts \union {"done"}
  PROVE  /\ Enter(a, part) \in Spot /\ Enter(a, part).part = part /\ Enter(a, part).i = 1
         /\ Enter(a, part).solve = a.solve /\ Enter(a, part).iter = a.iter
BY DEF Enter, Spot

LEMMA LoopSpot ==
  ASSUME NEW a \in Spot, NEW n \in Nat
  PROVE  /\ Loop(a, n) \in Spot /\ Loop(a, n).part \in {"step", "finish"} /\ Loop(a, n).i = 1
         /\ Loop(a, n).solve = a.solve
<1>1. [a EXCEPT !.iter = n] \in Spot /\ [a EXCEPT !.iter = n].solve = a.solve
  BY DEF Spot
<1>2. CASE n < MaxIter
  BY <1>1, <1>2, EnterSpot DEF Loop, Parts
<1>3. CASE ~(n < MaxIter)
  BY <1>3, EnterSpot DEF Loop, Parts
<1>4. QED
  BY <1>2, <1>3

\* Where a part leads to.
LEMMA BeyondParts ==
  ASSUME NEW a \in Spot, a.part \in Parts, a.solve <= MaxSolves, NEW stop \in BOOLEAN, NEW energy \in BOOLEAN,
         NEW b, b = Beyond(a, stop, energy)
  PROVE  /\ b \in Spot /\ b.i = 1 /\ InSolve(b)
         /\ b.part # "aborted"
         /\ a.part \in {"setup", "energy"} => b.part \in {"step", "finish"}
         /\ a.part = "step" => b.part \in {"step", "energy", "finish"}
         /\ a.part = "finish" => b.part \in {"setup", "done"}
<1> USE BoundAssumption
<1>0. a.solve \in Nat
  BY DEF Spot
<1>n. PICK n \in Nat : n = a.iter + 1
  BY DEF Spot
<1>1. CASE a.part = "setup"
  <2>1. b = Loop(a, 0)
    BY <1>1 DEF Beyond
  <2>2. b \in Spot /\ b.part \in {"step", "finish"} /\ b.i = 1 /\ b.solve = a.solve
    BY <2>1, LoopSpot
  <2>3. QED
    BY <1>1, <2>2 DEF InSolve
<1>2. CASE a.part = "step"
  <2>1. b = Loop(a, n) \/ b = Enter(a, "energy") \/ b = Enter(a, "finish")
    BY <1>n, <1>2 DEF Beyond
  <2>2. CASE b = Loop(a, n)
    <3>1. b \in Spot /\ b.part \in {"step", "finish"} /\ b.i = 1 /\ b.solve = a.solve
      BY <2>2, LoopSpot
    <3>2. QED
      BY <1>2, <3>1 DEF InSolve
  <2>3. CASE b = Enter(a, "energy")
    BY <1>2, <2>3, EnterSpot DEF InSolve, Parts
  <2>4. CASE b = Enter(a, "finish")
    BY <1>2, <2>4, EnterSpot DEF InSolve, Parts
  <2>5. QED
    BY <2>1, <2>2, <2>3, <2>4
<1>3. CASE a.part = "energy"
  <2>1. b = Loop(a, n)
    BY <1>n, <1>3 DEF Beyond
  <2>2. b \in Spot /\ b.part \in {"step", "finish"} /\ b.i = 1 /\ b.solve = a.solve
    BY <2>1, LoopSpot
  <2>3. QED
    BY <1>3, <2>2 DEF InSolve
<1>4. CASE a.part = "finish"
  <2>1. CASE a.solve < MaxSolves
    <3>1. b = [part |-> "setup", i |-> 1, iter |-> 0, solve |-> a.solve + 1]
      BY <1>4, <2>1 DEF Beyond
    <3>2. QED
      BY <1>0, <1>4, <2>1, <3>1 DEF InSolve, Spot, Parts
  <2>2. CASE a.solve = MaxSolves
    <3>1. b = Enter(a, "done")
      BY <1>4, <2>2 DEF Beyond
    <3>2. QED
      BY <1>4, <3>1, EnterSpot DEF InSolve
  <2>3. QED
    BY <1>0, <2>1, <2>2
<1>5. QED
  BY <1>1, <1>2, <1>3, <1>4 DEF Parts

\* The first operations of the parts.
LEMMA Firsts ==
  \A part \in Parts :
    /\ Len(SlaveCode[part]) \in Nat /\ Len(MasterCode[part]) \in Nat
    /\ 1 \in 1..Len(SlaveCode[part]) /\ 1 \in 1..Len(MasterCode[part])
    /\ SlaveRound[part][1] = 1 /\ MasterRound[part][1] = 1
    /\ SlaveCode[part][1].do = IF part = "setup" THEN "send" ELSE "receive"
    /\ 1 \in Open[part] <=> part = "setup"
    /\ 1 \notin Given[part]
    /\ part # "setup" => Way[part][1] = "down"
<1>1. Len(SlaveCode["setup"]) = 16 /\ Len(MasterCode["setup"]) = 24
  BY DEF SlaveCode, MasterCode, SlaveSetUp
<1>2. Len(SlaveCode["step"]) = 5 /\ Len(MasterCode["step"]) = 7
  BY DEF SlaveCode, MasterCode, SlaveStep
<1>3. Len(SlaveCode["energy"]) = 4 /\ Len(MasterCode["energy"]) = 6
  BY DEF SlaveCode, MasterCode
<1>4. Len(SlaveCode["finish"]) = 6 /\ Len(MasterCode["finish"]) = 8
  BY DEF SlaveCode, MasterCode
<1>5. ASSUME NEW part \in Parts
      PROVE  /\ Len(SlaveCode[part]) \in Nat /\ Len(MasterCode[part]) \in Nat
             /\ 1 \in 1..Len(SlaveCode[part]) /\ 1 \in 1..Len(MasterCode[part])
  <2>1. CASE part = "setup"
    <3>1. Len(SlaveCode[part]) = 16 /\ Len(MasterCode[part]) = 24
      BY <1>1, <2>1
    <3>2. QED
      BY <3>1
  <2>2. CASE part = "step"
    <3>1. Len(SlaveCode[part]) = 5 /\ Len(MasterCode[part]) = 7
      BY <1>2, <2>2
    <3>2. QED
      BY <3>1
  <2>3. CASE part = "energy"
    <3>1. Len(SlaveCode[part]) = 4 /\ Len(MasterCode[part]) = 6
      BY <1>3, <2>3
    <3>2. QED
      BY <3>1
  <2>4. CASE part = "finish"
    <3>1. Len(SlaveCode[part]) = 6 /\ Len(MasterCode[part]) = 8
      BY <1>4, <2>4
    <3>2. QED
      BY <3>1
  <2>5. QED
    BY <2>1, <2>2, <2>3, <2>4 DEF Parts
<1>6. ASSUME NEW part \in Parts
      PROVE  /\ SlaveRound[part][1] = 1 /\ MasterRound[part][1] = 1
             /\ 1 \in Open[part] <=> part = "setup"
             /\ 1 \notin Given[part]
  BY DEF Parts, SlaveRound, MasterRound, Open, Given
<1>7. ASSUME NEW part \in Parts
      PROVE  part # "setup" => Way[part][1] = "down"
  BY DEF Parts, Way
<1>8. ASSUME NEW part \in Parts
      PROVE  SlaveCode[part][1].do = IF part = "setup" THEN "send" ELSE "receive"
  BY DEF Parts, SlaveCode, SlaveSetUp, SlaveStep, Do
<1>9. QED
  BY <1>5, <1>6, <1>7, <1>8

\* What the next spot of a process is like: the same part, solve and iteration.
LEMMA Onward ==
  ASSUME NEW a \in Spot, NEW b, b = [a EXCEPT !.i = @ + 1]
  PROVE  b \in Spot /\ b.part = a.part /\ b.i = a.i + 1 /\ b.iter = a.iter /\ b.solve = a.solve /\ b.i \in Nat
BY DEF Spot

\* Slaves and the master that leave a part together go on together.
LEMMA BeyondTogether ==
  ASSUME NEW a \in Spot, NEW c \in Spot, a.part \in Parts, a.solve <= MaxSolves,
         a.part = c.part, a.solve = c.solve, a.iter = c.iter,
         NEW stop \in BOOLEAN, NEW energy \in BOOLEAN
  PROVE  SameRound(Beyond(a, stop, energy), Beyond(c, stop, energy))
<1>1. /\ Beyond(a, stop, energy).part = Beyond(c, stop, energy).part
      /\ Beyond(a, stop, energy).solve = Beyond(c, stop, energy).solve
      /\ Beyond(a, stop, energy).iter = Beyond(c, stop, energy).iter
  <2> USE BoundAssumption
  <2>1. CASE a.part = "setup"
    BY <2>1 DEF Beyond, Loop, Enter, Spot
  <2>2. CASE a.part = "step"
    BY <2>2 DEF Beyond, Loop, Enter, Spot
  <2>3. CASE a.part = "energy"
    BY <2>3 DEF Beyond, Loop, Enter, Spot
  <2>4. CASE a.part = "finish"
    <3>1. CASE a.solve < MaxSolves
      BY <2>4, <3>1 DEF Beyond, Loop, Enter, Spot
    <3>2. CASE a.solve = MaxSolves
      BY <2>4, <3>2 DEF Beyond, Loop, Enter, Spot
    <3>3. QED
      BY <3>1, <3>2 DEF Spot
  <2>5. QED
    BY <2>1, <2>2, <2>3, <2>4 DEF Parts
<1>2. Beyond(a, stop, energy).i = 1 /\ Beyond(c, stop, energy).i = 1
  BY BeyondParts
<1>3. QED
  BY <1>1, <1>2, Firsts DEF SameRound
-------------------------------------------------------------------------------
(* What a step leaves alone *)

HeldOn(m, p) ==
  LET S == {n \in Node : p \in m.parts[n]}
      Index(n) == Cardinality({k \in S : IF p % 2 = 0 THEN k <= n ELSE k >= n})
  IN [i \in 1..Cardinality(S) |-> CHOOSE n \in S : Index(n) = i]

\* The boundary lists depend on the problem only.
LEMMA SameMesh ==
  ASSUME mesh' = mesh, NEW q
  PROVE  Held(q)' = Held(q) /\ Shares(q)' = Shares(q) /\ Records(q)' = Records(q)
<1>1. Held(q)' = Held(q)
  <2>1. Held(q) = HeldOn(mesh, q)
    BY Zenon DEF Held, HeldOn
  <2>2. Held(q)' = HeldOn(mesh', q)
    BY Zenon DEF Held, HeldOn
  <2>3. QED
    BY <2>1, <2>2
<1>2. Shares(q)' = Shares(q)
  BY <1>1 DEF Shares
<1>3. Records(q) = [i \in DOMAIN Held(q) |-> <<Held(q)[i], mesh.dofs[Held(q)[i]]>>]
  BY DEF Records, Packed
<1>4. Records(q)' = [i \in DOMAIN Held(q)' |-> <<Held(q)'[i], mesh'.dofs[Held(q)'[i]]>>]
  BY DEF Records, Packed
<1>5. QED
  BY <1>1, <1>2, <1>3, <1>4

\* The exchange a process is in depends on where it is and on its broadcast.
LEMMA SameSeen ==
  ASSUME mesh' = mesh, NEW q, at'[q] = at[q], cast'[q] = cast[q]
  PROVE  Seen(q)' = Seen(q)
BY DEF Seen, Beyond, Loop, Enter

LEMMA SameReached ==
  ASSUME mesh' = mesh, at'[0] = at[0]
  PROVE  Reached' = Reached
BY DEF Reached, Beyond, Loop, Enter, Closing

\* A slave that is not touched, while the master stays where it is.
LEMMA Untouched ==
  ASSUME NEW r \in Slave, mesh' = mesh, at'[0] = at[0], at'[r] = at[r], up'[r] = up[r], down'[r] = down[r],
         cast'[r] = cast[r], buf'[r] = buf[r], cmap'[r] = cmap[r], r \in Range(got') <=> r \in Range(got),
         SlaveInv(r)
  PROVE  SlaveInv(r)'
<1> USE DEF SlaveInv
<1>1. Seen(r)' = Seen(r) /\ Reached' = Reached
  BY SameSeen, SameReached
<1>2. Shares(r)' = Shares(r) /\ Records(r)' = Records(r)
  BY SameMesh
<1>3. (At(r, "barrier")' <=> At(r, "barrier")) /\ (At(r, "send")' <=> At(r, "send")) /\ What(r)' = What(r)
  BY AtSlave
<1>4. Stamp(r)' = Stamp(r)
  BY DEF Stamp
<1>5. CastInv(r)' /\ AbortInv(r)'
  BY <1>3 DEF CastInv, AbortInv
<1>6. LockInv(r)'
  BY <1>1 DEF LockInv, SameRound
<1>7. UpInv(r)'
  BY <1>2, <1>3, <1>4 DEF UpInv, Did, Buffer, AnySource, Message
<1>8. SendInv(r)'
  BY <1>2, <1>3 DEF SendInv, AnySource
<1>9. DownInv(r)'
  BY <1>1, <1>2 DEF DownInv, Does, Message
<1>10. ReceiveInv(r)'
  BY <1>2, <1>3 DEF ReceiveInv, Did
<1>11. MapInv(r)'
  BY <1>2 DEF MapInv
<1>12. QED
  BY <1>5, <1>6, <1>7, <1>8, <1>9, <1>10, <1>11

\* The master has taken messages of others than q.
LEMMA OthersTaken ==
  ASSUME WireType, GotInv, got' = got, at'[0] = at[0], NEW q \in Slave, q \notin Range(got),
         \A r \in Proc \ {q} : at'[r] = at[r]
  PROVE  GotInv'
<1>1. \A r \in Range(got) : At(r, "barrier")'
  <2>1. TAKE r \in Range(got)
  <2>2. r \in Slave /\ r # q /\ At(r, "barrier")
    BY DEF GotInv, WireType, Range
  <2>3. at'[r] = at[r]
    BY <2>2, Ranks
  <2>4. QED
    BY <2>2, <2>3, AtSlave
<1>2. At(0, "take") <=> At(0, "take")'
  BY AtMaster
<1>3. QED
  BY <1>1, <1>2 DEF GotInv

\* The types of what processes are at.
LEMMA SpotTypes ==
  ASSUME ControlType
  PROVE  /\ mesh.energy \in BOOLEAN
         /\ at[0] \in Spot /\ InSolve(at[0]) /\ MasterSpot(at[0])
         /\ \A q \in Slave : at[q] \in Spot /\ InSolve(at[q]) /\ SlaveSpot(at[q])
         /\ \A p \in Proc : at[p].part \in Parts => at[p].solve <= MaxSolves
<1>1. \A p \in Proc : at[p] \in Spot
  BY DEF ControlType
<1>2. mesh.energy \in BOOLEAN
  BY MeshAssumption DEF ControlType, Mesh
<1>3. "done" \notin Parts
  BY DEF Parts
<1>4. QED
  BY <1>1, <1>2, <1>3, Ranks DEF ControlType, InSolve

\* A step of one process keeps the types of all.
LEMMA ControlStep ==
  ASSUME ControlType, mesh' = mesh, NEW p \in Proc, NEW a \in Spot, at' = [at EXCEPT ![p] = a], InSolve(a),
         p = 0 => MasterSpot(a), p # 0 => SlaveSpot(a)
  PROVE  ControlType' /\ at'[p] = a /\ \A r \in Proc \ {p} : at'[r] = at[r]
BY Ranks DEF ControlType, InSolve, MasterSpot, SlaveSpot

\* Steps within a list.
LEMMA Within == \A i, n \in Nat : i >= 1 /\ i < n => i + 1 \in 1..n /\ i + 1 > 1 /\ (i + 1) - 1 = i
OBVIOUS

\* A slave that sends or receives comes to the barrier of the exchange.
LEMMA SlaveMoves ==
  ASSUME ControlType, NEW q \in Slave, at[q].part \in Parts, Does(at[q]).do \in {"send", "receive"},
         NEW b, b = After(q, FALSE)
  PROVE  /\ b \in Spot /\ InSolve(b) /\ SlaveSpot(b)
         /\ b.part = at[q].part /\ b.i = at[q].i + 1 /\ b.i > 1 /\ b.solve = at[q].solve /\ b.iter = at[q].iter
         /\ Does(b).do = "barrier" /\ Did(b) = Does(at[q])
         /\ SlaveRound[b.part][b.i] = SlaveRound[at[q].part][at[q].i]
         /\ ~(at[q].part = "step" /\ at[q].i = 5)
<1> DEFINE a == at[q]
<1>1. a \in Spot /\ a.i \in 1..Len(SlaveCode[a.part]) /\ a.solve <= MaxSolves
  BY SpotTypes, Ranks DEF SlaveSpot
<1>2. SlaveRule(a.part, a.i)
  BY <1>1, SlaveRules
<1>3. /\ a.i < Len(SlaveCode[a.part]) /\ SlaveCode[a.part][a.i + 1].do = "barrier"
      /\ SlaveRound[a.part][a.i + 1] = SlaveRound[a.part][a.i] /\ ~(a.part = "step" /\ a.i = 5)
  BY <1>2 DEF SlaveRule, Does
<1>4. b = [a EXCEPT !.i = @ + 1]
  BY <1>3, AfterSlave
<1>5. b \in Spot /\ b.part = a.part /\ b.i = a.i + 1 /\ b.iter = a.iter /\ b.solve = a.solve
  BY <1>1, <1>4, Onward
<1>6. b.i \in 1..Len(SlaveCode[a.part]) /\ b.i > 1 /\ b.i - 1 = a.i
  <2>1. a.i \in Nat /\ a.i >= 1 /\ Len(SlaveCode[a.part]) \in Nat
    BY <1>1, Firsts
  <2>2. QED
    BY <1>3, <1>5, <2>1, Within
<1>7. b.part # "aborted"
  BY <1>5 DEF Parts
<1>8. QED
  BY <1>1, <1>3, <1>5, <1>6, <1>7 DEF Does, Did, InSolve, SlaveSpot
-------------------------------------------------------------------------------
(* The slaves *)

\* A send keeps the types of the wires.
LEMMA WireSend ==
  ASSUME WireType, NEW q \in Slave, Send(q)
  PROVE  WireType'
<1> DEFINE w == What(q)
           Boxes == {"maps", "comm", "out", "in"}
<1>1. down' = down /\ cast' = cast /\ got' = got /\ cmap' = cmap
  BY DEF Send, lists
<1>2. \/ UNCHANGED <<buf, up>>
      \/ /\ buf' = [buf EXCEPT ![q][Buffer(w)] = Content(q, w, Packed(q, w))]
         /\ up' = [up EXCEPT ![q] = Append(@, Message(w, Buffer(w)))]
  BY DEF Send
<1>3. Buffer(w) \in Boxes
  BY DEF Buffer
<1>4. up' = [r \in Slave |-> up'[r]]
  <2>1. up = [r \in Slave |-> up[r]]
    BY DEF WireType
  <2>2. QED
    BY <1>2, <2>1
<1>5. buf' = [r \in Slave |-> [x \in Boxes |-> buf'[r][x]]]
  <2>1. buf = [r \in Slave |-> [x \in Boxes |-> buf[r][x]]]
    BY DEF WireType
  <2>2. CASE buf' = buf
    BY <2>1, <2>2
  <2>3. CASE buf' = [buf EXCEPT ![q][Buffer(w)] = Content(q, w, Packed(q, w))]
    BY <1>3, <2>1, <2>3
  <2>4. QED
    BY <1>2, <2>2, <2>3
<1>6. QED
  BY <1>1, <1>4, <1>5 DEF WireType

\* A slave that sends comes to the barrier with its message on the way.
LEMMA SendKeeps ==
  ASSUME FInv, NEW q \in Slave, Send(q)
  PROVE  FInv'
<1> DEFINE a == at[q]
           b == After(q, FALSE)
<1>0. /\ mesh' = mesh /\ down' = down /\ cast' = cast /\ got' = got /\ cmap' = cmap
      /\ at' = [at EXCEPT ![q] = b]
  BY DEF Send, lists, GoOn
<1>1. ControlType /\ WireType /\ GotInv /\ SlaveInv(q)
  BY DEF FInv
<1>2. a.part \in Parts /\ Does(a).do = "send" /\ What(q) = Does(a).what
  BY AtSlave DEF Send
<1>3. /\ b \in Spot /\ InSolve(b) /\ SlaveSpot(b)
      /\ b.part = a.part /\ b.i = a.i + 1 /\ b.i > 1 /\ b.solve = a.solve /\ b.iter = a.iter
      /\ Does(b).do = "barrier" /\ Did(b) = Does(a)
      /\ SlaveRound[b.part][b.i] = SlaveRound[a.part][a.i]
      /\ ~(a.part = "step" /\ a.i = 5)
  BY <1>1, <1>2, SlaveMoves
<1> HIDE DEF b
<1>4. ControlType' /\ at'[q] = b /\ \A r \in Proc \ {q} : at'[r] = at[r]
  BY <1>0, <1>1, <1>3, ControlStep, Ranks
<1>5. at'[0] = at[0] /\ q \in Proc /\ q # 0
  BY <1>4, Ranks
<1>6. WireType'
  BY <1>1, WireSend
<1>7. At(q, "send") /\ ~At(q, "barrier") /\ At(q, "barrier")' /\ ~At(q, "send")' /\ What(q)' = Does(b).what
  BY <1>2, <1>3, <1>4, AtSlave
<1>8. cast[q] = <<>> /\ Seen(q) = a /\ Seen(q)' = b /\ Reached' = Reached
  <2>1. cast[q] = <<>>
    BY <1>1, <1>3 DEF SlaveInv, CastInv
  <2>2. QED
    BY <1>0, <1>4, <1>5, <2>1, SameReached DEF Seen
<1>9. up[q] = <<>> /\ q \notin Range(got)
  BY <1>1, <1>7 DEF SlaveInv, UpInv, GotInv
<1>10. GotInv'
  BY <1>0, <1>1, <1>4, <1>5, <1>9, OthersTaken
<1>11. ASSUME NEW r \in Slave, r # q PROVE SlaveInv(r)'
  <2>1. at'[r] = at[r]
    BY <1>4, <1>11, Ranks
  <2>2. up'[r] = up[r] /\ buf'[r] = buf[r]
    BY <1>1, <1>11 DEF Send, WireType
  <2>3. SlaveInv(r)
    BY DEF FInv
  <2>4. QED
    BY <1>0, <1>5, <2>1, <2>2, <2>3, Untouched
<1>12. Shares(q)' = Shares(q) /\ Records(q)' = Records(q)
  BY <1>0, SameMesh
<1>13. CastInv(q)'
  BY <1>0, <1>8 DEF CastInv
<1>14. LockInv(q)'
  BY <1>1, <1>3, <1>5, <1>8 DEF SlaveInv, LockInv, SameRound
<1>15. AbortInv(q)'
  BY <1>7 DEF AbortInv
<1>16. UpInv(q)'
  <2> DEFINE w == Does(a).what
  <2>1. SUFFICES ASSUME up'[q] # <<>> PROVE UpInv(q)'
    BY DEF UpInv
  <2>2. w \in AnySource \/ Shares(q)
    BY <1>0, <1>2, <1>9, <2>1 DEF Send
  <2>3. /\ buf' = [buf EXCEPT ![q][Buffer(w)] = Content(q, w, Packed(q, w))]
        /\ up' = [up EXCEPT ![q] = Append(@, Message(w, Buffer(w)))]
    BY <1>2, <2>2 DEF Send
  <2>4. up'[q] = <<Message(w, Buffer(w))>>
    BY <1>1, <1>9, <2>3 DEF WireType
  <2>5. Buffer(w) \in {"maps", "comm", "out"}
    BY DEF Buffer
  <2>6. buf'[q][Buffer(w)] = Content(q, w, Packed(q, w))
    BY <1>1, <2>3, <2>5 DEF WireType
  <2>7. Stamp(q)' = Stamp(q)
    BY <1>3, <1>4 DEF Stamp
  <2>8. at[0].part \in Parts => at[0].i \in Open[at[0].part]
    BY <1>1, <1>2, <1>7, <2>2 DEF SlaveInv, SendInv
  <2>9. Did(at[q])' = Does(a)
    BY <1>3, <1>4 DEF Did
  <2>10. w = "records" => Packed(q, w) = Records(q)
    BY DEF Records
  <2>11. /\ At(q, "barrier")' /\ at'[q].i > 1 /\ Did(at[q])'.do = "send"
         /\ at'[0].part \in Parts => at'[0].i \in Open[at'[0].part]
         /\ q \notin Range(got')
    BY <1>0, <1>2, <1>3, <1>4, <1>5, <1>7, <1>9, <2>8, <2>9
  <2>12. Did(at[q])'.what = w
    BY <2>9
  <2>13. w \notin AnySource => Shares(q)'
    BY <1>12, <2>2
  <2>14. /\ buf'[q][Buffer(w)].what = w /\ buf'[q][Buffer(w)].stamp = Stamp(q)'
         /\ w = "records" => buf'[q][Buffer(w)].values = Records(q)'
    BY <1>12, <2>6, <2>7, <2>10 DEF Content
  <2>15. QED
    BY <2>4, <2>11, <2>12, <2>13, <2>14 DEF UpInv, Buffer, Message, AnySource
<1>17. SendInv(q)'
  BY <1>7 DEF SendInv
<1>18. DownInv(q)'
  BY <1>0, <1>1, <1>2, <1>8 DEF SlaveInv, DownInv
<1>19. ReceiveInv(q)'
  BY <1>2, <1>3, <1>4 DEF ReceiveInv, Did
<1>20. MapInv(q)'
  BY <1>0, <1>1, <1>5, <1>12 DEF SlaveInv, MapInv
<1>21. SlaveInv(q)'
  BY <1>13, <1>14, <1>15, <1>16, <1>17, <1>18, <1>19, <1>20 DEF SlaveInv
<1>22. TogetherInv'
  <2>1. \A r \in Slave : /\ at'[r].part = at[r].part /\ Stamp(r)' = Stamp(r)
                         /\ SlaveRound[at'[r].part][at'[r].i] = SlaveRound[at[r].part][at[r].i]
    <3>1. TAKE r \in Slave
    <3>2. CASE r = q
      BY <1>3, <1>4, <3>2 DEF Stamp
    <3>3. CASE r # q
      BY <1>4, <3>3, Ranks DEF Stamp
    <3>4. QED
      BY <3>2, <3>3
  <2>2. TogetherInv
    BY DEF FInv
  <2>3. QED
    BY <1>5, <2>1, <2>2 DEF TogetherInv
<1>23. QED
  BY <1>4, <1>6, <1>10, <1>11, <1>21, <1>22 DEF FInv

\* A wire with one message is empty after it.
LEMMA LastMessage ==
  ASSUME NEW m, NEW what, NEW s, s = <<m>>, WithTag(s, what) # {}
  PROVE  First(s, what) = 1 /\ RemoveAt(s, First(s, what)) = <<>> /\ m.tag = Tag[what]
<1>1. DOMAIN s = {1} /\ s[1] = m /\ Len(s) = 1 /\ s \in Seq({m})
  OBVIOUS
<1>2. WithTag(s, what) = {1} /\ m.tag = Tag[what]
  BY <1>1 DEF WithTag
<1>3. First(s, what) = 1
  BY <1>2 DEF First
<1>4. SubSeq(s, 1, 0) = <<>> /\ SubSeq(s, 2, 1) = <<>>
  BY <1>1
<1>5. RemoveAt(s, 1) = <<>>
  BY <1>1, <1>4 DEF RemoveAt
<1>6. QED
  BY <1>2, <1>3, <1>5

\* Nothing is received from an empty wire.
LEMMA NoMessage ==
  ASSUME NEW what, NEW s, s = <<>>
  PROVE  WithTag(s, what) = {}
BY DEF WithTag

\* A slave that receives comes to the barrier with its wire empty.
LEMMA ReceiveKeeps ==
  ASSUME FInv, NEW q \in Slave, Receive(q)
  PROVE  FInv'
<1> DEFINE a == at[q]
           b == After(q, FALSE)
<1>0. /\ mesh' = mesh /\ up' = up /\ buf' = buf /\ cast' = cast /\ got' = got /\ cmap' = cmap
      /\ at' = [at EXCEPT ![q] = b]
  BY DEF Receive, lists, GoOn
<1>1. ControlType /\ WireType /\ GotInv /\ SlaveInv(q)
  BY DEF FInv
<1>2. a.part \in Parts /\ Does(a).do = "receive" /\ What(q) = Does(a).what
  BY AtSlave DEF Receive
<1>3. /\ b \in Spot /\ InSolve(b) /\ SlaveSpot(b)
      /\ b.part = a.part /\ b.i = a.i + 1 /\ b.i > 1 /\ b.solve = a.solve /\ b.iter = a.iter
      /\ Does(b).do = "barrier" /\ Did(b) = Does(a)
      /\ SlaveRound[b.part][b.i] = SlaveRound[a.part][a.i]
      /\ ~(a.part = "step" /\ a.i = 5)
  BY <1>1, <1>2, SlaveMoves
<1> HIDE DEF b
<1>4. ControlType' /\ at'[q] = b /\ \A r \in Proc \ {q} : at'[r] = at[r]
  BY <1>0, <1>1, <1>3, ControlStep, Ranks
<1>5. at'[0] = at[0] /\ q \in Proc /\ q # 0
  BY <1>4, Ranks
<1>6. \/ Shares(q) /\ WithTag(down[q], What(q)) # {}
         /\ down' = [down EXCEPT ![q] = RemoveAt(@, First(@, What(q)))]
      \/ ~Shares(q) /\ down' = down
  BY DEF Receive
<1>7. WireType'
  BY <1>0, <1>1, <1>6 DEF WireType
<1>8. ~At(q, "send") /\ ~At(q, "barrier") /\ At(q, "barrier")' /\ ~At(q, "send")'
  BY <1>2, <1>3, <1>4, AtSlave
<1>9. cast[q] = <<>> /\ Seen(q) = a /\ Seen(q)' = b /\ Reached' = Reached
  <2>1. cast[q] = <<>>
    BY <1>1, <1>3 DEF SlaveInv, CastInv
  <2>2. QED
    BY <1>0, <1>4, <1>5, <2>1, SameReached DEF Seen
<1>10. up[q] = <<>> /\ q \notin Range(got)
  BY <1>1, <1>8 DEF SlaveInv, UpInv, GotInv
<1>11. GotInv'
  BY <1>0, <1>1, <1>4, <1>5, <1>10, OthersTaken
<1>12. ASSUME NEW r \in Slave, r # q PROVE SlaveInv(r)'
  <2>1. at'[r] = at[r]
    BY <1>4, <1>12, Ranks
  <2>2. down'[r] = down[r]
    BY <1>1, <1>6, <1>12 DEF WireType
  <2>3. SlaveInv(r)
    BY DEF FInv
  <2>4. QED
    BY <1>0, <1>5, <2>1, <2>2, <2>3, Untouched
<1>13. Shares(q)' = Shares(q)
  BY <1>0, SameMesh
<1>14. CastInv(q)' /\ AbortInv(q)'
  BY <1>0, <1>8, <1>9 DEF CastInv, AbortInv
<1>15. LockInv(q)'
  BY <1>1, <1>3, <1>5, <1>9 DEF SlaveInv, LockInv, SameRound
<1>16. UpInv(q)' /\ SendInv(q)'
  BY <1>0, <1>8, <1>10 DEF UpInv, SendInv
<1>17. DownInv(q)'
  <2>1. CASE ~Shares(q)
    BY <1>1, <1>6, <2>1 DEF SlaveInv, DownInv
  <2>2. CASE Shares(q)
    <3>1. down[q] # <<>>
      BY <1>6, <2>2, NoMessage
    <3>2. PICK m : down[q] = <<m>>
      BY <1>1, <3>1 DEF SlaveInv, DownInv
    <3>3. down'[q] = RemoveAt(down[q], First(down[q], What(q)))
      BY <1>1, <1>6, <2>2 DEF WireType
    <3>4. down'[q] = <<>>
      BY <1>6, <2>2, <3>2, <3>3, LastMessage
    <3>5. QED
      BY <3>4 DEF DownInv
  <2>3. QED
    BY <2>1, <2>2
<1>18. ReceiveInv(q)'
  <2>1. SUFFICES ASSUME Shares(q), at[0].part \in Parts PROVE at[0].i \in Given[at[0].part]
    BY <1>5, <1>13 DEF ReceiveInv
  <2>2. down[q] # <<>>
    BY <1>6, <2>1, NoMessage
  <2>3. QED
    BY <1>1, <2>2 DEF SlaveInv, DownInv
<1>19. MapInv(q)'
  BY <1>0, <1>1, <1>5, <1>13 DEF SlaveInv, MapInv
<1>20. SlaveInv(q)'
  BY <1>14, <1>15, <1>16, <1>17, <1>18, <1>19 DEF SlaveInv
<1>21. TogetherInv'
  BY <1>1, <1>5, <1>8 DEF SlaveInv, AbortInv, TogetherInv
<1>22. QED
  BY <1>4, <1>7, <1>11, <1>12, <1>20, <1>21 DEF FInv

\* A slave that takes the broadcast is where the master went on to.
LEMMA HearKeeps ==
  ASSUME FInv, NEW q \in Slave, Hear(q)
  PROVE  FInv'
<1> DEFINE a == at[q]
           b == After(q, Head(cast[q]))
<1>0. /\ mesh' = mesh /\ up' = up /\ down' = down /\ buf' = buf /\ got' = got /\ cmap' = cmap
      /\ at' = [at EXCEPT ![q] = b] /\ cast' = [cast EXCEPT ![q] = Tail(@)] /\ cast[q] # <<>>
  BY DEF Hear, lists
<1>1. ControlType /\ WireType /\ GotInv /\ SlaveInv(q)
  BY DEF FInv
<1>2. a.part = "step" /\ a.i = 5 /\ Does(a).do = "hear"
  BY <1>0, <1>1, AtSlave DEF Hear, SlaveInv, CastInv
<1>3. PICK stop \in BOOLEAN : cast[q] = <<stop>>
  BY <1>0, <1>1 DEF SlaveInv, CastInv
<1>4. a \in Spot /\ a.i \in 1..Len(SlaveCode[a.part]) /\ a.solve <= MaxSolves /\ a.part \in Parts
      /\ mesh.energy \in BOOLEAN
  BY <1>1, <1>2, SpotTypes, Ranks DEF SlaveSpot, Parts
<1>5. a.i = Len(SlaveCode[a.part])
  <2>1. SlaveRule(a.part, a.i)
    BY <1>4, SlaveRules
  <2>2. QED
    BY <1>2, <2>1 DEF SlaveRule, Does
<1>6. b = Beyond(a, stop, mesh.energy)
  <2>1. Head(cast[q]) = stop
    BY <1>3
  <2>2. QED
    BY <1>4, <1>5, <2>1, AfterSlave, Firsts
<1> HIDE DEF b
<1>7. b \in Spot /\ b.i = 1 /\ InSolve(b) /\ b.part \in {"step", "energy", "finish"}
  BY <1>2, <1>4, <1>6, BeyondParts
<1>8. b.part \in Parts /\ b.part # "setup" /\ b.part # "aborted" /\ Does(b).do = "receive"
  BY <1>7, Firsts DEF Parts, Does
<1>9. ControlType' /\ at'[q] = b /\ \A r \in Proc \ {q} : at'[r] = at[r]
  <2>1. SlaveSpot(b)
    BY <1>7, <1>8, Firsts DEF SlaveSpot
  <2>2. QED
    BY <1>0, <1>1, <1>7, <2>1, ControlStep, Ranks
<1>10. at'[0] = at[0] /\ q \in Proc /\ q # 0
  BY <1>9, Ranks
<1>11. WireType'
  BY <1>0, <1>1 DEF WireType
<1>12. ~At(q, "send") /\ ~At(q, "barrier") /\ ~At(q, "barrier")' /\ ~At(q, "send")'
  BY <1>2, <1>8, <1>9, AtSlave
<1>13. cast'[q] = <<>>
  <2>1. cast'[q] = Tail(cast[q])
    BY <1>0, <1>1 DEF WireType
  <2>2. QED
    BY <1>3, <2>1
<1>14. Seen(q) = b /\ Seen(q)' = b /\ Reached' = Reached
  <2>1. cast[q][1] = stop
    BY <1>3
  <2>2. QED
    BY <1>0, <1>6, <1>9, <1>10, <1>13, <2>1, SameReached DEF Seen
<1>15. up[q] = <<>> /\ q \notin Range(got)
  BY <1>1, <1>12 DEF SlaveInv, UpInv, GotInv
<1>16. GotInv'
  BY <1>0, <1>1, <1>9, <1>10, <1>15, OthersTaken
<1>17. ASSUME NEW r \in Slave, r # q PROVE SlaveInv(r)'
  <2>1. at'[r] = at[r]
    BY <1>9, <1>17, Ranks
  <2>2. cast'[r] = cast[r]
    BY <1>0, <1>1, <1>17 DEF WireType
  <2>3. SlaveInv(r)
    BY DEF FInv
  <2>4. QED
    BY <1>0, <1>10, <2>1, <2>2, <2>3, Untouched
<1>18. Shares(q)' = Shares(q)
  BY <1>0, SameMesh
<1>19. CastInv(q)'
  BY <1>13 DEF CastInv
<1>20. AbortInv(q)'
  BY <1>1, <1>10, <1>12 DEF SlaveInv, AbortInv
<1>21. LockInv(q)'
  BY <1>1, <1>10, <1>14 DEF SlaveInv, LockInv, SameRound
<1>22. UpInv(q)' /\ SendInv(q)'
  BY <1>0, <1>12, <1>15 DEF UpInv, SendInv
<1>23. DownInv(q)'
  BY <1>0, <1>1, <1>10, <1>14, <1>18 DEF SlaveInv, DownInv, Does, Message
<1>24. ReceiveInv(q)'
  BY <1>12 DEF ReceiveInv
<1>25. MapInv(q)'
  BY <1>0, <1>1, <1>10, <1>18 DEF SlaveInv, MapInv
<1>26. SlaveInv(q)'
  BY <1>19, <1>20, <1>21, <1>22, <1>23, <1>24, <1>25 DEF SlaveInv
<1>27. TogetherInv'
  BY <1>1, <1>10, <1>12 DEF SlaveInv, AbortInv, TogetherInv
<1>28. QED
  BY <1>9, <1>11, <1>16, <1>17, <1>26, <1>27 DEF FInv
-------------------------------------------------------------------------------
(* The master *)

\* Where the master is in its part.
LEMMA MasterPlace ==
  ASSUME ControlType, at[0].part \in Parts, NEW a, a = at[0]
  PROVE  /\ a \in Spot /\ a.i \in 1..Len(MasterCode[a.part]) /\ a.solve <= MaxSolves /\ mesh.energy \in BOOLEAN
         /\ MasterRule(a.part, a.i) /\ MasterOrder(a.part, a.i) /\ MasterBarrier(a.part, a.i)
<1>1. a \in Spot /\ a.i \in 1..Len(MasterCode[a.part]) /\ a.solve <= MaxSolves /\ mesh.energy \in BOOLEAN
  BY SpotTypes, Ranks DEF MasterSpot
<1>2. QED
  BY <1>1, MasterRules

Flow == Way[at[0].part][MasterRound[at[0].part][at[0].i]]
Topic == Subject[at[0].part][MasterRound[at[0].part][at[0].i]]

\* What a slave does while the master is in an exchange of a part.
LEMMA Meeting ==
  ASSUME ControlType, NEW q \in Slave, SlaveInv(q), at[0].part \in Parts, ~Closing(at[0]), NEW c, c = Seen(q)
  PROVE  /\ c \in Spot /\ c.part = at[0].part /\ c.solve = at[0].solve /\ c.iter = at[0].iter
         /\ SlaveRound[c.part][c.i] = MasterRound[at[0].part][at[0].i]
         /\ c.i \in 1..Len(SlaveCode[c.part]) /\ SlaveRule(c.part, c.i)
         /\ Does(c).do # "receive" => c = at[q] /\ cast[q] = <<>>
         /\ Does(c).do # "hear" => Does(c).what = Topic
         /\ Flow = "up" => Does(c).do \in {"send", "barrier"}
         /\ Flow = "down" => Does(c).do \in {"receive", "barrier"}
         /\ Flow = "none" => Does(c).do = "barrier"
         /\ Flow = "cast" => Does(c).do = "hear" /\ c.part = "step" /\ c.i = 5
         /\ Flow = "up" /\ Does(c).do = "barrier" =>
              c.i > 1 /\ Did(c).do = "send" /\ Did(c).what = Topic
         /\ Flow = "down" /\ Does(c).do = "barrier" => c.i > 1 /\ Did(c).do = "receive"
<1>1. SameRound(at[0], c)
  <2>1. Reached = at[0] /\ at[0].part # "aborted"
    BY DEF Reached, Parts
  <2>2. QED
    BY <2>1 DEF SlaveInv, LockInv
<1>2. /\ c.part = at[0].part /\ c.solve = at[0].solve /\ c.iter = at[0].iter
      /\ SlaveRound[c.part][c.i] = MasterRound[at[0].part][at[0].i]
  BY <1>1 DEF SameRound
<1>3. /\ c \in Spot /\ c.i \in 1..Len(SlaveCode[c.part])
      /\ Does(c).do # "receive" => c = at[q] /\ cast[q] = <<>>
  <2>1. CASE cast[q] = <<>>
    BY <1>2, <2>1, SpotTypes DEF Seen, SlaveSpot
  <2>2. CASE cast[q] # <<>>
    <3>1. PICK stop \in BOOLEAN : cast[q] = <<stop>> /\ at[q].part = "step"
      BY <2>2 DEF SlaveInv, CastInv
    <3>2. cast[q][1] = stop
      BY <3>1
    <3>3. c = Beyond(at[q], stop, mesh.energy)
      BY <2>2, <3>2 DEF Seen
    <3>4. c \in Spot /\ c.i = 1 /\ c.part \in {"step", "energy", "finish"}
      BY <3>1, <3>3, SpotTypes, BeyondParts, Ranks DEF Parts
    <3>5. QED
      BY <3>4, Firsts DEF Parts, Does
  <2>3. QED
    BY <2>1, <2>2
<1>4. SlaveRule(c.part, c.i)
  BY <1>2, <1>3, SlaveRules
<1>5. Way[c.part][SlaveRound[c.part][c.i]] = Flow /\ Subject[c.part][SlaveRound[c.part][c.i]] = Topic
  BY <1>2 DEF Flow, Topic
<1>6. /\ Does(c).do \in {"send", "receive", "barrier", "hear"}
      /\ Does(c).do # "hear" => Does(c).what = Topic
  BY <1>4, <1>5 DEF SlaveRule, Does
<1>7. /\ Flow = "up" => Does(c).do # "receive"
      /\ Flow = "down" => Does(c).do # "send"
      /\ Flow = "none" => Does(c).do = "barrier"
      /\ Flow = "cast" <=> Does(c).do = "hear"
      /\ Does(c).do = "hear" => c.part = "step" /\ c.i = 5
  BY <1>4, <1>5 DEF SlaveRule, Does
<1>8. /\ Flow = "up" /\ Does(c).do = "barrier" => c.i > 1 /\ Did(c).do = "send" /\ Did(c).what = Topic
      /\ Flow = "down" /\ Does(c).do = "barrier" => c.i > 1 /\ Did(c).do = "receive"
  BY <1>4, <1>5 DEF SlaveRule, Does, Did
<1>9. QED
  BY <1>2, <1>3, <1>4, <1>6, <1>7, <1>8

\* The end of a part at which the master maps its own values.
LEMMA BeyondClosing ==
  ASSUME NEW a \in Spot, Closing(a), a.solve <= MaxSolves, NEW energy \in BOOLEAN,
         NEW b, b = Beyond(a, FALSE, energy)
  PROVE  b \in Spot /\ b.i = 1 /\ InSolve(b) /\ b.part \in {"step", "finish"}
<1>1. a.part \in {"setup", "energy"} /\ a.part \in Parts
  BY DEF Closing, Parts
<1>2. PICK stop \in BOOLEAN : stop = FALSE
  OBVIOUS
<1>3. b = Beyond(a, stop, energy)
  BY <1>2
<1>4. /\ b \in Spot /\ b.i = 1 /\ InSolve(b)
      /\ a.part \in {"setup", "energy"} => b.part \in {"step", "finish"}
  BY <1>1, <1>3, BeyondParts, ZenonT(40)
<1>5. QED
  BY <1>1, <1>4

\* Where the master gets by an operation of its own in an exchange.
LEMMA MasterMoves ==
  ASSUME ControlType, NEW a, a = at[0], a.part \in Parts,
         Leads(a).do \in {"take", "own", "clear", "number", "give"}, NEW b, b = After(0, FALSE)
  PROVE  /\ b \in Spot /\ InSolve(b) /\ MasterSpot(b) /\ b.part \in Parts /\ ~Closing(b)
         /\ \A c : SameRound(Reached, c) => SameRound(b, c)
         /\ a.i \notin Given[a.part]
         /\ Leads(a).do # "own" => ~Closing(a)
         /\ Leads(a).do # "take" => (b.i \in Open[b.part] => a.i \in Open[a.part])
         /\ Leads(a).do # "take" => (a.i \in Open[a.part] => b.i \in Open[b.part])
         /\ \/ b.part = a.part /\ b.i = a.i + 1
            \/ Leads(a).do = "own" /\ b.part \in {"step", "finish"} /\ (a.part = "setup" => a.i = 24)
<1>1. /\ a \in Spot /\ a.i \in 1..Len(MasterCode[a.part]) /\ a.solve <= MaxSolves /\ mesh.energy \in BOOLEAN
      /\ MasterOrder(a.part, a.i)
  BY MasterPlace
<1>2. a.i \notin Given[a.part] /\ (Leads(a).do # "own" => ~Closing(a))
  BY <1>1 DEF MasterOrder, Leads, Closing
<1>3. CASE a.i < Len(MasterCode[a.part])
  <2>1. b = [a EXCEPT !.i = @ + 1]
    BY <1>3, AfterMaster
  <2>2. b \in Spot /\ b.part = a.part /\ b.i = a.i + 1 /\ b.iter = a.iter /\ b.solve = a.solve
    BY <1>1, <2>1, Onward
  <2>3. MasterSpot(b)
    <3>1. a.i \in Nat /\ a.i >= 1 /\ Len(MasterCode[a.part]) \in Nat
      BY <1>1, Firsts
    <3>2. a.i + 1 \in 1..Len(MasterCode[a.part])
      BY <1>3, <3>1, Within
    <3>3. QED
      BY <2>2, <3>2 DEF MasterSpot
  <2>4. /\ MasterRound[a.part][a.i + 1] = MasterRound[a.part][a.i]
        /\ ~(a.part = "setup" /\ a.i + 1 = 24) /\ ~(a.part = "energy" /\ a.i + 1 = 6)
        /\ Leads(a).do # "take" => (a.i + 1 \in Open[a.part] <=> a.i \in Open[a.part])
    BY <1>1, <1>3 DEF MasterOrder, Leads
  <2>5. ~Closing(b)
    BY <2>2, <2>4 DEF Closing
  <2>6. ~Closing(a)
    BY <1>1, <1>3 DEF MasterOrder, Closing
  <2>7. \A c : SameRound(Reached, c) => SameRound(b, c)
    BY <2>2, <2>4, <2>6 DEF SameRound, Reached
  <2>8. QED
    BY <1>1, <1>2, <2>2, <2>3, <2>4, <2>5, <2>7 DEF InSolve
<1>4. CASE ~(a.i < Len(MasterCode[a.part]))
  <2>1. b = Beyond(a, FALSE, mesh.energy)
    BY <1>4, AfterMaster
  <2>2. a.i = Len(MasterCode[a.part])
    BY <1>1, <1>4, Firsts
  <2>3. (a.part = "setup" /\ a.i = 24) \/ (a.part = "energy" /\ a.i = 6) \/ (a.part = "step" /\ a.i = 7)
        \/ Leads(a).do = "barrier"
    BY <1>1, <2>2 DEF MasterOrder, Leads
  <2>4. Leads(a).do = "own" /\ a.i \notin Open[a.part] /\ Closing(a)
    <3>1. ~(a.part = "step" /\ a.i = 7)
      <4>1. MasterRule(a.part, a.i)
        BY MasterPlace
      <4>2. QED
        BY <4>1 DEF MasterRule, Leads
    <3>2. QED
      BY <1>1, <2>3, <3>1 DEF MasterOrder, Leads, Closing
  <2>5. b \in Spot /\ b.i = 1 /\ InSolve(b) /\ b.part \in {"step", "finish"}
    BY <1>1, <2>1, <2>4, BeyondClosing
  <2>6. b.part \in Parts /\ MasterSpot(b) /\ ~Closing(b) /\ b.i \notin Open[b.part]
    BY <2>5, Firsts DEF Parts, MasterSpot, Closing
  <2>7. Reached = b
    BY <2>1, <2>4 DEF Reached
  <2>8. QED
    BY <1>2, <2>4, <2>5, <2>6, <2>7 DEF Closing
<1>5. QED
  BY <1>3, <1>4

\* A step of the master within an exchange, once what it waited for is settled.
LEMMA MasterStep ==
  ASSUME FInv, at[0].part \in Parts, Leads(at[0]).do \in {"take", "own", "clear", "number", "give"},
         GoOn(0), mesh' = mesh, up' = up, cast' = cast, got' = <<>>, WireType',
         \A q \in Slave : \A x \in {"maps", "comm", "out"} : buf'[q][x] = buf[q][x],
         \A q \in Slave : up[q] = <<>> \/ at'[0].i \in Open[at'[0].part],
         \A q \in Slave : At(q, "send") /\ at'[0].i \notin Open[at'[0].part] =>
           What(q) \notin AnySource /\ ~Shares(q),
         \A q \in Slave : DownInv(q)' /\ ReceiveInv(q)' /\ MapInv(q)'
  PROVE  FInv'
<1> DEFINE b == After(0, FALSE)
<1>1. at' = [at EXCEPT ![0] = b] /\ ControlType
  BY DEF GoOn, FInv
<1>2. b \in Spot /\ InSolve(b) /\ MasterSpot(b) /\ b.part \in Parts /\ ~Closing(b)
      /\ \A c : SameRound(Reached, c) => SameRound(b, c)
  BY <1>1, MasterMoves
<1> HIDE DEF b
<1>3. ControlType' /\ at'[0] = b /\ \A r \in Proc \ {0} : at'[r] = at[r]
  BY <1>1, <1>2, ControlStep, Ranks
<1>4. GotInv'
  BY DEF GotInv, Range
<1>5. ASSUME NEW q \in Slave PROVE SlaveInv(q)'
  <2>1. at'[q] = at[q] /\ SlaveInv(q) /\ cast'[q] = cast[q]
    BY <1>3, <1>5, Ranks DEF FInv
  <2>2. Seen(q)' = Seen(q)
    BY <2>1, SameSeen
  <2>3. Shares(q)' = Shares(q) /\ Records(q)' = Records(q)
    BY SameMesh
  <2>4. (At(q, "barrier")' <=> At(q, "barrier")) /\ (At(q, "send")' <=> At(q, "send")) /\ What(q)' = What(q)
    BY <2>1, AtSlave
  <2>5. Stamp(q)' = Stamp(q)
    BY <2>1 DEF Stamp
  <2>6. CastInv(q)'
    BY <2>1 DEF SlaveInv, CastInv
  <2>7. Reached' = b /\ b.part # "aborted"
    BY <1>2, <1>3 DEF Reached, Closing, Parts
  <2>8. LockInv(q)'
    <3>1. SameRound(Reached, Seen(q))
      <4>1. at[0].part # "aborted"
        BY DEF Parts
      <4>2. QED
        BY <2>1, <4>1 DEF SlaveInv, LockInv
    <3>2. QED
      BY <1>2, <2>2, <2>7, <3>1 DEF LockInv, SameRound
  <2>9. AbortInv(q)'
    BY <1>3, <2>7 DEF AbortInv
  <2>10. UpInv(q)'
    <3>1. \A w : Buffer(w) \in {"maps", "comm", "out"}
      BY DEF Buffer
    <3>2. SUFFICES ASSUME up[q] # <<>> PROVE UpInv(q)'
      BY DEF UpInv
    <3>3. UpInv(q) /\ at'[0].i \in Open[at'[0].part] /\ q \notin Range(got')
      BY <2>1, <3>2 DEF SlaveInv, Range
    <3>4. QED
      BY <1>5, <2>1, <2>3, <2>4, <2>5, <3>1, <3>2, <3>3 DEF UpInv, Did, Buffer, Message, AnySource
  <2>11. SendInv(q)'
    BY <1>5, <2>3, <2>4 DEF SendInv, AnySource
  <2>12. QED
    BY <1>5, <2>6, <2>8, <2>9, <2>10, <2>11 DEF SlaveInv
<1>6. TogetherInv'
  BY <1>2, <1>3 DEF TogetherInv, Parts
<1>7. QED
  BY <1>3, <1>4, <1>5, <1>6 DEF FInv

\* Unless it has given a message, none is on its way down.
LEMMA NothingGiven ==
  ASSUME NEW q \in Slave, SlaveInv(q), at[0].part \in Parts, at[0].i \notin Given[at[0].part]
  PROVE  /\ down[q] = <<>>
         /\ ~(At(q, "barrier") /\ at[q].i > 1 /\ Did(at[q]).do = "receive" /\ Shares(q))
BY DEF SlaveInv, DownInv, ReceiveInv
-------------------------------------------------------------------------------
(* The maps *)

\* A list is empty when it has no places.
LEMMA Empty ==
  ASSUME NEW f, f = [i \in DOMAIN f |-> f[i]]
  PROVE  f # <<>> <=> DOMAIN f # {}
OBVIOUS

LEMMA HeldEmpty ==
  ASSUME NEW p
  PROVE  Held(p) # <<>> <=> DOMAIN Held(p) # {}
<1> DEFINE S == {n \in Node : p \in mesh.parts[n]}
           Index(n) == Cardinality({m \in S : IF p % 2 = 0 THEN m <= n ELSE m >= n})
           N(i) == CHOOSE n \in S : Index(n) = i
           k == Cardinality(S)
<1>0. Held(p) = [i \in 1..k |-> N(i)]
  BY Zenon DEF Held
<1> HIDE DEF N, k
<1>1. Held(p) = [i \in DOMAIN Held(p) |-> Held(p)[i]]
  BY <1>0
<1>2. QED
  BY <1>1, Empty

\* The map of a slave has a place for each dof manager it shares.
LEMMA MapEmpty ==
  ASSUME NEW q, NEW values, values = Records(q)
  PROVE  AddRecords(q, values).map # <<>> <=> Shares(q)
<1>1. values = [i \in DOMAIN Held(q) |-> <<Held(q)[i], mesh.dofs[Held(q)[i]]>>]
  BY DEF Packed, Records
<1>2. DOMAIN values = DOMAIN Held(q)
  BY <1>1
<1> DEFINE old == IF q = 0 THEN <<>> ELSE recs
           new == SelectSeq(values, LAMBDA r : Place(old, r[1]) = {})
           list == [b \in DOMAIN old |-> IF \E i \in DOMAIN values : values[i][1] = old[b].label
                                         THEN AddPartition(q, old[b]) ELSE old[b]]
                   \o [i \in DOMAIN new |-> AddPartition(q, NewRecord(new[i][1], new[i][2]))]
           N(i) == CHOOSE b \in Place(list, values[i][1]) : TRUE
<1> DEFINE m == AddRecords(q, values).map
<1>0. m = [i \in DOMAIN values |-> N(i)]
  BY DEF AddRecords
<1> HIDE DEF N, m
<1>3. m = [i \in DOMAIN m |-> m[i]] /\ DOMAIN m = DOMAIN values
  BY <1>0
<1>4. m # <<>> <=> DOMAIN m # {}
  BY <1>3, Empty
<1>5. QED
  BY <1>2, <1>3, <1>4, HeldEmpty DEF Shares, m

\* Only records change the maps.
LEMMA UnpackMaps ==
  ASSUME NEW q, NEW what, NEW values, NEW stamp, Unpack(q, what, values, stamp)
  PROVE  /\ what = "records" => cmap' = [p \in Proc |-> IF p = q THEN AddRecords(q, values).map
                                                        ELSE IF q = 0 THEN <<>> ELSE cmap[p]]
         /\ what # "records" => cmap' = cmap
<1>1. CASE what = "records"
  BY <1>1, Zenon DEF Unpack
<1>2. CASE what # "records"
  BY <1>2, Zenon DEF Unpack
<1>3. QED
  BY <1>1, <1>2

\* What a message is when the master or a slave reads it.
LEMMA MasterReads ==
  ASSUME FInv, NEW q \in Slave, At(0, "take"), WithTag(up[q], What(0)) # {}
  PROVE  /\ ForMaster(q).what = What(0) /\ ForMaster(q).stamp = Stamp(0)
         /\ What(0) = "records" => ForMaster(q).values = Records(q)
         /\ up[q] # <<>> /\ RemoveAt(up[q], First(up[q], What(0))) = <<>>
<1>1. ControlType /\ SlaveInv(q)
  BY DEF FInv
<1>2. at[0].part \in Parts /\ Leads(at[0]).do = "take" /\ What(0) = Leads(at[0]).what
  BY AtMaster
<1>3. ~Closing(at[0]) /\ Flow = "up" /\ What(0) = Topic
  <2>1. MasterRule(at[0].part, at[0].i) /\ MasterOrder(at[0].part, at[0].i)
    BY <1>1, <1>2, MasterPlace
  <2>2. QED
    BY <1>2, <2>1 DEF MasterRule, MasterOrder, Closing, Flow, Topic, Leads
<1>4. up[q] # <<>>
  BY NoMessage
<1> DEFINE w == Did(at[q]).what
<1>5. /\ At(q, "barrier") /\ up[q] = <<Message(w, Buffer(w))>>
      /\ buf[q][Buffer(w)].what = w /\ buf[q][Buffer(w)].stamp = Stamp(q)
      /\ w = "records" => buf[q][Buffer(w)].values = Records(q)
  BY <1>1, <1>4 DEF SlaveInv, UpInv
<1>6. First(up[q], What(0)) = 1 /\ RemoveAt(up[q], First(up[q], What(0))) = <<>>
  BY <1>5, LastMessage
<1>7. ForMaster(q) = buf[q][Buffer(w)]
  BY <1>5, <1>6 DEF ForMaster, Message
<1>8. w = What(0) /\ Stamp(q) = Stamp(0)
  <2>1. Seen(q) = at[q]
    <3>1. Does(at[q]).do = "barrier" /\ at[q].part \in Parts
      BY <1>5, AtSlave
    <3>2. cast[q] = <<>>
      <4>1. SlaveRule(at[q].part, at[q].i)
        BY <1>1, <3>1, SpotTypes, SlaveRules DEF SlaveSpot
      <4>2. QED
        BY <1>1, <3>1, <4>1 DEF SlaveInv, CastInv, SlaveRule, Does
    <3>3. QED
      BY <3>2 DEF Seen
  <2>2. QED
    BY <1>1, <1>2, <1>3, <1>5, <2>1, Meeting, AtSlave DEF Stamp
<1>9. QED
  BY <1>4, <1>5, <1>6, <1>7, <1>8

LEMMA SlaveReads ==
  ASSUME FInv, NEW q \in Slave, At(q, "receive"), WithTag(down[q], What(q)) # {}
  PROVE  buf[q]["in"].what = What(q) /\ buf[q]["in"].stamp = Stamp(q)
<1>1. ControlType /\ SlaveInv(q)
  BY DEF FInv
<1>2. at[q].part \in Parts /\ Does(at[q]).do = "receive" /\ What(q) = Does(at[q]).what
  BY AtSlave
<1>3. down[q] # <<>>
  BY NoMessage
<1>4. cast[q] = <<>>
  <2>1. SlaveRule(at[q].part, at[q].i)
    BY <1>1, <1>2, SpotTypes, SlaveRules DEF SlaveSpot
  <2>2. QED
    BY <1>1, <1>2, <2>1 DEF SlaveInv, CastInv, SlaveRule, Does
<1>5. Seen(q) = at[q]
  BY <1>4 DEF Seen
<1>6. QED
  BY <1>1, <1>2, <1>3, <1>5 DEF SlaveInv, DownInv, Stamp

\* The program ends while the slaves send or wait.
LEMMA AbortKeeps ==
  ASSUME FInv, at[0].part \in Parts, ~Closing(at[0]), at[0].i \notin Given[at[0].part],
         Flow \in {"up", "none"}, Abort, WireType',
         mesh' = mesh, down' = down, cast' = cast, buf' = buf, got' = got,
         \A q \in Slave : up'[q] = <<>> \/ up'[q] = up[q]
  PROVE  FInv'
<1> DEFINE b == Enter(at[0], "aborted")
<1>1. at' = [at EXCEPT ![0] = b] /\ ControlType /\ GotInv
  BY DEF Abort, FInv
<1>2. b \in Spot /\ b.part = "aborted" /\ InSolve(b) /\ MasterSpot(b)
  <2>1. at[0] \in Spot /\ at[0].solve <= MaxSolves
    BY <1>1, MasterPlace
  <2>2. QED
    BY <2>1 DEF Enter, Spot, InSolve, MasterSpot, Parts
<1> HIDE DEF b
<1>3. ControlType' /\ at'[0] = b /\ \A r \in Proc \ {0} : at'[r] = at[r]
  BY <1>1, <1>2, ControlStep, Ranks
<1>4. GotInv'
  <2>1. \A r \in Range(got) : At(r, "barrier")'
    <3>1. TAKE r \in Range(got)
    <3>2. r \in Slave /\ At(r, "barrier")
      BY <1>1 DEF GotInv, FInv, WireType, Range
    <3>3. at'[r] = at[r]
      BY <1>3, <3>2, Ranks
    <3>4. QED
      BY <3>2, <3>3, AtSlave
  <2>2. QED
    BY <1>1, <1>2, <1>3, <2>1 DEF GotInv
<1>5. ASSUME NEW q \in Slave
      PROVE  /\ at[q] = Seen(q) /\ at[q].part \in Parts /\ Does(at[q]).do \in {"send", "barrier"}
             /\ at[q].part = at[0].part /\ at[q].solve = at[0].solve /\ at[q].iter = at[0].iter
             /\ SlaveRound[at[q].part][at[q].i] = MasterRound[at[0].part][at[0].i]
  <2>1. SlaveInv(q)
    BY DEF FInv
  <2>2. QED
    BY <1>1, <2>1, Meeting
<1>6. TogetherInv'
  BY <1>3, <1>5, Ranks DEF TogetherInv, Stamp
<1>7. ASSUME NEW q \in Slave PROVE SlaveInv(q)'
  <2>1. at'[q] = at[q] /\ SlaveInv(q) /\ down[q] = <<>>
    BY <1>3, Ranks, NothingGiven DEF FInv
  <2>2. Shares(q)' = Shares(q) /\ Records(q)' = Records(q)
    BY SameMesh
  <2>3. /\ (At(q, "barrier")' <=> At(q, "barrier")) /\ (At(q, "send")' <=> At(q, "send"))
        /\ At(q, "barrier") \/ At(q, "send")
    BY <1>5, <2>1, AtSlave
  <2>4. Stamp(q)' = Stamp(q)
    BY <2>1 DEF Stamp
  <2>5. CastInv(q)' /\ AbortInv(q)'
    BY <2>1, <2>3 DEF SlaveInv, CastInv, AbortInv
  <2>6. b.part \notin Parts
    BY <1>2 DEF Parts
  <2>7. LockInv(q)' /\ SendInv(q)' /\ ReceiveInv(q)' /\ MapInv(q)'
    BY <1>2, <1>3, <2>6 DEF LockInv, SendInv, ReceiveInv, MapInv
  <2>8. DownInv(q)'
    BY <2>1 DEF DownInv
  <2>9. UpInv(q)'
    <3>1. SUFFICES ASSUME up'[q] = up[q], up[q] # <<>> PROVE UpInv(q)'
      BY DEF UpInv
    <3>2. UpInv(q)
      BY <2>1 DEF SlaveInv
    <3>3. QED
      BY <1>3, <2>1, <2>2, <2>3, <2>4, <2>6, <3>1, <3>2 DEF UpInv, Did, Buffer, Message, AnySource
  <2>10. QED
    BY <2>5, <2>7, <2>8, <2>9 DEF SlaveInv
<1>8. QED
  BY <1>3, <1>4, <1>6, <1>7 DEF FInv

\* The slaves counted, with one more.
LEMMA AppendRange ==
  ASSUME NEW S, NEW s \in Seq(S), NEW e \in S
  PROVE  Append(s, e) \in Seq(S) /\ Range(Append(s, e)) = Range(s) \union {e}
<1> DEFINE t == Append(s, e)
<1>1. /\ t \in Seq(S) /\ DOMAIN s = 1..Len(s) /\ DOMAIN t = 1..Len(s) + 1 /\ Len(s) \in Nat
      /\ t[Len(s) + 1] = e /\ \A i \in DOMAIN s : t[i] = s[i]
  OBVIOUS
<1> HIDE DEF t
<1>2. ASSUME NEW x \in Range(t) PROVE x \in Range(s) \union {e}
  <2>1. PICK i \in DOMAIN t : x = t[i]
    BY DEF Range
  <2>2. i \in DOMAIN s \/ i = Len(s) + 1
    BY <1>1
  <2>3. QED
    BY <1>1, <2>1, <2>2 DEF Range
<1>3. ASSUME NEW x \in Range(s) \union {e} PROVE x \in Range(t)
  <2>1. DOMAIN s \subseteq DOMAIN t /\ Len(s) + 1 \in DOMAIN t
    BY <1>1
  <2>2. QED
    BY <1>1, <2>1 DEF Range
<1>4. QED
  BY <1>1, <1>2, <1>3 DEF t

\* The master takes the message of this exchange, or ends the program.
LEMMA TakeKeeps ==
  ASSUME FInv, NEW q \in Slave, Take(q)
  PROVE  FInv'
<1> DEFINE what == What(0)
           m == ForMaster(q)
<1>1. ControlType /\ WireType /\ GotInv /\ SlaveInv(q)
  BY DEF FInv
<1>2. /\ At(0, "take") /\ WithTag(up[q], what) # {}
      /\ mesh' = mesh /\ down' = down /\ buf' = buf /\ cast' = cast
      /\ up' = [up EXCEPT ![q] = RemoveAt(@, First(@, what))]
      /\ \/ Abort /\ got' = got /\ cmap' = cmap
         \/ at' = at /\ got' = Append(got, q) /\ Unpack(q, what, m.values, m.stamp)
  BY Zenon DEF Take, ForMaster, lists
<1>3. at[0].part \in Parts /\ Leads(at[0]).do = "take" /\ what = Leads(at[0]).what
  BY <1>2, AtMaster
<1>4. /\ up[q] # <<>> /\ RemoveAt(up[q], First(up[q], what)) = <<>>
      /\ what = "records" => m.values = Records(q)
  BY <1>2, MasterReads
<1>5. up'[q] = <<>> /\ \A r \in Slave \ {q} : up'[r] = up[r]
  BY <1>1, <1>2, <1>4 DEF WireType
<1>6. At(q, "barrier") /\ q \notin Range(got)
  BY <1>1, <1>4 DEF SlaveInv, UpInv
<1>7. /\ Flow = "up" /\ ~Closing(at[0]) /\ at[0].i \notin Given[at[0].part]
      /\ what = "records" <=> (at[0].part = "setup" /\ at[0].i = 4)
  <2>1. MasterRule(at[0].part, at[0].i) /\ MasterOrder(at[0].part, at[0].i)
    BY <1>1, <1>3, MasterPlace
  <2>2. QED
    BY <1>3, <2>1 DEF MasterRule, MasterOrder, Closing, Flow, Leads
<1>8. up' = [r \in Slave |-> up'[r]]
  <2>1. up = [r \in Slave |-> up[r]]
    BY <1>1 DEF WireType
  <2>2. QED
    BY <1>2, <2>1
<1>9. CASE Abort /\ got' = got /\ cmap' = cmap
  <2>1. WireType'
    BY <1>1, <1>2, <1>8, <1>9 DEF WireType
  <2>2. QED
    BY <1>2, <1>3, <1>5, <1>7, <1>9, <2>1, AbortKeeps
<1>10. CASE at' = at /\ got' = Append(got, q) /\ Unpack(q, what, m.values, m.stamp)
  <2>1. /\ what = "records" => cmap' = [p \in Proc |-> IF p = q THEN AddRecords(q, m.values).map
                                                        ELSE IF q = 0 THEN <<>> ELSE cmap[p]]
        /\ what # "records" => cmap' = cmap
    BY <1>10, UnpackMaps
  <2>2. q # 0 /\ q \in Proc
    BY Ranks
  <2>3. /\ \A r \in Slave \ {q} : cmap'[r] = cmap[r]
        /\ what = "records" => cmap'[q] = AddRecords(q, m.values).map
        /\ cmap' = [p \in Proc |-> cmap'[p]]
    <3>1. CASE what = "records"
      BY <2>1, <2>2, <3>1, Ranks
    <3>2. CASE what # "records"
      BY <1>1, <2>1, <3>2 DEF WireType
    <3>3. QED
      BY <3>1, <3>2
  <2>4. got' \in Seq(Slave) /\ Range(got') = Range(got) \union {q}
    <3>1. got \in Seq(Slave) /\ got' = Append(got, q)
      BY <1>1, <1>10 DEF WireType
    <3>2. Append(got, q) \in Seq(Slave) /\ Range(Append(got, q)) = Range(got) \union {q}
      BY <3>1, AppendRange
    <3>3. QED
      BY <3>1, <3>2
  <2>5. WireType'
    BY <1>1, <1>2, <1>8, <2>3, <2>4 DEF WireType
  <2>6. ControlType' /\ TogetherInv'
    BY <1>2, <1>10 DEF FInv, ControlType, TogetherInv, Stamp, InSolve, MasterSpot, SlaveSpot
  <2>7. GotInv'
    <3>1. \A r \in Slave : At(r, "barrier")' <=> At(r, "barrier")
      BY <1>10, AtSlave
    <3>2. At(0, "take")'
      BY <1>2, <1>10, AtMaster
    <3>3. \A r \in Range(got') : At(r, "barrier")'
      <4>1. TAKE r \in Range(got')
      <4>2. r \in Range(got) \/ r = q
        BY <2>4
      <4>3. Range(got) \subseteq Slave
        BY <1>1 DEF WireType, Range
      <4>4. At(r, "barrier") /\ r \in Slave
        BY <1>1, <1>6, <4>2, <4>3 DEF GotInv
      <4>5. QED
        BY <3>1, <4>4
    <3>4. \A i, j \in DOMAIN got' : got'[i] = got'[j] => i = j
      BY <1>1, <1>6, <1>10 DEF GotInv, WireType, Range
    <3>5. QED
      BY <3>2, <3>3, <3>4 DEF GotInv
  <2>8. ASSUME NEW r \in Slave, r # q PROVE SlaveInv(r)'
    <3>1. SlaveInv(r)
      BY DEF FInv
    <3>2. up'[r] = up[r] /\ cmap'[r] = cmap[r] /\ (r \in Range(got') <=> r \in Range(got))
      BY <1>5, <2>3, <2>4, <2>8
    <3>3. QED
      BY <1>2, <1>10, <3>1, <3>2, Untouched
  <2>9. SlaveInv(q)'
    <3>1. Seen(q)' = Seen(q) /\ Reached' = Reached
      BY <1>2, <1>10, SameSeen, SameReached
    <3>2. Shares(q)' = Shares(q)
      BY <1>2, SameMesh
    <3>3. (At(q, "barrier")' <=> At(q, "barrier")) /\ (At(q, "send")' <=> At(q, "send")) /\ What(q)' = What(q)
      BY <1>10, AtSlave
    <3>4. CastInv(q)' /\ AbortInv(q)'
      BY <1>1, <1>2, <1>10, <3>3 DEF SlaveInv, CastInv, AbortInv
    <3>5. LockInv(q)'
      BY <1>1, <1>10, <3>1 DEF SlaveInv, LockInv, SameRound
    <3>6. UpInv(q)'
      BY <1>5 DEF UpInv
    <3>7. SendInv(q)'
      BY <1>1, <1>10, <3>2, <3>3 DEF SlaveInv, SendInv, AnySource
    <3>8. DownInv(q)'
      BY <1>1, <1>2, <1>10, <3>1, <3>2 DEF SlaveInv, DownInv, Does, Message
    <3>9. ReceiveInv(q)'
      BY <1>1, <1>10, <3>2, <3>3 DEF SlaveInv, ReceiveInv, Did
    <3>10. MapInv(q)'
      <4>1. CASE what = "records"
        BY <1>4, <2>3, <3>2, <4>1, MapEmpty DEF MapInv
      <4>2. CASE what # "records"
        BY <1>1, <1>7, <1>10, <2>1, <3>2, <4>2 DEF SlaveInv, MapInv
      <4>3. QED
        BY <4>1, <4>2
    <3>11. QED
      BY <3>4, <3>5, <3>6, <3>7, <3>8, <3>9, <3>10 DEF SlaveInv
  <2>10. QED
    BY <2>5, <2>6, <2>7, <2>8, <2>9 DEF FInv
<1>11. QED
  BY <1>2, <1>9, <1>10

\* From any source it counts: when it has as many messages as slaves, it has one of each.
LEMMA AllCounted ==
  ASSUME got \in Seq(Slave), \A i, j \in DOMAIN got : got[i] = got[j] => i = j,
         ~(Len(got) < Cardinality(Slave))
  PROVE  Range(got) = Slave
<1>1. IsFiniteSet(Slave) /\ Cardinality(Slave) \in Nat /\ Len(got) \in Nat
  BY Ranks, FS_CardinalityType
<1>2. Range(got) \subseteq Slave
  BY DEF Range
<1>3. Cardinality(Range(got)) = Len(got)
  <2>1. got \in [1..Len(got) -> Slave] /\ DOMAIN got = 1..Len(got)
    OBVIOUS
  <2>2. Range(got) = {got[i] : i \in 1..Len(got)}
    BY <2>1 DEF Range
  <2>3. got \in Bijection(1..Len(got), Range(got))
    BY <2>1, <2>2 DEF Bijection, Injection, Surjection, IsInjective
  <2>4. IsFiniteSet(1..Len(got)) /\ Cardinality(1..Len(got)) = Len(got)
    <3>1. PICK n \in Nat : n = Len(got)
      BY <1>1
    <3>2. IsFiniteSet(1..n) /\ Cardinality(1..n) = IF 1 > n THEN 0 ELSE n - 1 + 1
      BY FS_Interval
    <3>3. Cardinality(1..n) = n
      BY <3>2
    <3>4. QED
      BY <3>1, <3>2, <3>3
  <2>5. ExistsBijection(1..Len(got), Range(got))
    BY <2>3 DEF ExistsBijection
  <2>6. QED
    BY <2>4, <2>5, FS_Bijection
<1>4. QED
  BY <1>1, <1>2, <1>3, FS_Subset

\* When the master waits no longer, no slave has a message to send or on its way.
LEMMA AllTakenKeeps ==
  ASSUME FInv, AllTaken
  PROVE  FInv'
<1> DEFINE a == at[0]
           b == After(0, FALSE)
<1>1. ControlType /\ WireType /\ GotInv /\ \A q \in Slave : SlaveInv(q)
  BY DEF FInv
<1>2. /\ At(0, "take") /\ (\A q \in Slave : ~Awaits(q)) /\ GoOn(0) /\ got' = <<>>
      /\ mesh' = mesh /\ up' = up /\ down' = down /\ buf' = buf /\ cast' = cast /\ cmap' = cmap
  BY DEF AllTaken, wires, lists
<1>3. a.part \in Parts /\ Leads(a).do = "take" /\ What(0) = Leads(a).what
  BY <1>2, AtMaster
<1>4. MasterRule(a.part, a.i) /\ MasterOrder(a.part, a.i)
  BY <1>1, <1>3, MasterPlace
<1>5. /\ Flow = "up" /\ What(0) = Topic /\ ~Closing(a) /\ a.i \notin Given[a.part]
      /\ What(0) = "records" <=> (a.part = "setup" /\ a.i = 4)
      /\ What(0) \notin AnySource /\ a.part = "setup" => a.i > 9
  BY <1>3, <1>4 DEF MasterRule, MasterOrder, Closing, Flow, Topic, Leads
<1>6. at'[0] = b /\ (b.part = a.part /\ b.i = a.i + 1) /\ a \in Spot
  <2>1. at' = [at EXCEPT ![0] = b] /\ 0 \in Proc /\ a \in Spot
    BY <1>1, <1>2, SpotTypes, Ranks DEF GoOn
  <2>2. b.part = a.part /\ b.i = a.i + 1
    BY <1>1, <1>3, MasterMoves
  <2>3. QED
    BY <1>1, <2>1, <2>2 DEF ControlType
<1> HIDE DEF b
\* No slave has anything to send, or on its way.
<1>7. ASSUME NEW q \in Slave
      PROVE  /\ up[q] = <<>>
             /\ At(q, "send") => What(q) \notin AnySource /\ ~Shares(q)
             /\ What(0) = "records" => q \in Range(got)
  <2>1. CASE q \in Range(got)
    <3>1. At(q, "barrier")
      BY <1>1, <2>1 DEF GotInv
    <3>2. ~At(q, "send")
      BY <3>1, AtSlave
    <3>3. QED
      BY <1>1, <2>1, <3>2 DEF SlaveInv, UpInv
  <2>2. CASE q \notin Range(got)
    <3>1. What(0) \notin AnySource
      <4>1. SUFFICES ASSUME What(0) \in AnySource PROVE FALSE
        OBVIOUS
      <4>2. Range(got) = Slave
        BY <1>1, <1>2, <4>1, AllCounted DEF Awaits, WireType, GotInv
      <4>3. QED
        BY <2>2, <4>2
    <3>2. cmap[q] = <<>>
      BY <1>2, <2>2, <3>1 DEF Awaits
    <3>3. ~Shares(q)
      BY <1>1, <1>3, <1>5, <1>6, <3>1, <3>2 DEF SlaveInv, MapInv, Spot
    <3>4. /\ Does(Seen(q)).do # "hear" => Does(Seen(q)).what = Topic
          /\ Does(Seen(q)).do # "receive" => Seen(q) = at[q]
          /\ Does(Seen(q)).do \in {"send", "barrier"}
          /\ Does(Seen(q)).do = "barrier" => Did(Seen(q)).what = Topic
      BY <1>1, <1>3, <1>5, Meeting
    <3>5. Seen(q) = at[q] /\ Does(at[q]).what = Topic /\ (Does(at[q]).do = "barrier" => Did(at[q]).what = Topic)
      BY <3>4
    <3>6. up[q] = <<>>
      <4>1. SUFFICES ASSUME up[q] # <<>> PROVE FALSE
        OBVIOUS
      <4>2. At(q, "barrier") /\ (Did(at[q]).what \notin AnySource => Shares(q))
        BY <1>1, <4>1 DEF SlaveInv, UpInv
      <4>3. Does(at[q]).do = "barrier"
        BY <4>2, AtSlave
      <4>4. QED
        BY <1>5, <3>1, <3>3, <3>5, <4>2, <4>3
    <3>7. At(q, "send") => What(q) \notin AnySource
      BY <1>5, <3>1, <3>5, AtSlave
    <3>8. What(0) # "records"
      BY <3>1 DEF AnySource
    <3>9. QED
      BY <3>3, <3>6, <3>7, <3>8
  <2>3. QED
    BY <2>1, <2>2
<1>8. ASSUME NEW q \in Slave PROVE DownInv(q)' /\ ReceiveInv(q)' /\ MapInv(q)'
  <2>1. SlaveInv(q) /\ at'[q] = at[q]
    BY <1>1, <1>2, Ranks DEF GoOn, ControlType
  <2>2. down[q] = <<>> /\ ~(At(q, "barrier") /\ at[q].i > 1 /\ Did(at[q]).do = "receive" /\ Shares(q))
    BY <1>3, <1>5, <2>1, NothingGiven
  <2>3. (At(q, "barrier")' <=> At(q, "barrier")) /\ Shares(q)' = Shares(q)
    BY <1>2, <2>1, AtSlave, SameMesh
  <2>4. DownInv(q)' /\ ReceiveInv(q)'
    BY <1>2, <2>1, <2>2, <2>3 DEF DownInv, ReceiveInv, Did
  <2>5. MapInv(q)'
    <3>1. SUFFICES ASSUME a.part = "setup" => a.i + 1 > 4 PROVE cmap[q] # <<>> <=> Shares(q)
      BY <1>2, <1>6, <2>3 DEF MapInv, Range
    <3>2. a.part = "setup" => a.i > 4 \/ (a.i = 4 /\ q \in Range(got))
      <4>1. a.i \in Nat
        BY <1>6 DEF Spot
      <4>2. a.part = "setup" /\ a.i = 4 => q \in Range(got)
        BY <1>5, <1>7
      <4>3. QED
        BY <3>1, <4>1, <4>2
    <3>3. QED
      BY <1>3, <2>1, <3>2 DEF SlaveInv, MapInv
  <2>6. QED
    BY <2>4, <2>5
<1>9. WireType'
  BY <1>1, <1>2 DEF WireType
<1>10. QED
  BY <1>2, <1>3, <1>7, <1>8, <1>9, MasterStep

\* A step of the master in which no message is sent or taken.
LEMMA AloneKeeps ==
  ASSUME FInv, at[0].part \in Parts, Leads(at[0]).do \in {"own", "clear", "number"},
         GoOn(0), mesh' = mesh, up' = up, down' = down, cast' = cast, buf' = buf, got' = got,
         \/ cmap' = cmap
         \/ at[0].part = "setup" /\ at[0].i = 3 /\ cmap' = [p \in Proc |-> cmap'[p]]
  PROVE  FInv'
<1> DEFINE a == at[0]
           b == After(0, FALSE)
<1>1. ControlType /\ WireType /\ GotInv /\ \A q \in Slave : SlaveInv(q)
  BY DEF FInv
<1>2. MasterRule(a.part, a.i) /\ MasterOrder(a.part, a.i) /\ a \in Spot
  BY <1>1, MasterPlace
<1>3. /\ a.i \notin Given[a.part]
      /\ b.part \in Parts /\ (b.i \in Open[b.part] <=> a.i \in Open[a.part])
      /\ (b.part = a.part /\ b.i = a.i + 1) \/ (b.part \in {"step", "finish"} /\ (a.part = "setup" => a.i = 24))
  BY <1>1, MasterMoves
<1> HIDE DEF b
<1>4. at'[0] = b /\ \A q \in Slave : at'[q] = at[q]
  BY <1>1, Ranks DEF GoOn, ControlType, b
<1>5. got' = <<>>
  <2>1. ~At(0, "take") /\ a.part # "aborted"
    BY AtMaster DEF Parts
  <2>2. QED
    BY <1>1, <2>1 DEF GotInv
<1>6. ASSUME NEW q \in Slave
      PROVE  /\ up[q] = <<>> \/ b.i \in Open[b.part]
             /\ At(q, "send") /\ b.i \notin Open[b.part] => What(q) \notin AnySource /\ ~Shares(q)
  BY <1>1, <1>3 DEF SlaveInv, UpInv, SendInv
<1>7. ASSUME NEW q \in Slave PROVE DownInv(q)' /\ ReceiveInv(q)' /\ MapInv(q)'
  <2>1. SlaveInv(q) /\ at'[q] = at[q]
    BY <1>1, <1>4
  <2>2. down[q] = <<>> /\ ~(At(q, "barrier") /\ at[q].i > 1 /\ Did(at[q]).do = "receive" /\ Shares(q))
    BY <1>3, <2>1, NothingGiven
  <2>3. (At(q, "barrier")' <=> At(q, "barrier")) /\ Shares(q)' = Shares(q)
    BY <2>1, AtSlave, SameMesh
  <2>4. DownInv(q)' /\ ReceiveInv(q)'
    BY <2>1, <2>2, <2>3 DEF DownInv, ReceiveInv, Did
  <2>5. MapInv(q)'
    <3>1. SUFFICES ASSUME b.part = "setup" => b.i > 4 PROVE cmap'[q] # <<>> <=> Shares(q)
      BY <1>4, <1>5, <2>3 DEF MapInv, Range
    <3>2. a.part = "setup" => a.i > 4
      <4>1. a.i \in Nat
        BY <1>2 DEF Spot
      <4>2. ~(a.part = "setup" /\ a.i = 4)
        BY <1>2 DEF MasterRule, Leads
      <4>3. QED
        BY <1>3, <3>1, <4>1, <4>2
    <3>3. cmap' = cmap
      BY <3>2
    <3>4. QED
      BY <2>1, <3>2, <3>3 DEF SlaveInv, MapInv
  <2>6. QED
    BY <2>4, <2>5
<1>8. WireType'
  BY <1>1 DEF WireType
<1>9. QED
  BY <1>4, <1>5, <1>6, <1>7, <1>8, MasterStep

\* The operations of the master on its own values.
LEMMA OwnKeeps ==
  ASSUME FInv, Own
  PROVE  FInv'
<1>1. /\ At(0, "own") /\ Unpack(0, What(0), Packed(0, What(0)), Stamp(0)) /\ GoOn(0)
      /\ mesh' = mesh /\ up' = up /\ down' = down /\ buf' = buf /\ cast' = cast /\ got' = got
  BY DEF Own, wires
<1>2. at[0].part \in Parts /\ Leads(at[0]).do = "own" /\ What(0) = Leads(at[0]).what
  BY <1>1, AtMaster
<1>3. What(0) = "records" => at[0].part = "setup" /\ at[0].i = 3
  <2>1. MasterRule(at[0].part, at[0].i)
    BY <1>2, MasterPlace DEF FInv
  <2>2. QED
    BY <1>2, <2>1 DEF MasterRule, Leads
<1>4. /\ What(0) = "records" => cmap' = [p \in Proc |-> cmap'[p]]
      /\ What(0) # "records" => cmap' = cmap
  <2>1. CASE What(0) = "records"
    <3>1. cmap' = [p \in Proc |-> IF p = 0 THEN AddRecords(0, Packed(0, What(0))).map
                                  ELSE IF 0 = 0 THEN <<>> ELSE cmap[p]]
      BY <1>1, <2>1, UnpackMaps
    <3>2. QED
      BY <2>1, <3>1
  <2>2. CASE What(0) # "records"
    BY <1>1, <2>2, UnpackMaps
  <2>3. QED
    BY <2>1, <2>2
<1>5. QED
  BY <1>1, <1>2, <1>3, <1>4, AloneKeeps

LEMMA ClearKeeps ==
  ASSUME FInv, Clear
  PROVE  FInv'
<1>1. /\ At(0, "clear") /\ GoOn(0)
      /\ mesh' = mesh /\ up' = up /\ down' = down /\ buf' = buf /\ cast' = cast /\ got' = got /\ cmap' = cmap
  BY DEF Clear, wires, lists
<1>2. at[0].part \in Parts /\ Leads(at[0]).do = "clear"
  BY <1>1, AtMaster
<1>3. QED
  BY <1>1, <1>2, AloneKeeps

\* Numbering the equations goes on, or ends the program.
LEMMA NumberKeeps ==
  ASSUME FInv, Number
  PROVE  FInv'
<1>1. /\ At(0, "number") /\ (GoOn(0) \/ Abort)
      /\ mesh' = mesh /\ up' = up /\ down' = down /\ buf' = buf /\ cast' = cast /\ got' = got /\ cmap' = cmap
  BY DEF Number, wires
<1>2. at[0].part \in Parts /\ Leads(at[0]).do = "number"
  BY <1>1, AtMaster
<1>3. CASE GoOn(0)
  BY <1>1, <1>2, <1>3, AloneKeeps
<1>4. CASE Abort
  <2>1. MasterRule(at[0].part, at[0].i) /\ MasterOrder(at[0].part, at[0].i) /\ WireType
    BY <1>2, MasterPlace DEF FInv
  <2>2. Flow = "none" /\ ~Closing(at[0]) /\ at[0].i \notin Given[at[0].part]
    BY <1>2, <2>1 DEF MasterRule, MasterOrder, Closing, Flow, Leads
  <2>3. WireType'
    BY <1>1, <2>1 DEF WireType
  <2>4. QED
    BY <1>1, <1>2, <1>4, <2>2, <2>3, AbortKeeps
<1>5. QED
  BY <1>1, <1>3, <1>4

\* The first message on a wire.
LEMMA FirstOfAll == \A x, s : s = <<>> => Append(s, x) = <<x>> /\ <<x>> # <<>> /\ <<x>>[1] = x
OBVIOUS

\* What the master gives is what each slave receives next.
LEMMA GiveKeeps ==
  ASSUME FInv, Give
  PROVE  FInv'
<1> DEFINE a == at[0]
           b == After(0, FALSE)
           what == What(0)
           To == {q \in Slave : cmap[q] # <<>>}
           packed(q) == Content(0, what, Fitting(q, PackedFor(q, what)))
<1>1. ControlType /\ WireType /\ GotInv /\ \A q \in Slave : SlaveInv(q)
  BY DEF FInv
<1>2. /\ At(0, "give") /\ GoOn(0)
      /\ mesh' = mesh /\ up' = up /\ cast' = cast /\ got' = got /\ cmap' = cmap
      /\ buf' = [q \in Slave |-> IF q \in To THEN [buf[q] EXCEPT !["in"] = packed(q)] ELSE buf[q]]
      /\ down' = [q \in Slave |-> IF q \in To THEN Append(down[q], Message(what, "in")) ELSE down[q]]
  BY Zenon DEF Give, lists
<1>3. a.part \in Parts /\ Leads(a).do = "give" /\ what = Leads(a).what
  BY <1>2, AtMaster
<1>4. MasterRule(a.part, a.i) /\ MasterOrder(a.part, a.i) /\ a \in Spot
  BY <1>1, <1>3, MasterPlace
<1>5. /\ Flow = "down" /\ what = Topic /\ ~Closing(a)
      /\ a.i \notin Given[a.part] /\ a.i + 1 \in Given[a.part] /\ (a.part = "setup" => a.i > 4)
  BY <1>3, <1>4 DEF MasterRule, MasterOrder, Closing, Flow, Topic, Leads
<1>6. /\ b.part = a.part /\ b.i = a.i + 1
      /\ b.part \in Parts /\ (b.i \in Open[b.part] <=> a.i \in Open[a.part])
  BY <1>1, <1>3, MasterMoves
<1> HIDE DEF b, packed
<1>7. at'[0] = b /\ \A q \in Slave : at'[q] = at[q]
  BY <1>1, <1>2, Ranks DEF GoOn, ControlType, b
<1>8. got' = <<>>
  <2>1. ~At(0, "take") /\ a.part # "aborted"
    BY <1>3, AtMaster DEF Parts
  <2>2. QED
    BY <1>1, <1>2, <2>1 DEF GotInv
<1>9. ASSUME NEW q \in Slave
      PROVE  /\ up[q] = <<>> \/ b.i \in Open[b.part]
             /\ At(q, "send") /\ b.i \notin Open[b.part] => What(q) \notin AnySource /\ ~Shares(q)
  BY <1>1, <1>3, <1>6 DEF SlaveInv, UpInv, SendInv
<1>10. WireType'
  <2>1. buf' = [q \in Slave |-> [x \in {"maps", "comm", "out", "in"} |-> buf'[q][x]]]
    <3>1. buf = [q \in Slave |-> [x \in {"maps", "comm", "out", "in"} |-> buf[q][x]]]
      BY <1>1 DEF WireType
    <3>2. \A q \in Slave : buf'[q] = [x \in {"maps", "comm", "out", "in"} |-> buf'[q][x]]
      BY <1>2, <3>1
    <3>3. QED
      BY <1>2, <3>2
  <2>2. down' = [q \in Slave |-> down'[q]]
    BY <1>2
  <2>3. QED
    BY <1>1, <1>2, <2>1, <2>2 DEF WireType
<1>11. ASSUME NEW q \in Slave, NEW x \in {"maps", "comm", "out"} PROVE buf'[q][x] = buf[q][x]
  <2>1. buf[q] = [y \in {"maps", "comm", "out", "in"} |-> buf[q][y]]
    BY <1>1 DEF WireType
  <2>2. QED
    BY <1>2, <2>1
<1>12. ASSUME NEW q \in Slave PROVE DownInv(q)' /\ ReceiveInv(q)' /\ MapInv(q)'
  <2>1. SlaveInv(q) /\ at'[q] = at[q]
    BY <1>1, <1>7
  <2>2. down[q] = <<>> /\ ~(At(q, "barrier") /\ at[q].i > 1 /\ Did(at[q]).do = "receive" /\ Shares(q))
    BY <1>3, <1>5, <2>1, NothingGiven
  <2>3. (At(q, "barrier")' <=> At(q, "barrier")) /\ Shares(q)' = Shares(q) /\ Seen(q)' = Seen(q)
    BY <1>2, <2>1, AtSlave, SameMesh, SameSeen
  <2>4. cmap[q] # <<>> <=> Shares(q)
    BY <1>3, <1>5, <2>1 DEF SlaveInv, MapInv
  <2>5. ReceiveInv(q)'
    BY <2>1, <2>2, <2>3 DEF ReceiveInv, Did
  <2>6. MapInv(q)'
    BY <1>2, <2>3, <2>4 DEF MapInv
  <2>7. DownInv(q)'
    <3>1. SUFFICES ASSUME down'[q] # <<>> PROVE DownInv(q)'
      BY DEF DownInv
    <3>2. q \in To
      BY <1>2, <2>2, <3>1
    <3>3. Shares(q)
      BY <2>4, <3>2
    <3>4. down'[q] = <<Message(what, "in")>>
      BY <1>2, <2>2, <3>2, FirstOfAll
    <3>5. buf'[q]["in"] = packed(q)
      <4>1. buf[q] = [y \in {"maps", "comm", "out", "in"} |-> buf[q][y]]
        BY <1>1 DEF WireType
      <4>2. QED
        BY <1>2, <3>2, <4>1
    <3>6. packed(q).what = what /\ packed(q).stamp = <<a.solve, a.iter>>
      BY DEF packed, Content, Stamp
    <3>7. /\ Seen(q).part = a.part /\ Seen(q).solve = a.solve /\ Seen(q).iter = a.iter
          /\ Does(Seen(q)).do # "receive" => Seen(q) = at[q]
          /\ Does(Seen(q)).do # "hear" => Does(Seen(q)).what = Topic
          /\ Does(Seen(q)).do \in {"receive", "barrier"}
          /\ Does(Seen(q)).do = "barrier" => Seen(q).i > 1 /\ Did(Seen(q)).do = "receive"
      BY <1>1, <1>3, <1>5, Meeting
    <3>8. Does(Seen(q)).do = "receive"
      <4>1. SUFFICES ASSUME Does(Seen(q)).do = "barrier" PROVE FALSE
        BY <3>7
      <4>2. Seen(q) = at[q] /\ at[q].part \in Parts
        BY <1>3, <3>7, <4>1
      <4>3. At(q, "barrier") /\ at[q].i > 1 /\ Did(at[q]).do = "receive"
        BY <3>7, <4>1, <4>2, AtSlave
      <4>4. QED
        BY <2>2, <3>3, <4>3
    <3>9. Does(Seen(q)).what = what
      BY <1>5, <3>7, <3>8
    <3>10. Does(Seen(q))' = Does(Seen(q))
      BY <2>3 DEF Does
    <3>11. QED
      BY <1>3, <1>5, <1>6, <1>7, <2>3, <3>3, <3>4, <3>5, <3>6, <3>7, <3>8, <3>9, <3>10 DEF DownInv, Message
  <2>8. QED
    BY <2>5, <2>6, <2>7
<1>13. QED
  BY <1>2, <1>3, <1>7, <1>8, <1>9, <1>10, <1>11, <1>12, MasterStep

\* The one broadcast on its way.
LEMMA OneAnswer ==
  ASSUME NEW stop \in BOOLEAN, NEW s, s = <<>>
  PROVE  Append(s, stop) = <<stop>> /\ <<stop>> # <<>> /\ <<stop>>[1] = stop
OBVIOUS

\* All slaves wait for the broadcast.
LEMMA BroadcastKeeps ==
  ASSUME FInv, Broadcast
  PROVE  FInv'
<1> DEFINE a == at[0]
<1>1. ControlType /\ WireType /\ GotInv /\ \A q \in Slave : SlaveInv(q)
  BY DEF FInv
<1>2. PICK stop \in BOOLEAN :
        /\ cast' = [q \in Slave |-> Append(cast[q], stop)]
        /\ at' = [at EXCEPT ![0] = After(0, stop)]
  BY DEF Broadcast
<1>3. /\ At(0, "broadcast")
      /\ mesh' = mesh /\ up' = up /\ down' = down /\ buf' = buf /\ got' = got /\ cmap' = cmap
  BY DEF Broadcast, lists
<1>4. a.part \in Parts /\ Leads(a).do = "broadcast"
  BY <1>3, AtMaster
<1>5. /\ MasterRule(a.part, a.i) /\ MasterOrder(a.part, a.i) /\ a \in Spot /\ a.i \in 1..Len(MasterCode[a.part])
      /\ a.solve <= MaxSolves /\ mesh.energy \in BOOLEAN
  BY <1>1, <1>4, MasterPlace
<1>6. /\ a.part = "step" /\ a.i = 7 /\ Flow = "cast" /\ ~Closing(a)
      /\ a.i \notin Given[a.part] /\ a.i \notin Open[a.part]
  BY <1>4, <1>5 DEF MasterRule, MasterOrder, Closing, Flow, Leads
<1> DEFINE b == Beyond(a, stop, mesh.energy)
<1>7. at' = [at EXCEPT ![0] = b]
  <2>1. ~(a.i < Len(MasterCode[a.part]))
    BY <1>6 DEF MasterCode
  <2>2. QED
    BY <1>2, <1>4, <2>1, AfterMaster
<1>8. b \in Spot /\ b.i = 1 /\ InSolve(b) /\ b.part \in {"step", "energy", "finish"}
  BY <1>4, <1>5, <1>6, BeyondParts
<1>9. ASSUME NEW q \in Slave
      PROVE  /\ Seen(q) = at[q] /\ cast[q] = <<>> /\ at[q] \in Spot
             /\ at[q].part = "step" /\ at[q].i = 5 /\ Does(at[q]).do = "hear"
             /\ at[q].solve = a.solve /\ at[q].iter = a.iter
  BY <1>1, <1>4, <1>6, Meeting
<1>10. ASSUME NEW q \in Slave PROVE SameRound(b, Beyond(at[q], stop, mesh.energy))
  BY <1>4, <1>5, <1>6, <1>9, BeyondTogether
<1> HIDE DEF b
<1>11. b.part \in Parts /\ MasterSpot(b) /\ ~Closing(b) /\ b.part # "aborted" /\ b.part # "setup"
  BY <1>8, Firsts DEF Parts, MasterSpot, Closing
<1>12. ControlType' /\ at'[0] = b /\ \A r \in Proc \ {0} : at'[r] = at[r]
  BY <1>1, <1>3, <1>7, <1>8, <1>11, ControlStep, Ranks
<1>13. WireType'
  BY <1>1, <1>2, <1>3 DEF WireType
<1>14. got' = <<>>
  <2>1. ~At(0, "take") /\ a.part # "aborted"
    BY <1>4, AtMaster DEF Parts
  <2>2. QED
    BY <1>1, <1>3, <2>1 DEF GotInv
<1>15. GotInv' /\ TogetherInv'
  BY <1>11, <1>12, <1>14 DEF GotInv, TogetherInv, Range
<1>16. ASSUME NEW q \in Slave PROVE SlaveInv(q)'
  <2>1. at'[q] = at[q] /\ SlaveInv(q)
    BY <1>1, <1>12, Ranks
  <2>2. cast'[q] = <<stop>> /\ cast'[q] # <<>> /\ cast'[q][1] = stop
    <3>1. cast'[q] = Append(cast[q], stop)
      BY <1>2
    <3>2. QED
      BY <1>9, <3>1, OneAnswer
  <2>3. Reached' = b
    BY <1>11, <1>12 DEF Reached, Closing
  <2>4. Seen(q)' = Beyond(at[q], stop, mesh.energy)
    BY <1>3, <2>1, <2>2 DEF Seen, Beyond, Loop, Enter
  <2>5. ~At(q, "send") /\ ~At(q, "barrier") /\ ~At(q, "send")' /\ ~At(q, "barrier")'
    BY <1>9, <2>1, AtSlave
  <2>6. up[q] = <<>> /\ down[q] = <<>>
    BY <1>4, <1>6, <2>1, <2>5, NothingGiven DEF SlaveInv, UpInv
  <2>7. CastInv(q)'
    <3>1. stop = TRUE \/ stop = FALSE
      OBVIOUS
    <3>2. cast'[q] = <<TRUE>> \/ cast'[q] = <<FALSE>>
      BY <2>2, <3>1
    <3>3. QED
      BY <1>9, <2>1, <3>2 DEF CastInv
  <2>8. LockInv(q)'
    BY <1>10, <1>16, <2>3, <2>4 DEF LockInv, SameRound
  <2>9. AbortInv(q)'
    BY <1>11, <1>12 DEF AbortInv
  <2>10. UpInv(q)' /\ DownInv(q)'
    BY <1>3, <2>6 DEF UpInv, DownInv
  <2>11. SendInv(q)' /\ ReceiveInv(q)'
    BY <2>5 DEF SendInv, ReceiveInv
  <2>12. MapInv(q)'
    <3>1. Shares(q)' = Shares(q)
      BY <1>3, SameMesh
    <3>2. cmap[q] # <<>> <=> Shares(q)
      BY <1>4, <1>6, <2>1 DEF SlaveInv, MapInv
    <3>3. QED
      BY <1>3, <3>1, <3>2 DEF MapInv
  <2>13. QED
    BY <2>7, <2>8, <2>9, <2>10, <2>11, <2>12 DEF SlaveInv
<1>17. QED
  BY <1>12, <1>13, <1>15, <1>16 DEF FInv
-------------------------------------------------------------------------------
(* The barrier *)

\* Where the master has got.
LEMMA ReachedNext ==
  ASSUME mesh' = mesh, NEW b, at'[0] = b
  PROVE  Reached' = IF Closing(b) THEN Beyond(b, FALSE, mesh.energy) ELSE b
BY DEF Reached, Closing, Beyond, Loop, Enter

\* From the barrier of a round all processes come to the next round, or the next part.
LEMMA PassKeeps ==
  ASSUME FInv, Pass
  PROVE  FInv'
<1> DEFINE a == at[0]
           b == After(0, FALSE)
           k == MasterRound[a.part][a.i]
<1>1. ControlType /\ WireType /\ GotInv /\ \A q \in Slave : SlaveInv(q)
  BY DEF FInv
<1>2. /\ \A p \in Proc : At(p, "barrier")
      /\ at' = [p \in Proc |-> After(p, FALSE)]
      /\ mesh' = mesh /\ up' = up /\ down' = down /\ buf' = buf /\ cast' = cast /\ got' = got /\ cmap' = cmap
  BY DEF Pass, wires, lists
<1>3. a.part \in Parts /\ Leads(a).do = "barrier"
  BY <1>2, AtMaster, Ranks
<1>4. /\ a \in Spot /\ a.i \in 1..Len(MasterCode[a.part]) /\ a.solve <= MaxSolves /\ mesh.energy \in BOOLEAN
      /\ MasterRule(a.part, a.i) /\ MasterOrder(a.part, a.i) /\ MasterBarrier(a.part, a.i)
  BY <1>1, <1>3, MasterPlace
<1>5. /\ ~Closing(a) /\ a.i \notin Open[a.part] /\ ~(a.part = "setup" /\ a.i = 4)
  BY <1>3, <1>4 DEF MasterRule, MasterOrder, Closing, Leads
<1>6. /\ a.i < Len(MasterCode[a.part]) =>
           /\ MasterRound[a.part][a.i + 1] = k + 1
           /\ Way[a.part][k + 1] = "up" => a.i + 1 \in Open[a.part]
           /\ <<a.part, k>> \in Finals <=> ((a.part = "setup" /\ a.i + 1 = 24) \/ (a.part = "energy" /\ a.i + 1 = 6))
      /\ a.i = Len(MasterCode[a.part]) <=> (a.part = "finish" /\ k = 3)
  BY <1>3, <1>4 DEF MasterBarrier, Leads
\* The slaves are in the same barrier.
<1>7. ASSUME NEW q \in Slave
      PROVE  /\ at[q].part \in Parts /\ Does(at[q]).do = "barrier" /\ at[q] \in Spot
             /\ Seen(q) = at[q] /\ cast[q] = <<>> /\ up[q] = <<>> /\ down[q] = <<>>
             /\ at[q].part = a.part /\ at[q].solve = a.solve /\ at[q].iter = a.iter
             /\ SlaveRound[at[q].part][at[q].i] = k
             /\ at[q].i \in 1..Len(SlaveCode[at[q].part]) /\ SlaveRule(at[q].part, at[q].i)
  <2>1. SlaveInv(q)
    BY <1>1
  <2>2. at[q].part \in Parts /\ Does(at[q]).do = "barrier" /\ at[q] \in Spot
    <3>1. At(q, "barrier")
      BY <1>2, Ranks
    <3>2. at[q].part \in Parts /\ Does(at[q]).do = "barrier"
      BY <3>1, AtSlave
    <3>3. at[q] \in Spot
      BY <1>1, SpotTypes
    <3>4. QED
      BY <3>2, <3>3
  <2>3. at[q].i \in 1..Len(SlaveCode[at[q].part]) /\ SlaveRule(at[q].part, at[q].i)
    BY <1>1, <2>2, SpotTypes, SlaveRules DEF SlaveSpot
  <2>4. Seen(q) = at[q] /\ cast[q] = <<>>
    BY <2>1, <2>2, <2>3 DEF SlaveInv, CastInv, SlaveRule, Does, Seen
  <2>5. at[q].part = a.part /\ at[q].solve = a.solve /\ at[q].iter = a.iter
        /\ SlaveRound[at[q].part][at[q].i] = k
    BY <1>1, <1>3, <1>5, <2>1, <2>4, Meeting
  <2>6. up[q] = <<>>
    BY <1>3, <1>5, <2>1 DEF SlaveInv, UpInv
  <2>7. down[q] = <<>>
    BY <2>1, <2>2, <2>4 DEF SlaveInv, DownInv
  <2>8. QED
    BY <2>2, <2>3, <2>4, <2>5, <2>6, <2>7
<1>8. got = <<>>
  <2>1. ~At(0, "take") /\ a.part # "aborted"
    BY <1>3, AtMaster DEF Parts
  <2>2. QED
    BY <1>1, <2>1 DEF GotInv
<1> DEFINE end == a.part = "finish" /\ k = 3
           last == <<a.part, k>> \in Finals
<1>9. at'[0] = b /\ \A q \in Slave : at'[q] = After(q, FALSE)
  BY <1>2, Ranks
\* Where the master gets.
<1>10. IF end THEN b = Beyond(a, FALSE, mesh.energy) ELSE b = [a EXCEPT !.i = @ + 1]
  <2>1. a.i < Len(MasterCode[a.part]) <=> ~(a.i = Len(MasterCode[a.part]))
    BY <1>3, <1>4, Firsts
  <2>2. QED
    BY <1>3, <1>6, <2>1, AfterMaster
\* Where a slave gets.
<1>11. ASSUME NEW q \in Slave
       PROVE  /\ last => After(q, FALSE) = Beyond(at[q], FALSE, mesh.energy)
              /\ ~last => /\ After(q, FALSE) = [at[q] EXCEPT !.i = @ + 1]
                          /\ at[q].i < Len(SlaveCode[at[q].part])
                          /\ SlaveRound[at[q].part][at[q].i + 1] = k + 1
  <2>1. at[q].i < Len(SlaveCode[at[q].part]) <=> ~(at[q].i = Len(SlaveCode[at[q].part]))
    BY <1>7, Firsts
  <2>2. (at[q].i = Len(SlaveCode[at[q].part]) <=> last)
        /\ (at[q].i < Len(SlaveCode[at[q].part]) => SlaveRound[at[q].part][at[q].i + 1] = k + 1)
    <3>1. LET j == SlaveRound[at[q].part][at[q].i]
          IN /\ at[q].i = Len(SlaveCode[at[q].part]) <=> <<at[q].part, j>> \in Finals
             /\ at[q].i < Len(SlaveCode[at[q].part]) => SlaveRound[at[q].part][at[q].i + 1] = j + 1
      BY <1>7 DEF SlaveRule, Does
    <3>2. SlaveRound[at[q].part][at[q].i] = k /\ at[q].part = a.part
      BY <1>7
    <3> HIDE DEF k
    <3>3. QED
      BY <3>1, <3>2
  <2>3. QED
    BY <1>7, <2>1, <2>2, AfterSlave
<1>12. end => last
  BY DEF Finals
<1> HIDE DEF b, last, end
<1>13. /\ b \in Spot /\ InSolve(b) /\ MasterSpot(b) /\ b.part # "aborted"
       /\ ~end => b.part = a.part /\ b.i = a.i + 1 /\ b.solve = a.solve /\ b.iter = a.iter
       /\ end => b.i = 1 /\ b.part \in {"setup", "done"}
  <2>1. CASE end
    <3>1. a.part = "finish"
      BY <2>1 DEF end
    <3>2. PICK stop \in BOOLEAN : stop = FALSE
      OBVIOUS
    <3>3. b = Beyond(a, stop, mesh.energy)
      BY <1>10, <2>1, <3>2
    <3>4. b \in Spot /\ b.i = 1 /\ InSolve(b) /\ b.part # "aborted" /\ b.part \in {"setup", "done"}
      BY <1>3, <1>4, <3>1, <3>3, BeyondParts
    <3>5. MasterSpot(b)
      BY <3>4, Firsts DEF MasterSpot
    <3>6. QED
      BY <2>1, <3>4, <3>5
  <2>2. CASE ~end
    <3>1. b \in Spot /\ b.part = a.part /\ b.i = a.i + 1 /\ b.iter = a.iter /\ b.solve = a.solve
      BY <1>4, <1>10, <2>2, Onward
    <3>2. a.i \in Nat /\ a.i >= 1 /\ Len(MasterCode[a.part]) \in Nat
      BY <1>3, <1>4, Firsts
    <3>3. a.i < Len(MasterCode[a.part])
      BY <1>4, <1>6, <2>2, <3>2 DEF end
    <3>4. a.i + 1 \in 1..Len(MasterCode[a.part])
      BY <3>2, <3>3, Within
    <3>5. MasterSpot(b) /\ InSolve(b) /\ b.part # "aborted"
      BY <1>3, <1>4, <3>1, <3>4 DEF MasterSpot, InSolve, Parts
    <3>6. QED
      BY <2>2, <3>1, <3>5
  <2>3. QED
    BY <2>1, <2>2
<1>14. ASSUME NEW q \in Slave
       PROVE  LET c == After(q, FALSE)
              IN /\ c \in Spot /\ InSolve(c) /\ SlaveSpot(c)
                 /\ ~last => /\ c.part = a.part /\ c.i = at[q].i + 1 /\ c.solve = a.solve /\ c.iter = a.iter
                             /\ SlaveRound[c.part][c.i] = k + 1
                             /\ Did(c).do = "barrier"
                 /\ last => c.i = 1 /\ (c.part \in {"step", "finish"} \/ end)
  <2> DEFINE c == After(q, FALSE)
  <2>1. at[q] \in Spot /\ at[q].part \in Parts /\ at[q].solve <= MaxSolves /\ at[q].part = a.part
    BY <1>4, <1>7
  <2>2. CASE last
    <3>1. PICK stop \in BOOLEAN : stop = FALSE
      OBVIOUS
    <3>2. c = Beyond(at[q], stop, mesh.energy)
      BY <1>11, <2>2, <3>1
    <3> HIDE DEF c
    <3>3. /\ c \in Spot /\ InSolve(c) /\ c.i = 1 /\ c.part # "aborted"
          /\ a.part \in {"setup", "energy"} => c.part \in {"step", "finish"}
      BY <1>4, <2>1, <3>2, BeyondParts
    <3>4. SlaveSpot(c)
      BY <3>3, Firsts DEF SlaveSpot
    <3>5. a.part \in {"setup", "energy"} \/ end
      BY <2>2 DEF last, end, Finals
    <3>6. QED
      BY <2>2, <3>3, <3>4, <3>5 DEF c
  <2>3. CASE ~last
    <3>1. c = [at[q] EXCEPT !.i = @ + 1] /\ at[q].i < Len(SlaveCode[a.part])
          /\ SlaveRound[a.part][at[q].i + 1] = k + 1
      BY <1>11, <2>1, <2>3
    <3> HIDE DEF c
    <3>2. c \in Spot /\ c.part = a.part /\ c.i = at[q].i + 1 /\ c.iter = a.iter /\ c.solve = a.solve
      BY <1>7, <2>1, <3>1, Onward
    <3>3. at[q].i \in Nat /\ at[q].i >= 1 /\ Len(SlaveCode[a.part]) \in Nat
      BY <1>7, <2>1, Firsts
    <3>4. at[q].i + 1 \in 1..Len(SlaveCode[a.part]) /\ (at[q].i + 1) - 1 = at[q].i
      BY <3>1, <3>3, Within
    <3>5. SlaveSpot(c) /\ InSolve(c)
      BY <1>4, <2>1, <3>2, <3>4 DEF SlaveSpot, InSolve, Parts
    <3>6. Did(c).do = "barrier"
      BY <1>7, <2>1, <3>2, <3>4 DEF Did, Does
    <3>7. QED
      BY <2>3, <3>1, <3>2, <3>5, <3>6 DEF c
  <2>4. QED
    BY <2>2, <2>3
<1>15. ControlType'
  <2>1. \A p \in Proc : at'[p] \in Spot /\ InSolve(at'[p])
    <3>1. TAKE p \in Proc
    <3>2. p = 0 \/ p \in Slave
      BY DEF Slave
    <3>3. QED
      BY <1>9, <1>13, <1>14, <3>2
  <2>2. at' \in [Proc -> Spot]
    BY <1>2, <2>1
  <2>3. MasterSpot(at'[0]) /\ \A q \in Slave : SlaveSpot(at'[q])
    BY <1>9, <1>13, <1>14
  <2>4. QED
    BY <1>1, <1>2, <2>1, <2>2, <2>3 DEF ControlType, InSolve, MasterSpot, SlaveSpot
<1>16. WireType'
  BY <1>1, <1>2 DEF WireType
<1>17. GotInv' /\ TogetherInv'
  <2>1. got' = <<>> /\ at'[0].part # "aborted"
    BY <1>2, <1>8, <1>9, <1>13
  <2>2. GotInv'
    BY <2>1 DEF GotInv, Range
  <2>3. TogetherInv'
    BY <2>1 DEF TogetherInv
  <2>4. QED
    BY <2>2, <2>3
\* The master may be at its own values, still, in the part before.
<1>18. ASSUME NEW q \in Slave
       PROVE  SameRound(IF Closing(b) THEN Beyond(b, FALSE, mesh.energy) ELSE b, After(q, FALSE))
  <2> DEFINE c == After(q, FALSE)
  <2>0. PICK stop \in BOOLEAN : stop = FALSE
    OBVIOUS
  <2>1. CASE ~last
    <3>1. ~end /\ a.i < Len(MasterCode[a.part])
      BY <1>3, <1>4, <1>6, <1>12, <2>1, Firsts DEF end
    <3>2. ~Closing(b) /\ MasterRound[b.part][b.i] = k + 1
      BY <1>6, <1>13, <2>1, <3>1 DEF Closing, last
    <3>3. QED
      BY <1>13, <1>14, <2>1, <3>1, <3>2 DEF SameRound
  <2>2. CASE last /\ ~end
    <3>1. a.i < Len(MasterCode[a.part])
      BY <1>3, <1>4, <1>6, <2>2, Firsts DEF end
    <3>2. Closing(b)
      BY <1>6, <1>13, <2>2, <3>1 DEF Closing, last
    <3>3. b \in Spot /\ b.part = a.part /\ b.solve = a.solve /\ b.iter = a.iter
      BY <1>13, <2>2
    <3>4. SameRound(Beyond(b, stop, mesh.energy), Beyond(at[q], stop, mesh.energy))
      BY <1>3, <1>4, <1>7, <3>3, BeyondTogether
    <3>5. QED
      BY <1>11, <2>0, <2>2, <3>2, <3>4
  <2>3. CASE end
    <3>1. ~Closing(b)
      BY <1>13, <2>3 DEF Closing
    <3>2. SameRound(Beyond(a, stop, mesh.energy), Beyond(at[q], stop, mesh.energy))
      BY <1>3, <1>4, <1>7, BeyondTogether
    <3>3. QED
      BY <1>10, <1>11, <1>12, <2>0, <2>3, <3>1, <3>2
  <2>4. QED
    BY <2>1, <2>2, <2>3
<1>19. ASSUME NEW q \in Slave PROVE SlaveInv(q)'
  <2> DEFINE c == After(q, FALSE)
  <2>1. at'[q] = c /\ cast'[q] = <<>> /\ up'[q] = <<>> /\ down'[q] = <<>>
    BY <1>2, <1>7, <1>9
  <2>2. CastInv(q)' /\ UpInv(q)' /\ DownInv(q)'
    BY <2>1 DEF CastInv, UpInv, DownInv
  <2>3. LockInv(q)'
    <3>1. Seen(q)' = c
      BY <2>1 DEF Seen
    <3>2. Reached' = IF Closing(b) THEN Beyond(b, FALSE, mesh.energy) ELSE b
      BY <1>2, <1>9, ReachedNext
    <3>3. QED
      BY <1>18, <3>1, <3>2 DEF LockInv, SameRound
  <2>4. AbortInv(q)'
    BY <1>9, <1>13 DEF AbortInv
  <2>5. SendInv(q)'
    <3>0. At(q, "send")' <=> c.part \in Parts /\ Does(c).do = "send"
      <4>1. At(q, "send")' <=> at'[q].part \in Parts /\ Does(at'[q]).do = "send"
        BY AtSlave
      <4> HIDE DEF c
      <4>2. QED
        BY <2>1, <4>1
    <3> HIDE DEF c
    <3>1. SUFFICES ASSUME c.part \in Parts, Does(c).do = "send" PROVE b.part \in Parts => b.i \in Open[b.part]
      BY <1>9, <3>0 DEF SendInv
    <3>2. CASE ~last
      <4>1. ~end /\ a.i < Len(MasterCode[a.part])
        BY <1>3, <1>4, <1>6, <1>12, <3>2, Firsts DEF end
      <4>2. Way[a.part][k + 1] = "up"
        <5>1. c.part = a.part /\ SlaveRound[c.part][c.i] = k + 1 /\ SlaveSpot(c)
          BY <1>14, <3>2 DEF c
        <5>2. SlaveRule(c.part, c.i)
          BY <3>1, <5>1, SlaveRules DEF SlaveSpot
        <5>3. QED
          BY <3>1, <5>1, <5>2 DEF SlaveRule, Does
      <4>3. QED
        BY <1>6, <1>13, <4>1, <4>2
    <3>3. CASE last
      <4>1. c.i = 1 /\ (c.part \in {"step", "finish"} \/ end)
        BY <1>14, <3>3 DEF c
      <4>2. c.part \notin {"step", "finish"}
        BY <3>1, <4>1, Firsts DEF Does
      <4>3. b.i = 1 /\ b.part \in {"setup", "done"}
        BY <1>13, <4>1, <4>2
      <4>4. 1 \in Open["setup"] /\ "done" \notin Parts
        BY Firsts DEF Parts
      <4>5. QED
        BY <4>3, <4>4
    <3>4. QED
      BY <3>2, <3>3
  <2>6. ReceiveInv(q)'
    <3>1. (last => c.i = 1) /\ (~last => Did(c).do = "barrier")
      BY <1>14
    <3>2. Did(at[q])' = Did(c)
      BY <2>1 DEF Did
    <3> HIDE DEF c
    <3>3. QED
      BY <2>1, <3>1, <3>2 DEF ReceiveInv
  <2>7. MapInv(q)'
    <3>1. Shares(q)' = Shares(q)
      BY <1>2, SameMesh
    <3>2. CASE end
      <4>1. at'[0] = b /\ b.i = 1 /\ b.part \in {"setup", "done"} /\ got' = <<>>
        BY <1>2, <1>8, <1>9, <1>13, <3>2
      <4>2. "done" \notin Parts
        BY DEF Parts
      <4>3. ~(at'[0].i > 4) /\ ~(at'[0].i = 4) /\ (at'[0].part \in Parts => at'[0].part = "setup")
        BY <4>1, <4>2
      <4>4. QED
        BY <4>3 DEF MapInv
    <3>3. CASE ~end
      <4>0. at'[0].part = a.part /\ at'[0].i = a.i + 1 /\ got' = <<>> /\ cmap' = cmap
        BY <1>2, <1>8, <1>9, <1>13, <3>3
      <4>r. q \notin Range(got)
        BY <1>8 DEF Range
      <4>1. SUFFICES ASSUME a.part = "setup" => a.i + 1 > 4 PROVE cmap[q] # <<>> <=> Shares(q)
        <5>1. Range(got') = Range(got)
          BY <1>8, <4>0
        <5>2. QED
          BY <3>1, <4>0, <4>r, <5>1 DEF MapInv
      <4>2. a.part = "setup" => a.i > 4
        BY <1>4, <1>5, <4>1 DEF Spot
      <4>3. QED
        BY <1>1, <1>3, <1>19, <4>2 DEF SlaveInv, MapInv
    <3>4. QED
      BY <3>2, <3>3
  <2>8. QED
    BY <2>2, <2>3, <2>4, <2>5, <2>6, <2>7 DEF SlaveInv
<1>20. QED
  BY <1>15, <1>16, <1>17, <1>19 DEF FInv
-------------------------------------------------------------------------------
(* The invariant *)

\* Nothing has been sent when the solver is called.
LEMMA InitInv == Init => FInv
<1> SUFFICES ASSUME Init PROVE FInv
  OBVIOUS
<1> DEFINE a == [part |-> IF MaxSolves = 0 THEN "done" ELSE "setup", i |-> 1, iter |-> 0, solve |-> 1]
<1>1. mesh \in Meshes /\ at = [p \in Proc |-> a] /\ got = <<>>
  BY DEF Init
<1>2. a \in Spot /\ InSolve(a) /\ a.part # "aborted" /\ a.i = 1 /\ (a.part \in Parts => a.part = "setup")
  BY BoundAssumption DEF Spot, InSolve, Parts
<1> HIDE DEF a
<1>3. \A p \in Proc : at[p] = a
  BY <1>1
<1>4. MasterSpot(a) /\ SlaveSpot(a) /\ ~Closing(a)
  BY <1>2, Firsts DEF MasterSpot, SlaveSpot, Closing
<1>5. ControlType
  BY <1>1, <1>2, <1>3, <1>4, Ranks DEF ControlType
<1>6. WireType
  <2>1. /\ up = [q \in Slave |-> <<>>] /\ down = [q \in Slave |-> <<>>] /\ cast = [q \in Slave |-> <<>>]
        /\ buf = [q \in Slave |-> [b \in {"maps", "comm", "out", "in"} |-> NoContent]]
        /\ cmap = [q \in Proc |-> <<>>]
    BY DEF Init
  <2>2. got \in Seq(Slave)
    BY <1>1
  <2>3. QED
    BY <2>1, <2>2 DEF WireType
<1>7. GotInv
  BY <1>1 DEF GotInv, Range
<1>8. TogetherInv
  BY <1>2, <1>3, Ranks DEF TogetherInv
<1>9. ASSUME NEW q \in Slave PROVE SlaveInv(q)
  <2>1. up[q] = <<>> /\ down[q] = <<>> /\ cast[q] = <<>>
    BY DEF Init
  <2>2. at[q] = a /\ at[0] = a
    BY <1>3, Ranks
  <2>3. CastInv(q) /\ UpInv(q) /\ DownInv(q) /\ AbortInv(q)
    BY <1>2, <2>1, <2>2 DEF CastInv, UpInv, DownInv, AbortInv
  <2>4. LockInv(q)
    <3>1. Reached = a /\ Seen(q) = a
      BY <1>4, <2>1, <2>2 DEF Reached, Seen
    <3>2. SameRound(a, a)
      BY <1>2, Firsts DEF SameRound
    <3>3. QED
      BY <3>1, <3>2 DEF LockInv
  <2>5. SendInv(q)
    BY <1>2, <2>2, Firsts DEF SendInv
  <2>6. ReceiveInv(q)
    BY <1>2, <2>2 DEF ReceiveInv
  <2>7. MapInv(q)
    <3>1. ~(at[0].i > 4) /\ ~(at[0].i = 4) /\ (at[0].part \in Parts => at[0].part = "setup")
      BY <1>2, <2>2
    <3>2. QED
      BY <3>1 DEF MapInv
  <2>8. QED
    BY <2>3, <2>4, <2>5, <2>6, <2>7 DEF SlaveInv
<1>10. QED
  BY <1>5, <1>6, <1>7, <1>8, <1>9 DEF FInv

\* Every operation keeps the invariant.
LEMMA NextInv == FInv /\ [Next]_vars => FInv'
<1> SUFFICES ASSUME FInv, [Next]_vars PROVE FInv'
  OBVIOUS
<1>1. CASE Next
  <2>1. ASSUME NEW q \in Slave, Send(q) PROVE FInv'
    BY <2>1, SendKeeps
  <2>2. ASSUME NEW q \in Slave, Receive(q) PROVE FInv'
    BY <2>2, ReceiveKeeps
  <2>3. ASSUME NEW q \in Slave, Hear(q) PROVE FInv'
    BY <2>3, HearKeeps
  <2>4. ASSUME NEW q \in Slave, Take(q) PROVE FInv'
    BY <2>4, TakeKeeps
  <2>5. CASE AllTaken
    BY <2>5, AllTakenKeeps
  <2>6. CASE Own
    BY <2>6, OwnKeeps
  <2>7. CASE Clear
    BY <2>7, ClearKeeps
  <2>8. CASE Number
    BY <2>8, NumberKeeps
  <2>9. CASE Give
    BY <2>9, GiveKeeps
  <2>10. CASE Broadcast
    BY <2>10, BroadcastKeeps
  <2>11. CASE Pass
    BY <2>11, PassKeeps
  <2>12. QED
    BY <1>1, <2>1, <2>2, <2>3, <2>4, <2>5, <2>6, <2>7, <2>8, <2>9, <2>10, <2>11 DEF Next
<1>2. CASE UNCHANGED vars
  <2>1. /\ mesh' = mesh /\ at' = at /\ up' = up /\ down' = down /\ buf' = buf /\ cast' = cast
        /\ got' = got /\ cmap' = cmap
    BY <1>2 DEF vars, wires, lists
  <2>2. ControlType' /\ WireType' /\ TogetherInv'
    BY <2>1 DEF FInv, ControlType, WireType, TogetherInv, Stamp, InSolve, MasterSpot, SlaveSpot
  <2>3. GotInv'
    BY <2>1 DEF FInv, GotInv, At, Running, Code, Range
  <2>4. ASSUME NEW q \in Slave PROVE SlaveInv(q)'
    BY <2>1, Untouched DEF FInv
  <2>5. QED
    BY <2>2, <2>3, <2>4 DEF FInv
<1>3. QED
  BY <1>1, <1>2

\* The exchanges stay in step: the inductive invariant of solve.
THEOREM ExchangesInStep == Spec => []FInv
<1>1. Init => FInv
  BY InitInv
<1>2. FInv /\ [Next]_vars => FInv'
  BY NextInv
<1>3. QED
  BY <1>1, <1>2, PTL DEF Spec
-------------------------------------------------------------------------------
(* What follows *)

\* Slaves that wait in a barrier are in the same exchange.
LEMMA SlavesMatch ==
  ASSUME FInv, NEW p \in Slave, NEW q \in Slave, At(p, "barrier"), At(q, "barrier")
  PROVE  /\ at[p].part = at[q].part /\ Stamp(p) = Stamp(q)
         /\ SlaveRound[at[p].part][at[p].i] = SlaveRound[at[q].part][at[q].i]
<1>1. CASE at[0].part = "aborted"
  BY <1>1 DEF FInv, TogetherInv
<1>2. CASE at[0].part # "aborted"
  <2>1. ASSUME NEW r \in Slave, At(r, "barrier") PROVE SameRound(Reached, at[r]) /\ at[r].part \in Parts
    <3>1. SlaveInv(r) /\ ControlType
      BY DEF FInv
    <3>2. at[r].part \in Parts /\ Does(at[r]).do = "barrier"
      BY <2>1, AtSlave
    <3>3. SlaveRule(at[r].part, at[r].i)
      BY <3>1, <3>2, SpotTypes, SlaveRules DEF SlaveSpot
    <3>4. cast[r] = <<>>
      BY <3>1, <3>2, <3>3 DEF SlaveInv, CastInv, SlaveRule, Does
    <3>5. QED
      BY <1>2, <3>1, <3>2, <3>4 DEF SlaveInv, LockInv, Seen
  <2>2. QED
    BY <2>1 DEF SameRound, Stamp
<1>3. QED
  BY <1>1, <1>2

\* The exchange of a barrier, at a slave and at the master.
LEMMA SlaveBarrier ==
  ASSUME ControlType, NEW q \in Slave, At(q, "barrier")
  PROVE  at[q].part \in Parts /\ What(q) = Subject[at[q].part][SlaveRound[at[q].part][at[q].i]]
<1>1. at[q].part \in Parts /\ Does(at[q]).do = "barrier" /\ What(q) = Does(at[q]).what
  BY AtSlave
<1>2. SlaveRule(at[q].part, at[q].i)
  BY <1>1, SpotTypes, SlaveRules DEF SlaveSpot
<1>3. QED
  BY <1>1, <1>2 DEF SlaveRule, Does

LEMMA MasterMatches ==
  ASSUME FInv, NEW q \in Slave, At(0, "barrier"), At(q, "barrier")
  PROVE  at[0].part = at[q].part /\ What(0) = What(q) /\ Stamp(0) = Stamp(q)
<1>1. ControlType /\ SlaveInv(q)
  BY DEF FInv
<1>2. at[0].part \in Parts /\ Leads(at[0]).do = "barrier" /\ What(0) = Leads(at[0]).what
  BY AtMaster
<1>3. MasterRule(at[0].part, at[0].i) /\ MasterOrder(at[0].part, at[0].i)
  BY <1>1, <1>2, MasterPlace
<1>4. What(0) = Topic /\ ~Closing(at[0])
  BY <1>2, <1>3 DEF MasterRule, MasterOrder, Closing, Topic, Leads
<1>5. at[q].part \in Parts /\ Does(at[q]).do = "barrier"
  BY AtSlave
<1>6. SlaveRule(at[q].part, at[q].i)
  BY <1>1, <1>5, SpotTypes, SlaveRules DEF SlaveSpot
<1>7. Seen(q) = at[q]
  BY <1>1, <1>5, <1>6 DEF SlaveInv, CastInv, SlaveRule, Does, Seen
<1>8. QED
  BY <1>1, <1>2, <1>4, <1>5, <1>7, Meeting, AtSlave DEF Stamp

\* The properties follow from the invariant.
LEMMA InvMatch == FInv => BarriersMatch
<1> SUFFICES ASSUME FInv, NEW p \in Proc, NEW q \in Proc, At(p, "barrier"), At(q, "barrier")
             PROVE  at[p].part = at[q].part /\ What(p) = What(q) /\ Stamp(p) = Stamp(q)
  BY DEF BarriersMatch
<1>1. CASE p \in Slave /\ q \in Slave
  <2>1. ControlType
    BY DEF FInv
  <2>2. QED
    BY <1>1, <2>1, SlavesMatch, SlaveBarrier
<1>2. CASE p = 0 /\ q \in Slave
  BY <1>2, MasterMatches
<1>3. CASE p \in Slave /\ q = 0
  BY <1>3, MasterMatches
<1>4. CASE p = 0 /\ q = 0
  BY <1>4
<1>5. QED
  BY <1>1, <1>2, <1>3, <1>4 DEF Slave

LEMMA InvMeant == FInv => MessagesMeant
<1> SUFFICES ASSUME FInv, NEW q \in Slave
             PROVE  /\ MasterTakes(q) => ForMaster(q).what = What(0) /\ ForMaster(q).stamp = Stamp(0)
                    /\ SlaveTakes(q) => buf[q]["in"].what = What(q) /\ buf[q]["in"].stamp = Stamp(q)
  BY DEF MessagesMeant
<1>1. MasterTakes(q) => ForMaster(q).what = What(0) /\ ForMaster(q).stamp = Stamp(0)
  BY MasterReads DEF MasterTakes
<1>2. SlaveTakes(q) => buf[q]["in"].what = What(q) /\ buf[q]["in"].stamp = Stamp(q)
  BY SlaveReads DEF SlaveTakes
<1>3. QED
  BY <1>1, <1>2

\* Processes that wait in a barrier wait in the barrier of the same exchange: the calls of
\* MPI_Barrier of the two branches of FETISolver::solve fit together in every problem.
THEOREM BarriersAgree == Spec => []BarriersMatch
<1>1. Spec => []FInv
  BY ExchangesInStep
<1>2. FInv => BarriersMatch
  BY InvMatch
<1>3. QED
  BY <1>1, <1>2, PTL

\* What the master or a slave receives is what it reads it as, of this solve and iteration,
\* although tags and buffers are used again and some messages come from any source.
THEOREM MessagesAreMeant == Spec => []MessagesMeant
<1>1. Spec => []FInv
  BY ExchangesInStep
<1>2. FInv => MessagesMeant
  BY InvMeant
<1>3. QED
  BY <1>1, <1>2, PTL
===============================================================================
