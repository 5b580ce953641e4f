# Verification models of OOFEM's parallel and incremental core

TLA+ models of the parts of OOFEM in which several processes, or several steps of
one process, have to fit together: the collective exchange of messages, the
numbering of equations of a partitioned mesh, the migration of elements between
partitions, the Newton-Raphson and arc-length solvers, the domain decomposition
solver, and the metasteps, contexts and restarts of a nonlinear analysis. TLC checks
the models on small instances; TLAPS proves many of the properties for every
instance. Paths below are relative to `src/src/oofemlib/` unless they start with
`src/`.

## The system

OOFEM is a finite element code. A run is one `EngngModel` that owns domains
(meshes), a numerical method and time steps; in a partitioned run every MPI process
executes the same program on its part of the mesh (partitioned by node cut: dof
managers on the interface exist on several processes as *shared*). The processes
share no memory. They interact by messages between pairs (through `Communicator`)
and by collective operations (reductions, gathers, barriers, the parallel linear
solver), and every process has to reach the same operations in the same order. In
time, a run goes through metasteps and steps; the state a step leaves is what the
next one, or a restarted program, starts from.

| component | state it keeps | operations | interacts with | hard behaviour | correct if | models |
|---|---|---|---|---|---|---|
| dynamic buffers and exchange (`dyncombuff.*`, `processcomm.*`, `communicator.*`) | packet pool, packet lists, requests, completion flags | pack, iSend, iRecv, receiveCompleted, unpack, barrier, waitCompletion, clear | MPI; called by load balancing, subdivision, nonlocal transfer, recovery models | reuse of packets, sends not copied, packets of two rounds on one tag, busy waits | messages arrive whole, from the right round; packets are not reused in flight; nobody waits for ever | `PacketExchange`, `BulkExchange` |
| equation ordering (`parallelordering.*`, `parallelcontext.*`) | local-to-global and local numbers | init (gather, number, send, receive, barrier), init of the local map, norms | static buffers, meshes of all processes, linear solvers | messages in any order, empty partitions, buffers freed early | shared dofs agree, numbers unique and dense, every equation counted once | `GlobalOrdering` |
| Newton-Raphson (`nrsolver.C`, `linesearch.C`) | solution, increment, loads, iteration counter, verdict | solve, checkConvergence, line search | `EngngModel::updateComponent`, parallel context, linear solver | each process decides alone between collective calls; line search; divergence | same verdict everywhere, matching collective calls, consistent state at the end | `NRSolver` |
| load balancer (`loadbalancer.C`, `parmetisloadbalancer.C`, `domain.C`) | target partition of each entity, transaction of the domain | label, migrateLoad: pack, delete, unpack, commit | dynamic exchange, communication maps, nonlocal transfer | entities created, deleted and changed on several processes in one pass, local numbers changing under them | no element lost or doubled, everything an element needs is there, partition lists exact | `LoadBalancing` |
| communication maps (`problemcomm.C`) | send and receive maps | setUpCommunicationMaps | static exchange, migration | two sides build their maps alone, again after each migration | same entities in the same order | `LoadBalancing` |
| nonlocal transfer (`nonlocalmatwtp.C`) | dependencies, requested remote elements | init, migrate, fetch remote elements, commit | dynamic exchange, migration | requests and answers cross a migration | every needed remote element is mirrored, nothing else | `LoadBalancing` |
| steps (`engngm.C`, `metastep.C`, `timestep.C`) | current step, metastep, contexts | solveYourself, giveNextStep, saveContext, restoreContext | everything | the program ends in any step and is started from a context | a restart continues as if uninterrupted | `SolutionSteps` |
| nonlinear static analysis (`src/src/sm/EngineeringModels/nlinearstatic.C`) | reference and fixed load, load levels, whether the reference is to be assembled | proceedStep, updateLoadVectors, saveContext | N-R and arc-length solver | load moved between vectors at the ends of metasteps, donotfixload, keepll | no load lost or applied twice | `SolutionSteps` |
| arc-length method (`calmls.C`) | step length, mode of N-R, its previous mode and a countdown | solve, checkConvergence, do_lineSearch | engineering model, metasteps | a step is restarted after partial progress | every attempt starts from the last equilibrium; modes come back | `ArcLength` |
| FETI (`src/src/sm/FETISolver/`) | boundary records, code numbers, matrix of modes, gradient | solve as master or slave | messages, barriers, broadcast | two code paths with hand-matched messages, tags that occur twice, messages of any source, values without labels | the branches fit; multipliers and modes meet the right dofs | `FETISolver` |
| static buffers (`combuff.*`) | one byte buffer and request | pack, send, receive, test | MPI, equation ordering, FETI | a send reads the buffer until complete | buffer is left alone until then | as far as `GlobalOrdering` and `FETISolver` use them |
| load monitor (`wallclockloadbalancermonitor.C`) | times, weights | decide | gather | all must decide the same | equal decisions | not modelled |
| assembly with threads (`engngm.C`) | global vector, locks | assemble* | elements | contributions of threads | sum independent of the schedule | not modelled |
| subdivision (`subdivision.C`) | edges, queues of shared irregulars | subdivide, exchange, number | dynamic exchange | both sides refine alone, repeated rounds | one node per shared edge, same number | not modelled |
| adaptive analysis, staggered solver | mapped state | rezone, solve by groups | solvers | numerical mapping between meshes | - | not modelled |
| matrices, linear solvers, localizers, elements, materials, input and output | numbers, text | - | - | numerical | outside these models | not modelled |

`PROJECT.json` lists the same components with their status, the hazards at their
lines, and which property covers which hazard.

## The modules

| module | models | map of its state and actions |
|---|---|---|
| `PacketExchange` | dynamic buffers and the exchange | `packet`, `free` are `CommunicationPacketPool`; `sendBuf`, `recvBuf` the packet lists of `DynamicCommunicationBuffer`; `chan` MPI. `PackData`, `WriteMore`, `PackReturn` = `packAllData` with `__write`; `InitExchange` = `initSend`+`initReceive`; `ReceivePacket`, `ReceiveLast` = `receiveCompleted`; `EnterBarrier`, `LeaveBarrier` = end of `unpackAllData`; `FinishExchange` = `waitCompletion`; `Release` = destructor. `Copy`, `Deliver` are MPI |
| `BulkExchange` | what callers rely on: rounds in which everybody posts to and takes from everybody | `Post`, `Take`, `Sync`, `Advance`; `PacketExchange` implements it (`ImplementsBulk`) |
| `GlobalOrdering` | `Natural2GlobalOrdering::init`, `Natural2LocalOrdering::init`, `ParallelContext` | `Count` up to the gather, `Number`, `Send`, `Receive`, `Delete`, `LeaveBarrier`, `InitLocal`; `NormEqs` and `GroupNormEqs` are the equations a process adds up |
| `NRSolver` | `NRSolver::solve`, `checkConvergence`, `LineSearchNM::solve` | one action per collective operation (`LoadNorm`, `AssembleStiffness`, `AssembleForces`, `AccumulateErrors`, `Solve`), one per local step between them (`Finish`, `Continue`, `Equilibrate`, the line search, `Update`) |
| `LoadBalancing` | `EngngModel::balanceLoad`, `LoadBalancer::migrateLoad`, `ParmetisLoadBalancer`, `NonlocalMaterialWTP`, `NodeCommunicator`, `ElementCommunicator` | `dom[p]` is the domain of p: lists of dof managers and elements with labels (global numbers), modes and partition lists; `trans[p]` the `DomainTransactionManager`; `deps` the dependency map; `mail` the messages of the exchange going on. `SetUpMaps` sets the communication maps; `CalculateLoadTransfer` is ParMETIS (any plan) with the labelling of dof managers; `PackSharedPartitions`/`Unpack...` exchange partition lists; `PackDependencies` the nonlocal dependencies; `PackMigrating`, `UnpackMigrating`, `Commit` move the entities; `PackRemoteElements`, `UnpackRemoteElements`, `CommitRemoteElements` mirror remote elements; `FinishExchange` is the barrier of an exchange |
| `ArcLength` | `CylindricalALM::solve` and `initializeFrom` | `mode`, `oldMode`, `tick`, `deltaL` are `calm_NR_Mode`, `calm_NR_OldMode`, `calm_NR_ModeTick`, `deltaL`. `NextMetaStep` reads the attributes of the next metastep, `StartStep` is the predictor and the first iteration, `Continue` a further iteration, `Restart` the restart with a shorter step, `Finish` the end of the step |
| `SolutionSteps` | `EngngModel::solveYourself`, `saveContext`, `restoreContext`, `NonLinearStatic` | `Start` and `Restart(n)` start the program from the beginning or the context of step n, `Crash` ends it anywhere; `NextMetaStep`, `Finish` the outer loop, `giveNextStep`, `proceedStep`, `NotConverged`, `updateLoadVectors` a step; `OpenContext`, `saveContext` write a context, which is torn in between |
| `FETISolver` | `FETISolver::solve`, `FETICommunicator`, `FETIBoundaryDofManager` | the two branches are the lists `SlaveCode`, `MasterCode`, `at[p]` the place of p in its list. `Send`, `Receive`, `Hear` are the operations of a slave, `Take`, `AllTaken`, `Own`, `Clear`, `Number`, `Give`, `Broadcast` those of the master, `Pass` is the barrier. `recs`, `cmap` are `boundaryDofManList` and the communication maps, `l`, `loads`, `g`, `pv` the matrix and vectors of the master, `dd`, `gammas` what a process unpacks |
| `*Proofs` | theorems about the module of that name, with the inductive invariants and lemmas they rest on | |
| `MC*` | instances for TLC | |

Operators called "Mutant of ..." are altered forms of a definition; a property is
only kept if some such alteration makes TLC find it violated.

### What is abstracted

* *Messages.* In `PacketExchange` the content of a packet is the tuple (sender, receiver,
  round, place): enough to tell whether data is lost, mixed or late. Bytes, types and
  packet sizes are left out; a message takes any number of packets up to `MaxPackets`.
  In `LoadBalancing` the exchanges are the rounds of `BulkExchange`: all pack, each takes
  the messages of the others in any order, nobody goes on before all have taken all.
* *Send buffers.* In `GlobalOrdering` a message whose buffer its sender has deleted is read as it was
  sent or as `Garbage`, whichever memory then holds.
* *Meshes.* In `GlobalOrdering` a mesh is a set of dof managers with a number of equations
  each, a partitioning a non-empty set of processes per dof manager, and all processes
  agree on who shares what. In `LoadBalancing` elements have nodes, dof managers may be
  slaves of others and elements average over others; everything inside a domain refers to
  local numbers, which change with every commit, everything in messages and transactions
  to labels. What ParMETIS computes is any plan of a given set.
* *Solvers.* In `NRSolver` a residual is a class per group of dofs (`zero`, `small`, `large`,
  `huge`, `nan`) and a solution one dof that all processes share; in `ArcLength` a vector is
  known by the iterate it comes from, <<restart, iteration>>. Which class comes out of an
  iteration, or whether it converges, is free, so every course of an iteration is covered.
  Whether the linear solve succeeds is not modelled, as the code ignores it.
* *Loads.* In `SolutionSteps` a load vector is a number, the reference load of a step is
  given, the arc-length method raises the level by one of `Increments`. `past` is a history
  of what was reported, and goes into the contexts with the rest.
* *FETI.* A vector is known by how it depends on unknowns: which displacement or mode of
  which process enters which equation with which sign. When the iteration breaks off is
  any choice. A message on its way is a reference to the buffer it was packed in, so that
  packing too early spoils it.
* A collective operation is one step of all processes; it happens when all wait at an
  operation of the same kind. Processes at different kinds are stuck, which is what
  `CallsMatch`, `StepEnds` and `SolveEnds` exclude.

## The runs

| run | instance | shows |
|---|---|---|
| `packets_pair` | 2 processes, messages of 1-2 packets one way and 1 packet the other, 3 exchanges, sends copied by MPI or not | all safety properties, the refinement and termination of the exchange |
| `bulk3` | 3 processes, 2 rounds | the abstract rounds stay apart |
| `ordering` | 3 processes, 2 dof managers (2 and 1 equations), all 49 partitionings, messages read before or after their buffers are deleted | shared numbers agree, numbers are those of the rows, local and global numbers fit, norms count once, the ordering ends |
| `group_norm` | 2 processes | violation, see Findings |
| `nr_two` | 2 processes, 2 groups, 2 iterations, 48 parameter sets, residuals of all classes | matching calls, equal verdicts, end of the step |
| `nr_search` | 1 process, line search with up to 3 trials, steps without increment | consistency of the line search, verdicts on forces and load of the final solution |
| `migration` | 3 processes, 3 elements in a bar; the last node a slave of the first, or elements that average over their neighbours; two starting partitionings; 2 rounds of balancing, each to any partitioning that leaves element 1 off process 2 | elements neither lost nor doubled, everything they need present, partition lists, numbers, mirrors and maps exact after each migration, every migration ends |
| `slave_chain` | as `migration`, the first node a slave of a slave | violation, see Findings |
| `arc_length` | 2 metasteps (modified N-R, then accelerated with a smaller bound), 6 steps, 5 iterations, 2 restarts | the attempts start from equilibrium, modes change and come back, step lengths stay within their bounds, steps end |
| `solution_steps` | 7 steps in 3 metasteps (indirect, direct, indirect control), a context every second step, 3 starts of the program | steps lie in their metasteps, loads and levels follow from those before, contexts hold the load, the analysis ends |
| `donotfixload` | 4 steps in 2 metasteps, the first with `donotfixload` | violation, see Findings |
| `feti` | master and 2 slaves, 2 dof managers with 1 and 2 dofs on any 2 or 3 partitions, modes on one or all, with and without energy norm, 2 iterations, 2 solves | barriers fit, messages are the ones awaited with the values that are read, multipliers join, modes keep their columns, every solve ends |

Two more configurations of `PacketExchange` hold and take longer or cover less:
`PacketExchange3.cfg` (3 processes, one packet) and `PacketExchangeLong.cfg` (two packets both
ways, uncopied sends, 2 exchanges).

Why the bounds are enough. Two packets per message are needed for an inner and a last
packet, two exchanges for packets from the pool and for a neighbour that is one round
ahead (more is excluded by the barrier, which `RoundsStayApart` shows for every number of
processes), the third for a pool that has been refilled. Three processes are the fewest
in which a process can be ahead of two others, in which offsets and messages of two
owners meet, in which an element leaves a process for one neighbour while another arrives
from a third, and in which a dof manager has a second linked partition. Two dof managers
give local and shared ones and processes without any; a bar of three elements has an inner
element, two shared nodes and an element that is nobody's neighbour; the second round of
balancing starts from everything the first can leave, including an empty process. Two
iterations give a first one, which the code treats specially, an inner one and the last
one. The arc-length countdown lasts two steps, so six steps hold a whole one, a second
trouble within it and a change of metastep. Three metasteps give each change of control
once; contexts of every second step leave steps to be redone. Two FETI solves reuse
everything of the first.

Deadlock checking is off, because processes stop when they are done; that no process
stops earlier is what `Termination`, `OrderingEnds`, `StepEnds`, `MigrationEnds`,
`AnalysisEnds` and `SolveEnds` say.

### Fairness

Weak fairness of each process: its code runs, and its waits are busy loops over
completion tests, so a process that can go on does. Weak fairness of delivery (`Deliver`)
and of collective operations: MPI guarantees progress of a matched send and receive
and of a collective operation all processes have entered. Copying of sends (`Copy`) is
not fair: MPI need not buffer, so termination does not depend on it. Nor is a decision to
balance the load: once it is made, the migration goes on. The arc-length solver runs on as
long as it is in a step; whether there is another step is up to the analysis. In
`SolutionSteps` the program goes on while it runs (`Work`) and is started again after it has
ended too early (`Rerun`), which is up to the user; crashes and failed steps are not
fair, and the last allowed start has none of them.

## What is proved

All theorems hold for every value of the constants that satisfies the ASSUMEs of the
module, and for the premises named here.

`PacketExchangeProofs`, for any number of processes, lengths of messages and rounds:

* `ExchangeTypeCorrect`, `PacketsStayHeldOnce`, `NeverReusedInFlight`, `MessagesStayWhole`: type
  correctness and the properties of packets, buffers and messages;
* `StaysQuietAfterBarrier`: nothing of a round is on its way once it is over;
* `ExchangeImplementsRounds`: the exchange over packets implements the rounds of `BulkExchange`.
  A call of `initExchange` for one peer is `Post`, the packet with which a message is
  complete `Take`, the call of `MPI_Barrier` `Sync`, the return from the exchange `Advance`;
  everything else does not show.

None of the properties is inductive: that a packet is not reused while MPI reads it
depends on where its sender is, that on the barrier, and the barrier on every message having
been read. `ExchangeInv` is the conjunction of `ControlInv` (barriers entered and rounds begun),
`BarrierInv` (nobody has passed a barrier that somebody has not entered), `BufferInv` (what the buffers
of a pair are for at each stage), `TidyInv` (packets lie on one shelf each: pool, send list, receive list or
pending receive), `IdleInv` (packets MPI is through with), `SendInv` (what a packet of a message
holds), `WireInv` (what is on its way continues what has arrived, and ends with the last packet)
and `ReadInv` (what has been read is a beginning of the message of this round). TLC has confirmed the
parts on two and three processes before they were proved. The proof of a step has a lemma for each
part and each kind of action, and facts about how packets move between shelves.

`BulkExchangeProofs`: type correctness and `RoundsStayApart`, which puts together the three safety
properties of the rounds. They are not inductive: that what was taken stays what was posted needs that no
process leaves a round that someone is still busy with. `RoundInv` adds where a process
may be that is one round ahead or waits, and what a mailbox holds then.

`GlobalOrderingProofs`, for any partitioning:

* `OrderingTypeCorrect`: type correctness, also when buffers are read after deletion;
* `SharersAlwaysAgree`: processes that share a dof manager have the same numbers, except for
  numbers read from a deleted buffer;
* `NumbersStayUnique`: different equations have different numbers, with the same exception;
* `NumbersStayDense`: the other numbers are all rows of the system, and no others;
* `NormsCountOnce`: norms and products of whole vectors count every equation once;
* `OrderingsFit`: local numbers are global ones less the offset of the process, for exactly the
  equations in its block.

None of them assumes that MPI has a copy of a message before its buffer is deleted. A message that
is read later may be read as garbage; `KnownEqs` are the equations of a process whose number did not come
that way, and the properties speak of those. That garbage never comes up would be
`SendBufferKept`, which fails (see Further disagreements). A number that is wrong in any other way,
an owner's own number above all, still counts. The
invariant `OrderingInv` says: once somebody has numbered, the counts stay (`CountedInv`); a
process keeps the owner's numbers of what it owns (`OwnInv`); a message holds exactly the
owner's numbers of the shared equations (`MessageInv`); what has been received stays
(`ReceivedInv`); a process is through only with all messages (`CompleteInv`). From it,
agreement follows because every dof manager has exactly one owner, the lowest rank
(`LowestRank`, `OneOwner`). Uniqueness needs arithmetic of cardinalities: positions
within a block differ (`Positions`) and the blocks of two ranks do not overlap
(`BlocksApart`). Density is the pigeonhole principle: numbers are unique and within the blocks,
and there are as many equations as rows, as the blocks have the sizes of the sets of owned equations,
which are disjoint. `CountInv` and `LocalInv` say what `Count` and `InitLocal` leave.

`NRSolverProofs`, for any processes, groups, errors and iteration limits:

* `CallsAlwaysMatch`: the processes call the same collective operations in the same order;
* `VerdictsAlwaysAgree`: they leave the iteration with the same verdict and iteration count;
* `NRTypeCorrect`: type correctness; the count of iterations is bounded because it is below the
  limit inside an iteration;
* `SearchStaysConsistent`: a line search leaves total and increment in accord, however it ends.
  `SearchInv` relates the total to the trial in hand while the search goes on;
* `VerdictStaysOnLastIterate`: the residual that decides on a step is of forces, and of a load where it
  depends on the solution, assembled for the total the step ends with. `AssembledInv` says at which
  places of the iteration which of them belongs to the total; between the line search and the next
  residual none does. The histories `forcesAt` and `loadAt` are for this property only.

The first two assume `PlainRun`: the same groups of dofs are in use on all processes and there is no
line search, because the code does not keep its processes together otherwise. Between two
collective operations processes are at different places, so neither property is inductive.
What they share is where each will wait next, in which iteration and with which verdict
(`Target`, `Iter`, `Ending`): this is `Lockstep`. A local step keeps these three for its process
(`OneMoves`); a collective operation finds all processes at one place of one iteration
(`AllWait`) and sends them to one place (`AllMove`), where they decide alike
(`SameDecision`). The other three hold for all parameters.

`ArcLengthProofs`, for any metasteps and any course of the iterations:

* `ArcTypeCorrect`: type correctness; `TypeInv` adds what ties the iterate to the restart;
* `StepsStartFromEquilibrium`: every attempt of a step starts from the state the last step
  has left (`RestInv`: between steps everything is at rest at that state);
* `FullModeAfterTrouble`: from a restart on, full N-R is used as long as there are ticks
  (`TicksLeft` relates the countdown to the steps since the last restart);
* `OldModeComesBack`: after that the mode asked for is in use again, if no metastep goes
  back from accelerated to modified N-R (`AcceleratedStays`) and, as the property itself
  says, no step was restarted in full mode already (`OldModeKept`);
* `LengthStaysInRange`: the step length is within the bounds of the metastep in force whenever a
  step is computed, if the bounds fit (`BoundsFit`): no empty range, given lengths within it, and
  no metastep with a larger minimum than the one before unless it forces a length of its own, as
  the length left by a metastep is cut to the next maximum but not raised to the next minimum
  (calmls.C:717). `LengthInv` is the same for all places, so that it is inductive.

`SolutionStepsProofs`, for any metasteps, loads, contexts and crashes:

* `StepsTypeCorrect`, `StepsInMetaSteps`: every step is solved once, under the attributes of
  its metastep, however often the program was restarted. `PlaceInv` says where step,
  metastep and relative number are at each place of the loop and in each context;
* `FixingAlwaysKeepsLoad`: moving load between the vectors after a step does not change it;
* `LoadsAlwaysFollow`, `ContextsHoldLoad`, `LevelsAlwaysFollow`: the load and the printed load
  level of every step follow from those before it, and a context that was written to its
  end gives the load its step was reported with, restarts or not. `LoadInv` and `ShownInv`
  say for each place what the load vectors, the levels and every context hold, in terms of
  what was reported.

The last three assume `Regular`: every metastep but the last fixes its load, and the reference
load does not change within a metastep under indirect control (the manual requires it,
`src/doc/oofemInput/analysisrecords.rst:453-456`). Facts about all metasteps before
one, which would be an induction, are proved by the least counterexample.

`LoadBalancingProofs`, for any processes, elements and partitionings, any number of migrations
and any order of messages. On every mesh:

* `NoElementLost`: each element has exactly one working copy in every state, in a domain, an
  open transaction or a message, as long as what the elements need is available
  (`[]EntitiesAvailable`; where it fails, as with chains of slaves, the program ends with an
  error). `MigrationInv` says that phases are at most one step apart (`RoundsInv`) and that for some
  assignment of owners every process has, before it packs, what it owns (`BeforeAt`); until it
  commits, transactions that remove what leaves and add what has come (`MovingAt`); for each other
  process a message with exactly what goes there (`MailAt`); afterwards what was planned
  (`SettledAt`). `OneCopy` draws the conclusion.

On meshes where dof managers are slaves of primary ones only (`MastersPrimary`) and elements that
others average over have no slave nodes (`MirrorsPrimary`):

* `AlwaysAvailable`: no migration meets an error, so (`AlwaysOnce`) no element is ever lost or doubled;
* `ListsAlwaysExact`, `NumbersAlwaysRight`, `MirrorsAlwaysExact`: after each migration elements, dof
  managers, partition lists, local numbers, mirrors and their owners are what mesh and
  partitioning ask for;
* `MapsAlwaysMatch`: whenever the solution goes on, both ends of a communication map list the same
  entities in the same order;
* `MigrationTypeCorrect`: `TypeOK`.

The two conditions on the mesh are those the code needs: `SlaveChain.cfg` breaks the first and
`MirroredSlaves.cfg` the second, and TLC finds a migration that ends with an error, or with wrong
numbers. Both hold of the meshes of `migration`. The invariant is `LayoutInv`: for a mesh, a partitioning `a`
before the migration and `b` after it, it gives every value a process has at each of its steps
(`Laid`). Lists are described by what they contain (`Lists`: each label once, local numbers that
lead to what the mesh says), not by their order, which depends on the process and on what happened
before: `Complete` between migrations, `Packed` until the commit, `Bare` until the mirrors are
there. The partition lists collected so far (`NewParts`), the open transactions (`Moves`, `Borrows`) and the
dependencies are given in terms of the processes whose message has arrived, and messages
(`SharedMail`, `MovingMail`, `MirrorMail`) in terms of sender and receiver. There is one lemma per action
(`...Laid`); they rest on what the helpers compute: masters one level up (`MastersAdded`,
`SlavesAdded`), transactions (`PutIs`), and `CommittedIs`, that a commit on lists and transactions that fit each
other (`Fits`) leaves a list again, complete and with the numbers right. The recursive functions
of `WithMasters`, `PrimaryMasters` and `WithSlaves` are handled by the least number at which two
solutions differ (`LeastMember`). TLC has checked `LayoutInv` on the run `migration` before it was proved. Since
both ends of a map sort the same set of labels (`MapsRead`, from `AscendingIs`), the maps match.

`FETISolverProofs`, for any number of processes, partitioned problem, iterations and solves, and
wherever the master breaks off:

* `BarriersAgree`: processes that wait in a barrier wait in the same one;
* `MessagesAreMeant`: a received message is of the kind, solve and iteration its reader awaits;
* `ExchangesInStep`: the invariant `FInv` both follow from.

That processes in barriers agree says nothing of those on their way to one, and what keeps a
message from being taken for another with its tag is only the barrier between the two. The proof
cuts each part of the solve into rounds that end with a barrier (`SlaveRound`, `MasterRound`; `Way` and
`Subject` say what travels in a round). `SlaveRule`, `MasterRule`, `MasterOrder` and `MasterBarrier` say
how the lists of operations fit these tables, and are proved operation by operation; the
steps then use the rules only. `FInv` says that the master and each slave are in the same
round of the same part, iteration and solve, a slave whose broadcast is on its way being taken to
have it already (`LockInv`, `CastInv`); that the only message between them is that of this round, as long
as the master may still take it or has given it (`UpInv`, `SendInv`, `DownInv`, `ReceiveInv`, with `GotInv`
for the messages taken); that after the records the maps of a slave and of the master are both
empty or neither (`MapInv`), which decides whether there is a message at all; and that the
slaves are together when a message that does not fit has ended the program (`AbortInv`, `TogetherInv`).

Only model-checked: the contents of messages and the numberings of `FETISolver` (`MessagesFit`,
`MultipliersJoin`, `ModesRight`), which are folds over lists of records and partitions, hence
induction over data and out of the prover's reach; and liveness (fairness and `ENABLED`).

Stated in the modules and used when working on them, but in no run of the table: `TypeOK` of each
module (proved, except in `FETISolver`, where `FInv` has what the proof needs),
`ConvergedMeetsTolerances` of `ArcLength`, `TimeRight` and `FixingKeepsLoad` (proved) of
`SolutionSteps`, `PoolBounded` of `PacketExchange`, `SharedValueAgrees`, `TotalMovesByIncrement` and
`LoadOnRecord` of `NRSolver`, and `NumbersUnique` of `GlobalOrdering` (proved; in a run a
number used twice would leave a row without an equation, and `NumbersDense` would fail).
`ConvergedIsEquilibrium` of `NRSolver` and `TotalIsSum` of `ArcLength` are there for the configurations
that violate them (see Further disagreements): where they hold they say no more than one guard or
one action of the model.

## Findings

1. `group_norm`: `ParallelContext::isLocal` is always true because of the misspelt macro
   `__PARALLE_MODE` (parallelcontext.C:115); norms per dof group count shared equations
   repeatedly.
2. `slave_chain`: the partitions of a slave are sent to its primary masters only
   (slavedof.C:303); an intermediate master can be missing where the slave arrives, and the
   migration ends with an error, although slaves of slaves are allowed (slavedof.h:43).
3. `donotfixload`: with this flag the reference load of the next metastep is not assembled
   (`src/src/sm/EngineeringModels/nlinearstatic.C:415`), although the manual says it is.

### Further disagreements

Each of these configurations violates its property, which states what a comment or a caller
relies on.

| configuration | property | what happens |
|---|---|---|
| `SendBuffers.cfg` (`MCGlobalOrdering`) | `SendBufferKept` | `Natural2GlobalOrdering::init` deletes send buffers without waiting for the sends (parallelordering.C:443-446) |
| `NRMixedGroups.cfg` (`MCNRSolver`) | `SkippedGroupsAreZero` | `checkConvergence` skips groups that are unused on the process, although the norms are global (nrsolver.C:740); processes can leave the iteration at different times and wait for each other for ever |
| `NRNotANumber.cfg` (`MCNRSolver`) | `ConvergedIsEquilibrium` | a NaN residual passes all tolerance tests and counts as converged (nrsolver.C:768) |
| `NRLineSearch.cfg` (`MCNRSolver`) | `TotalMovesByIncrement` | after a line search the increment is added to the total solution twice (nrsolver.C:317) |
| `NRMaxInc.cfg` (`MCNRSolver`) | `SharedValueAgrees` | `maxinc` is applied with process-local maxima (nrsolver.C:341) |
| `ArcLineSearch.cfg` (`MCArcLength`) | `TotalIsSum` | `do_lineSearch` scales the increment and evaluates the forces for it, but leaves the total displacement (calmls.C:1303) |
| `MirroredSlaves.cfg` (`MCLoadBalancing`) | `NumbersRight` | a slave node mirrored for nonlocal averaging is sent with local numbers of its masters, which the receiver takes for labels (nonlocalmatwtp.C:398) |
| `FETIGradient.cfg` (`MCFETISolver`) | `GradientFresh` | the gradient of a second solve starts from the last residuals: `FloatArray::resize` keeps the values (floatarray.C:567), although floatarray.h:226-229 says "Array is zeroed" and `solve` relies on it (`src/src/sm/FETISolver/fetisolver.C:1221`). The projection takes it out again if the solve before has converged |
| `FETIBuffers.cfg` (`MCFETISolver`) | `NeverAborts` | the buffers of the master get the size `engngModel->estimateMaxPackSize` finds for dof managers of its own domain (`src/src/sm/FETISolver/feticommunicator.C:233-234`), while `FETISolver::estimateMaxPackSize` has a branch for the master, as "master comm maps contain boundary dof managers" (fetisolver.C:75-79); messages are cut off or do not fit |

### Noted while reading

Without a property of their own:

* N-R: with a step length below 1 `solve` zeroes the caller's load increment R but goes on
  balancing RT, which still contains it, so `LoadOnRecord` holds for full step lengths only
  (nrsolver.C:298-301, reached from `AdaptiveNonLinearStatic`); the flag `calcstiffbeforeres` does
  not prevent the evaluation of the stiffness before the first residual (nrsolver.C:254-257); a
  minimal number of iterations not below the maximal one makes every step fail
  (nrsolver.C:282-286); the line search uses process-local inner products, so processes may
  assemble forces a different number of times.
* Arc-length: a step whose restarts are used up is reported as converged (calmls.C:480);
  `computeDeltaLambda` always returns 0 (calmls.C:1059, 1155), so the restart at 317 is dead code;
  convergence in the last iteration is discarded (calmls.C:396); a second restart makes full N-R
  the old mode, which then stays (calmls.C:338, 418); a modified metastep after an accelerated one
  can compute `nite % 0` (calmls.C:286); a new metastep does not raise the step length to a
  larger minimum before the end of its first step or a restart (calmls.C:717), a
  forced initial length is applied in every metastep (calmls.C:722-725).
* Steps: `isNotTheLastStep` compares the step number with the number of metasteps
  (timestep.C:144); a metastep without steps gives the next step a wrong label
  (nlinearstatic.C:319); direct control with `refloadmode` 0 adds total load vectors up, while the
  manual speaks of the load level; direct control with `donotfixload` keeps level 1, so an indirect
  metastep after it starts with a whole reference load; the stiffness of `secantInitial` is
  assembled once per start of the program, while nlinearstatic.h:66 says at the beginning of a
  new load step (nlinearstatic.C:621-627); a context is truncated before it is written
  (engngm.C:771-773), and holds neither the mode of N-R of the arc-length method nor its countdown.
* Migration: `EngngModel::solveYourself` balances loads only under `__PARALLEL_MODE`, which is
  never defined (engngm.C:575).
* Ordering: a record of an unknown dof manager is skipped without reading its numbers
  (parallelordering.C:374).
* FETI: `NumberOfBoundaryDofManagersMsg` and `NumberOfRBMMsg`, and `BoundaryDofManagersRecMsg` and
  `RBMMessage`, are the same tags; only barriers keep them apart. `solve` always reports
  convergence.

## Not modelled

* Load monitor: each process computes the same decision from the same gathered times; nothing
  in it depends on order or state.
* Adaptive analysis and the mapping between meshes, the sparse matrices, the linear solvers and
  the factorisation of FETI: algorithms on floating-point numbers. The same holds for
  elements, materials and cross-sections, which are by far the largest part of the code and hold no
  state that several actors share.
* Staggered solver and the hyperplane control of the arc-length method: as the modelled ones in
  control, different in numbers.
* Assembly with threads: contributions are added under a lock, and the order shows in the rounding
  only.
* Subdivision: both sides bisect shared edges and agree on numbers in repeated exchanges; what
  makes them agree is the geometry of the refinement.
* Static communication maps in `PacketExchange`; how `__write` and `__read` cut values over packets.
* In `SolutionSteps` renumbering between steps, export modules and the state of elements in
  contexts; in `LoadBalancing` the state of materials that moves along and the weights of averaging.
* Localizers, containers, input, output and bindings: sequential, or pure I/O.

## What is left

In the order of what it would add: the numbering of shared edges in subdivision, with the geometry
as a parameter; restart inside a context of the arc-length method (`ArcLength` under
`SolutionSteps`); the migration of meshes with chains of slaves, once the code sends partitions to the
masters in between.

## Running

`tlc -config <file>.cfg <MC module>` for a run, with the module and cfg named in `PROJECT.json` or in the
table above; `tlapm <module>Proofs.tla` for the proofs. `PacketExchangeProofs` takes longest, about a
quarter of an hour; `LoadBalancingProofs` about seven minutes, `FETISolverProofs` about five, the others up to
one and a half.
