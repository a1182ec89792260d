---------------------------- MODULE QueueProofs ----------------------------
(***************************************************************************)
(* The queue and the matching, for any number of workers: every step on a *)
(* queued order brings its dispatch closer to an end, the closest driver  *)
(* in reach is found, and without a lost lock the decision stands          *)
(*   DispatchTerminates   Spec => DispatchRunsDown                         *)
(*   ClosestDriverIsFound                                                  *)
(*   DecisionsStand       Spec => []DecisionStandsUnlessStalled            *)
(* With CompletedAreDecided (OneWorkerProofs) the first is the safety half *)
(* of QueuedJobIsDecided: the steps of a dispatch come to an end, and when *)
(* its job is completed the order is decided.                              *)
(***************************************************************************)
EXTENDS OneWorkerProofs, SumTheorems

(***************************************************************************)
(* What a step does to one order's dispatch.                               *)
(***************************************************************************)

\* A statement of process(), or its end: the worker comes closer to idle.
Advances(w) ==
  \/ worker'[w].pc = "idle" /\ worker'[w].order = NoOrder
  \/ /\ worker'[w].order = worker[w].order
     /\ worker'[w].pc \in WorkerStep \ {"idle"}
     /\ StepsLeft[worker'[w].pc] < StepsLeft[worker[w].pc]

\* Number of statements left at each step.
LEMMA StepsLeftAre ==
  /\ \A pc \in WorkerStep : StepsLeft[pc] \in Nat
  /\ \A pc \in WorkerStep \ {"idle"} : StepsLeft[pc] >= 1
  /\ StepsLeft["idle"] = 0
  /\ StepsLeft["load"] = 8
  /\ StepsLeft["mark"] = 7
  /\ StepsLeft["find"] = 6
  /\ StepsLeft["cancel"] = 5
  /\ StepsLeft["settle"] = 5
  /\ StepsLeft["pay"] = 4
  /\ StepsLeft["notifyAssigned"] = 3
  /\ StepsLeft["notifyCancelled"] = 3
  /\ StepsLeft["broadcast"] = 2
  /\ StepsLeft["finish"] = 1
<1>1. /\ StepsLeft["load"] = 8
      /\ StepsLeft["mark"] = 7
      /\ StepsLeft["find"] = 6
      /\ StepsLeft["cancel"] = 5
      /\ StepsLeft["settle"] = 5
      /\ StepsLeft["pay"] = 4
      /\ StepsLeft["notifyAssigned"] = 3
      /\ StepsLeft["notifyCancelled"] = 3
      /\ StepsLeft["broadcast"] = 2
      /\ StepsLeft["finish"] = 1
      /\ StepsLeft["idle"] = 0
  BY DEF StepsLeft, WorkerStep
<1> QED
  BY <1>1 DEF WorkerStep

\* Every action of a worker in process() brings it closer to idle.
LEMMA WorkerAdvances ==
  ASSUME TypeInv, NEW w \in Workers, Dispatching(w), worker[w].pc # "idle"
  PROVE  Advances(w)
<1> USE DEF TypeInv, DispatchInv, DispatchTypeOK, Advances
<1>1. ASSUME NEW pc \in WorkerStep \ {"idle"}, Goes(w, pc),
             StepsLeft[pc] < StepsLeft[worker[w].pc]
      PROVE  Advances(w)
  BY <1>1 DEF Goes, WorkerState
<1>2. CASE JobThrows(w) \/ WorkerCrashes(w) \/ FinishJob(w)
  BY <1>2 DEF JobThrows, WorkerCrashes, FinishJob, IdleWorker
<1>3. CASE LoadOrder(w)
  BY <1>1, <1>3, StepsLeftAre DEF LoadOrder, At, WorkerStep
<1>4. CASE MarkMatching(w)
  BY <1>1, <1>4, StepsLeftAre DEF MarkMatching, At, WorkerStep
<1>5. CASE CancelUnmatched(w)
  BY <1>1, <1>5, StepsLeftAre DEF CancelUnmatched, At, WorkerStep
<1>6. CASE CancelUnfunded(w)
  BY <1>1, <1>6, StepsLeftAre DEF CancelUnfunded, At, WorkerStep
<1>7. CASE Settle(w)
  BY <1>1, <1>7, StepsLeftAre DEF Settle, At, WorkerStep
<1>8. CASE NotifyOutcome(w)
  BY <1>1, <1>8, StepsLeftAre DEF NotifyOutcome, WorkerStep
<1>9. CASE Broadcast(w)
  BY <1>1, <1>9, StepsLeftAre DEF Broadcast, At, WorkerStep
<1>10. CASE ReadBalance(w)
  <2>1. worker'[w].pc = "pay" /\ worker'[w].order = worker[w].order /\ worker[w].pc = "settle"
    BY <1>10 DEF ReadBalance, At, WorkerState
  <2> QED
    BY <2>1, StepsLeftAre DEF WorkerStep
<1>11. CASE FindDriver(w)
  <2>1. /\ worker'[w].pc \in {"settle", "cancel"}
        /\ worker'[w].order = worker[w].order
        /\ worker[w].pc = "find"
    BY <1>11 DEF FindDriver, Goes, At, WorkerState
  <2> QED
    BY <2>1, StepsLeftAre DEF WorkerStep
<1>12. ASSUME NEW o \in Orders, TakeJob(w, o)
       PROVE  FALSE
  BY <1>12 DEF TakeJob
<1> QED
  BY <1>2, <1>3, <1>4, <1>5, <1>6, <1>7, <1>8, <1>9, <1>10, <1>11, <1>12 DEF Dispatching

\* The job of an order loses a try or leaves the queue, or keeps its lock.
Spends(o) ==
  /\ job'[o].attempts \in {job[o].attempts, job[o].attempts + 1}
  /\ job'[o].stalls = job[o].stalls
  /\ job'[o].state = "waiting" =>
       job[o].state = "waiting" \/ job'[o].attempts = job[o].attempts + 1

\* What a step may do to the dispatch of an order whose job exists.
LEMMA QueueStep ==
  ASSUME TypeInv, [Next]_vars, NEW o \in Orders
  PROVE  \/ EnqueueDispatch(o) /\ UNCHANGED worker
         \/ JobStalls(o) /\ UNCHANGED worker
         \/ \E w \in Workers :
              TakeJob(w, o) /\ \A v \in Workers : v # w => worker'[v] = worker[v]
         \/ \E w \in Workers :
              /\ Handles(w, o)
              /\ Advances(w)
              /\ \A v \in Workers : v # w => worker'[v] = worker[v]
              /\ \/ job'[o] = job[o]
                 \/ job[o].owner = w /\ job'[o].owner = NoWorker /\ Spends(o)
              /\ job'[o].owner = w => worker'[w].pc # "idle"
         \/ /\ job'[o] = job[o]
            /\ \A w \in Workers : Handles(w, o) \/ Handles(w, o)' => worker'[w] = worker[w]
<1> USE DEF TypeInv, DispatchInv, DispatchTypeOK
<1>1. ASSUME NEW p \in Orders, Creation(p)
      PROVE  (EnqueueDispatch(o) \/ job'[o] = job[o]) /\ UNCHANGED worker
  BY <1>1 DEF Creation, CheckFunds, PersistOrder, EnqueueDispatch, CreationFails
<1>2. ASSUME NEW p \in Orders, JobStalls(p)
      PROVE  (JobStalls(o) \/ job'[o] = job[o]) /\ UNCHANGED worker
  <2>1. CASE p = o
    BY <1>2, <2>1 DEF JobStalls
  <2>2. CASE p # o
    BY <1>2, <2>2 DEF JobStalls
  <2> QED
    BY <2>1, <2>2
<1>3. ASSUME NEW w \in Workers, Dispatching(w)
      PROVE  \/ TakeJob(w, o) /\ \A v \in Workers : v # w => worker'[v] = worker[v]
             \/ /\ Handles(w, o)
                /\ Advances(w)
                /\ \A v \in Workers : v # w => worker'[v] = worker[v]
                /\ \/ job'[o] = job[o]
                   \/ job[o].owner = w /\ job'[o].owner = NoWorker /\ Spends(o)
                /\ job'[o].owner = w => worker'[w].pc # "idle"
             \/ /\ job'[o] = job[o]
                /\ \A v \in Workers : Handles(v, o) \/ Handles(v, o)' => worker'[v] = worker[v]
  <2>1. \A v \in Workers : v # w => worker'[v] = worker[v]
    BY <1>3 DEF Dispatching, TakeJob, LoadOrder, MarkMatching, FindDriver, CancelUnmatched,
                ReadBalance, CancelUnfunded, Settle, NotifyOutcome, Broadcast, FinishJob,
                JobThrows, WorkerCrashes, Goes
  <2>2. ASSUME NEW p \in Orders, TakeJob(w, p), p # o
        PROVE  /\ job'[o] = job[o]
               /\ ~Handles(w, o) /\ ~Handles(w, o)'
    BY <2>2 DEF TakeJob, Handles, IdleWorker
  <2>3. CASE worker[w].pc # "idle"
    <3> DEFINE p == worker[w].order
    <3>1. p \in Orders /\ Advances(w)
      BY <1>3, <2>3, WorkerAdvances DEF WorkerLocals
    <3>2. /\ job'[p] = job[p] \/ job[p].owner = w
          /\ \A q \in Orders : q # p => job'[q] = job[q]
      BY <1>3, <2>3, <3>1
      DEF Dispatching, TakeJob, LoadOrder, MarkMatching, FindDriver, CancelUnmatched,
          ReadBalance, CancelUnfunded, Settle, NotifyOutcome, Broadcast, FinishJob,
          JobThrows, WorkerCrashes
    <3>3. CASE p # o
      <4>1. ~Handles(w, o) /\ ~Handles(w, o)'
        BY <3>1, <3>3, DispatchAssumption DEF Handles, Advances
      <4> QED
        BY <2>1, <3>2, <3>3, <4>1
    <3>4. CASE p = o
      <4>1. Handles(w, o) /\ job[o] \in Job
        BY <2>3, <3>1, <3>4 DEF Handles
      <4>2. CASE FinishJob(w)
        <5>1. CASE job[o].owner = w
          BY <2>1, <3>1, <3>4, <4>1, <4>2, <5>1, DispatchAssumption DEF FinishJob, Spends, Job
        <5>2. CASE job[o].owner # w
          BY <2>1, <3>1, <3>4, <4>1, <4>2, <5>2 DEF FinishJob
        <5> QED
          BY <5>1, <5>2
      <4>3. CASE JobThrows(w)
        <5>1. CASE job[o].owner = w
          BY <2>1, <3>1, <3>4, <4>1, <4>3, <5>1, DispatchAssumption DEF JobThrows, Spends, Job
        <5>2. CASE job[o].owner # w
          BY <2>1, <3>1, <3>4, <4>1, <4>3, <5>2 DEF JobThrows
        <5> QED
          BY <5>1, <5>2
      <4>4. CASE WorkerCrashes(w)
        <5>1. CASE job[o].owner = w
          BY <2>1, <3>1, <3>4, <4>1, <4>4, <5>1, DispatchAssumption DEF WorkerCrashes, Spends, Job
        <5>2. CASE job[o].owner # w
          BY <2>1, <3>1, <3>4, <4>1, <4>4, <5>2 DEF WorkerCrashes
        <5> QED
          BY <5>1, <5>2
      <4>5. CASE UNCHANGED job /\ worker'[w].pc # "idle"
        BY <2>1, <3>1, <4>1, <4>5
      <4>6. \/ FinishJob(w) \/ JobThrows(w) \/ WorkerCrashes(w)
            \/ UNCHANGED job /\ worker'[w].pc # "idle"
        <5>1. ASSUME NEW pc \in WorkerStep \ {"idle"}, Goes(w, pc)
              PROVE  worker'[w].pc # "idle"
          BY <5>1 DEF Goes, WorkerState
        <5>2. CASE ReadBalance(w)
          BY <5>2 DEF ReadBalance, WorkerState
        <5>3. CASE FindDriver(w)
          BY <5>3 DEF FindDriver, Goes, WorkerState
        <5>4. ASSUME NEW q \in Orders, TakeJob(w, q)
              PROVE  FALSE
          BY <2>3, <5>4 DEF TakeJob
        <5> QED
          BY <1>3, <5>1, <5>2, <5>3, <5>4
          DEF Dispatching, LoadOrder, MarkMatching, FindDriver, CancelUnmatched,
              ReadBalance, CancelUnfunded, Settle, NotifyOutcome, Broadcast, WorkerStep
      <4> QED
        BY <4>2, <4>3, <4>4, <4>5, <4>6
    <3> QED
      BY <3>3, <3>4
  <2>4. CASE worker[w].pc = "idle"
    <3>1. \E p \in Orders : TakeJob(w, p)
      BY <1>3, <2>4
      DEF Dispatching, LoadOrder, MarkMatching, FindDriver, CancelUnmatched, At,
          ReadBalance, CancelUnfunded, Settle, NotifyOutcome, Broadcast, FinishJob,
          JobThrows, WorkerCrashes
    <3> QED
      BY <2>1, <2>2, <3>1
  <2> QED
    BY <2>3, <2>4
<1>4. CASE UNCHANGED dispatchVars
  BY <1>4 DEF dispatchVars
<1> QED
  BY <1>1, <1>2, <1>3, <1>4 DEF Next, Travelling, vars

-----------------------------------------------------------------------------
(***************************************************************************)
(* Termination.                                                            *)
(***************************************************************************)

FiniteWorkers == IsFiniteSet(Workers)

\* The steps left to each worker are naturals, so their sum is one, and it moves
\* with the one worker that moves.
LEMMA EffortIsNatural ==
  ASSUME FiniteWorkers, NEW ws \in [Workers -> WorkerState], NEW o
  PROVE  /\ \A w \in Workers : Effort(ws, o)[w] \in Nat
         /\ SumFunctionOnSet(Effort(ws, o), Workers) \in Nat
<1> DEFINE f == Effort(ws, o)
<1>1. \A w \in Workers : f[w] \in Nat
  BY StepsLeftAre DEF Effort, WorkerState
<1> HIDE DEF f
<1>2. SumFunctionOnSet(f, Workers) \in Nat
  BY <1>1, SumOfNaturals DEF FiniteWorkers
<1> QED
  BY <1>1, <1>2 DEF f

LEMMA EffortMoves ==
  ASSUME FiniteWorkers, NEW ws \in [Workers -> WorkerState],
         NEW xs \in [Workers -> WorkerState], NEW o, NEW w \in Workers,
         \A v \in Workers : v # w => xs[v] = ws[v]
  PROVE  SumFunctionOnSet(Effort(xs, o), Workers)
           = SumFunctionOnSet(Effort(ws, o), Workers) - Effort(ws, o)[w] + Effort(xs, o)[w]
<1> DEFINE f == Effort(ws, o)
           g == Effort(xs, o)
<1>1. \A v \in Workers : f[v] \in Int /\ g[v] \in Int
  BY EffortIsNatural
<1>2. \A v \in Workers : v # w => g[v] = f[v]
  BY DEF Effort
<1> HIDE DEF f, g
<1>3. SumFunctionOnSet(g, Workers) = SumFunctionOnSet(f, Workers) - f[w] + g[w]
  BY <1>1, <1>2, SumMovesByOne DEF FiniteWorkers
<1> QED
  BY <1>3 DEF f, g

\* Tries left and a place in the queue, without the workers.
Tries(j) ==
  10 * ((MaxAttempts - j.attempts) + (MaxStalled + 1 - j.stalls))
  + (IF j.state = "waiting" THEN 9 ELSE 0)

LEMMA TriesAreNatural ==
  \A j \in Job : Tries(j) \in Nat
  BY DispatchAssumption DEF Tries, Job

LEMMA RankIsNatural ==
  ASSUME FiniteWorkers, NEW j \in Job, NEW ws \in [Workers -> WorkerState], NEW o
  PROVE  /\ Rank(j, ws, o) = Tries(j) + SumFunctionOnSet(Effort(ws, o), Workers)
         /\ Rank(j, ws, o) \in Nat
<1>1. Rank(j, ws, o) = Tries(j) + SumFunctionOnSet(Effort(ws, o), Workers)
  BY DEF Rank, Tries
<1> QED
  BY <1>1, TriesAreNatural, EffortIsNatural

\* No job is made twice: POST /orders queues it as its last step.
LEMMA JobsAreMadeOnce ==
  ASSUME ChargeInv, NEW o \in Orders, EnqueueDispatch(o)
  PROVE  job[o].state = "none"
  BY DEF ChargeInv, NotYetCreated, EnqueueDispatch, CreationGoes, NoJob

\* One step of the order's dispatch lowers its rank.
LEMMA RankFalls ==
  ASSUME FiniteWorkers, ChargeInv, [Next]_vars, NEW o \in Orders, job[o].state # "none"
  PROVE  \/ /\ job'[o] = job[o]
            /\ \A w \in Workers : Handles(w, o) \/ Handles(w, o)' => worker'[w] = worker[w]
         \/ /\ Rank(job'[o], worker', o) >= 0
            /\ Rank(job'[o], worker', o) < Rank(job[o], worker, o)
<1>1. TypeInv /\ TypeInv'
  BY StepKeepsTypes DEF ChargeInv, SettledInv
<1>2. /\ job[o] \in Job /\ job'[o] \in Job
      /\ worker \in [Workers -> WorkerState] /\ worker' \in [Workers -> WorkerState]
  BY <1>1 DEF TypeInv, DispatchInv, DispatchTypeOK
<1> DEFINE s == SumFunctionOnSet(Effort(worker, o), Workers)
           t == SumFunctionOnSet(Effort(worker', o), Workers)
           a == Tries(job[o])
           b == Tries(job'[o])
<1>3. /\ Rank(job[o], worker, o) = a + s
      /\ Rank(job'[o], worker', o) = b + t
      /\ Rank(job'[o], worker', o) \in Nat
      /\ a \in Nat /\ b \in Nat
  BY <1>2, RankIsNatural, TriesAreNatural
<1>4. s \in Nat /\ t \in Nat
  BY <1>2, EffortIsNatural
<1>5. SUFFICES ASSUME ~ /\ job'[o] = job[o]
                        /\ \A w \in Workers :
                             Handles(w, o) \/ Handles(w, o)' => worker'[w] = worker[w]
               PROVE  b + t < a + s
  BY <1>3
<1> HIDE DEF s, t, a, b
<1>6. CASE EnqueueDispatch(o)
  BY <1>6, JobsAreMadeOnce
<1>7. CASE JobStalls(o) /\ UNCHANGED worker
  <2>1. t = s
    BY <1>7 DEF s, t
  <2>2. b < a
    <3>1. /\ job'[o].stalls = job[o].stalls + 1
          /\ job'[o].attempts = job[o].attempts
          /\ job[o].state = "active"
      BY <1>2, <1>7, <1>1 DEF JobStalls, Job, TypeInv, DispatchInv, DispatchTypeOK
    <3> QED
      BY <1>2, <3>1, DispatchAssumption DEF Tries, Job, a, b
  <2> QED
    BY <1>3, <1>4, <2>1, <2>2
<1>8. ASSUME NEW w \in Workers, TakeJob(w, o),
             \A v \in Workers : v # w => worker'[v] = worker[v]
      PROVE  b + t < a + s
  <2>1. t = s - Effort(worker, o)[w] + Effort(worker', o)[w]
    BY <1>2, <1>8, EffortMoves DEF s, t
  <2>2. worker'[w].pc = "load" /\ worker[w].pc = "idle"
    BY <1>2, <1>8 DEF TakeJob, IdleWorker
  <2>3. Effort(worker, o)[w] = 0 /\ Effort(worker', o)[w] \in {0, 8}
    BY <2>2, StepsLeftAre DEF Effort
  <2>4. b = a - 9
    <3>1. /\ job'[o].stalls = job[o].stalls
          /\ job'[o].attempts = job[o].attempts
          /\ job[o].state = "waiting"
          /\ job'[o].state = "active"
      BY <1>2, <1>8, <1>1 DEF TakeJob, Job, TypeInv, DispatchInv, DispatchTypeOK
    <3> QED
      BY <1>2, <3>1, DispatchAssumption DEF Tries, Job, a, b
  <2> QED
    BY <1>3, <1>4, <2>1, <2>3, <2>4
<1>9. ASSUME NEW w \in Workers,
             Handles(w, o),
             Advances(w),
             \A v \in Workers : v # w => worker'[v] = worker[v],
             \/ job'[o] = job[o]
             \/ job[o].owner = w /\ job'[o].owner = NoWorker /\ Spends(o)
      PROVE  b + t < a + s
  <2>1. t = s - Effort(worker, o)[w] + Effort(worker', o)[w]
    BY <1>2, <1>9, EffortMoves DEF s, t
  <2>2. Effort(worker', o)[w] < Effort(worker, o)[w]
    <3>1. Effort(worker, o)[w] = StepsLeft[worker[w].pc] /\ worker[w].pc \in WorkerStep \ {"idle"}
      BY <1>2, <1>9 DEF Handles, Effort, WorkerState
    <3>2. CASE worker'[w].pc = "idle" /\ worker'[w].order = NoOrder
      <4>1. Effort(worker', o)[w] = 0
        BY <3>2, StepsLeftAre DEF Effort
      <4> QED
        BY <3>1, <4>1, StepsLeftAre
    <3>3. CASE /\ worker'[w].order = worker[w].order
               /\ worker'[w].pc \in WorkerStep \ {"idle"}
               /\ StepsLeft[worker'[w].pc] < StepsLeft[worker[w].pc]
      <4>1. Effort(worker', o)[w] = StepsLeft[worker'[w].pc]
        BY <1>9, <3>3 DEF Handles, Effort
      <4> QED
        BY <3>1, <3>3, <4>1
    <3> QED
      BY <1>9, <3>2, <3>3 DEF Advances
  <2>3. Effort(worker, o)[w] \in Nat /\ Effort(worker', o)[w] \in Nat
    BY <1>2, EffortIsNatural
  <2>4. b <= a
    <3>1. CASE job'[o] = job[o]
      BY <1>3, <3>1 DEF a, b
    <3>2. CASE Spends(o)
      BY <1>2, <3>2, DispatchAssumption DEF Spends, Tries, Job, a, b
    <3> QED
      BY <1>9, <3>1, <3>2
  <2> QED
    BY <1>3, <1>4, <2>1, <2>2, <2>3, <2>4
<1> QED
  BY <1>1, <1>5, <1>6, <1>7, <1>8, <1>9, QueueStep

\* The dispatch of an order terminates, with any number of workers: retries,
\* lost locks, crashes and workers that overwrite each other use up a rank that
\* is never negative and never grows back (orders.service.ts:322,
\* matching.processor.ts:32-60).
THEOREM DispatchTerminates == FiniteWorkers => (Spec => DispatchRunsDown)
<1> SUFFICES ASSUME FiniteWorkers
             PROVE  Spec => DispatchRunsDown
  OBVIOUS
<1> DEFINE Falls == \A o \in Orders : job[o].state # "none" =>
              \/ /\ job'[o] = job[o]
                 /\ \A w \in Workers : Handles(w, o) \/ Handles(w, o)' => worker'[w] = worker[w]
              \/ /\ Rank(job'[o], worker', o) >= 0
                 /\ Rank(job'[o], worker', o) < Rank(job[o], worker, o)
<1>1. ChargeInv /\ [Next]_vars => ChargeInv'
  BY ChargeInvStep
<1>2. ChargeInv /\ [Next]_vars => Falls
  BY RankFalls
<1>3. ChargeInv /\ [Next]_vars => [Falls]_vars
  BY <1>2
<1>4. DispatchRunsDown <=> [][Falls]_vars
  BY DEF DispatchRunsDown
<1> HIDE DEF Falls
<1> QED
  BY <1>1, <1>3, <1>4, ChargeInvInit, PTL DEF Spec

-----------------------------------------------------------------------------
\* Matching finds a driver exactly if one is within the radius, its edge
\* included, and none of the drivers it looked at is closer than the one it
\* finds, whatever ties there are (findClosestDriverWithinRadius): dispatch
\* gives an order up at the query only when nobody is near.
THEOREM ClosestDriverIsFound ==
  ASSUME NEW o \in Orders, NEW ds \in SUBSET Drivers
  PROVE  /\ ClosestDrivers(o, ds) = {} <=> \A d \in ds : Distance[o][d] > MatchRadiusKm
         /\ \A d \in ClosestDrivers(o, ds) :
              /\ d \in ds /\ Distance[o][d] <= MatchRadiusKm
              /\ \A e \in ds : Distance[o][d] <= Distance[o][e]
<1>1. MatchRadiusKm \in Nat /\ \A d \in Drivers : Distance[o][d] \in Nat
  BY StoreAssumption
<1>2. ASSUME NEW near \in ds, ~(Distance[o][near] > MatchRadiusKm)
      PROVE  ClosestDrivers(o, ds) # {}
  <2> DEFINE kms == {Distance[o][d] : d \in InRadius(o, ds)}
  <2>1. near \in InRadius(o, ds)
    BY <1>1, <1>2 DEF InRadius
  <2>2. kms \in SUBSET Nat /\ kms # {}
    BY <1>1, <2>1 DEF InRadius
  <2> HIDE DEF kms
  <2>3. PICK km \in kms : \A n \in kms : km <= n
    BY <2>2, LeastNatural
  <2>4. PICK d \in InRadius(o, ds) : km = Distance[o][d]
    BY DEF kms
  <2>5. \A e \in InRadius(o, ds) : Distance[o][d] <= Distance[o][e]
    BY <2>3, <2>4 DEF kms
  <2>6. d \in ClosestDrivers(o, ds)
    BY <2>5 DEF ClosestDrivers
  <2> QED
    BY <2>6
<1>3. ASSUME NEW d \in ClosestDrivers(o, ds)
      PROVE  /\ d \in ds /\ Distance[o][d] <= MatchRadiusKm
             /\ \A e \in ds : Distance[o][d] <= Distance[o][e]
  <2>1. /\ d \in ds /\ Distance[o][d] <= MatchRadiusKm
        /\ \A e \in InRadius(o, ds) : Distance[o][d] <= Distance[o][e]
    BY DEF ClosestDrivers, InRadius
  <2>2. ASSUME NEW e \in ds PROVE Distance[o][d] <= Distance[o][e]
    <3>1. CASE Distance[o][e] <= MatchRadiusKm
      BY <2>1, <3>1 DEF InRadius
    <3>2. CASE ~(Distance[o][e] <= MatchRadiusKm)
      BY <1>1, <2>1, <3>2
    <3> QED
      BY <3>1, <3>2
  <2> QED
    BY <2>1, <2>2
<1>4. ASSUME ClosestDrivers(o, ds) # {}
      PROVE  \E d \in ds : ~(Distance[o][d] > MatchRadiusKm)
  <2>1. PICK d \in ClosestDrivers(o, ds) : TRUE
    BY <1>4
  <2> QED
    BY <1>1, <1>3, <2>1
<1> QED
  BY <1>2, <1>3, <1>4

-----------------------------------------------------------------------------
(***************************************************************************)
(* The decision of dispatch stands unless the job stalled.                *)
(***************************************************************************)

\* What DecisionInv says of one row while its job has not stalled.
RowStands(o) == RowFits(status[o], debits[o], assignedDriver[o], "ORDER_CANCELLED" \in notices[o])

\* DecisionInv, for one order.
LEMMA DecisionFits ==
  ASSUME DecisionInv, NEW o \in Orders, job[o].stalls = 0
  PROVE  /\ RowStands(o)
         /\ debits[o] >= 1 => PaymentStatus(status[o]) = "PAID"
         /\ status[o] \in OrderStatus \cup {"NONE"}
         /\ \A w \in Workers : Handles(w, o) =>
              /\ job[o].owner = w
              /\ job[o].state = "active"
              /\ status[o] \notin {"NONE", "DRAFT"}
              /\ WorkerFits(worker[w].pc, status[o])
<1>1. debits[o] = IF PaymentStatus(status[o]) = "PAID" THEN 1 ELSE 0
  BY DEF DecisionInv, ChargeInv, ChargedOnceUnlessStalled
<1>2. RowStands(o)
  BY <1>1, PaidStatus DEF DecisionInv, DecisionStandsUnlessStalled, JobsAreForOrders, RowStands, RowFits
<1>3. status[o] \in OrderStatus \cup {"NONE"}
  BY DEF DecisionInv, ChargeInv, SettledInv, TypeInv, StoreTypeOK
<1>4. ASSUME NEW w \in Workers, Handles(w, o)
      PROVE  /\ job[o].owner = w
             /\ job[o].state = "active"
             /\ status[o] \notin {"NONE", "DRAFT"}
             /\ WorkerFits(worker[w].pc, status[o])
  <2>1. job[o].owner = w /\ w # NoWorker
    BY <1>4, DispatchAssumption DEF DecisionInv, ChargeInv, LockMeansSole
  <2>2. job[o].state = "active"
    BY <2>1 DEF DecisionInv, ChargeInv, SettledInv, TypeInv, DispatchInv, JobsBounded
  <2>3. QED
    BY <1>4, <2>1, <2>2 DEF DecisionInv, JobsAreForOrders, HandlerIsCurrent
<1>5. QED
  BY <1>1, <1>2, <1>3, <1>4

\* A step that no worker takes on an order leaves its row standing, and what its
\* worker has read.
LEMMA OthersKeepDecision ==
  ASSUME DecisionInv, [Next]_vars, NEW o \in Orders, job[o].stalls = 0,
         \A w \in Workers : Dispatching(w) => ~Handles(w, o)
  PROVE  /\ RowStands(o)'
         /\ Decided(o) => Decided(o)'
         /\ \A w \in Workers : Handles(w, o) => WorkerFits(worker[w].pc, status'[o])
<1>1. /\ RowStands(o)
      /\ debits[o] >= 1 => PaymentStatus(status[o]) = "PAID"
      /\ \A w \in Workers : Handles(w, o) =>
           status[o] \notin {"NONE", "DRAFT"} /\ WorkerFits(worker[w].pc, status[o])
  BY DecisionFits
<1>2. CASE Outside
  <2>1. /\ UNCHANGED <<worker, assignedDriver, ledgerVars>>
        /\ \/ status'[o] = status[o]
           \/ PersistOrder(o) /\ status[o] = "NONE" /\ status'[o] = "PENDING"
           \/ PaymentStatus(status[o]) = "PAID" /\ status'[o] \in {"PICKED_UP", "DELIVERED"}
        /\ "ORDER_CANCELLED" \in notices'[o] => "ORDER_CANCELLED" \in notices[o]
    BY <1>1, <1>2, OutsideStep DEF DecisionInv
  <2>2. RowStands(o)'
    BY <1>1, <2>1, PaidStatus DEF RowStands, RowFits, ledgerVars
  <2>3. Decided(o) => Decided(o)'
    BY <2>1 DEF Decided
  <2>4. \A w \in Workers : Handles(w, o) => WorkerFits(worker[w].pc, status'[o])
    BY <1>1, <2>1, PaidStatus DEF WorkerFits
  <2>5. QED
    BY <2>2, <2>3, <2>4
<1>3. ASSUME NEW v \in Workers, Dispatching(v)
      PROVE  /\ status'[o] = status[o]
             /\ debits'[o] = debits[o]
             /\ assignedDriver'[o] = assignedDriver[o]
             /\ notices'[o] = notices[o]
  <2>1. TypeInv
    BY DEF DecisionInv, ChargeInv, SettledInv
  <2>2. worker[v].pc = "idle" \/ worker[v].order # o
    BY <1>3 DEF Handles
  <2>3. CASE MarkMatching(v) \/ CancelUnmatched(v) \/ CancelUnfunded(v)
    BY <2>1, <2>2, <2>3
    DEF MarkMatching, CancelUnmatched, CancelUnfunded, At, ledgerVars, TypeInv, StoreTypeOK
  <2>4. CASE Settle(v)
    <3>1. worker[v].order # o /\ UNCHANGED notices
      BY <2>2, <2>4 DEF Settle, At
    <3>2. QED
      BY <2>1, <2>4, <3>1, SettleEffect
  <2>5. CASE NotifyOutcome(v)
    <3> DEFINE type == IF At(v, "notifyAssigned") THEN "ORDER_ASSIGNED" ELSE "ORDER_CANCELLED"
    <3>1. /\ notices' = [notices EXCEPT ![worker[v].order] = @ \cup {type}]
          /\ UNCHANGED <<status, assignedDriver, ledgerVars>>
          /\ worker[v].order # o
      BY <2>2, <2>5 DEF NotifyOutcome
    <3> HIDE DEF type
    <3>2. QED
      BY <2>1, <3>1 DEF ledgerVars, TypeInv, StoreTypeOK
  <2>6. CASE UNCHANGED storeVars
    BY <2>6 DEF storeVars, ledgerVars
  <2>7. QED
    BY <1>3, <2>3, <2>4, <2>5, <2>6
    DEF Dispatching, TakeJob, LoadOrder, FindDriver, ReadBalance, Broadcast, FinishJob,
        JobThrows, WorkerCrashes
<1>4. CASE \E v \in Workers : Dispatching(v)
  BY <1>1, <1>3, <1>4 DEF RowStands, Decided
<1>5. QED
  BY <1>2, <1>4, StepSplits

\* A step that a worker takes on its order leaves the row standing, and the
\* worker with what it has read or written.
LEMMA HandlerKeepsDecision ==
  ASSUME DecisionInv, NEW o \in Orders, job[o].stalls = 0,
         NEW w \in Workers, Dispatching(w), Handles(w, o)
  PROVE  /\ RowStands(o)'
         /\ worker'[w].pc = "idle" \/ WorkerFits(worker'[w].pc, status'[o])
         /\ FinishJob(w) => Decided(o)'
<1>1. /\ RowStands(o)
      /\ status[o] \in OrderStatus
      /\ status[o] # "DRAFT"
      /\ WorkerFits(worker[w].pc, status[o])
      /\ worker[w].order = o /\ worker[w].pc # "idle"
  BY DecisionFits DEF Handles
<1>2. TypeInv
  BY DEF DecisionInv, ChargeInv, SettledInv
<1>3. worker \in [Workers -> WorkerState] /\ debits \in [Orders -> Nat]
      /\ status \in [Orders -> OrderStatus \cup {"NONE"}]
      /\ notices \in [Orders -> SUBSET NotificationType]
  BY <1>2 DEF TypeInv, StoreTypeOK, DispatchInv, DispatchTypeOK
<1>4. ASSUME NEW pc, Goes(w, pc)
      PROVE  worker'[w].pc = pc
  BY <1>3, <1>4 DEF Goes, WorkerState
<1>5. ASSUME UNCHANGED storeVars
      PROVE  RowStands(o)' /\ status'[o] = status[o]
  BY <1>1, <1>5 DEF storeVars, ledgerVars, RowStands
<1>6. CASE JobThrows(w) \/ WorkerCrashes(w) \/ FinishJob(w)
  <2>1. worker'[w].pc = "idle" /\ UNCHANGED storeVars
    BY <1>3, <1>6 DEF JobThrows, WorkerCrashes, FinishJob, IdleWorker
  <2>2. FinishJob(w) => Decided(o)
    BY <1>1 DEF FinishJob, WorkerFits, Decided
  <2>3. QED
    BY <1>5, <2>1, <2>2 DEF Decided
<1>7. CASE LoadOrder(w) \/ FindDriver(w) \/ ReadBalance(w) \/ Broadcast(w)
  <2>1. UNCHANGED storeVars /\ ~FinishJob(w)
    BY <1>7 DEF LoadOrder, FindDriver, ReadBalance, Broadcast, FinishJob, At
  <2>2. CASE LoadOrder(w)
    <3>1. \/ Goes(w, "mark") /\ status[o] \in {"PENDING", "MATCHING"}
          \/ Goes(w, "finish") /\ status[o] \notin {"PENDING", "MATCHING"}
      BY <1>1, <2>2 DEF LoadOrder
    <3>2. QED
      BY <1>1, <1>4, <1>5, <2>1, <3>1 DEF WorkerFits, OrderStatus
  <2>3. CASE FindDriver(w)
    <3>1. \/ Goes(w, "cancel")
          \/ \E d : worker' = [worker EXCEPT ![w].pc = "settle", ![w].candidate = d]
      BY <2>3 DEF FindDriver
    <3>2. worker'[w].pc \in {"settle", "cancel"}
      BY <1>3, <3>1 DEF Goes, WorkerState
    <3>3. worker[w].pc = "find"
      BY <2>3 DEF FindDriver, At
    <3>4. QED
      BY <1>1, <1>5, <2>1, <3>2, <3>3 DEF WorkerFits
  <2>4. CASE ReadBalance(w)
    <3>1. worker[w].pc = "settle" /\ worker'[w].pc = "pay"
      BY <1>3, <2>4 DEF ReadBalance, At, WorkerState
    <3>2. QED
      BY <1>1, <1>5, <2>1, <3>1 DEF WorkerFits
  <2>5. CASE Broadcast(w)
    <3>1. worker[w].pc = "broadcast" /\ worker'[w].pc = "finish"
      BY <1>4, <2>5 DEF Broadcast, At
    <3>2. QED
      BY <1>1, <1>5, <2>1, <3>1 DEF WorkerFits
  <2>6. QED
    BY <1>7, <2>2, <2>3, <2>4, <2>5
<1>8. ASSUME MarkMatching(w) \/ CancelUnmatched(w) \/ CancelUnfunded(w)
      PROVE  /\ RowStands(o)'
             /\ WorkerFits(worker'[w].pc, status'[o])
             /\ ~FinishJob(w)
  <2>1. /\ worker[w].pc \in {"mark", "cancel", "pay"}
        /\ UNCHANGED <<assignedDriver, ledgerVars, notices>>
        /\ ~FinishJob(w)
    BY <1>8 DEF MarkMatching, CancelUnmatched, CancelUnfunded, At, FinishJob
  <2>2. \/ worker'[w].pc = "find" /\ status' = [status EXCEPT ![o] = "MATCHING"]
        \/ worker'[w].pc = "notifyCancelled" /\ status' = [status EXCEPT ![o] = "CANCELLED"]
    BY <1>1, <1>4, <1>8 DEF MarkMatching, CancelUnmatched, CancelUnfunded
  <2>3. status[o] \in {"PENDING", "MATCHING"}
    BY <1>1, <2>1 DEF WorkerFits
  <2>4. RowFits(status'[o], debits[o], assignedDriver[o], "ORDER_CANCELLED" \in notices[o])
    BY <1>1, <1>3, <2>2, <2>3, PaidStatus DEF RowStands, RowFits
  <2>5. WorkerFits(worker'[w].pc, status'[o])
    BY <1>3, <2>2 DEF WorkerFits
  <2>6. QED
    BY <2>1, <2>4, <2>5 DEF RowStands, ledgerVars
<1>9. CASE Settle(w)
  <2>1. /\ worker'[w].pc = "notifyAssigned"
        /\ UNCHANGED notices
        /\ worker[w].pc = "pay"
        /\ ~FinishJob(w)
    BY <1>4, <1>9 DEF Settle, At, FinishJob
  <2>2. status'[o] = "ASSIGNED"
    BY <1>1, <1>2, <1>9, SettleEffect
  <2>3. "ORDER_CANCELLED" \notin notices[o]
    BY <1>1, <2>1 DEF RowStands, RowFits, WorkerFits
  <2>4. QED
    BY <2>1, <2>2, <2>3, PaidStatus DEF RowStands, RowFits, WorkerFits
<1>10. CASE NotifyOutcome(w)
  <2> DEFINE type == IF At(w, "notifyAssigned") THEN "ORDER_ASSIGNED" ELSE "ORDER_CANCELLED"
  <2>1. /\ worker[w].pc \in {"notifyAssigned", "notifyCancelled"}
        /\ notices' = [notices EXCEPT ![o] = @ \cup {type}]
        /\ worker'[w].pc = "broadcast"
        /\ UNCHANGED <<status, assignedDriver, ledgerVars>>
        /\ ~FinishJob(w)
    BY <1>1, <1>4, <1>10 DEF NotifyOutcome, FinishJob, At
  <2>2. type = "ORDER_CANCELLED" => status[o] = "CANCELLED"
    BY <1>1, <2>1 DEF At, WorkerFits
  <2> HIDE DEF type
  <2>3. "ORDER_CANCELLED" \in notices'[o] => "ORDER_CANCELLED" \in notices[o] \/ type = "ORDER_CANCELLED"
    BY <1>3, <2>1
  <2>4. RowStands(o)'
    BY <1>1, <2>1, <2>2, <2>3 DEF RowStands, RowFits, ledgerVars
  <2>5. QED
    BY <1>1, <2>1, <2>4 DEF WorkerFits
<1>11. ASSUME NEW p \in Orders, TakeJob(w, p)
       PROVE  FALSE
  BY <1>1, <1>11 DEF TakeJob
<1>12. QED
  BY <1>6, <1>7, <1>8, <1>9, <1>10, <1>11 DEF Dispatching

\* Only its own steps move a worker.
LEMMA WorkerStays ==
  ASSUME TypeInv, [Next]_vars, NEW w \in Workers, ~Dispatching(w)
  PROVE  worker'[w] = worker[w] /\ ~FinishJob(w)
<1> USE DEF TypeInv, DispatchInv, DispatchTypeOK
<1>1. ASSUME NEW v \in Workers, Dispatching(v), v # w
      PROVE  worker'[w] = worker[w]
  BY <1>1 DEF Dispatching, TakeJob, LoadOrder, MarkMatching, FindDriver, CancelUnmatched,
              ReadBalance, CancelUnfunded, Settle, NotifyOutcome, Broadcast, FinishJob,
              JobThrows, WorkerCrashes, Goes
<1>2. Outside => worker'[w] = worker[w]
  BY OutsideKeeps
<1>3. worker'[w] = worker[w]
  BY <1>1, <1>2, StepSplits
<1>4. QED
  BY <1>3 DEF FinishJob, IdleWorker

\* A job is about an order that was committed, for any number of workers.
LEMMA JobsAreForOrdersStep ==
  ASSUME ChargeInv, JobsAreForOrders, [Next]_vars
  PROVE  JobsAreForOrders'
<1>1. TypeInv
  BY DEF ChargeInv, SettledInv
<1>2. ASSUME NEW o \in Orders
      PROVE  /\ status'[o] # "DRAFT"
             /\ status[o] # "NONE" \/ PersistOrder(o) => status'[o] # "NONE"
  <2>1. PersistOrder(o) => status'[o] = "PENDING"
    BY <1>1 DEF PersistOrder, TypeInv, StoreTypeOK
  <2>2. ASSUME NEW w \in Workers, Settle(w), worker[w].order = o
        PROVE  status'[o] = "ASSIGNED"
    BY <1>1, <2>2, SettleEffect
  <2>3. QED
    BY <1>1, <2>1, <2>2, StatusStep DEF JobsAreForOrders
<1>3. ASSUME NEW o \in Orders, job'[o].state # "none" \/ creation'[o] = "committed"
      PROVE  status[o] # "NONE" \/ PersistOrder(o)
  <2>1. CASE job'[o].state # "none"
    BY <1>1, <2>1, JobStates DEF EnqueueDispatch, CreationGoes, JobsAreForOrders
  <2>2. CASE creation'[o] = "committed"
    BY <1>1, <2>2, QueuedAreCommitted DEF JobsAreForOrders
  <2>3. QED
    BY <1>3, <2>1, <2>2
<1>4. QED
  BY <1>2, <1>3 DEF JobsAreForOrders

\* DecisionInv is inductive.
LEMMA DecisionInvStep ==
  ASSUME DecisionInv, [Next]_vars
  PROVE  DecisionInv'
<1>1. TypeInv /\ ChargeInv /\ ChargeInv' /\ JobsAreForOrders'
  BY ChargeInvStep, JobsAreForOrdersStep DEF DecisionInv, ChargeInv, SettledInv
<1>2. ASSUME NEW o \in Orders, job'[o].stalls = 0
      PROVE  /\ RowStands(o)'
             /\ job'[o].state = "completed" => Decided(o)'
             /\ \A w \in Workers : Handles(w, o)' => WorkerFits(worker'[w].pc, status'[o])
  <2>1. job[o].stalls = 0
    BY <1>1, <1>2, StallsStep
  <2>2. \A v, w \in Workers : Handles(v, o) /\ Handles(w, o) => v = w
    BY <2>1 DEF DecisionInv, ChargeInv, LockMeansSole
  <2>3. ASSUME NEW w \in Workers, TakeJob(w, o), Handles(w, o)'
        PROVE  WorkerFits(worker'[w].pc, status'[o])
    <3>1. worker'[w].pc = "load"
      BY <1>1, <2>3 DEF TakeJob, IdleWorker, TypeInv, DispatchInv, DispatchTypeOK
    <3>2. QED
      BY <3>1 DEF WorkerFits
  <2>4. job[o].state = "completed" => ~ \E w \in Workers : Handles(w, o)
    BY <2>1, DecisionFits
  <2>5. job[o].state = "completed" => Decided(o)
    BY <2>1 DEF DecisionInv, DecisionStandsUnlessStalled
  <2>6. CASE \E w \in Workers : Dispatching(w) /\ Handles(w, o)
    <3>1. PICK w \in Workers : Dispatching(w) /\ Handles(w, o)
      BY <2>6
    <3>2. /\ RowStands(o)'
          /\ worker'[w].pc = "idle" \/ WorkerFits(worker'[w].pc, status'[o])
          /\ FinishJob(w) => Decided(o)'
      BY <2>1, <3>1, HandlerKeepsDecision
    <3>3. job'[o].state = "completed" => Decided(o)'
      <4>1. SUFFICES ASSUME job'[o].state = "completed" PROVE Decided(o)'
        OBVIOUS
      <4>2. PICK v \in Workers : FinishJob(v) /\ worker[v].order = o
        BY <1>1, <2>4, <3>1, <4>1, JobStates
      <4>3. Handles(v, o)
        BY <4>2 DEF FinishJob, Handles
      <4>4. QED
        BY <2>2, <3>1, <3>2, <4>2, <4>3
    <3>4. ASSUME NEW v \in Workers, Handles(v, o)'
          PROVE  WorkerFits(worker'[v].pc, status'[o])
      <4>1. Handles(v, o) \/ TakeJob(v, o)
        BY <1>1, <3>4, HandlesStep
      <4>2. CASE Handles(v, o)
        BY <2>2, <3>1, <3>2, <3>4, <4>2 DEF Handles
      <4>3. QED
        BY <2>3, <3>4, <4>1, <4>2
    <3>5. QED
      BY <3>2, <3>3, <3>4
  <2>7. CASE \A w \in Workers : Dispatching(w) => ~Handles(w, o)
    <3>1. /\ RowStands(o)'
          /\ Decided(o) => Decided(o)'
          /\ \A w \in Workers : Handles(w, o) => WorkerFits(worker[w].pc, status'[o])
      BY <2>1, <2>7, OthersKeepDecision
    <3>2. job'[o].state = "completed" => Decided(o)'
      <4>1. SUFFICES ASSUME job'[o].state = "completed", job[o].state # "completed" PROVE FALSE
        BY <2>5, <3>1
      <4>2. PICK v \in Workers : FinishJob(v) /\ worker[v].order = o
        BY <1>1, <4>1, JobStates
      <4>3. Handles(v, o)
        BY <4>2 DEF FinishJob, Handles
      <4>4. QED
        BY <1>1, <2>7, <4>2, <4>3, WorkerStays
    <3>3. ASSUME NEW v \in Workers, Handles(v, o)', Handles(v, o)
          PROVE  WorkerFits(worker'[v].pc, status'[o])
      <4>1. worker'[v] = worker[v]
        BY <1>1, <2>7, <3>3, WorkerStays
      <4>2. QED
        BY <3>1, <3>3, <4>1
    <3>4. QED
      BY <1>1, <2>3, <3>1, <3>2, <3>3, HandlesStep
  <2>8. QED
    BY <2>6, <2>7
<1>3. HandlerIsCurrent'
  BY <1>2 DEF HandlerIsCurrent
<1>4. DecisionStandsUnlessStalled'
  BY <1>2 DEF DecisionStandsUnlessStalled, RowStands, RowFits
<1>5. QED
  BY <1>1, <1>3, <1>4 DEF DecisionInv

\* Without a lost lock the decision of dispatch stands, for any number of workers
\* (matching.processor.ts:51-60, 106-125, 172-217).
THEOREM DecisionsStand == Spec => []DecisionStandsUnlessStalled
<1>1. Init => DecisionInv
  <2> SUFFICES ASSUME Init PROVE DecisionInv
    OBVIOUS
  <2>1. /\ \A o \in Orders : /\ status[o] = "NONE" /\ assignedDriver[o] = NoDriver
                             /\ job[o].state = "none" /\ creation[o] = "requested"
                             /\ notices[o] = {}
        /\ \A w \in Workers : worker[w].pc = "idle"
    BY DEF Init, StoreInit, DispatchInit, NoJob, IdleWorker
  <2>2. QED
    BY <2>1, ChargeInvInit
    DEF DecisionInv, JobsAreForOrders, HandlerIsCurrent, Handles, DecisionStandsUnlessStalled
<1>2. DecisionInv /\ [Next]_vars => DecisionInv'
  BY DecisionInvStep
<1>3. DecisionInv => DecisionStandsUnlessStalled
  BY DEF DecisionInv
<1>4. QED
  BY <1>1, <1>2, <1>3, PTL DEF Spec

=============================================================================
