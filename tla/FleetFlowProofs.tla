--------------------------- MODULE FleetFlowProofs --------------------------
(***************************************************************************)
(* Proofs about FleetFlow, for any number of orders, drivers, workers and *)
(* requests, and any prices, balances and retry limits:                    *)
(*   TypeCorrect           Spec => []TypeOK                                *)
(*   PaidOrdersAreSettled  Spec => []PaidMeansSettled                      *)
(*   ChargedOnce           Spec => []ChargedOnceUnlessStalled              *)
(* The inductive invariants TypeInv, SettledInv and ChargeInv are those    *)
(* of FleetFlowInv.  A lemma that ends in Keeps... says that steps of one  *)
(* process preserve one part of TypeInv; one that ends in ...Step says     *)
(* what any step of the system does to one piece of state.                 *)
(***************************************************************************)
EXTENDS FleetFlowInv, TLAPS

\* In the initial state every row, job and local has its type.
LEMMA TypeInvInit == Init => TypeInv
  BY StoreAssumption, DispatchAssumption
  DEF Init, StoreInit, DispatchInit, TripInit, TypeInv, StoreTypeOK, DispatchInv,
      DispatchTypeOK, WorkerLocals, JobsBounded, TripInv, TripTypeOK, RequestLocals, OrderStatus,
      DriverStatus, OrderPhotoType, NotificationType, CreationStep, JobState, WorkerStep, Job,
      WorkerState, NoJob, IdleWorker, RequestStep, Operation, RequestState, IdleRequest, AuditEvent

-----------------------------------------------------------------------------
\* The values given to a free worker and to a new job have their types.
LEMMA IdleTyped == IdleWorker \in WorkerState /\ NoJob \in Job
  BY DispatchAssumption DEF IdleWorker, WorkerState, WorkerStep, NoJob, Job, JobState

\* A worker that only moves its step counter keeps its locals.
LEMMA WorkerMoves ==
  ASSUME DispatchInv, NEW w \in Workers, NEW pc \in WorkerStep \ {"settle"},
         Goes(w, pc), worker[w].pc # "idle", pc = "pay" => worker[w].pc = "settle"
  PROVE  worker' \in [Workers -> WorkerState] /\ WorkerLocals'
<1> USE DEF DispatchInv, DispatchTypeOK, Goes
<1>1. worker' \in [Workers -> WorkerState]
  BY DEF WorkerState
<1>2. \A v \in Workers : v # w => worker'[v] = worker[v]
  OBVIOUS
<1>3. /\ worker'[w].pc = pc
      /\ worker'[w].order = worker[w].order
      /\ worker'[w].candidate = worker[w].candidate
  BY DEF WorkerState
<1>4. QED
  BY <1>1, <1>2, <1>3 DEF WorkerLocals

\* A worker that ends a process() call needs no locals.
LEMMA WorkerRests ==
  ASSUME DispatchInv, NEW w \in Workers, worker' = [worker EXCEPT ![w] = IdleWorker]
  PROVE  worker' \in [Workers -> WorkerState] /\ WorkerLocals'
  BY IdleTyped DEF DispatchInv, DispatchTypeOK, WorkerLocals, IdleWorker

\* Untouched jobs stay within their bounds.
LEMMA FrameJobs ==
  ASSUME DispatchInv, UNCHANGED job
  PROVE  job' \in [Orders -> Job] /\ JobsBounded'
  BY DEF DispatchInv, DispatchTypeOK, JobsBounded

\* One job may be replaced by any job within the bounds.
LEMMA JobChange ==
  ASSUME DispatchInv, NEW o \in Orders, NEW j \in Job, job' = [job EXCEPT ![o] = j],
         j.owner # NoWorker => j.state = "active",
         j.state \in {"waiting", "active"} => j.attempts < MaxAttempts /\ j.stalls <= MaxStalled
  PROVE  job' \in [Orders -> Job] /\ JobsBounded'
  BY DEF DispatchInv, DispatchTypeOK, JobsBounded

\* One job may be replaced by any that will not run again.
LEMMA JobNeverWaits ==
  ASSUME NEW o \in Orders, NEW j \in Job, job' = [job EXCEPT ![o] = j], DispatchInv,
         j.owner = NoWorker, j.state \in {"none", "completed", "failed"}
  PROVE  job' \in [Orders -> Job] /\ JobsBounded'
  BY JobChange

\* A new job starts with all its attempts (orders.service.ts:314).
LEMMA EnqueueKeepsDispatch ==
  ASSUME DispatchInv, NEW o \in Orders, EnqueueDispatch(o)
  PROVE  DispatchInv'
<1> DEFINE j == [NoJob EXCEPT !.state = "waiting"]
<1>1. /\ j \in Job
      /\ j.owner = NoWorker
      /\ j.attempts < MaxAttempts
      /\ j.stalls <= MaxStalled
  BY IdleTyped, DispatchAssumption DEF NoJob, Job, JobState
<1>2. job' = [job EXCEPT ![o] = j]
  BY DEF EnqueueDispatch
<1> HIDE DEF j
<1>3. job' \in [Orders -> Job] /\ JobsBounded'
  BY <1>1, <1>2, JobChange
<1>4. QED
  BY <1>3 DEF EnqueueDispatch, CreationGoes, CreationStep, DispatchInv, DispatchTypeOK, WorkerLocals

\* POST /orders keeps the dispatch state typed.
LEMMA CreationKeepsDispatch ==
  ASSUME DispatchInv, NEW o \in Orders, Creation(o)
  PROVE  DispatchInv'
<1>1. CASE EnqueueDispatch(o)
  BY <1>1, EnqueueKeepsDispatch
<1>2. CASE CheckFunds(o) \/ PersistOrder(o) \/ CreationFails(o)
  <2>1. creation' \in [Orders -> CreationStep] /\ UNCHANGED <<job, worker>>
    BY <1>2 DEF CheckFunds, PersistOrder, CreationFails, CreationGoes, CreationStep,
                DispatchInv, DispatchTypeOK
  <2>2. QED
    BY <2>1, FrameJobs DEF DispatchInv, DispatchTypeOK, WorkerLocals
<1>3. QED
  BY <1>1, <1>2 DEF Creation

\* A job that waits after a lost lock has a stall left to spend.
LEMMA StallKeepsDispatch ==
  ASSUME DispatchInv, NEW o \in Orders, JobStalls(o)
  PROVE  DispatchInv'
<1> DEFINE j == [job[o] EXCEPT !.state = IF job[o].stalls < MaxStalled THEN "waiting" ELSE "failed",
                               !.stalls = @ + 1, !.owner = NoWorker]
<1>1. /\ job[o] \in Job
      /\ job[o].attempts < MaxAttempts
      /\ job[o].stalls <= MaxStalled
  BY DEF JobStalls, DispatchInv, DispatchTypeOK, JobsBounded
<1>2. job[o].stalls + 1 \in 0..(MaxStalled + 1)
  BY <1>1, DispatchAssumption DEF Job
<1>3. /\ j.attempts = job[o].attempts
      /\ j.stalls = job[o].stalls + 1
      /\ j.owner = NoWorker
      /\ j.state = IF job[o].stalls < MaxStalled THEN "waiting" ELSE "failed"
  BY <1>1 DEF Job
<1>4. j \in Job
  BY <1>1, <1>2 DEF Job, JobState
<1>5. job' = [job EXCEPT ![o] = j]
  BY <1>1 DEF JobStalls, Job
<1> HIDE DEF j
<1>6. j.state \in {"waiting", "active"} => j.attempts < MaxAttempts /\ j.stalls <= MaxStalled
  BY <1>1, <1>3, DispatchAssumption DEF Job
<1>7. job' \in [Orders -> Job] /\ JobsBounded'
  BY <1>3, <1>4, <1>5, <1>6, JobChange
<1>8. QED
  BY <1>7 DEF JobStalls, DispatchInv, DispatchTypeOK, WorkerLocals

\* A worker that takes a job has its order in hand.
LEMMA TakeKeepsDispatch ==
  ASSUME DispatchInv, NEW w \in Workers, NEW o \in Orders, TakeJob(w, o)
  PROVE  DispatchInv'
<1> DEFINE j == [job[o] EXCEPT !.state = "active", !.owner = w]
           v == [IdleWorker EXCEPT !.pc = "load", !.order = o]
<1>1. /\ job[o] \in Job
      /\ job[o].attempts < MaxAttempts
      /\ job[o].stalls <= MaxStalled
  BY DEF TakeJob, DispatchInv, DispatchTypeOK, JobsBounded
<1>2. /\ j \in Job
      /\ j.state = "active"
      /\ j.attempts < MaxAttempts
      /\ j.stalls <= MaxStalled
  BY <1>1 DEF Job, JobState
<1>3. job' = [job EXCEPT ![o] = j]
  BY <1>1 DEF TakeJob, Job
<1>4. v \in WorkerState /\ v.pc = "load" /\ v.order = o
  BY IdleTyped DEF IdleWorker, WorkerState, WorkerStep
<1>5. worker' = [worker EXCEPT ![w] = v]
  BY DEF TakeJob
<1> HIDE DEF j, v
<1>6. job' \in [Orders -> Job] /\ JobsBounded'
  BY <1>2, <1>3, JobChange
<1>7. worker' \in [Workers -> WorkerState] /\ WorkerLocals'
  BY <1>4, <1>5 DEF DispatchInv, DispatchTypeOK, WorkerLocals
<1>8. QED
  BY <1>6, <1>7 DEF TakeJob, DispatchInv, DispatchTypeOK

\* A job that waits after an error has an attempt left to spend.
LEMMA ThrowKeepsDispatch ==
  ASSUME DispatchInv, NEW w \in Workers, JobThrows(w)
  PROVE  DispatchInv'
<1> DEFINE o == worker[w].order
           j == [job[o] EXCEPT
                  !.state = IF job[o].attempts + 1 < MaxAttempts THEN "waiting" ELSE "failed",
                  !.attempts = @ + 1, !.owner = NoWorker]
<1>1. o \in Orders
  BY DEF JobThrows, DispatchInv, WorkerLocals
<1>2. ASSUME job[o].owner = w PROVE job' \in [Orders -> Job] /\ JobsBounded'
  <2>1. /\ job[o] \in Job
        /\ job[o].attempts < MaxAttempts
        /\ job[o].stalls <= MaxStalled
    BY <1>1, <1>2, DispatchAssumption DEF DispatchInv, DispatchTypeOK, JobsBounded
  <2>2. job[o].attempts + 1 \in 0..MaxAttempts
    BY <2>1, DispatchAssumption DEF Job
  <2>3. /\ j.attempts = job[o].attempts + 1
        /\ j.stalls = job[o].stalls
        /\ j.owner = NoWorker
        /\ j.state = IF job[o].attempts + 1 < MaxAttempts THEN "waiting" ELSE "failed"
    BY <2>1 DEF Job
  <2>4. j \in Job
    BY <2>1, <2>2 DEF Job, JobState
  <2>5. job' = [job EXCEPT ![o] = j]
    BY <1>1, <1>2, <2>1 DEF JobThrows, Job
  <2>6. j.state \in {"waiting", "active"} => j.attempts < MaxAttempts /\ j.stalls <= MaxStalled
    BY <2>1, <2>3
  <2> HIDE DEF j
  <2>7. QED
    BY <1>1, <2>3, <2>4, <2>5, <2>6, JobChange
<1>3. ASSUME job[o].owner # w PROVE job' \in [Orders -> Job] /\ JobsBounded'
  BY <1>3, FrameJobs DEF JobThrows
<1>4. job' \in [Orders -> Job] /\ JobsBounded'
  BY <1>2, <1>3
<1>5. worker' \in [Workers -> WorkerState] /\ WorkerLocals'
  BY WorkerRests DEF JobThrows
<1>6. QED
  BY <1>4, <1>5 DEF JobThrows, DispatchInv, DispatchTypeOK

\* A crash gives up the lock and the locals.
LEMMA CrashKeepsDispatch ==
  ASSUME DispatchInv, NEW w \in Workers, WorkerCrashes(w)
  PROVE  DispatchInv'
<1> DEFINE o == worker[w].order
           j == [job[o] EXCEPT !.owner = NoWorker]
<1>1. o \in Orders
  BY DEF WorkerCrashes, DispatchInv, WorkerLocals
<1>2. ASSUME job[o].owner = w PROVE job' \in [Orders -> Job] /\ JobsBounded'
  <2>1. /\ job[o] \in Job
        /\ job[o].attempts < MaxAttempts
        /\ job[o].stalls <= MaxStalled
    BY <1>1, <1>2, DispatchAssumption DEF DispatchInv, DispatchTypeOK, JobsBounded
  <2>2. /\ j \in Job
        /\ j.owner = NoWorker
        /\ j.attempts = job[o].attempts
        /\ j.stalls = job[o].stalls
    BY <2>1 DEF Job
  <2>3. job' = [job EXCEPT ![o] = j]
    BY <1>1, <1>2, <2>1 DEF WorkerCrashes, Job
  <2> HIDE DEF j
  <2>4. QED
    BY <1>1, <2>1, <2>2, <2>3, JobChange
<1>3. ASSUME job[o].owner # w PROVE job' \in [Orders -> Job] /\ JobsBounded'
  BY <1>3, FrameJobs DEF WorkerCrashes
<1>4. job' \in [Orders -> Job] /\ JobsBounded'
  BY <1>2, <1>3
<1>5. worker' \in [Workers -> WorkerState] /\ WorkerLocals'
  BY WorkerRests DEF WorkerCrashes
<1>6. QED
  BY <1>4, <1>5 DEF WorkerCrashes, DispatchInv, DispatchTypeOK

\* A job that ends gives up the lock and the locals.
LEMMA FinishKeepsDispatch ==
  ASSUME DispatchInv, NEW w \in Workers, FinishJob(w)
  PROVE  DispatchInv'
<1> DEFINE o == worker[w].order
           j == [job[o] EXCEPT !.state = "completed", !.owner = NoWorker]
<1>1. o \in Orders
  BY DEF FinishJob, DispatchInv, WorkerLocals
<1>2. ASSUME job[o].owner = w PROVE job' \in [Orders -> Job] /\ JobsBounded'
  <2>1. job[o] \in Job
    BY <1>1 DEF DispatchInv, DispatchTypeOK
  <2>2. j \in Job /\ j.owner = NoWorker /\ j.state = "completed"
    BY <2>1 DEF Job, JobState
  <2>3. job' = [job EXCEPT ![o] = j]
    BY <1>1, <1>2, <2>1 DEF FinishJob, Job
  <2> HIDE DEF j
  <2>4. QED
    BY <1>1, <2>2, <2>3, JobNeverWaits
<1>3. ASSUME job[o].owner # w PROVE job' \in [Orders -> Job] /\ JobsBounded'
  BY <1>3, FrameJobs DEF FinishJob
<1>4. job' \in [Orders -> Job] /\ JobsBounded'
  BY <1>2, <1>3
<1>5. worker' \in [Workers -> WorkerState] /\ WorkerLocals'
  BY WorkerRests DEF FinishJob
<1>6. QED
  BY <1>4, <1>5 DEF FinishJob, DispatchInv, DispatchTypeOK

\* The candidate that is kept is a driver (matching.processor.ts:92).
LEMMA FindKeepsDispatch ==
  ASSUME DispatchInv, NEW w \in Workers, FindDriver(w)
  PROVE  DispatchInv'
<1>1. ASSUME NEW d \in Drivers, worker' = [worker EXCEPT ![w].pc = "settle", ![w].candidate = d]
      PROVE  worker' \in [Workers -> WorkerState] /\ WorkerLocals'
  <2> DEFINE x == [worker[w] EXCEPT !.pc = "settle", !.candidate = d]
  <2>1. x \in WorkerState /\ worker' = [worker EXCEPT ![w] = x]
    <3>1. worker[w] \in WorkerState
      BY DEF DispatchInv, DispatchTypeOK
    <3>2. x \in WorkerState
      BY <3>1 DEF WorkerState, WorkerStep
    <3>3. QED
      BY <1>1, <3>2
  <2>2. worker' \in [Workers -> WorkerState]
    BY <2>1 DEF DispatchInv, DispatchTypeOK
  <2>3. \A v \in Workers : v # w => worker'[v] = worker[v]
    BY <1>1 DEF DispatchInv, DispatchTypeOK
  <2>4. /\ worker'[w].candidate = d
        /\ worker'[w].order = worker[w].order
    BY <1>1 DEF DispatchInv, DispatchTypeOK, WorkerState
  <2>5. worker[w].order \in Orders
    BY DEF FindDriver, At, DispatchInv, WorkerLocals
  <2>6. QED
    BY <2>2, <2>3, <2>4, <2>5 DEF DispatchInv, WorkerLocals
<1>2. ASSUME Goes(w, "cancel") PROVE worker' \in [Workers -> WorkerState] /\ WorkerLocals'
  BY <1>2, WorkerMoves DEF FindDriver, At, WorkerStep
<1>3. worker[w].order \in Orders
  BY DEF FindDriver, At, DispatchInv, WorkerLocals
<1>4. \A o \in Orders : ClosestDrivers(o, AvailableDrivers(o)) \subseteq Drivers
  BY StoreAssumption DEF ClosestDrivers, InRadius, AvailableDrivers
<1>5. \/ Goes(w, "cancel")
      \/ \E d \in Drivers : worker' = [worker EXCEPT ![w].pc = "settle", ![w].candidate = d]
  BY <1>3, <1>4 DEF FindDriver
<1>6. worker' \in [Workers -> WorkerState] /\ WorkerLocals'
  BY <1>1, <1>2, <1>5
<1>7. QED
  BY <1>6, FrameJobs DEF FindDriver, DispatchInv, DispatchTypeOK

\* The balance that is kept is an integer (matching.processor.ts:147).
LEMMA ReadBalanceKeepsDispatch ==
  ASSUME DispatchInv, StoreTypeOK, NEW w \in Workers, ReadBalance(w)
  PROVE  DispatchInv'
<1> DEFINE b == balance[MerchantOf[worker[w].order]]
<1>1. worker[w].order \in Orders /\ worker[w].candidate \in Drivers
  BY DEF ReadBalance, At, DispatchInv, WorkerLocals
<1>2. b \in Int
  BY <1>1, StoreAssumption DEF StoreTypeOK
<1>3. worker' = [worker EXCEPT ![w].pc = "pay", ![w].seen = b]
  BY DEF ReadBalance
<1> HIDE DEF b
<1>4. worker' \in [Workers -> WorkerState]
  <2> DEFINE x == [worker[w] EXCEPT !.pc = "pay", !.seen = b]
  <2>1. worker[w] \in WorkerState
    BY DEF DispatchInv, DispatchTypeOK
  <2>2. x \in WorkerState
    BY <1>2, <2>1 DEF WorkerState, WorkerStep
  <2>3. worker' = [worker EXCEPT ![w] = x]
    BY <1>3
  <2> HIDE DEF x
  <2>4. QED
    BY <2>2, <2>3 DEF DispatchInv, DispatchTypeOK
<1>5. \A v \in Workers : v # w => worker'[v] = worker[v]
  BY <1>3 DEF DispatchInv, DispatchTypeOK
<1>6. /\ worker'[w].candidate = worker[w].candidate
      /\ worker'[w].order = worker[w].order
  BY <1>3 DEF DispatchInv, DispatchTypeOK, WorkerState
<1>7. WorkerLocals'
  BY <1>1, <1>5, <1>6 DEF DispatchInv, WorkerLocals
<1>8. QED
  BY <1>4, <1>7, FrameJobs DEF ReadBalance, DispatchInv, DispatchTypeOK

\* Every step of a worker keeps the dispatch state typed.
LEMMA DispatchingKeepsDispatch ==
  ASSUME DispatchInv, StoreTypeOK, NEW w \in Workers, Dispatching(w)
  PROVE  DispatchInv'
<1>1. CASE \E o \in Orders : TakeJob(w, o)
  BY <1>1, TakeKeepsDispatch
<1>2. CASE FindDriver(w)
  BY <1>2, FindKeepsDispatch
<1>3. CASE ReadBalance(w)
  BY <1>3, ReadBalanceKeepsDispatch
<1>4. CASE FinishJob(w)
  BY <1>4, FinishKeepsDispatch
<1>5. CASE JobThrows(w)
  BY <1>5, ThrowKeepsDispatch
<1>6. CASE WorkerCrashes(w)
  BY <1>6, CrashKeepsDispatch
<1>7. CASE \/ LoadOrder(w) \/ MarkMatching(w) \/ CancelUnmatched(w) \/ CancelUnfunded(w)
           \/ Settle(w) \/ NotifyOutcome(w) \/ Broadcast(w)
  <2>1. PICK pc \in WorkerStep \ {"settle", "pay"} : Goes(w, pc)
    BY <1>7 DEF LoadOrder, MarkMatching, CancelUnmatched, CancelUnfunded, Settle,
                NotifyOutcome, Broadcast, WorkerStep
  <2>2. worker[w].pc # "idle" /\ UNCHANGED <<creation, job>>
    BY <1>7 DEF LoadOrder, MarkMatching, CancelUnmatched, CancelUnfunded, Settle,
                NotifyOutcome, Broadcast, At
  <2>3. worker' \in [Workers -> WorkerState] /\ WorkerLocals'
    BY <2>1, <2>2, WorkerMoves
  <2>4. QED
    BY <2>2, <2>3, FrameJobs DEF DispatchInv, DispatchTypeOK
<1>8. QED
  BY <1>1, <1>2, <1>3, <1>4, <1>5, <1>6, <1>7 DEF Dispatching

-----------------------------------------------------------------------------
\* An untouched store stays typed.
LEMMA FrameStore ==
  ASSUME StoreTypeOK, UNCHANGED storeVars
  PROVE  StoreTypeOK'
  BY DEF StoreTypeOK, storeVars, ledgerVars, proofVars

\* A status may be overwritten by any status of the enum.
LEMMA StatusKeepsStore ==
  ASSUME StoreTypeOK, NEW o \in Orders, NEW s \in OrderStatus,
         status' = [status EXCEPT ![o] = s],
         UNCHANGED <<assignedDriver, driverStatus, ledgerVars, photos, notices>>
  PROVE  StoreTypeOK'
  BY DEF StoreTypeOK, ledgerVars

\* A notification may be added to an order.
LEMMA NoticeKeepsStore ==
  ASSUME StoreTypeOK, NEW o \in Orders, NEW n \in NotificationType,
         notices' = [notices EXCEPT ![o] = @ \cup {n}],
         UNCHANGED <<status, assignedDriver, driverStatus, ledgerVars, photos>>
  PROVE  StoreTypeOK'
  BY DEF StoreTypeOK, ledgerVars

\* Every order has a merchant to bill and a price.
LEMMA BillTyped == \A o \in Orders : MerchantOf[o] \in Merchants /\ Price[o] \in Nat
  BY StoreAssumption

\* The settlement writes integers and counters of rows.
LEMMA SettleKeepsStore ==
  ASSUME StoreTypeOK, NEW o \in Orders, NEW d \in Drivers, SettlementWrites(o, d),
         UNCHANGED <<photos, notices>>
  PROVE  StoreTypeOK'
<1> USE DEF StoreTypeOK, SettlementWrites
<1>1. status' \in [Orders -> OrderStatus \cup {"NONE"}]
  BY DEF OrderStatus
<1>2. assignedDriver' \in [Orders -> Drivers \cup {NoDriver}]
  OBVIOUS
<1>3. driverStatus' \in [Drivers -> DriverStatus]
  BY DEF DriverStatus
<1>4. balance' \in [Merchants -> Int]
  <2>1. MerchantOf[o] \in Merchants /\ Price[o] \in Int
    BY BillTyped
  <2>2. balance[MerchantOf[o]] - Price[o] \in Int
    BY <2>1
  <2>3. QED
    BY <2>1, <2>2
<1>5. debits' \in [Orders -> Nat]
  OBVIOUS
<1>6. credits' \in [Orders -> [Drivers -> Nat]]
  OBVIOUS
<1>7. QED
  BY <1>1, <1>2, <1>3, <1>4, <1>5, <1>6

\* POST /orders keeps the store typed.
LEMMA CreationKeepsStore ==
  ASSUME StoreTypeOK, NEW o \in Orders, Creation(o)
  PROVE  StoreTypeOK'
<1>1. CASE PersistOrder(o)
  BY <1>1, StatusKeepsStore DEF PersistOrder, OrderStatus, proofVars
<1>2. CASE UNCHANGED storeVars
  BY <1>2, FrameStore
<1>3. QED
  BY <1>1, <1>2 DEF Creation, CheckFunds, EnqueueDispatch, CreationFails

\* Every step of a worker keeps the store typed.
LEMMA DispatchingKeepsStore ==
  ASSUME StoreTypeOK, DispatchInv, NEW w \in Workers, Dispatching(w)
  PROVE  StoreTypeOK'
<1> DEFINE o == worker[w].order
<1>1. worker[w].pc # "idle" => o \in Orders
  BY DEF DispatchInv, WorkerLocals
<1>2. CASE MarkMatching(w)
  BY <1>1, <1>2, StatusKeepsStore DEF MarkMatching, At, OrderStatus, proofVars
<1>3. CASE CancelUnmatched(w)
  BY <1>1, <1>3, StatusKeepsStore DEF CancelUnmatched, At, OrderStatus, proofVars
<1>4. CASE CancelUnfunded(w)
  BY <1>1, <1>4, StatusKeepsStore DEF CancelUnfunded, At, OrderStatus, proofVars
<1>5. CASE Settle(w)
  <2>1. worker[w].candidate \in Drivers
    BY <1>5 DEF Settle, At, DispatchInv, WorkerLocals
  <2>2. QED
    BY <1>1, <1>5, <2>1, SettleKeepsStore DEF Settle, At, proofVars
<1>6. CASE NotifyOutcome(w)
  <2>1. PICK n \in NotificationType : notices' = [notices EXCEPT ![o] = @ \cup {n}]
    BY <1>6 DEF NotifyOutcome, NotificationType
  <2>2. QED
    BY <1>1, <1>6, <2>1, NoticeKeepsStore DEF NotifyOutcome, proofVars
<1>7. CASE UNCHANGED storeVars
  BY <1>7, FrameStore
<1>8. QED
  BY <1>2, <1>3, <1>4, <1>5, <1>6, <1>7
  DEF Dispatching, TakeJob, LoadOrder, FindDriver, ReadBalance, Broadcast, FinishJob,
      JobThrows, WorkerCrashes

\* The steps of a trip request that write rows of the store.
LEMMA TravellingWrites ==
  ASSUME NEW r \in Requests, Travelling(r)
  PROVE  \/ InsertPhoto(r) \/ MarkPickedUp(r) \/ MarkDelivered(r) \/ NotifyTrip(r)
         \/ UNCHANGED storeVars
<1>1. ASSUME NEW u \in Users, NEW o \in Orders, NEW op \in Operation,
             NEW type \in OrderPhotoType, NEW reason \in BOOLEAN,
             ReadOrder(r, u, o, op, type, reason)
      PROVE  UNCHANGED storeVars
  BY <1>1, Zenon DEF ReadOrder
<1>2. StoreFile(r) => UNCHANGED storeVars
  BY Zenon DEF StoreFile
<1>3. DecideProof(r) => UNCHANGED storeVars
  BY Zenon DEF DecideProof
<1>4. ListPhotos(r) => UNCHANGED storeVars
  BY Zenon DEF ListPhotos
<1>5. RequestFails(r) => UNCHANGED storeVars
  BY Zenon DEF RequestFails
<1>6. QED
  BY <1>1, <1>2, <1>3, <1>4, <1>5, Zenon DEF Travelling

\* Every step of a trip request keeps the store typed.
LEMMA TravellingKeepsStore ==
  ASSUME StoreTypeOK, TripInv, NEW r \in Requests, Travelling(r)
  PROVE  StoreTypeOK'
<1> DEFINE q == request[r]
<1>1. /\ q.pc # "idle" => q.order \in Orders
      /\ q.type \in OrderPhotoType
      /\ q.pc = "write" /\ q.type = "DELIVERY" => q.driver \in Drivers
  BY DEF TripInv, TripTypeOK, RequestLocals, RequestState
<1>2. CASE InsertPhoto(r)
  <2>1. /\ q.order \in Orders
        /\ photos' = [photos EXCEPT ![q.order] = @ \cup {q.type}]
        /\ UNCHANGED <<status, assignedDriver, driverStatus, ledgerVars, notices>>
    BY <1>1, <1>2 DEF InsertPhoto, Step
  <2>2. QED
    BY <1>1, <2>1 DEF StoreTypeOK, ledgerVars
<1>3. CASE MarkPickedUp(r)
  BY <1>1, <1>3, StatusKeepsStore DEF MarkPickedUp, Step, OrderStatus
<1>4. CASE MarkDelivered(r)
  <2>1. /\ q.order \in Orders /\ q.driver \in Drivers
        /\ status' = [status EXCEPT ![q.order] = "DELIVERED"]
        /\ driverStatus' = [driverStatus EXCEPT ![q.driver] = "AVAILABLE"]
        /\ UNCHANGED <<assignedDriver, ledgerVars, photos, notices>>
    BY <1>1, <1>4 DEF MarkDelivered, Step
  <2>2. QED
    BY <2>1 DEF StoreTypeOK, ledgerVars, OrderStatus, DriverStatus
<1>5. CASE NotifyTrip(r)
  <2>1. PICK n \in NotificationType : notices' = [notices EXCEPT ![q.order] = @ \cup {n}]
    BY <1>5, Zenon DEF NotifyTrip, NotificationType
  <2>2. QED
    BY <1>1, <1>5, <2>1, NoticeKeepsStore DEF NotifyTrip, proofVars
<1>6. CASE UNCHANGED storeVars
  BY <1>6, FrameStore
<1>7. QED
  BY <1>2, <1>3, <1>4, <1>5, <1>6, TravellingWrites

-----------------------------------------------------------------------------
\* A free request slot has its type.
LEMMA IdleRequestTyped == IdleRequest \in RequestState
  BY DEF IdleRequest, RequestState, RequestStep, Operation, OrderPhotoType

\* What a request keeps when only its step counter moves.
LEMMA RequestMoves ==
  ASSUME TripInv, NEW r \in Requests, NEW from, NEW to \in RequestStep \ {"decide"},
         Step(r, from, to), from # "idle",
         to \in {"list", "write"} => from \in {"decide", "list"}
  PROVE  request' \in [Requests -> RequestState] /\ RequestLocals'
<1> USE DEF TripInv, TripTypeOK, Step
<1>1. request' \in [Requests -> RequestState]
  BY DEF RequestState
<1>2. \A v \in Requests : v # r => request'[v] = request[v]
  OBVIOUS
<1>3. /\ request'[r].pc = to
      /\ request'[r].order = request[r].order
      /\ request'[r].user = request[r].user
      /\ request'[r].type = request[r].type
      /\ request'[r].driver = request[r].driver
  BY DEF RequestState
<1>4. QED
  BY <1>1, <1>2, <1>3 DEF RequestLocals

\* A proof decision may be recorded in the locals of a request.
LEMMA RequestReplaced ==
  ASSUME TripInv, NEW r \in Requests, NEW x \in RequestState,
         request' = [request EXCEPT ![r] = x], request[r].pc \in {"decide", "list"},
         x.order = request[r].order, x.user = request[r].user, x.type = request[r].type,
         x.driver = request[r].driver
  PROVE  request' \in [Requests -> RequestState] /\ RequestLocals'
  BY DEF TripInv, TripTypeOK, RequestLocals

\* A request that has ended needs no locals.
LEMMA RequestRests ==
  ASSUME TripInv, NEW r \in Requests, request' = [request EXCEPT ![r] = IdleRequest]
  PROVE  request' \in [Requests -> RequestState] /\ RequestLocals'
  BY IdleRequestTyped DEF TripInv, TripTypeOK, RequestLocals, IdleRequest

\* Untouched requests, files and audit rows stay typed.
LEMMA RequestFrame ==
  ASSUME TripInv, UNCHANGED <<tripVars, audit>>
  PROVE  TripInv'
  BY DEF TripInv, TripTypeOK, RequestLocals, tripVars

\* A request that passed its checks has its locals; a delivery, a driver
\* (orders.service.ts:947-951).
LEMMA ReadOrderKeepsTrip ==
  ASSUME TripInv, StoreTypeOK, NEW r \in Requests, NEW u \in Users, NEW o \in Orders,
         NEW op \in Operation, NEW type \in OrderPhotoType, NEW reason \in BOOLEAN,
         ReadOrder(r, u, o, op, type, reason)
  PROVE  TripInv'
<1> DEFINE q == [IdleRequest EXCEPT !.pc = IF op = "photo" THEN "store" ELSE "decide",
                   !.op = op, !.type = type, !.order = o, !.user = u,
                   !.driver = assignedDriver[o], !.reason = reason]
<1>1. assignedDriver[o] \in Drivers \cup {NoDriver}
  BY DEF StoreTypeOK
<1>2. q \in RequestState
  BY <1>1 DEF IdleRequest, RequestState, RequestStep
<1>3. /\ q.order = o
      /\ q.user = u
      /\ q.type = type
      /\ q.driver = assignedDriver[o]
      /\ q.pc \in {"decide", "list", "write"} => op # "photo"
  BY DEF IdleRequest
<1>4. request' = [request EXCEPT ![r] = q]
  BY DEF ReadOrder, Accept
<1> HIDE DEF q
<1>5. request' \in [Requests -> RequestState]
  BY <1>2, <1>4 DEF TripInv, TripTypeOK
<1>6. op # "photo" /\ type = "DELIVERY" => assignedDriver[o] \in Drivers
  BY <1>1 DEF ReadOrder, Operation
<1>7. RequestLocals'
  BY <1>3, <1>4, <1>6 DEF TripInv, TripTypeOK, RequestLocals
<1>8. QED
  BY <1>5, <1>7 DEF ReadOrder, storeVars, proofVars, TripInv, TripTypeOK

\* Every step of a trip request keeps the trip state typed.
LEMMA TravellingKeepsTrip ==
  ASSUME TripInv, StoreTypeOK, NEW r \in Requests, Travelling(r)
  PROVE  TripInv'
<1> DEFINE q == request[r]
<1>1. /\ q \in RequestState
      /\ q.pc # "idle" => q.order \in Orders /\ q.user \in Users
      /\ q.pc \in {"decide", "list", "write"} /\ q.type = "DELIVERY" => q.driver \in Drivers
  BY DEF TripInv, TripTypeOK, RequestLocals
<1>2. ASSUME NEW u \in Users, NEW o \in Orders, NEW op \in Operation,
             NEW type \in OrderPhotoType, NEW reason \in BOOLEAN,
             ReadOrder(r, u, o, op, type, reason)
      PROVE  TripInv'
  BY <1>2, ReadOrderKeepsTrip
<1>3. CASE StoreFile(r)
  <2>1. files' \in [Orders -> SUBSET OrderPhotoType] /\ UNCHANGED audit
    BY <1>1, <1>3 DEF StoreFile, Step, storeVars, proofVars, RequestState, TripInv, TripTypeOK
  <2>2. request' \in [Requests -> RequestState] /\ RequestLocals'
    BY <1>3, RequestMoves DEF StoreFile, RequestStep
  <2>3. QED
    BY <2>1, <2>2 DEF TripInv, TripTypeOK
<1>4. CASE InsertPhoto(r)
  <2>1. ASSUME NEW a \in OrderAuditAction, q.pc # "idle"
        PROVE  Event(q, a, TRUE, FALSE) \in AuditEvent
    BY <1>1, <2>1 DEF Event, AuditEvent
  <2>2. audit' \subseteq AuditEvent /\ UNCHANGED files
    BY <1>4, <2>1 DEF InsertPhoto, Step, OrderAuditAction, TripInv, TripTypeOK
  <2>3. request' \in [Requests -> RequestState] /\ RequestLocals'
    BY <1>4, RequestMoves DEF InsertPhoto, RequestStep
  <2>4. QED
    BY <2>2, <2>3 DEF TripInv, TripTypeOK
<1>5. CASE DecideProof(r)
  <2> DEFINE b == ProofDecision(q.user, q.driver, q.type \in photos[q.order], q.reason) = "skipped"
  <2>1. b \in BOOLEAN
    OBVIOUS
  <2>2. \/ request' = [request EXCEPT ![r] = IdleRequest]
        \/ request' = [request EXCEPT ![r].pc = "list", ![r].skipped = b]
    BY <1>5, Zenon DEF DecideProof
  <2> HIDE DEF b
  <2>3. ASSUME request' = [request EXCEPT ![r].pc = "list", ![r].skipped = b]
        PROVE  request' \in [Requests -> RequestState] /\ RequestLocals'
    <3> DEFINE x == [q EXCEPT !.pc = "list", !.skipped = b]
    <3>1. x \in RequestState
      BY <1>1, <2>1 DEF RequestState, RequestStep
    <3>2. /\ x.order = q.order
          /\ x.user = q.user
          /\ x.type = q.type
          /\ x.driver = q.driver
          /\ x.pc = "list"
      BY <1>1 DEF RequestState
    <3>3. request' = [request EXCEPT ![r] = x]
      BY <2>3
    <3>4. q.pc = "decide"
      BY <1>5 DEF DecideProof
    <3> HIDE DEF x
    <3>5. QED
      BY <3>1, <3>2, <3>3, <3>4, RequestReplaced
  <2>4. request' \in [Requests -> RequestState] /\ RequestLocals'
    BY <2>2, <2>3, RequestRests
  <2>5. QED
    BY <1>5, <2>4 DEF DecideProof, storeVars, proofVars, TripInv, TripTypeOK
<1>6. CASE ListPhotos(r)
  <2> DEFINE b == q.type \in photos[q.order]
  <2>1. request' = [request EXCEPT ![r].pc = "write", ![r].urls = b]
    BY <1>6 DEF ListPhotos
  <2>2. b \in BOOLEAN
    OBVIOUS
  <2> HIDE DEF b
  <2> DEFINE x == [q EXCEPT !.pc = "write", !.urls = b]
  <2>3. x \in RequestState
    BY <1>1, <2>2 DEF RequestState, RequestStep
  <2>4. /\ x.order = q.order
        /\ x.user = q.user
        /\ x.type = q.type
        /\ x.driver = q.driver
        /\ x.pc = "write"
    BY <1>1 DEF RequestState
  <2>5. request' = [request EXCEPT ![r] = x]
    BY <2>1
  <2>6. q.pc = "list"
    BY <1>6 DEF ListPhotos
  <2> HIDE DEF x
  <2>7. request' \in [Requests -> RequestState] /\ RequestLocals'
    BY <2>3, <2>4, <2>5, <2>6, RequestReplaced
  <2>8. QED
    BY <1>6, <2>7 DEF ListPhotos, storeVars, proofVars, TripInv, TripTypeOK
<1>7. CASE MarkPickedUp(r)
  <2>1. q.pc = "write"
    BY <1>7 DEF MarkPickedUp, Step
  <2>2. Event(q, "JOURNEY_STARTED", q.urls, q.skipped) \in AuditEvent
    BY <1>1, <2>1 DEF Event, AuditEvent, OrderAuditAction, RequestState
  <2>3. audit' \subseteq AuditEvent /\ UNCHANGED files
    BY <1>7, <2>2 DEF MarkPickedUp, TripInv, TripTypeOK
  <2>4. request' \in [Requests -> RequestState] /\ RequestLocals'
    BY <1>7, RequestMoves DEF MarkPickedUp, RequestStep
  <2>5. QED
    BY <2>3, <2>4 DEF TripInv, TripTypeOK
<1>8. CASE MarkDelivered(r)
  <2>1. q.pc = "write"
    BY <1>8 DEF MarkDelivered, Step
  <2>2. ASSUME NEW a \in OrderAuditAction, NEW urls \in BOOLEAN, NEW skipped \in BOOLEAN
        PROVE  Event(q, a, urls, skipped) \in AuditEvent
    BY <1>1, <2>1 DEF Event, AuditEvent
  <2>3. q.urls \in BOOLEAN /\ q.skipped \in BOOLEAN
    BY <1>1 DEF RequestState
  <2>4. audit' \subseteq AuditEvent /\ UNCHANGED files
    BY <1>8, <2>2, <2>3 DEF MarkDelivered, OrderAuditAction, TripInv, TripTypeOK
  <2>5. request' \in [Requests -> RequestState] /\ RequestLocals'
    BY <1>8, RequestMoves DEF MarkDelivered, RequestStep
  <2>6. QED
    BY <2>4, <2>5 DEF TripInv, TripTypeOK
<1>9. CASE NotifyTrip(r)
  BY <1>9, RequestRests DEF NotifyTrip, proofVars, TripInv, TripTypeOK
<1>10. CASE RequestFails(r)
  BY <1>10, RequestRests DEF RequestFails, storeVars, proofVars, TripInv, TripTypeOK
<1>11. QED
  BY <1>2, <1>3, <1>4, <1>5, <1>6, <1>7, <1>8, <1>9, <1>10 DEF Travelling

-----------------------------------------------------------------------------
\* A stalled job touches neither the store nor the trips.
LEMMA StallKeepsRest ==
  ASSUME TypeInv, NEW o \in Orders, JobStalls(o), UNCHANGED tripVars
  PROVE  StoreTypeOK' /\ TripInv'
  BY FrameStore, RequestFrame DEF JobStalls, TypeInv, storeVars, proofVars

\* TypeInv is inductive.
LEMMA StepKeepsTypes ==
  ASSUME TypeInv, [Next]_vars
  PROVE  TypeInv'
<1> USE DEF TypeInv
<1>1. ASSUME NEW o \in Orders, Creation(o)
      PROVE  TypeInv'
  <2>1. UNCHANGED <<tripVars, audit>>
    BY <1>1 DEF Creation, CheckFunds, PersistOrder, EnqueueDispatch, CreationFails,
                storeVars, proofVars
  <2>2. QED
    BY <1>1, <2>1, CreationKeepsStore, CreationKeepsDispatch, RequestFrame
<1>2. ASSUME NEW o \in Orders, JobStalls(o), UNCHANGED tripVars
      PROVE  TypeInv'
  BY <1>2, StallKeepsRest, StallKeepsDispatch
<1>3. ASSUME NEW w \in Workers, Dispatching(w)
      PROVE  TypeInv'
  <2>1. UNCHANGED <<tripVars, audit>>
    BY <1>3 DEF Dispatching, TakeJob, LoadOrder, MarkMatching, FindDriver, CancelUnmatched,
                ReadBalance, CancelUnfunded, Settle, NotifyOutcome, Broadcast, FinishJob,
                JobThrows, WorkerCrashes, storeVars, proofVars
  <2>2. QED
    BY <1>3, <2>1, DispatchingKeepsStore, DispatchingKeepsDispatch, RequestFrame
<1>4. ASSUME NEW r \in Requests, Travelling(r)
      PROVE  TypeInv'
  <2>1. UNCHANGED dispatchVars
    BY <1>4 DEF Travelling
  <2>2. DispatchInv'
    BY <2>1 DEF dispatchVars, DispatchInv, DispatchTypeOK, WorkerLocals, JobsBounded
  <2>3. QED
    BY <1>4, <2>2, TravellingKeepsStore, TravellingKeepsTrip
<1>5. CASE UNCHANGED vars
  BY <1>5 DEF vars, storeVars, ledgerVars, proofVars, dispatchVars, tripVars, StoreTypeOK,
              DispatchInv, DispatchTypeOK, WorkerLocals, JobsBounded, TripInv, TripTypeOK,
              RequestLocals
<1>6. QED
  BY <1>1, <1>2, <1>3, <1>4, <1>5 DEF Next

\* Types hold in every reachable state; in particular no job is attempted more
\* than MaxAttempts times or stalls more than MaxStalled + 1 times.
THEOREM TypeCorrect == Spec => []TypeOK
<1>1. Init => TypeInv
  BY TypeInvInit
<1>2. TypeInv /\ [Next]_vars => TypeInv'
  BY StepKeepsTypes
<1>3. TypeInv => TypeOK
  BY DEF TypeInv, TypeOK, DispatchInv, TripInv
<1>4. QED
  BY <1>1, <1>2, <1>3, PTL DEF Spec

-----------------------------------------------------------------------------
\* The statuses that are shown as PAID (order-display.util.ts:5-19).
LEMMA PaidStatus ==
  \A s : PaymentStatus(s) = "PAID" <=> s \in {"ASSIGNED", "PICKED_UP", "DELIVERED"}
<1>1. \A s : s \in {"ASSIGNED", "PICKED_UP", "DELIVERED"} => PaymentStatus(s) = "PAID"
  BY Zenon DEF PaymentStatus
<1>2. \A s : s = "CANCELLED" => PaymentStatus(s) = "NOT_CHARGED"
  BY SMT DEF PaymentStatus
<1>3. \A s : s \notin {"ASSIGNED", "PICKED_UP", "DELIVERED", "CANCELLED"} => PaymentStatus(s) = "UNPAID"
  BY SMT DEF PaymentStatus
<1>4. QED
  BY <1>1, <1>2, <1>3

\* Only a settlement touches the ledger and the assignment.
LEMMA LedgerStep ==
  ASSUME [Next]_vars
  PROVE  \/ UNCHANGED <<assignedDriver, ledgerVars>>
         \/ \E w \in Workers : Settle(w) /\ UNCHANGED tripVars
<1>1. ASSUME NEW o \in Orders, Creation(o)
      PROVE  UNCHANGED <<assignedDriver, ledgerVars>>
  BY <1>1 DEF Creation, CheckFunds, PersistOrder, EnqueueDispatch, CreationFails, storeVars
<1>2. ASSUME NEW o \in Orders, JobStalls(o)
      PROVE  UNCHANGED <<assignedDriver, ledgerVars>>
  BY <1>2 DEF JobStalls, storeVars
<1>3. ASSUME NEW w \in Workers, Dispatching(w)
      PROVE  \/ UNCHANGED <<assignedDriver, ledgerVars>>
             \/ Settle(w) /\ UNCHANGED tripVars
  BY <1>3 DEF Dispatching, TakeJob, LoadOrder, MarkMatching, FindDriver, CancelUnmatched,
              ReadBalance, CancelUnfunded, NotifyOutcome, Broadcast, FinishJob, JobThrows,
              WorkerCrashes, storeVars
<1>4. ASSUME NEW r \in Requests, Travelling(r)
      PROVE  UNCHANGED <<assignedDriver, ledgerVars>>
  BY <1>4, TravellingWrites DEF InsertPhoto, MarkPickedUp, MarkDelivered, NotifyTrip, storeVars
<1>5. CASE UNCHANGED vars
  BY <1>5 DEF vars, storeVars
<1>6. QED
  BY <1>1, <1>2, <1>3, <1>4, <1>5 DEF Next

\* Who changes a status: the request that creates the order, a worker that
\* handles it, or a trip request in flight.
LEMMA StatusStep ==
  ASSUME TypeInv, [Next]_vars, NEW o \in Orders
  PROVE  \/ status'[o] = status[o]
         \/ PersistOrder(o) /\ status'[o] = "PENDING"
         \/ /\ \E w \in Workers :
                 worker[w].order = o /\ worker[w].pc \in {"mark", "cancel", "pay"}
            /\ status'[o] \in {"MATCHING", "CANCELLED"}
         \/ \E w \in Workers : Settle(w) /\ worker[w].order = o
         \/ /\ \E r \in Requests : request[r].pc = "write" /\ request[r].order = o
            /\ status'[o] \in {"PICKED_UP", "DELIVERED"}
<1> USE DEF TypeInv, StoreTypeOK
<1>1. ASSUME NEW p \in Orders, Creation(p)
      PROVE  \/ status'[o] = status[o]
             \/ PersistOrder(o) /\ status'[o] = "PENDING"
  BY <1>1 DEF Creation, CheckFunds, PersistOrder, EnqueueDispatch, CreationFails, CreationGoes,
              storeVars
<1>2. ASSUME NEW p \in Orders, JobStalls(p)
      PROVE  status'[o] = status[o]
  BY <1>2 DEF JobStalls, storeVars
<1>3. ASSUME NEW w \in Workers, Dispatching(w)
      PROVE  \/ status'[o] = status[o]
             \/ /\ worker[w].order = o /\ worker[w].pc \in {"mark", "cancel", "pay"}
                /\ status'[o] \in {"MATCHING", "CANCELLED"}
             \/ Settle(w) /\ worker[w].order = o
  <2>1. CASE MarkMatching(w) \/ CancelUnmatched(w) \/ CancelUnfunded(w)
    BY <2>1 DEF MarkMatching, CancelUnmatched, CancelUnfunded, At
  <2>2. CASE Settle(w)
    BY <2>2 DEF Settle, SettlementWrites
  <2>3. CASE UNCHANGED status
    BY <2>3
  <2>4. QED
    BY <1>3, <2>1, <2>2, <2>3
    DEF Dispatching, TakeJob, LoadOrder, FindDriver, ReadBalance, NotifyOutcome, Broadcast,
        FinishJob, JobThrows, WorkerCrashes, storeVars
<1>4. ASSUME NEW r \in Requests, Travelling(r)
      PROVE  \/ status'[o] = status[o]
             \/ /\ request[r].pc = "write" /\ request[r].order = o
                /\ status'[o] \in {"PICKED_UP", "DELIVERED"}
  <2>1. CASE MarkPickedUp(r) \/ MarkDelivered(r)
    <3>1. request[r].pc = "write"
      BY <2>1 DEF MarkPickedUp, MarkDelivered, Step
    <3>2. PICK s \in {"PICKED_UP", "DELIVERED"} :
            status' = [status EXCEPT ![request[r].order] = s]
      BY <2>1, Zenon DEF MarkPickedUp, MarkDelivered
    <3>3. QED
      BY <3>1, <3>2
  <2>2. CASE UNCHANGED status
    BY <2>2
  <2>3. QED
    BY <1>4, <2>1, <2>2, TravellingWrites DEF InsertPhoto, NotifyTrip, storeVars
<1>5. CASE UNCHANGED vars
  BY <1>5 DEF vars, storeVars
<1>6. QED
  BY <1>1, <1>2, <1>3, <1>4, <1>5 DEF Next

\* A request in flight keeps its order; a new one has found it on the road.
LEMMA InFlightStep ==
  ASSUME TypeInv, [Next]_vars, NEW r \in Requests, request'[r].pc # "idle"
  PROVE  \/ request[r].pc # "idle" /\ request'[r].order = request[r].order
         \/ request'[r].order \in Orders /\ OnTheRoad(request'[r].order) /\ UNCHANGED storeVars
<1> USE DEF TypeInv, TripInv, TripTypeOK
<1>1. ASSUME NEW v \in Requests, Travelling(v)
      PROVE  \/ request[r].pc # "idle" /\ request'[r].order = request[r].order
             \/ request'[r].order \in Orders /\ OnTheRoad(request'[r].order) /\ UNCHANGED storeVars
  <2>1. ASSUME NEW u \in Users, NEW o \in Orders, NEW op \in Operation,
               NEW type \in OrderPhotoType, NEW reason \in BOOLEAN,
               ReadOrder(v, u, o, op, type, reason)
        PROVE  \/ request[r].pc # "idle" /\ request'[r].order = request[r].order
               \/ request'[r].order \in Orders /\ OnTheRoad(request'[r].order) /\ UNCHANGED storeVars
    <3>1. CASE v = r
      <4>1. request'[r].order = o
        BY <2>1, <3>1 DEF ReadOrder, Accept, IdleRequest
      <4>2. QED
        BY <2>1, <4>1 DEF ReadOrder, UserCanAdvanceTripOrder
    <3>2. CASE v # r
      BY <2>1, <3>2 DEF ReadOrder, Accept
    <3>3. QED
      BY <3>1, <3>2
  <2>2. CASE NotifyTrip(v) \/ RequestFails(v)
    <3>1. request' = [request EXCEPT ![v] = IdleRequest]
      BY <2>2 DEF NotifyTrip, RequestFails
    <3>2. QED
      BY <3>1 DEF IdleRequest
  <2>3. ASSUME NEW from \in RequestStep \ {"idle"}, NEW to, Step(v, from, to)
        PROVE  request[r].pc # "idle" /\ request'[r].order = request[r].order
    BY <2>3 DEF Step, RequestState
  <2>4. CASE StoreFile(v) \/ InsertPhoto(v) \/ MarkPickedUp(v) \/ MarkDelivered(v)
    BY <2>3, <2>4 DEF StoreFile, InsertPhoto, MarkPickedUp, MarkDelivered, RequestStep
  <2>5. CASE DecideProof(v)
    <3> DEFINE q == request[v]
               b == ProofDecision(q.user, q.driver, q.type \in photos[q.order], q.reason) = "skipped"
    <3>1. \/ request' = [request EXCEPT ![v] = IdleRequest]
          \/ request' = [request EXCEPT ![v].pc = "list", ![v].skipped = b]
      BY <2>5, Zenon DEF DecideProof
    <3>2. q.pc = "decide"
      BY <2>5 DEF DecideProof
    <3> HIDE DEF b
    <3>3. CASE request' = [request EXCEPT ![v] = IdleRequest]
      BY <3>3 DEF IdleRequest
    <3>4. CASE request' = [request EXCEPT ![v].pc = "list", ![v].skipped = b]
      BY <3>2, <3>4 DEF RequestState
    <3>5. QED
      BY <3>1, <3>3, <3>4
  <2>6. CASE ListPhotos(v)
    BY <2>6 DEF ListPhotos, RequestState
  <2>7. QED
    BY <1>1, <2>1, <2>2, <2>4, <2>5, <2>6 DEF Travelling
<1>2. CASE UNCHANGED request
  BY <1>2
<1>3. QED
  BY <1>1, <1>2 DEF Next, Creation, Dispatching, vars, tripVars

\* What a settlement leaves behind, and what it leaves alone.
LEMMA SettleEffect ==
  ASSUME TypeInv, NEW w \in Workers, NEW o, o = worker[w].order, Settle(w)
  PROVE  /\ o \in Orders
         /\ Settled(o)'
         /\ debits'[o] = debits[o] + 1
         /\ status'[o] = "ASSIGNED"
         /\ \A p \in Orders \ {o} :
              /\ debits'[p] = debits[p]
              /\ assignedDriver'[p] = assignedDriver[p]
              /\ credits'[p] = credits[p]
              /\ status'[p] = status[p]
<1> DEFINE d == worker[w].candidate
<1>1. o \in Orders /\ d \in Drivers
  BY DEF Settle, At, TypeInv, DispatchInv, WorkerLocals
<1>2. SettlementWrites(o, d)
  BY DEF Settle
<1>3. d # NoDriver
  BY <1>1, StoreAssumption
<1> HIDE DEF d
<1>4. /\ debits'[o] = debits[o] + 1
      /\ status'[o] = "ASSIGNED"
      /\ \A p \in Orders \ {o} :
           /\ debits'[p] = debits[p]
           /\ assignedDriver'[p] = assignedDriver[p]
           /\ credits'[p] = credits[p]
           /\ status'[p] = status[p]
  BY <1>1, <1>2 DEF SettlementWrites, TypeInv, StoreTypeOK
<1>5. assignedDriver'[o] = d /\ credits'[o][d] = credits[o][d] + 1
  BY <1>1, <1>2 DEF SettlementWrites, TypeInv, StoreTypeOK
<1>6. debits[o] \in Nat /\ credits[o][d] \in Nat
  BY <1>1 DEF TypeInv, StoreTypeOK
<1>7. Settled(o)'
  BY <1>3, <1>4, <1>5, <1>6 DEF Settled
<1>8. QED
  BY <1>1, <1>4, <1>7

\* A settlement is never undone.
LEMMA SettledKept ==
  ASSUME TypeInv, [Next]_vars, NEW o \in Orders, Settled(o)
  PROVE  Settled(o)'
<1>1. CASE UNCHANGED <<assignedDriver, ledgerVars>>
  BY <1>1 DEF Settled, ledgerVars
<1>2. ASSUME NEW w \in Workers, Settle(w)
      PROVE  Settled(o)'
  <2>1. CASE o = worker[w].order
    BY <1>2, <2>1, SettleEffect
  <2>2. CASE o # worker[w].order
    BY <1>2, <2>2, SettleEffect DEF Settled
  <2>3. QED
    BY <2>1, <2>2
<1>3. QED
  BY <1>1, <1>2, LedgerStep

\* Nothing is paid for in the initial state.
LEMMA SettledInvInit == Init => SettledInv
<1> SUFFICES ASSUME Init PROVE SettledInv
  OBVIOUS
<1>1. \A o \in Orders : status[o] = "NONE"
  BY DEF Init, StoreInit
<1>2. PaidMeansSettled
  BY <1>1, PaidStatus DEF PaidMeansSettled
<1>3. InFlightMeansSettled
  BY DEF Init, TripInit, IdleRequest, InFlightMeansSettled
<1>4. QED
  BY <1>2, <1>3, TypeInvInit DEF SettledInv

\* SettledInv is inductive.
LEMMA SettledInvStep ==
  ASSUME SettledInv, [Next]_vars
  PROVE  SettledInv'
<1>1. TypeInv /\ TypeInv'
  BY StepKeepsTypes DEF SettledInv
<1>2. \A o \in Orders : PaymentStatus(status[o]) = "PAID" => Settled(o)
  BY DEF SettledInv, PaidMeansSettled, Settled
<1>3. \A r \in Requests : request[r].pc # "idle" => request[r].order \in Orders
                                                    /\ Settled(request[r].order)
  BY <1>1 DEF SettledInv, InFlightMeansSettled, TypeInv, TripInv, RequestLocals
<1>4. ASSUME NEW o \in Orders, PaymentStatus(status'[o]) = "PAID"
      PROVE  Settled(o)'
  <2>1. CASE status'[o] = status[o]
    BY <1>1, <1>2, <1>4, <2>1, SettledKept
  <2>2. CASE status'[o] \in {"PENDING", "MATCHING", "CANCELLED"}
    BY <1>4, <2>2, PaidStatus
  <2>3. CASE \E w \in Workers : Settle(w) /\ worker[w].order = o
    BY <1>1, <2>3, SettleEffect
  <2>4. CASE \E r \in Requests : request[r].pc = "write" /\ request[r].order = o
    <3>1. Settled(o)
      BY <1>3, <2>4
    <3>2. QED
      BY <1>1, <3>1, SettledKept
  <2>5. QED
    BY <1>1, <2>1, <2>2, <2>3, <2>4, StatusStep
<1>5. ASSUME NEW r \in Requests, request'[r].pc # "idle"
      PROVE  \E o \in Orders : o = request'[r].order /\ Settled(o)'
  <2>1. CASE request[r].pc # "idle" /\ request'[r].order = request[r].order
    <3>1. PICK o \in Orders : o = request[r].order /\ Settled(o)
      BY <1>3, <2>1
    <3>2. Settled(o)'
      BY <1>1, <3>1, SettledKept
    <3>3. QED
      BY <2>1, <3>1, <3>2
  <2>2. CASE /\ request'[r].order \in Orders
             /\ OnTheRoad(request'[r].order)
             /\ UNCHANGED storeVars
    <3>1. PICK o \in Orders : o = request'[r].order
      BY <2>2
    <3>2. PaymentStatus(status[o]) = "PAID"
      BY <2>2, <3>1, PaidStatus DEF OnTheRoad
    <3>3. Settled(o)'
      BY <1>1, <1>2, <3>2, SettledKept
    <3>4. QED
      BY <3>1, <3>3
  <2>3. QED
    BY <1>1, <1>5, <2>1, <2>2, InFlightStep
<1>6. PaidMeansSettled'
  BY <1>4 DEF PaidMeansSettled, Settled
<1>7. InFlightMeansSettled'
  BY <1>5 DEF InFlightMeansSettled, Settled
<1>8. QED
  BY <1>1, <1>6, <1>7 DEF SettledInv

\* Whatever the interleaving of workers, crashes, retries and trip requests, an
\* order shown as PAID has a driver, a DEBIT row and that driver's CREDIT row
\* (matching.processor.ts:172-217).
THEOREM PaidOrdersAreSettled == Spec => []PaidMeansSettled
<1>1. Init => SettledInv
  BY SettledInvInit
<1>2. SettledInv /\ [Next]_vars => SettledInv'
  BY SettledInvStep
<1>3. SettledInv => PaidMeansSettled
  BY DEF SettledInv
<1>4. QED
  BY <1>1, <1>2, <1>3, PTL DEF Spec

-----------------------------------------------------------------------------
\* How an order's job changes, and with which worker.
LEMMA JobStep ==
  ASSUME TypeInv, [Next]_vars, NEW o \in Orders
  PROVE  \/ job'[o] = job[o]
         \/ EnqueueDispatch(o)
         \/ \E w \in Workers : TakeJob(w, o)
         \/ job[o].state = "active" /\ job'[o].stalls = job[o].stalls + 1
         \/ \E w \in Workers :
              /\ job[o].owner = w
              /\ worker'[w].pc = "idle"
              /\ job'[o].stalls = job[o].stalls
<1> USE DEF TypeInv, DispatchInv, DispatchTypeOK
<1>1. job[o] \in Job
  OBVIOUS
<1>2. ASSUME NEW p \in Orders, Creation(p)
      PROVE  job'[o] = job[o] \/ EnqueueDispatch(o)
  <2>1. CASE UNCHANGED job
    BY <2>1
  <2>2. CASE EnqueueDispatch(p)
    BY <2>2 DEF EnqueueDispatch
  <2>3. QED
    BY <1>2, <2>1, <2>2 DEF Creation, CheckFunds, PersistOrder, CreationFails
<1>3. ASSUME NEW p \in Orders, JobStalls(p)
      PROVE  \/ job'[o] = job[o]
             \/ job[o].state = "active" /\ job'[o].stalls = job[o].stalls + 1
  BY <1>1, <1>3 DEF JobStalls, Job
<1>4. ASSUME NEW w \in Workers, Dispatching(w)
      PROVE  \/ job'[o] = job[o]
             \/ TakeJob(w, o)
             \/ /\ job[o].owner = w
                /\ worker'[w].pc = "idle"
                /\ job'[o].stalls = job[o].stalls
  <2>1. CASE UNCHANGED job
    BY <2>1
  <2>2. ASSUME NEW p \in Orders, TakeJob(w, p)
        PROVE  job'[o] = job[o] \/ TakeJob(w, o)
    BY <2>2 DEF TakeJob
  <2>3. CASE FinishJob(w)
    BY <1>1, <2>3 DEF FinishJob, IdleWorker, Job
  <2>4. CASE JobThrows(w)
    BY <1>1, <2>4 DEF JobThrows, IdleWorker, Job
  <2>5. CASE WorkerCrashes(w)
    BY <1>1, <2>5 DEF WorkerCrashes, IdleWorker, Job
  <2>6. QED
    BY <1>4, <2>1, <2>2, <2>3, <2>4, <2>5
    DEF Dispatching, LoadOrder, MarkMatching, FindDriver, CancelUnmatched, ReadBalance,
        CancelUnfunded, Settle, NotifyOutcome, Broadcast
<1>5. CASE UNCHANGED job
  BY <1>5
<1>6. QED
  BY <1>2, <1>3, <1>4, <1>5 DEF Next, Travelling, dispatchVars, vars

\* How a worker comes to handle an order, and to be about to decide it.
LEMMA HandlesStep ==
  ASSUME TypeInv, [Next]_vars, NEW o \in Orders, NEW w \in Workers, Handles(w, o)'
  PROVE  /\ Handles(w, o) \/ TakeJob(w, o)
         /\ worker'[w].pc \in {"mark", "find", "cancel", "settle", "pay"} =>
              /\ ~Settle(w)
              /\ \/ worker[w].pc \in {"mark", "find", "cancel", "settle", "pay"}
                 \/ status[o] \in {"PENDING", "MATCHING"} /\ UNCHANGED storeVars
<1> USE DEF TypeInv, DispatchInv, DispatchTypeOK, Handles
<1> DEFINE early == {"mark", "find", "cancel", "settle", "pay"}
<1>1. ASSUME NEW v \in Workers, Dispatching(v), v # w
      PROVE  worker'[w] = worker[w] /\ ~Settle(w)
  <2>1. worker'[w] = worker[w]
    BY <1>1 DEF Dispatching, TakeJob, LoadOrder, MarkMatching, FindDriver, CancelUnmatched,
                ReadBalance, CancelUnfunded, Settle, NotifyOutcome, Broadcast, FinishJob,
                JobThrows, WorkerCrashes, Goes
  <2>2. ~Settle(w)
    BY <2>1 DEF Settle, At, Goes, WorkerState
  <2>3. QED
    BY <2>1, <2>2
<1>2. CASE Dispatching(w)
  <2>1. CASE JobThrows(w) \/ WorkerCrashes(w) \/ FinishJob(w)
    BY <2>1 DEF JobThrows, WorkerCrashes, FinishJob, IdleWorker
  <2>2. ASSUME NEW p \in Orders, TakeJob(w, p)
        PROVE  p = o /\ worker'[w].pc = "load"
    BY <2>2 DEF TakeJob, IdleWorker
  <2>3. CASE LoadOrder(w)
    BY <2>3 DEF LoadOrder, At, Goes, Settle, WorkerState
  <2>4. CASE MarkMatching(w) \/ CancelUnmatched(w) \/ CancelUnfunded(w)
    BY <2>4 DEF MarkMatching, CancelUnmatched, CancelUnfunded, At, Goes, Settle, WorkerState
  <2>5. CASE Settle(w)
    BY <2>5 DEF At, Goes, Settle, WorkerState
  <2>6. CASE NotifyOutcome(w) \/ Broadcast(w)
    BY <2>6 DEF NotifyOutcome, Broadcast, At, Goes, Settle, WorkerState
  <2>7. CASE ReadBalance(w)
    BY <2>7 DEF ReadBalance, At, Goes, Settle, WorkerState
  <2>8. CASE FindDriver(w)
    BY <2>8 DEF FindDriver, At, Goes, Settle, WorkerState
  <2>9. QED
    BY <1>2, <2>1, <2>2, <2>3, <2>4, <2>5, <2>6, <2>7, <2>8 DEF Dispatching
<1>3. ASSUME UNCHANGED worker
      PROVE  worker'[w] = worker[w] /\ ~Settle(w)
  BY <1>3 DEF Settle, At, Goes, WorkerState
<1>4. CASE worker'[w] = worker[w] /\ ~Settle(w)
  BY <1>4
<1>5. Dispatching(w) \/ (worker'[w] = worker[w] /\ ~Settle(w))
  BY <1>1, <1>3 DEF Next, Creation, CheckFunds, PersistOrder, EnqueueDispatch,
                     CreationFails, JobStalls, Travelling, dispatchVars, vars
<1>6. QED
  BY <1>2, <1>4, <1>5

\* An order whose job was never handed out behind a worker's back has not been
\* so before either.
LEMMA StallsStep ==
  ASSUME ChargeInv, [Next]_vars, NEW o \in Orders, job'[o].stalls = 0
  PROVE  job[o].stalls = 0
<1>1. TypeInv /\ job[o] \in Job
  BY DEF ChargeInv, SettledInv, TypeInv, DispatchInv, DispatchTypeOK
<1>2. CASE EnqueueDispatch(o)
  BY <1>2 DEF EnqueueDispatch, CreationGoes, ChargeInv, NotYetCreated, NoJob
<1>3. CASE \E w \in Workers : TakeJob(w, o)
  <2>1. PICK w \in Workers : TakeJob(w, o)
    BY <1>3
  <2>2. job'[o].stalls = job[o].stalls
    BY <1>1, <2>1 DEF TakeJob, Job, TypeInv, DispatchInv, DispatchTypeOK
  <2>3. QED
    BY <2>2
<1>4. job[o].stalls \in Nat
  BY <1>1, DispatchAssumption DEF Job
<1>5. QED
  BY <1>1, <1>2, <1>3, <1>4, JobStep

\* No step lets a second worker handle an order whose job never stalled.
LEMMA LockMeansSoleStep ==
  ASSUME ChargeInv, [Next]_vars
  PROVE  LockMeansSole'
<1> SUFFICES ASSUME NEW o \in Orders, NEW w \in Workers, job'[o].stalls = 0, Handles(w, o)'
             PROVE  job'[o].owner = w
  BY DEF LockMeansSole
<1>1. TypeInv /\ job[o] \in Job
  BY DEF ChargeInv, SettledInv, TypeInv, DispatchInv, DispatchTypeOK
<1>2. CASE TakeJob(w, o)
  BY <1>1, <1>2 DEF TakeJob, TypeInv, DispatchInv, DispatchTypeOK, Job
<1>3. CASE Handles(w, o)
  <2>1. job[o].stalls = 0 /\ job[o].owner = w
    BY <1>3, StallsStep DEF ChargeInv, LockMeansSole
  <2>2. w # NoWorker
    BY DispatchAssumption
  <2>3. job[o] # NoJob /\ job[o].state # "waiting"
    BY <1>1, <2>1, <2>2 DEF NoJob, TypeInv, DispatchInv, JobsBounded
  <2>4. ~EnqueueDispatch(o)
    BY <2>3 DEF EnqueueDispatch, CreationGoes, ChargeInv, NotYetCreated
  <2>5. \A v \in Workers : ~TakeJob(v, o)
    BY <2>3 DEF TakeJob
  <2>6. \A v \in Workers : job[o].owner = v /\ worker'[v].pc = "idle" => FALSE
    BY <2>1 DEF Handles
  <2>7. QED
    BY <1>1, <2>1, <2>4, <2>5, <2>6, JobStep
<1>4. QED
  BY <1>1, <1>2, <1>3, HandlesStep

\* No step charges an order behind the worker that is deciding it.
LEMMA UndecidedStep ==
  ASSUME ChargeInv, [Next]_vars
  PROVE  UndecidedWhileHandled'
<1> DEFINE early == {"mark", "find", "cancel", "settle", "pay"}
<1> SUFFICES ASSUME NEW o \in Orders, NEW w \in Workers, job'[o].stalls = 0, Handles(w, o)',
                    worker'[w].pc \in early
             PROVE  debits'[o] = 0
  BY DEF UndecidedWhileHandled
<1>1. TypeInv
  BY DEF ChargeInv, SettledInv
<1>2. job[o].stalls = 0
  BY StallsStep
<1>3. Handles(w, o)
  <2>1. TakeJob(w, o) => worker'[w].pc = "load"
    BY <1>1 DEF TakeJob, IdleWorker, TypeInv, DispatchInv, DispatchTypeOK
  <2>2. QED
    BY <1>1, <2>1, HandlesStep
<1>4. CASE status[o] \in {"PENDING", "MATCHING"} /\ UNCHANGED storeVars
  BY <1>2, <1>4, PaidStatus DEF ChargeInv, ChargedOnceUnlessStalled, storeVars, ledgerVars
<1>5. CASE worker[w].pc \in early
  <2>1. debits[o] = 0
    BY <1>2, <1>3, <1>5 DEF ChargeInv, UndecidedWhileHandled
  <2>2. CASE UNCHANGED <<assignedDriver, ledgerVars>>
    BY <2>1, <2>2 DEF ledgerVars
  <2>3. ASSUME NEW v \in Workers, Settle(v)
        PROVE  debits'[o] = 0
    <3>1. CASE worker[v].order = o
      <4>1. v = w
        BY <1>2, <1>3, <2>3, <3>1 DEF ChargeInv, LockMeansSole, Handles, Settle, At
      <4>2. QED
        BY <1>1, <2>3, <4>1, HandlesStep
    <3>2. CASE worker[v].order # o
      BY <1>1, <2>1, <2>3, <3>2, SettleEffect
    <3>3. QED
      BY <3>1, <3>2
  <2>4. QED
    BY <2>2, <2>3, LedgerStep
<1>6. QED
  BY <1>1, <1>4, <1>5, HandlesStep

\* No step charges an order twice, or changes what is shown without a charge.
LEMMA ChargedOnceStep ==
  ASSUME ChargeInv, [Next]_vars
  PROVE  ChargedOnceUnlessStalled'
<1> SUFFICES ASSUME NEW o \in Orders, job'[o].stalls = 0
             PROVE  debits'[o] = IF PaymentStatus(status'[o]) = "PAID" THEN 1 ELSE 0
  BY DEF ChargedOnceUnlessStalled
<1>1. TypeInv
  BY DEF ChargeInv, SettledInv
<1>2. job[o].stalls = 0
  BY StallsStep
<1>3. debits[o] = IF PaymentStatus(status[o]) = "PAID" THEN 1 ELSE 0
  BY <1>2 DEF ChargeInv, ChargedOnceUnlessStalled
<1>4. CASE \E w \in Workers : Settle(w) /\ worker[w].order = o
  <2>1. PICK w \in Workers : Settle(w) /\ worker[w].order = o
    BY <1>4
  <2>2. debits[o] = 0
    BY <1>2, <2>1 DEF ChargeInv, UndecidedWhileHandled, Handles, Settle, At
  <2>3. QED
    BY <1>1, <2>1, <2>2, SettleEffect, PaidStatus
<1>5. CASE ~ \E w \in Workers : Settle(w) /\ worker[w].order = o
  <2>1. debits'[o] = debits[o]
    BY <1>1, <1>5, LedgerStep, SettleEffect DEF ledgerVars
  <2>2. CASE status'[o] = status[o]
    BY <1>3, <2>1, <2>2
  <2>3. CASE PersistOrder(o) /\ status'[o] = "PENDING"
    <3>1. status[o] = "NONE"
      BY <2>3 DEF PersistOrder, CreationGoes, ChargeInv, NotYetCreated
    <3>2. QED
      BY <1>3, <2>1, <2>3, <3>1, PaidStatus
  <2>4. CASE /\ \E w \in Workers :
                  worker[w].order = o /\ worker[w].pc \in {"mark", "cancel", "pay"}
             /\ status'[o] \in {"MATCHING", "CANCELLED"}
    <3>1. debits[o] = 0
      BY <1>2, <2>4 DEF ChargeInv, UndecidedWhileHandled, Handles
    <3>2. QED
      BY <2>1, <2>4, <3>1, PaidStatus
  <2>5. CASE /\ \E r \in Requests : request[r].pc = "write" /\ request[r].order = o
             /\ status'[o] \in {"PICKED_UP", "DELIVERED"}
    <3>1. debits[o] >= 1
      BY <2>5 DEF ChargeInv, SettledInv, InFlightMeansSettled, Settled
    <3>2. debits[o] = 1
      BY <1>3, <3>1
    <3>3. QED
      BY <2>1, <2>5, <3>2, PaidStatus
  <2>6. QED
    BY <1>1, <1>5, <2>2, <2>3, <2>4, <2>5, StatusStep
<1>6. QED
  BY <1>4, <1>5

\* The request that creates an order only moves forward.
LEMMA CreationOrder ==
  ASSUME TypeInv, [Next]_vars, NEW o \in Orders
  PROVE  /\ creation'[o] # "ended" => creation[o] # "ended" /\ ~EnqueueDispatch(o)
         /\ creation'[o] \in {"requested", "funded"} =>
              creation[o] \in {"requested", "funded"} /\ ~PersistOrder(o)
<1> USE DEF TypeInv, DispatchInv, DispatchTypeOK
<1>1. ASSUME NEW p \in Orders, Creation(p)
      PROVE  /\ creation'[o] # "ended" => creation[o] # "ended"
             /\ creation'[o] \in {"requested", "funded"} => creation[o] \in {"requested", "funded"}
  BY <1>1 DEF Creation, CheckFunds, PersistOrder, EnqueueDispatch, CreationFails, CreationGoes
<1>2. CASE UNCHANGED creation
  BY <1>2 DEF EnqueueDispatch, PersistOrder, CreationGoes
<1>3. EnqueueDispatch(o) => creation'[o] = "ended"
  BY DEF EnqueueDispatch, CreationGoes
<1>4. PersistOrder(o) => creation'[o] = "committed"
  BY DEF PersistOrder, CreationGoes
<1>5. (\E p \in Orders : Creation(p)) \/ UNCHANGED creation
  <2>1. ASSUME NEW w \in Workers, Dispatching(w)
        PROVE  UNCHANGED creation
    BY <2>1 DEF Dispatching, TakeJob, LoadOrder, MarkMatching, FindDriver, CancelUnmatched,
                ReadBalance, CancelUnfunded, Settle, NotifyOutcome, Broadcast, FinishJob,
                JobThrows, WorkerCrashes
  <2>2. ASSUME NEW r \in Requests, Travelling(r)
        PROVE  UNCHANGED creation
    BY <2>2 DEF Travelling, dispatchVars
  <2>3. QED
    BY <2>1, <2>2 DEF Next, JobStalls, dispatchVars, vars
<1>6. QED
  BY <1>1, <1>2, <1>3, <1>4, <1>5

\* No step touches the row or the job of an order before it is created.
LEMMA NotYetCreatedStep ==
  ASSUME ChargeInv, [Next]_vars
  PROVE  NotYetCreated'
<1>1. TypeInv
  BY DEF ChargeInv, SettledInv
<1>2. NoJob.stalls = 0 /\ NoJob.state = "none" /\ NoJob.owner \notin Workers
  BY DispatchAssumption DEF NoJob
<1>3. ASSUME NEW o \in Orders, creation'[o] # "ended"
      PROVE  job'[o] = NoJob
  <2>1. job[o] = NoJob /\ ~EnqueueDispatch(o)
    BY <1>1, <1>3, CreationOrder DEF ChargeInv, NotYetCreated
  <2>2. \A w \in Workers : ~TakeJob(w, o) /\ job[o].owner # w
    BY <1>2, <2>1 DEF TakeJob
  <2>3. job[o].state # "active"
    BY <1>2, <2>1
  <2>4. QED
    BY <1>1, <2>1, <2>2, <2>3, JobStep
<1>4. ASSUME NEW o \in Orders, creation'[o] \in {"requested", "funded"}
      PROVE  status'[o] = "NONE"
  <2>1. /\ status[o] = "NONE"
        /\ job[o] = NoJob
        /\ ~PersistOrder(o)
    BY <1>1, <1>4, CreationOrder DEF ChargeInv, NotYetCreated
  <2>2. debits[o] = 0
    BY <1>2, <2>1, PaidStatus DEF ChargeInv, ChargedOnceUnlessStalled
  <2>3. ASSUME NEW w \in Workers, Handles(w, o)
        PROVE  FALSE
    BY <1>2, <2>1, <2>3 DEF ChargeInv, LockMeansSole
  <2>4. ASSUME NEW w \in Workers, worker[w].order = o
        PROVE  ~Settle(w) /\ worker[w].pc \notin {"mark", "cancel", "pay"}
    BY <2>3, <2>4 DEF Handles, Settle, At
  <2>5. ASSUME NEW r \in Requests, request[r].order = o
        PROVE  request[r].pc # "write"
    BY <2>2, <2>5 DEF ChargeInv, SettledInv, InFlightMeansSettled, Settled
  <2>6. QED
    BY <1>1, <2>1, <2>4, <2>5, StatusStep
<1>5. QED
  BY <1>3, <1>4 DEF NotYetCreated

\* No order exists in the initial state, and no worker runs.
LEMMA ChargeInvInit == Init => ChargeInv
<1> SUFFICES ASSUME Init PROVE ChargeInv
  OBVIOUS
<1>1. \A o \in Orders : status[o] = "NONE" /\ debits[o] = 0 /\ job[o] = NoJob
  BY DEF Init, StoreInit, DispatchInit
<1>2. \A w \in Workers : worker[w].pc = "idle"
  BY DEF Init, DispatchInit, IdleWorker
<1>3. ChargedOnceUnlessStalled
  BY <1>1, PaidStatus DEF ChargedOnceUnlessStalled
<1>4. QED
  BY <1>1, <1>2, <1>3, SettledInvInit
  DEF ChargeInv, NotYetCreated, LockMeansSole, UndecidedWhileHandled, Handles

\* ChargeInv is inductive.
LEMMA ChargeInvStep ==
  ASSUME ChargeInv, [Next]_vars
  PROVE  ChargeInv'
<1>1. SettledInv
  BY DEF ChargeInv
<1>2. QED
  BY <1>1, SettledInvStep, ChargedOnceStep, NotYetCreatedStep, LockMeansSoleStep, UndecidedStep
  DEF ChargeInv

\* As long as its job is not handed out behind its worker's back, an order is
\* charged exactly once if it is shown as PAID, and never otherwise
\* (matching.processor.ts:51, 146-220).
THEOREM ChargedOnce == Spec => []ChargedOnceUnlessStalled
<1>1. Init => ChargeInv
  BY ChargeInvInit
<1>2. ChargeInv /\ [Next]_vars => ChargeInv'
  BY ChargeInvStep
<1>3. ChargeInv => ChargedOnceUnlessStalled
  BY DEF ChargeInv
<1>4. QED
  BY <1>1, <1>2, <1>3, PTL DEF Spec

=============================================================================
