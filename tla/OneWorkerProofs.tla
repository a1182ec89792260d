-------------------------- MODULE OneWorkerProofs ---------------------------
(***************************************************************************)
(* Proofs for the deployment with one worker, through crashes, retries and *)
(* lost locks, and any number of orders, drivers and merchants:            *)
(*   NobodyOverdraws          []BalanceNeverNegative                       *)
(*   CancelledAreUncharged    []NotChargedMeansNoDebit                     *)
(*   CompletedAreDecided      []CompletedJobIsDecided                      *)
(*   CancellationsAreFinal    []CancelledNoticeIsFinal                     *)
(*   AssignmentsAreKept       AccessIsKept                                 *)
(*   NoDriverIsLeaked         []NoDriverLeaks                              *)
(*   OnlyPickupsTurnBack      StatusesTurnBackOnlyByPickup                 *)
(* These follow from SoleInv of FleetFlowInv (with one worker, what it has *)
(* read before an await still holds when it writes) and NoLeakInv (a trip  *)
(* never goes back behind what an advance has read).  They hold for any    *)
(* number of trip requests in flight.  As long as no two of them advance   *)
(* the same order, RoadInv gives                                           *)
(*   DriversCarryOneOrder       []OneTripPerDriver                         *)
(*   DriversAreFreedByDelivery  []OnTripIffOnTheRoad                       *)
(*   PipelineImplementsLifecycle  RefinesLifecycle                         *)
(* RoadInv is shown along the lifecycle: every step is one of its steps    *)
(* (StepFollows), and those keep the drivers' rows right (RoadKept).       *)
(***************************************************************************)
EXTENDS FleetFlowProofs

\* A step that is not a worker's.
Outside ==
  \/ \E o \in Orders : Creation(o)
  \/ \E o \in Orders : JobStalls(o) /\ UNCHANGED tripVars
  \/ \E r \in Requests : Travelling(r)
  \/ UNCHANGED vars

\* Every step is a worker's or is outside.
LEMMA StepSplits ==
  [Next]_vars => Outside \/ \E w \in Workers : Dispatching(w)
  BY DEF Next, Outside

\* How a job's state changes: it is queued by the request that creates the
\* order, and completed by the worker that handled it.
LEMMA JobStates ==
  ASSUME TypeInv, [Next]_vars, NEW o \in Orders
  PROVE  /\ job[o].state # "none" => job'[o].state # "none"
         /\ job[o].state = "none" /\ job'[o].state # "none" => EnqueueDispatch(o)
         /\ job[o].state # "completed" /\ job'[o].state = "completed" =>
              \E w \in Workers : FinishJob(w) /\ worker[w].order = o
<1> USE DEF TypeInv, DispatchInv, DispatchTypeOK
<1>1. job \in [Orders -> Job] /\ job[o] \in Job
  OBVIOUS
<1>2. CASE job'[o] = job[o]
  BY <1>2
<1>3. ASSUME NEW p \in Orders, Creation(p)
      PROVE  job'[o] = job[o] \/ (EnqueueDispatch(o) /\ job'[o].state = "waiting")
  <2>1. CASE EnqueueDispatch(p)
    BY <1>1, <2>1 DEF EnqueueDispatch, NoJob
  <2>2. QED
    BY <1>3, <2>1 DEF Creation, CheckFunds, PersistOrder, CreationFails
<1>4. ASSUME NEW p \in Orders, JobStalls(p)
      PROVE  job'[o] = job[o] \/ (job[o].state = "active" /\ job'[o].state \in {"waiting", "failed"})
  BY <1>1, <1>4 DEF JobStalls, Job
<1>5. ASSUME NEW w \in Workers, Dispatching(w)
      PROVE  \/ job'[o] = job[o]
             \/ job[o].state = "waiting" /\ job'[o].state = "active"
             \/ job[o].state = "active" /\ job'[o].state \in {"active", "waiting", "failed"}
             \/ /\ job[o].state = "active" /\ job'[o].state = "completed"
                /\ FinishJob(w) /\ worker[w].order = o
  <2>1. ASSUME NEW p \in Orders, TakeJob(w, p)
        PROVE  job'[o] = job[o] \/ (job[o].state = "waiting" /\ job'[o].state = "active")
    BY <1>1, <2>1 DEF TakeJob, Job
  <2>2. CASE UNCHANGED job
    BY <2>2
  <2>3. ASSUME worker[w].order = o, job[o].owner = w
        PROVE  job[o].state = "active"
    BY <2>3, DispatchAssumption DEF JobsBounded
  <2>4. CASE FinishJob(w)
    BY <1>1, <2>3, <2>4 DEF FinishJob, Job
  <2>5. CASE JobThrows(w)
    BY <1>1, <2>3, <2>5 DEF JobThrows, Job
  <2>6. CASE WorkerCrashes(w)
    BY <1>1, <2>3, <2>6 DEF WorkerCrashes, Job
  <2>7. QED
    BY <1>5, <2>1, <2>2, <2>4, <2>5, <2>6
    DEF Dispatching, LoadOrder, MarkMatching, FindDriver, CancelUnmatched, ReadBalance,
        CancelUnfunded, Settle, NotifyOutcome, Broadcast
<1>6. \/ job'[o] = job[o]
      \/ EnqueueDispatch(o) /\ job'[o].state = "waiting"
      \/ job[o].state = "waiting" /\ job'[o].state = "active"
      \/ job[o].state = "active" /\ job'[o].state \in {"active", "waiting", "failed"}
      \/ /\ job[o].state = "active" /\ job'[o].state = "completed"
         /\ \E w \in Workers : FinishJob(w) /\ worker[w].order = o
  BY <1>3, <1>4, <1>5 DEF Next, Travelling, dispatchVars, vars
<1>7. QED
  BY <1>6

\* What a step outside may do to the row of an order.
LEMMA OutsideStep ==
  ASSUME ChargeInv, Outside, NEW o \in Orders,
         debits[o] >= 1 => PaymentStatus(status[o]) = "PAID"
  PROVE  /\ UNCHANGED <<worker, assignedDriver, ledgerVars>>
         /\ \/ status'[o] = status[o]
            \/ PersistOrder(o) /\ status[o] = "NONE" /\ status'[o] = "PENDING"
            \/ PaymentStatus(status[o]) = "PAID" /\ status'[o] \in {"PICKED_UP", "DELIVERED"}
         /\ "ORDER_CANCELLED" \in notices'[o] => "ORDER_CANCELLED" \in notices[o]
<1>1. TypeInv /\ [Next]_vars
  BY DEF ChargeInv, SettledInv, Outside, Next
<1> USE DEF TypeInv, StoreTypeOK
<1>2. ASSUME NEW p \in Orders, Creation(p)
      PROVE  /\ UNCHANGED <<worker, assignedDriver, ledgerVars, notices>>
             /\ \/ status'[o] = status[o]
                \/ PersistOrder(o) /\ status[o] = "NONE" /\ status'[o] = "PENDING"
  <2>1. CASE PersistOrder(p)
    <3>1. status[p] = "NONE"
      BY <2>1 DEF PersistOrder, CreationGoes, ChargeInv, NotYetCreated
    <3>2. QED
      BY <1>1, <2>1, <3>1 DEF PersistOrder
  <2>2. QED
    BY <1>2, <2>1 DEF Creation, CheckFunds, EnqueueDispatch, CreationFails, storeVars
<1>3. ASSUME NEW p \in Orders, JobStalls(p)
      PROVE  UNCHANGED <<worker, storeVars>>
  BY <1>3 DEF JobStalls
<1>4. ASSUME NEW r \in Requests, Travelling(r)
      PROVE  /\ UNCHANGED <<worker, assignedDriver, ledgerVars>>
             /\ \/ status'[o] = status[o]
                \/ PaymentStatus(status[o]) = "PAID" /\ status'[o] \in {"PICKED_UP", "DELIVERED"}
             /\ "ORDER_CANCELLED" \in notices'[o] => "ORDER_CANCELLED" \in notices[o]
  <2>1. UNCHANGED worker
    BY <1>4 DEF Travelling, dispatchVars
  <2>2. CASE UNCHANGED storeVars
    BY <2>1, <2>2 DEF storeVars
  <2>3. CASE InsertPhoto(r)
    BY <2>1, <2>3 DEF InsertPhoto
  <2>4. CASE NotifyTrip(r)
    <3>1. PICK n : /\ notices' = [notices EXCEPT ![request[r].order] = @ \cup {n}]
                   /\ n \in {"DEPARTURE_PHOTO_UPLOADED", "DELIVERY_PHOTO_UPLOADED",
                             "ORDER_PICKED_UP", "ORDER_DELIVERED"}
      BY <2>4, Zenon DEF NotifyTrip
    <3>2. "ORDER_CANCELLED" \in notices'[o] => "ORDER_CANCELLED" \in notices[o]
      BY <1>1, <3>1
    <3>3. QED
      BY <2>1, <2>4, <3>2 DEF NotifyTrip
  <2>5. CASE MarkPickedUp(r) \/ MarkDelivered(r)
    <3>1. /\ request[r].pc = "write"
          /\ UNCHANGED <<assignedDriver, ledgerVars, notices>>
      BY <2>5 DEF MarkPickedUp, MarkDelivered, Step
    <3>2. PICK s \in {"PICKED_UP", "DELIVERED"} :
            status' = [status EXCEPT ![request[r].order] = s]
      BY <2>5, Zenon DEF MarkPickedUp, MarkDelivered
    <3>3. CASE request[r].order = o
      <4>1. debits[o] >= 1
        BY <3>1, <3>3 DEF ChargeInv, SettledInv, InFlightMeansSettled, Settled
      <4>2. PaymentStatus(status[o]) = "PAID"
        BY <4>1
      <4>3. QED
        BY <1>1, <2>1, <3>1, <3>2, <3>3, <4>2
    <3>4. CASE request[r].order # o
      BY <1>1, <2>1, <3>1, <3>2, <3>4
    <3>5. QED
      BY <3>3, <3>4
  <2>6. QED
    BY <1>4, <2>2, <2>3, <2>4, <2>5, TravellingWrites
<1>5. QED
  BY <1>2, <1>3, <1>4 DEF Outside, vars, storeVars, dispatchVars

\* The request that creates an order commits it before it queues its job.
LEMMA QueuedAreCommitted ==
  ASSUME TypeInv, [Next]_vars, NEW o \in Orders, creation'[o] = "committed",
         creation[o] # "committed"
  PROVE  PersistOrder(o)
<1> USE DEF TypeInv, DispatchInv, DispatchTypeOK
<1>1. ASSUME NEW p \in Orders, Creation(p)
      PROVE  PersistOrder(o)
  <2>1. CASE PersistOrder(p)
    BY <2>1 DEF PersistOrder, CreationGoes
  <2>2. CASE CheckFunds(p) \/ EnqueueDispatch(p) \/ CreationFails(p)
    BY <2>2 DEF CheckFunds, EnqueueDispatch, CreationFails, CreationGoes
  <2>3. QED
    BY <1>1, <2>1, <2>2 DEF Creation
<1>2. ASSUME NEW w \in Workers, Dispatching(w)
      PROVE  UNCHANGED creation
  BY <1>2 DEF Dispatching, TakeJob, LoadOrder, MarkMatching, FindDriver, CancelUnmatched,
              ReadBalance, CancelUnfunded, Settle, NotifyOutcome, Broadcast, FinishJob,
              JobThrows, WorkerCrashes
<1>3. QED
  BY <1>1, <1>2 DEF Next, JobStalls, Travelling, dispatchVars, vars

\* What the rows of an order owe to its status, as a predicate of the row.
RowFits(s, charges, driver, told) ==
  /\ s # "DRAFT"
  /\ PaymentStatus(s) # "PAID" => charges = 0 /\ driver = NoDriver
  /\ told => s = "CANCELLED"

\* SoleInv, row by row.
LEMMA SoleInvFits ==
  ASSUME SoleInv
  PROVE  /\ \A o \in Orders : RowFits(status[o], debits[o], assignedDriver[o],
                                      "ORDER_CANCELLED" \in notices[o])
         /\ \A w \in Workers : worker[w].pc # "idle" =>
              /\ worker[w].order \in Orders
              /\ job[worker[w].order].state # "none"
              /\ status[worker[w].order] \notin {"NONE", "DRAFT"}
              /\ WorkerFits(worker[w].pc, status[worker[w].order])
<1>1. \A w \in Workers : worker[w].pc # "idle" => worker[w].order \in Orders
  BY DEF SoleInv, ChargeInv, SettledInv, TypeInv, DispatchInv, WorkerLocals
<1>2. \A o \in Orders : RowFits(status[o], debits[o], assignedDriver[o],
                                "ORDER_CANCELLED" \in notices[o])
  BY DEF SoleInv, RowFits, JobsAreForOrders, UnpaidIsUncharged, CancelledNoticeIsFinal
<1>3. QED
  BY <1>1, <1>2 DEF SoleInv, WorkerFits, WorkerIsCurrent, JobsAreForOrders, Decided

\* SoleInv holds after a step that fits, row by row.
LEMMA FitsMakeSoleInv ==
  ASSUME SoleInv, [Next]_vars,
         \A o \in Orders : RowFits(status'[o], debits'[o], assignedDriver'[o],
                                   "ORDER_CANCELLED" \in notices'[o]),
         \A w \in Workers : worker'[w].pc # "idle" =>
           /\ job'[worker'[w].order].state # "none"
           /\ WorkerFits(worker'[w].pc, status'[worker'[w].order])
           /\ worker'[w].pc = "pay" =>
                worker'[w].seen = balance'[MerchantOf[worker'[w].order]],
         BalanceNeverNegative',
         \A o \in Orders :
           \/ status'[o] = status[o]
           \/ PersistOrder(o) /\ status'[o] # "NONE"
           \/ status[o] # "NONE" /\ status'[o] # "NONE",
         \A o \in Orders : Decided(o) => Decided(o)',
         \A w \in Workers : FinishJob(w) => UNCHANGED status
  PROVE  SoleInv'
<1>1. TypeInv /\ ChargeInv'
  BY ChargeInvStep DEF SoleInv, ChargeInv, SettledInv
<1>2. UnpaidIsUncharged' /\ CancelledNoticeIsFinal'
  BY DEF RowFits, UnpaidIsUncharged, CancelledNoticeIsFinal
<1>3. WorkerIsCurrent'
  BY DEF WorkerFits, WorkerIsCurrent, Decided
<1>4. ASSUME NEW o \in Orders
      PROVE  /\ status'[o] # "DRAFT"
             /\ job'[o].state # "none" \/ creation'[o] = "committed" => status'[o] # "NONE"
  <2>1. status'[o] # "DRAFT"
    BY DEF RowFits
  <2>2. PersistOrder(o) => status'[o] # "NONE"
    <3>1. PersistOrder(o) => status'[o] = "PENDING"
      BY <1>1 DEF PersistOrder, TypeInv, StoreTypeOK
    <3>2. QED
      BY <3>1
  <2>3. CASE job'[o].state # "none"
    <3>1. job[o].state # "none" \/ EnqueueDispatch(o)
      BY <1>1, <2>3, JobStates
    <3>2. job[o].state # "none" \/ creation[o] = "committed"
      BY <3>1 DEF EnqueueDispatch, CreationGoes
    <3>3. QED
      BY <2>1, <2>2, <3>2 DEF SoleInv, JobsAreForOrders
  <2>4. CASE creation'[o] = "committed"
    BY <1>1, <2>1, <2>2, <2>4, QueuedAreCommitted DEF SoleInv, JobsAreForOrders
  <2>5. QED
    BY <2>1, <2>3, <2>4
<1>5. ASSUME NEW o \in Orders, job'[o].state = "completed"
      PROVE  Decided(o)'
  <2>1. CASE job[o].state = "completed"
    BY <2>1 DEF SoleInv, CompletedJobIsDecided
  <2>2. CASE job[o].state # "completed"
    <3>1. PICK w \in Workers : FinishJob(w) /\ worker[w].order = o
      BY <1>1, <1>5, <2>2, JobStates
    <3>2. Decided(o)
      BY <3>1 DEF FinishJob, SoleInv, WorkerIsCurrent
    <3>3. QED
      BY <3>1, <3>2
  <2>3. QED
    BY <2>1, <2>2
<1>6. JobsAreForOrders' /\ CompletedJobIsDecided'
  BY <1>4, <1>5 DEF JobsAreForOrders, CompletedJobIsDecided
<1>7. QED
  BY <1>1, <1>2, <1>3, <1>6 DEF SoleInv

\* A step outside touches neither the worker, the ledger nor an assignment.
LEMMA OutsideKeeps ==
  ASSUME Outside
  PROVE  UNCHANGED <<worker, assignedDriver, ledgerVars>>
<1>1. ASSUME NEW o \in Orders, Creation(o)
      PROVE  UNCHANGED <<worker, assignedDriver, ledgerVars>>
  BY <1>1 DEF Creation, CheckFunds, PersistOrder, EnqueueDispatch, CreationFails, storeVars
<1>2. ASSUME NEW r \in Requests, Travelling(r)
      PROVE  UNCHANGED <<worker, assignedDriver, ledgerVars>>
  <2>1. UNCHANGED worker
    BY <1>2 DEF Travelling, dispatchVars
  <2>2. QED
    BY <1>2, <2>1, TravellingWrites
    DEF InsertPhoto, MarkPickedUp, MarkDelivered, NotifyTrip, storeVars
<1>3. QED
  BY <1>1, <1>2 DEF Outside, JobStalls, vars, storeVars, dispatchVars

\* A step outside keeps SoleInv: it touches no order the worker may decide.
LEMMA SoleOutside ==
  ASSUME SoleInv, Outside
  PROVE  SoleInv'
<1>1. [Next]_vars /\ TypeInv
  BY DEF Outside, Next, SoleInv, ChargeInv, SettledInv
<1>2. UNCHANGED <<worker, assignedDriver, balance, debits, credits>>
  BY OutsideKeeps DEF ledgerVars
<1>3. ASSUME NEW o \in Orders
      PROVE  /\ RowFits(status'[o], debits'[o], assignedDriver'[o], "ORDER_CANCELLED" \in notices'[o])
             /\ \/ status'[o] = status[o]
                \/ PersistOrder(o) /\ status[o] = "NONE" /\ status'[o] = "PENDING"
                \/ PaymentStatus(status[o]) = "PAID" /\ status'[o] \in {"PICKED_UP", "DELIVERED"}
  <2>1. RowFits(status[o], debits[o], assignedDriver[o], "ORDER_CANCELLED" \in notices[o])
    BY SoleInvFits
  <2>2. /\ \/ status'[o] = status[o]
           \/ PersistOrder(o) /\ status[o] = "NONE" /\ status'[o] = "PENDING"
           \/ PaymentStatus(status[o]) = "PAID" /\ status'[o] \in {"PICKED_UP", "DELIVERED"}
        /\ "ORDER_CANCELLED" \in notices'[o] => "ORDER_CANCELLED" \in notices[o]
    BY <2>1, OutsideStep DEF SoleInv, RowFits
  <2>3. QED
    BY <1>2, <2>1, <2>2, PaidStatus DEF RowFits
<1>4. ASSUME NEW w \in Workers, worker'[w].pc # "idle"
      PROVE  /\ job'[worker'[w].order].state # "none"
             /\ WorkerFits(worker'[w].pc, status'[worker'[w].order])
             /\ worker'[w].pc = "pay" =>
                  worker'[w].seen = balance'[MerchantOf[worker'[w].order]]
  <2>1. /\ worker[w].order \in Orders
        /\ job[worker[w].order].state # "none"
        /\ status[worker[w].order] \notin {"NONE", "DRAFT"}
        /\ WorkerFits(worker[w].pc, status[worker[w].order])
    BY <1>2, <1>4, SoleInvFits
  <2>2. job'[worker[w].order].state # "none"
    BY <1>1, <2>1, JobStates
  <2>3. WorkerFits(worker[w].pc, status'[worker[w].order])
    BY <1>3, <2>1, PaidStatus DEF WorkerFits
  <2>4. worker[w].pc = "pay" => worker[w].seen = balance[MerchantOf[worker[w].order]]
    BY DEF SoleInv, WorkerIsCurrent
  <2>5. QED
    BY <1>2, <2>2, <2>3, <2>4
<1>5. \A o \in Orders : Decided(o) => Decided(o)'
  BY <1>3 DEF Decided
<1>6. \A o \in Orders :
        \/ status'[o] = status[o]
        \/ PersistOrder(o) /\ status'[o] # "NONE"
        \/ status[o] # "NONE" /\ status'[o] # "NONE"
  BY <1>3, PaidStatus
<1>7. BalanceNeverNegative'
  BY <1>2 DEF SoleInv, BalanceNeverNegative
<1>8. \A w \in Workers : ~FinishJob(w)
  BY <1>1, <1>2 DEF FinishJob, IdleWorker, TypeInv, DispatchInv, DispatchTypeOK
<1>9. QED
  BY <1>1, <1>3, <1>4, <1>5, <1>6, <1>7, <1>8, FitsMakeSoleInv

-----------------------------------------------------------------------------
\* A step of the worker that writes no row keeps SoleInv if the worker fits.
LEMMA SoleQuiet ==
  ASSUME SoleInv, OneWorker, NEW w \in Workers, Dispatching(w),
         UNCHANGED <<status, assignedDriver, ledgerVars, notices>>,
         worker'[w].pc # "idle" =>
           /\ worker'[w].order \in Orders
           /\ job[worker'[w].order].state # "none"
           /\ WorkerFits(worker'[w].pc, status[worker'[w].order])
           /\ worker'[w].pc = "pay" => worker'[w].seen = balance[MerchantOf[worker'[w].order]]
  PROVE  SoleInv'
<1>1. [Next]_vars /\ TypeInv
  BY DEF Next, SoleInv, ChargeInv, SettledInv
<1>2. \A o \in Orders : RowFits(status'[o], debits'[o], assignedDriver'[o],
                                "ORDER_CANCELLED" \in notices'[o])
  BY SoleInvFits DEF ledgerVars
<1>3. ASSUME NEW v \in Workers, worker'[v].pc # "idle"
      PROVE  /\ job'[worker'[v].order].state # "none"
             /\ WorkerFits(worker'[v].pc, status'[worker'[v].order])
             /\ worker'[v].pc = "pay" =>
                  worker'[v].seen = balance'[MerchantOf[worker'[v].order]]
  <2>1. v = w
    BY DEF OneWorker
  <2>2. job'[worker'[w].order].state # "none"
    BY <1>1, <1>3, <2>1, JobStates
  <2>3. QED
    BY <1>3, <2>1, <2>2 DEF ledgerVars
<1>4. BalanceNeverNegative'
  BY DEF SoleInv, BalanceNeverNegative, ledgerVars
<1>5. \A o \in Orders : Decided(o) => Decided(o)'
  BY DEF Decided
<1>6. QED
  BY <1>1, <1>2, <1>3, <1>4, <1>5, FitsMakeSoleInv

\* The worker may move an undecided order on.
LEMMA SoleMoves ==
  ASSUME SoleInv, OneWorker, NEW w \in Workers, Dispatching(w), NEW o \in Orders,
         NEW s \in {"MATCHING", "CANCELLED"},
         worker[w].order = o, worker[w].pc # "idle", status[o] \in {"PENDING", "MATCHING"},
         status' = [status EXCEPT ![o] = s],
         UNCHANGED <<assignedDriver, ledgerVars, notices>>,
         worker'[w].order = o, worker'[w].pc # "pay", WorkerFits(worker'[w].pc, s)
  PROVE  SoleInv'
<1>1. [Next]_vars /\ TypeInv
  BY DEF Next, SoleInv, ChargeInv, SettledInv
<1>2. status'[o] = s /\ \A p \in Orders \ {o} : status'[p] = status[p]
  BY <1>1 DEF TypeInv, StoreTypeOK
<1>3. \A p \in Orders : RowFits(status'[p], debits'[p], assignedDriver'[p],
                                "ORDER_CANCELLED" \in notices'[p])
  BY <1>2, SoleInvFits, PaidStatus DEF ledgerVars, RowFits
<1>4. ASSUME NEW v \in Workers, worker'[v].pc # "idle"
      PROVE  /\ job'[worker'[v].order].state # "none"
             /\ WorkerFits(worker'[v].pc, status'[worker'[v].order])
             /\ worker'[v].pc = "pay" =>
                  worker'[v].seen = balance'[MerchantOf[worker'[v].order]]
  <2>1. v = w
    BY DEF OneWorker
  <2>2. job'[o].state # "none"
    BY <1>1, SoleInvFits, JobStates
  <2>3. QED
    BY <1>2, <2>1, <2>2
<1>5. BalanceNeverNegative'
  BY DEF SoleInv, BalanceNeverNegative, ledgerVars
<1>6. \A p \in Orders : Decided(p) => Decided(p)'
  BY <1>2 DEF Decided
<1>7. \A p \in Orders : status'[p] = status[p] \/ (status[p] # "NONE" /\ status'[p] # "NONE")
  BY <1>2
<1>8. \A v \in Workers : FinishJob(v) => UNCHANGED status
  BY DEF FinishJob, storeVars
<1>9. QED
  BY <1>1, <1>3, <1>4, <1>5, <1>6, <1>7, <1>8, FitsMakeSoleInv

\* The settlement charges an order that is undecided and a balance that covers it.
LEMMA SoleSettles ==
  ASSUME SoleInv, OneWorker, NEW w \in Workers, Dispatching(w), Settle(w)
  PROVE  SoleInv'
<1> DEFINE o == worker[w].order
<1>1. [Next]_vars /\ TypeInv
  BY DEF Next, SoleInv, ChargeInv, SettledInv
<1>2. /\ o \in Orders
      /\ worker[w].pc = "pay"
      /\ job[o].state # "none"
      /\ status[o] = "MATCHING"
      /\ worker[w].seen = balance[MerchantOf[o]]
  <2>1. worker[w].pc = "pay"
    BY DEF Settle, At
  <2>2. QED
    BY <2>1, SoleInvFits DEF SoleInv, WorkerIsCurrent
<1>3. /\ worker'[w].pc = "notifyAssigned"
      /\ worker'[w].order = o
      /\ UNCHANGED notices
  BY <1>1 DEF Settle, Goes, TypeInv, DispatchInv, DispatchTypeOK, WorkerState
<1>4. /\ status'[o] = "ASSIGNED"
      /\ \A p \in Orders \ {o} :
           /\ debits'[p] = debits[p]
           /\ assignedDriver'[p] = assignedDriver[p]
           /\ status'[p] = status[p]
  BY <1>1, SettleEffect
<1>5. \A p \in Orders : RowFits(status'[p], debits'[p], assignedDriver'[p],
                                "ORDER_CANCELLED" \in notices'[p])
  BY <1>2, <1>3, <1>4, SoleInvFits, PaidStatus DEF RowFits
<1>6. ASSUME NEW v \in Workers, worker'[v].pc # "idle"
      PROVE  /\ job'[worker'[v].order].state # "none"
             /\ WorkerFits(worker'[v].pc, status'[worker'[v].order])
             /\ worker'[v].pc = "pay" =>
                  worker'[v].seen = balance'[MerchantOf[worker'[v].order]]
  <2>1. v = w
    BY DEF OneWorker
  <2>2. job'[o].state # "none"
    BY <1>1, <1>2, JobStates
  <2>3. QED
    BY <1>3, <1>4, <2>1, <2>2 DEF WorkerFits
<1>7. BalanceNeverNegative'
  <2> SUFFICES ASSUME NEW m \in Merchants
               PROVE  balance'[m] >= 0
    BY DEF BalanceNeverNegative
  <2>1. /\ balance' = [balance EXCEPT ![MerchantOf[o]] = @ - Price[o]]
        /\ worker[w].seen >= Price[o]
    BY DEF Settle, SettlementWrites
  <2>2. /\ balance \in [Merchants -> Int]
        /\ MerchantOf[o] \in Merchants
        /\ Price[o] \in Nat
    BY <1>1, <1>2, BillTyped DEF TypeInv, StoreTypeOK
  <2>3. balance[MerchantOf[o]] \in Int /\ balance[MerchantOf[o]] >= Price[o]
    BY <1>2, <2>1, <2>2
  <2>4. balance[m] >= 0
    BY DEF SoleInv, BalanceNeverNegative
  <2> HIDE DEF o
  <2>5. CASE m = MerchantOf[o]
    BY <2>1, <2>2, <2>3, <2>5
  <2>6. CASE m # MerchantOf[o]
    BY <2>1, <2>2, <2>4, <2>6
  <2>7. QED
    BY <2>5, <2>6
<1>8. \A p \in Orders : Decided(p) => Decided(p)'
  BY <1>2, <1>4 DEF Decided
<1>9. \A p \in Orders : status'[p] = status[p] \/ (status[p] # "NONE" /\ status'[p] # "NONE")
  BY <1>2, <1>4
<1>10. \A v \in Workers : FinishJob(v) => UNCHANGED status
  BY DEF FinishJob, storeVars
<1>11. QED
  BY <1>1, <1>5, <1>6, <1>7, <1>8, <1>9, <1>10, FitsMakeSoleInv

\* The worker tells of a cancellation that stands.
LEMMA SoleNotifies ==
  ASSUME SoleInv, OneWorker, NEW w \in Workers, Dispatching(w), NotifyOutcome(w)
  PROVE  SoleInv'
<1> DEFINE o == worker[w].order
           type == IF At(w, "notifyAssigned") THEN "ORDER_ASSIGNED" ELSE "ORDER_CANCELLED"
<1>1. [Next]_vars /\ TypeInv
  BY DEF Next, SoleInv, ChargeInv, SettledInv
<1>2. /\ worker[w].pc \in {"notifyAssigned", "notifyCancelled"}
      /\ notices' = [notices EXCEPT ![o] = @ \cup {type}]
      /\ worker'[w].pc = "broadcast"
      /\ worker'[w].order = o
      /\ UNCHANGED <<status, assignedDriver, ledgerVars>>
  BY <1>1 DEF NotifyOutcome, Goes, TypeInv, DispatchInv, DispatchTypeOK, WorkerState
<1>3. /\ o \in Orders
      /\ job[o].state # "none"
      /\ WorkerFits(worker[w].pc, status[o])
  BY <1>2, SoleInvFits
<1>4. type = "ORDER_CANCELLED" => status[o] = "CANCELLED"
  BY <1>2, <1>3 DEF At, WorkerFits
<1>5. ASSUME NEW p \in Orders
      PROVE  RowFits(status'[p], debits'[p], assignedDriver'[p], "ORDER_CANCELLED" \in notices'[p])
  <2>1. "ORDER_CANCELLED" \in notices'[p] => status[p] = "CANCELLED"
    <3>1. "ORDER_CANCELLED" \in notices[p] => status[p] = "CANCELLED"
      BY DEF SoleInv, CancelledNoticeIsFinal
    <3> HIDE DEF type
    <3>2. QED
      BY <1>1, <1>2, <1>3, <1>4, <3>1 DEF TypeInv, StoreTypeOK
  <2>2. QED
    BY <1>2, <2>1, SoleInvFits DEF RowFits, ledgerVars
<1>6. ASSUME NEW v \in Workers, worker'[v].pc # "idle"
      PROVE  /\ job'[worker'[v].order].state # "none"
             /\ WorkerFits(worker'[v].pc, status'[worker'[v].order])
             /\ worker'[v].pc = "pay" =>
                  worker'[v].seen = balance'[MerchantOf[worker'[v].order]]
  <2>1. v = w
    BY DEF OneWorker
  <2>2. job'[o].state # "none"
    BY <1>1, <1>3, JobStates
  <2>3. QED
    BY <1>2, <1>3, <2>1, <2>2 DEF WorkerFits
<1>7. BalanceNeverNegative'
  BY <1>2 DEF SoleInv, BalanceNeverNegative, ledgerVars
<1>8. \A p \in Orders : Decided(p) => Decided(p)'
  BY <1>2 DEF Decided
<1>9. QED
  BY <1>1, <1>2, <1>5, <1>6, <1>7, <1>8, FitsMakeSoleInv

\* Every step of the worker keeps SoleInv.
LEMMA SoleDispatch ==
  ASSUME SoleInv, OneWorker, NEW w \in Workers, Dispatching(w)
  PROVE  SoleInv'
<1> DEFINE o == worker[w].order
<1>1. TypeInv
  BY DEF SoleInv, ChargeInv, SettledInv
<1> USE DEF TypeInv, DispatchInv, DispatchTypeOK
<1>2. worker[w].pc # "idle" =>
        /\ o \in Orders
        /\ job[o].state # "none"
        /\ status[o] \notin {"NONE", "DRAFT"}
        /\ status[o] \in OrderStatus
        /\ WorkerFits(worker[w].pc, status[o])
  BY <1>1, SoleInvFits DEF StoreTypeOK
<1>3. ASSUME NEW pc, Goes(w, pc)
      PROVE  worker'[w].pc = pc /\ worker'[w].order = o
  BY <1>1, <1>3 DEF Goes, WorkerState
<1>4. CASE JobThrows(w) \/ WorkerCrashes(w) \/ FinishJob(w)
  <2>1. worker'[w].pc = "idle" /\ UNCHANGED storeVars
    BY <1>1, <1>4 DEF JobThrows, WorkerCrashes, FinishJob, IdleWorker
  <2>2. QED
    BY <2>1, SoleQuiet DEF storeVars
<1>5. ASSUME NEW p \in Orders, TakeJob(w, p)
      PROVE  SoleInv'
  <2>1. /\ worker'[w].pc = "load"
        /\ worker'[w].order = p
        /\ job[p].state = "waiting"
        /\ UNCHANGED storeVars
    BY <1>1, <1>5 DEF TakeJob, IdleWorker
  <2>2. QED
    BY <2>1, SoleQuiet DEF storeVars, WorkerFits
<1>6. CASE LoadOrder(w)
  <2>1. worker[w].pc = "load" /\ UNCHANGED storeVars
    BY <1>6 DEF LoadOrder, At
  <2>2. CASE Goes(w, "mark") /\ status[o] \in {"PENDING", "MATCHING"}
    BY <1>2, <1>3, <2>1, <2>2, SoleQuiet DEF storeVars, WorkerFits
  <2>3. CASE Goes(w, "finish") /\ status[o] \notin {"PENDING", "MATCHING"}
    BY <1>2, <1>3, <2>1, <2>3, SoleQuiet DEF storeVars, WorkerFits, OrderStatus
  <2>4. QED
    BY <1>6, <2>2, <2>3 DEF LoadOrder
<1>7. CASE FindDriver(w)
  <2>1. worker[w].pc = "find" /\ UNCHANGED storeVars
    BY <1>7 DEF FindDriver, At
  <2>2. worker'[w].pc \in {"settle", "cancel"} /\ worker'[w].order = o
    <3>1. \/ Goes(w, "cancel")
          \/ \E d : worker' = [worker EXCEPT ![w].pc = "settle", ![w].candidate = d]
      BY <1>7 DEF FindDriver
    <3>2. QED
      BY <1>1, <3>1 DEF Goes, WorkerState
  <2>3. QED
    BY <1>2, <2>1, <2>2, SoleQuiet DEF storeVars, WorkerFits
<1>8. CASE ReadBalance(w)
  <2>1. /\ worker[w].pc = "settle"
        /\ worker'[w].pc = "pay"
        /\ worker'[w].order = o
        /\ worker'[w].seen = balance[MerchantOf[o]]
        /\ UNCHANGED storeVars
    BY <1>1, <1>8 DEF ReadBalance, At, WorkerState
  <2>2. QED
    BY <1>2, <2>1, SoleQuiet DEF storeVars, WorkerFits
<1>9. CASE Broadcast(w)
  <2>1. worker[w].pc = "broadcast" /\ Goes(w, "finish") /\ UNCHANGED storeVars
    BY <1>9 DEF Broadcast, At
  <2>2. QED
    BY <1>2, <1>3, <2>1, SoleQuiet DEF storeVars, WorkerFits
<1>10. CASE MarkMatching(w)
  <2>1. /\ worker[w].pc = "mark"
        /\ worker'[w].pc = "find"
        /\ worker'[w].order = o
        /\ status' = [status EXCEPT ![o] = "MATCHING"]
        /\ UNCHANGED <<assignedDriver, ledgerVars, notices>>
    BY <1>3, <1>10 DEF MarkMatching, At
  <2>2. status[o] \in {"PENDING", "MATCHING"} /\ WorkerFits("find", "MATCHING")
    BY <1>2, <2>1 DEF WorkerFits
  <2>3. QED
    BY <1>2, <2>1, <2>2, SoleMoves
<1>11. CASE CancelUnmatched(w) \/ CancelUnfunded(w)
  <2>1. /\ worker[w].pc \in {"cancel", "pay"}
        /\ worker'[w].pc = "notifyCancelled"
        /\ worker'[w].order = o
        /\ status' = [status EXCEPT ![o] = "CANCELLED"]
        /\ UNCHANGED <<assignedDriver, ledgerVars, notices>>
    BY <1>3, <1>11 DEF CancelUnmatched, CancelUnfunded, At
  <2>2. status[o] \in {"PENDING", "MATCHING"} /\ WorkerFits("notifyCancelled", "CANCELLED")
    BY <1>2, <2>1 DEF WorkerFits
  <2>3. QED
    BY <1>2, <2>1, <2>2, SoleMoves
<1>12. CASE Settle(w)
  BY <1>12, SoleSettles
<1>13. CASE NotifyOutcome(w)
  BY <1>13, SoleNotifies
<1>14. QED
  BY <1>4, <1>5, <1>6, <1>7, <1>8, <1>9, <1>10, <1>11, <1>12, <1>13 DEF Dispatching

\* SoleInv is inductive with one worker.
LEMMA SoleInvStep ==
  ASSUME SoleInv, OneWorker, [Next]_vars
  PROVE  SoleInv'
  BY SoleOutside, SoleDispatch, StepSplits

\* Balances start at zero or above, and there is no order, job or notice yet.
LEMMA SoleInvInit == Init => SoleInv
<1> SUFFICES ASSUME Init PROVE SoleInv
  OBVIOUS
<1>1. /\ \A o \in Orders : /\ status[o] = "NONE" /\ debits[o] = 0 /\ assignedDriver[o] = NoDriver
                           /\ job[o].state = "none" /\ creation[o] = "requested"
                           /\ notices[o] = {}
      /\ \A w \in Workers : worker[w].pc = "idle"
  BY DEF Init, StoreInit, DispatchInit, NoJob, IdleWorker
<1>2. \A m \in Merchants : balance[m] >= 0
  BY StoreAssumption DEF Init, StoreInit
<1>3. QED
  BY <1>1, <1>2, ChargeInvInit
  DEF SoleInv, UnpaidIsUncharged, WorkerIsCurrent, JobsAreForOrders, BalanceNeverNegative,
      CompletedJobIsDecided, CancelledNoticeIsFinal

\* With one worker, SoleInv holds in every reachable state.
LEMMA SoleInvAlways == ASSUME OneWorker PROVE Spec => []SoleInv
<1>1. SoleInv /\ [Next]_vars => SoleInv'
  BY SoleInvStep
<1>2. QED
  BY <1>1, SoleInvInit, PTL DEF Spec

\* With one worker no merchant is ever in debt, although any number of orders
\* pass the check of createOrder against one balance
\* (orders.service.ts:250, matching.processor.ts:146-170).
THEOREM NobodyOverdraws == OneWorker => (Spec => []BalanceNeverNegative)
<1> SUFFICES ASSUME OneWorker PROVE Spec => []BalanceNeverNegative
  OBVIOUS
<1>1. SoleInv => BalanceNeverNegative
  BY DEF SoleInv
<1>2. QED
  BY <1>1, SoleInvAlways, PTL

\* With one worker what is shown as NOT_CHARGED was never charged
\* (order-display.util.ts:14-16).
THEOREM CancelledAreUncharged == OneWorker => (Spec => []NotChargedMeansNoDebit)
<1> SUFFICES ASSUME OneWorker PROVE Spec => []NotChargedMeansNoDebit
  OBVIOUS
<1>1. SoleInv => NotChargedMeansNoDebit
  BY DEF SoleInv, UnpaidIsUncharged, NotChargedMeansNoDebit
<1>2. QED
  BY <1>1, SoleInvAlways, PTL

\* With one worker a job that the queue drops as completed has been decided
\* (matching.processor.ts:51-60).
THEOREM CompletedAreDecided == OneWorker => (Spec => []CompletedJobIsDecided)
<1> SUFFICES ASSUME OneWorker PROVE Spec => []CompletedJobIsDecided
  OBVIOUS
<1>1. SoleInv => CompletedJobIsDecided
  BY DEF SoleInv
<1>2. QED
  BY <1>1, SoleInvAlways, PTL

\* With one worker an order that was announced as cancelled stays so
\* (matching.processor.ts:96-125).
THEOREM CancellationsAreFinal == OneWorker => (Spec => []CancelledNoticeIsFinal)
<1> SUFFICES ASSUME OneWorker PROVE Spec => []CancelledNoticeIsFinal
  OBVIOUS
<1>1. SoleInv => CancelledNoticeIsFinal
  BY DEF SoleInv
<1>2. QED
  BY <1>1, SoleInvAlways, PTL

-----------------------------------------------------------------------------
\* The parts of RoadInv that the lemmas below read.
LEMMA RoadInvFits ==
  ASSUME RoadInv
  PROVE  /\ SoleInv /\ TypeInv /\ StoreTypeOK
         /\ \A o \in Orders : OnTheRoad(o) => assignedDriver[o] \in Drivers
         /\ \A w \in Workers : worker[w].pc \in {"settle", "pay"} =>
              /\ worker[w].order \in Orders
              /\ status[worker[w].order] = "MATCHING"
              /\ worker[w].candidate \in Drivers
              /\ driverStatus[worker[w].candidate] = "AVAILABLE"
<1>1. SoleInv /\ TypeInv /\ PaidMeansSettled
  BY DEF RoadInv, SoleInv, ChargeInv, SettledInv
<1>2. \A o \in Orders : OnTheRoad(o) => assignedDriver[o] \in Drivers
  BY <1>1, PaidStatus DEF OnTheRoad, PaidMeansSettled, TypeInv, StoreTypeOK
<1>3. QED
  BY <1>1, <1>2 DEF RoadInv, SoleInv, WorkerIsCurrent, CandidateIsFree, TypeInv, DispatchInv,
                    WorkerLocals

\* A request that creates an order places it.
LEMMA CreationFollows ==
  ASSUME SoleInv, NEW o \in Orders, Creation(o)
  PROVE  Lifecycle!Place(o) \/ UNCHANGED Lifecycle!pipeline
<1>1. CASE PersistOrder(o)
  <2>1. status[o] = "NONE"
    BY <1>1 DEF PersistOrder, CreationGoes, SoleInv, ChargeInv, NotYetCreated
  <2>2. QED
    BY <1>1, <2>1 DEF PersistOrder, Lifecycle!Place, Lifecycle!Moves, ledgerVars
<1>2. QED
  BY <1>1 DEF Creation, CheckFunds, EnqueueDispatch, CreationFails, storeVars, ledgerVars,
              Lifecycle!pipeline

\* The worker searches for a driver, gives the order up, or assigns it; a
\* retry that marks an order MATCHING again is a stutter.
LEMMA DispatchFollows ==
  ASSUME RoadInv, OneWorker, NEW w \in Workers, Dispatching(w)
  PROVE  \/ UNCHANGED Lifecycle!pipeline
         \/ \E o \in Orders :
              Lifecycle!Search(o) \/ Lifecycle!GiveUp(o) \/ \E d \in Drivers : Lifecycle!Assign(o, d)
<1> DEFINE o == worker[w].order
<1>1. SoleInv /\ TypeInv /\ StoreTypeOK
  BY RoadInvFits
<1>2. worker[w].pc # "idle" => o \in Orders /\ WorkerFits(worker[w].pc, status[o])
  BY <1>1, SoleInvFits
<1>3. CASE MarkMatching(w)
  <2>1. /\ o \in Orders
        /\ status[o] \in {"PENDING", "MATCHING"}
        /\ status' = [status EXCEPT ![o] = "MATCHING"]
        /\ UNCHANGED <<assignedDriver, driverStatus, balance, debits>>
    BY <1>2, <1>3 DEF MarkMatching, At, WorkerFits, ledgerVars
  <2>2. CASE status[o] = "PENDING"
    BY <2>1, <2>2 DEF Lifecycle!Search, Lifecycle!Moves
  <2>3. CASE status[o] = "MATCHING"
    <3>1. status' = status
      BY <1>1, <2>1, <2>3 DEF StoreTypeOK
    <3>2. QED
      BY <2>1, <3>1 DEF Lifecycle!pipeline
  <2>4. QED
    BY <2>1, <2>2, <2>3
<1>4. CASE CancelUnmatched(w) \/ CancelUnfunded(w)
  <2>1. /\ o \in Orders
        /\ status[o] = "MATCHING"
        /\ status' = [status EXCEPT ![o] = "CANCELLED"]
        /\ UNCHANGED <<assignedDriver, driverStatus, balance, debits>>
    BY <1>2, <1>4 DEF CancelUnmatched, CancelUnfunded, At, WorkerFits, ledgerVars
  <2>2. QED
    BY <2>1 DEF Lifecycle!GiveUp, Lifecycle!Moves
<1>5. CASE Settle(w)
  <2> DEFINE d == worker[w].candidate
  <2>1. worker[w].pc = "pay"
    BY <1>5 DEF Settle, At
  <2>2. /\ o \in Orders
        /\ d \in Drivers
        /\ status[o] = "MATCHING"
        /\ driverStatus[d] = "AVAILABLE"
    BY <2>1, RoadInvFits
  <2>3. \A p \in Orders : ~Lifecycle!Carries(d, p)
    BY <2>2 DEF RoadInv, OnTripIffOnTheRoad, OnTheRoadWith, OnTheRoad, Lifecycle!Carries
  <2>4. balance[MerchantOf[o]] >= Price[o]
    BY <1>1, <1>5, <2>1 DEF Settle, SoleInv, WorkerIsCurrent
  <2>5. SettlementWrites(o, d)
    BY <1>5 DEF Settle
  <2>6. Lifecycle!Assign(o, d)
    BY <2>2, <2>3, <2>4, <2>5 DEF SettlementWrites, Lifecycle!Assign, Lifecycle!Moves
  <2>7. QED
    BY <2>2, <2>6
<1>6. CASE UNCHANGED storeVars
  BY <1>6 DEF storeVars, ledgerVars, Lifecycle!pipeline
<1>7. CASE NotifyOutcome(w)
  BY <1>7 DEF NotifyOutcome, ledgerVars, Lifecycle!pipeline
<1>8. QED
  BY <1>3, <1>4, <1>5, <1>6, <1>7
  DEF Dispatching, TakeJob, LoadOrder, FindDriver, ReadBalance, Broadcast, FinishJob,
      JobThrows, WorkerCrashes

\* A trip request picks the parcel up or delivers it.
LEMMA TravelFollows ==
  ASSUME RoadInv, NEW r \in Requests, Travelling(r)
  PROVE  \/ UNCHANGED Lifecycle!pipeline
         \/ \E o \in Orders : Lifecycle!PickUp(o) \/ Lifecycle!Deliver(o)
<1> DEFINE o == request[r].order
<1>1. request[r].pc = "write" =>
        /\ o \in Orders
        /\ status[o] = RequiredStatus(request[r].type)
        /\ request[r].driver = assignedDriver[o]
  BY RoadInvFits DEF RoadInv, RequestIsCurrent, Advancing, TypeInv, TripInv, RequestLocals
<1>2. CASE MarkPickedUp(r)
  <2>1. /\ o \in Orders
        /\ status[o] = "ASSIGNED"
        /\ status' = [status EXCEPT ![o] = "PICKED_UP"]
        /\ UNCHANGED <<assignedDriver, driverStatus, balance, debits>>
    BY <1>1, <1>2 DEF MarkPickedUp, Step, RequiredStatus, ledgerVars
  <2>2. QED
    BY <2>1 DEF Lifecycle!PickUp, Lifecycle!Moves
<1>3. CASE MarkDelivered(r)
  <2>1. /\ o \in Orders
        /\ status[o] = "PICKED_UP"
        /\ status' = [status EXCEPT ![o] = "DELIVERED"]
        /\ driverStatus' = [driverStatus EXCEPT ![assignedDriver[o]] = "AVAILABLE"]
        /\ UNCHANGED <<assignedDriver, balance, debits>>
    BY <1>1, <1>3 DEF MarkDelivered, Step, RequiredStatus, ledgerVars
  <2>2. QED
    BY <2>1 DEF Lifecycle!Deliver, Lifecycle!Moves
<1>4. CASE InsertPhoto(r) \/ NotifyTrip(r)
  BY <1>4 DEF InsertPhoto, NotifyTrip, ledgerVars, Lifecycle!pipeline
<1>5. CASE UNCHANGED storeVars
  BY <1>5 DEF storeVars, ledgerVars, Lifecycle!pipeline
<1>6. QED
  BY <1>2, <1>3, <1>4, <1>5, TravellingWrites

\* Every step of the system is a step of the lifecycle, or none.
LEMMA StepFollows ==
  ASSUME RoadInv, OneWorker, [Next]_vars
  PROVE  [Lifecycle!Next]_(Lifecycle!pipeline)
<1>1. ASSUME NEW o \in Orders, JobStalls(o)
      PROVE  UNCHANGED Lifecycle!pipeline
  BY <1>1 DEF JobStalls, storeVars, ledgerVars, Lifecycle!pipeline
<1>2. CASE UNCHANGED vars
  BY <1>2 DEF vars, storeVars, ledgerVars, Lifecycle!pipeline
<1>3. QED
  BY <1>1, <1>2, RoadInvFits, CreationFollows, DispatchFollows, TravelFollows
  DEF Next, Lifecycle!Next

\* The drivers' rows still tell who is on the road if neither has changed.
LEMMA RoadUnchanged ==
  ASSUME RoadInv, UNCHANGED <<assignedDriver, driverStatus>>,
         \A o \in Orders : OnTheRoad(o)' <=> OnTheRoad(o)
  PROVE  OneTripPerDriver' /\ OnTripIffOnTheRoad'
  BY DEF RoadInv, OneTripPerDriver, OnTripIffOnTheRoad, OnTheRoadWith

\* A driver is given an order only when it carries none, and freed only by
\* the delivery of the one it carries.
LEMMA RoadKept ==
  ASSUME RoadInv, [Lifecycle!Next]_(Lifecycle!pipeline)
  PROVE  OneTripPerDriver' /\ OnTripIffOnTheRoad'
<1>1. StoreTypeOK /\ \A o \in Orders : OnTheRoad(o) => assignedDriver[o] \in Drivers
  BY RoadInvFits
<1>2. ASSUME NEW o \in Orders,
             \/ Lifecycle!Place(o) \/ Lifecycle!Search(o)
             \/ Lifecycle!GiveUp(o) \/ Lifecycle!PickUp(o)
      PROVE  OneTripPerDriver' /\ OnTripIffOnTheRoad'
  <2>1. UNCHANGED <<assignedDriver, driverStatus>>
    BY <1>2 DEF Lifecycle!Place, Lifecycle!Search, Lifecycle!GiveUp, Lifecycle!PickUp
  <2>2. \A p \in Orders : OnTheRoad(p)' <=> OnTheRoad(p)
    BY <1>1, <1>2 DEF Lifecycle!Place, Lifecycle!Search, Lifecycle!GiveUp, Lifecycle!PickUp,
                      Lifecycle!Moves, OnTheRoad, StoreTypeOK
  <2>3. QED
    BY <2>1, <2>2, RoadUnchanged
<1>3. ASSUME NEW o \in Orders, NEW d \in Drivers, Lifecycle!Assign(o, d)
      PROVE  OneTripPerDriver' /\ OnTripIffOnTheRoad'
  <2>1. /\ OnTheRoad(o)' /\ assignedDriver'[o] = d
        /\ \A p \in Orders \ {o} :
             (OnTheRoad(p)' <=> OnTheRoad(p)) /\ assignedDriver'[p] = assignedDriver[p]
    BY <1>1, <1>3 DEF Lifecycle!Assign, Lifecycle!Moves, OnTheRoad, StoreTypeOK
  <2>2. /\ driverStatus'[d] = "ON_TRIP"
        /\ \A e \in Drivers \ {d} : driverStatus'[e] = driverStatus[e]
    BY <1>1, <1>3 DEF Lifecycle!Assign, StoreTypeOK
  <2>3. /\ ~OnTheRoad(o)
        /\ \A p \in Orders : ~(OnTheRoad(p) /\ assignedDriver[p] = d)
    BY <1>3 DEF Lifecycle!Assign, Lifecycle!Moves, Lifecycle!Carries, OnTheRoad
  <2>4. OneTripPerDriver'
    BY <2>1, <2>3 DEF RoadInv, OneTripPerDriver
  <2>5. OnTripIffOnTheRoad'
    BY <2>1, <2>2, <2>3 DEF RoadInv, OnTripIffOnTheRoad, OnTheRoadWith
  <2>6. QED
    BY <2>4, <2>5
<1>4. ASSUME NEW o \in Orders, Lifecycle!Deliver(o)
      PROVE  OneTripPerDriver' /\ OnTripIffOnTheRoad'
  <2> DEFINE d == assignedDriver[o]
  <2>1. /\ OnTheRoad(o) /\ ~OnTheRoad(o)'
        /\ \A p \in Orders \ {o} : OnTheRoad(p)' <=> OnTheRoad(p)
        /\ UNCHANGED assignedDriver
    BY <1>1, <1>4 DEF Lifecycle!Deliver, Lifecycle!Moves, OnTheRoad, StoreTypeOK
  <2>2. d \in Drivers
    BY <1>1, <2>1
  <2>3. /\ driverStatus'[d] = "AVAILABLE"
        /\ \A e \in Drivers \ {d} : driverStatus'[e] = driverStatus[e]
    BY <1>1, <1>4, <2>2 DEF Lifecycle!Deliver, StoreTypeOK
  <2>4. OneTripPerDriver'
    BY <2>1 DEF RoadInv, OneTripPerDriver
  <2>5. OnTripIffOnTheRoad'
    BY <2>1, <2>2, <2>3 DEF RoadInv, OneTripPerDriver, OnTripIffOnTheRoad, OnTheRoadWith
  <2>6. QED
    BY <2>4, <2>5
<1>5. CASE UNCHANGED Lifecycle!pipeline
  BY <1>5, RoadUnchanged DEF Lifecycle!pipeline, OnTheRoad
<1>6. QED
  BY <1>2, <1>3, <1>4, <1>5 DEF Lifecycle!Next

\* The driver the worker has found stays free: only the worker itself takes one.
LEMMA CandidateStep ==
  ASSUME RoadInv, OneWorker, [Next]_vars
  PROVE  CandidateIsFree'
<1>1. TypeInv /\ StoreTypeOK
  BY RoadInvFits
<1>2. SUFFICES ASSUME NEW w \in Workers, worker'[w].pc \in {"settle", "pay"}
               PROVE  driverStatus'[worker'[w].candidate] = "AVAILABLE"
  BY DEF CandidateIsFree
<1>3. CASE Outside
  <2>1. UNCHANGED worker
    BY <1>3, OutsideKeeps
  <2>2. \A d \in Drivers : driverStatus'[d] = driverStatus[d] \/ driverStatus'[d] = "AVAILABLE"
    <3>1. ASSUME NEW r \in Requests, Travelling(r)
          PROVE  \A d \in Drivers : driverStatus'[d] = driverStatus[d]
                                    \/ driverStatus'[d] = "AVAILABLE"
      BY <1>1, <3>1, TravellingWrites
      DEF InsertPhoto, MarkPickedUp, MarkDelivered, NotifyTrip, storeVars, StoreTypeOK
    <3>2. ASSUME NEW o \in Orders, Creation(o) \/ JobStalls(o)
          PROVE  UNCHANGED driverStatus
      BY <3>2 DEF Creation, CheckFunds, PersistOrder, EnqueueDispatch, CreationFails, JobStalls,
                  storeVars
    <3>3. QED
      BY <1>3, <3>1, <3>2 DEF Outside, vars, storeVars
  <2>3. QED
    BY <1>2, <2>1, <2>2, RoadInvFits
<1>4. CASE Dispatching(w)
  <2> USE DEF TypeInv, DispatchInv, DispatchTypeOK, WorkerState
  <2>1. CASE FindDriver(w)
    <3>1. UNCHANGED driverStatus
      BY <2>1 DEF FindDriver, storeVars
    <3>2. PICK d \in ClosestDrivers(worker[w].order, AvailableDrivers(worker[w].order)) :
            worker' = [worker EXCEPT ![w].pc = "settle", ![w].candidate = d]
      BY <1>1, <1>2, <2>1 DEF FindDriver, Goes
    <3>3. driverStatus[d] = "AVAILABLE"
      BY DEF ClosestDrivers, InRadius, AvailableDrivers
    <3>4. QED
      BY <1>1, <3>1, <3>2, <3>3
  <2>2. CASE ReadBalance(w)
    <3>1. /\ worker[w].pc = "settle"
          /\ worker'[w].candidate = worker[w].candidate
          /\ UNCHANGED driverStatus
      BY <1>1, <2>2 DEF ReadBalance, At, storeVars
    <3>2. QED
      BY <3>1, RoadInvFits
  <2>3. CASE ~FindDriver(w) /\ ~ReadBalance(w)
    <3>1. CASE \E p \in Orders : TakeJob(w, p)
      BY <1>1, <1>2, <3>1 DEF TakeJob, IdleWorker
    <3>2. CASE FinishJob(w) \/ JobThrows(w) \/ WorkerCrashes(w)
      BY <1>1, <1>2, <3>2 DEF FinishJob, JobThrows, WorkerCrashes, IdleWorker
    <3>3. CASE \E pc \in WorkerStep \ {"settle", "pay"} : Goes(w, pc)
      BY <1>1, <1>2, <3>3 DEF Goes
    <3>4. QED
      BY <1>4, <2>3, <3>1, <3>2, <3>3
      DEF Dispatching, LoadOrder, MarkMatching, CancelUnmatched, CancelUnfunded, Settle,
          NotifyOutcome, Broadcast, WorkerStep
  <2>4. QED
    BY <2>1, <2>2, <2>3
<1>5. QED
  BY <1>3, <1>4, StepSplits DEF OneWorker

\* What an advance in flight knows of its order it has known before, or has
\* read in this step.
LEMMA AdvanceStep ==
  ASSUME TypeInv, [Next]_vars, NEW r \in Requests, request'[r].pc \in {"decide", "list", "write"}
  PROVE  \/ /\ Advancing(r)
            /\ request'[r].order = request[r].order
            /\ request'[r].type = request[r].type
            /\ request'[r].driver = request[r].driver
            /\ ~MarkPickedUp(r) /\ ~MarkDelivered(r)
         \/ /\ request'[r].order \in Orders
            /\ status[request'[r].order] = RequiredStatus(request'[r].type)
            /\ request'[r].type \in OrderPhotoType
            /\ request'[r].driver = assignedDriver[request'[r].order]
            /\ UNCHANGED <<status, assignedDriver, driverStatus>>
<1> USE DEF TypeInv, TripInv, TripTypeOK, RequestState, Advancing
<1>1. ASSUME MarkPickedUp(r) \/ MarkDelivered(r)
      PROVE  FALSE
  BY <1>1 DEF MarkPickedUp, MarkDelivered, Step
<1>2. CASE request'[r] = request[r]
  BY <1>1, <1>2
<1>3. CASE Travelling(r)
  <2>1. ASSUME NEW u \in Users, NEW o \in Orders, NEW op \in Operation,
               NEW type \in OrderPhotoType, NEW reason \in BOOLEAN,
               ReadOrder(r, u, o, op, type, reason)
        PROVE  /\ request'[r].order \in Orders
               /\ status[request'[r].order] = RequiredStatus(request'[r].type)
               /\ request'[r].type \in OrderPhotoType
               /\ request'[r].driver = assignedDriver[request'[r].order]
               /\ UNCHANGED <<status, assignedDriver, driverStatus>>
    <3>1. /\ request'[r].order = o
          /\ request'[r].type = type
          /\ request'[r].driver = assignedDriver[o]
      BY <2>1 DEF ReadOrder, Accept, IdleRequest
    <3>2. status[o] = RequiredStatus(type) /\ UNCHANGED <<status, assignedDriver, driverStatus>>
      BY <2>1 DEF ReadOrder, storeVars
    <3>3. QED
      BY <3>1, <3>2
  <2>2. CASE DecideProof(r) \/ ListPhotos(r)
    <3>1. request[r].pc \in {"decide", "list"}
      BY <2>2 DEF DecideProof, ListPhotos
    <3>2. /\ request'[r].order = request[r].order
          /\ request'[r].type = request[r].type
          /\ request'[r].driver = request[r].driver
      BY <2>2 DEF DecideProof, ListPhotos, IdleRequest
    <3>3. QED
      BY <1>1, <3>1, <3>2
  <2>3. CASE StoreFile(r) \/ InsertPhoto(r) \/ MarkPickedUp(r) \/ MarkDelivered(r)
             \/ NotifyTrip(r) \/ RequestFails(r)
    <3>1. \/ Step(r, "store", "insert") \/ Step(r, "insert", "notify") \/ Step(r, "write", "notify")
          \/ request' = [request EXCEPT ![r] = IdleRequest]
      BY <2>3, Zenon DEF StoreFile, InsertPhoto, MarkPickedUp, MarkDelivered, NotifyTrip,
                         RequestFails
    <3>2. request'[r].pc \in {"insert", "notify", "idle"}
      BY <3>1 DEF Step, IdleRequest
    <3>3. QED
      BY <3>2
  <2>4. QED
    BY <1>3, <2>1, <2>2, <2>3 DEF Travelling
<1>4. ASSUME NEW s \in Requests \ {r}, Travelling(s)
      PROVE  request'[r] = request[r]
  BY <1>4 DEF Travelling, ReadOrder, Accept, StoreFile, InsertPhoto, DecideProof, ListPhotos,
              MarkPickedUp, MarkDelivered, NotifyTrip, RequestFails, Step
<1>5. ASSUME \/ \E o \in Orders : Creation(o)
             \/ \E o \in Orders : JobStalls(o) /\ UNCHANGED tripVars
             \/ \E w \in Workers : Dispatching(w)
             \/ UNCHANGED vars
      PROVE  request'[r] = request[r]
  BY <1>5 DEF Creation, Dispatching, tripVars, vars
<1>6. QED
  BY <1>2, <1>3, <1>4, <1>5 DEF Next

\* What an advance has read of its order stays so until it writes, if nobody
\* else advances that order.
LEMMA RequestStays ==
  ASSUME RoadInv, AdvancesTakeTurns, OneWorker, [Next]_vars
  PROVE  RequestIsCurrent'
<1>1. TypeInv /\ StoreTypeOK
  BY RoadInvFits
<1>2. SUFFICES ASSUME NEW r \in Requests, request'[r].pc \in {"decide", "list", "write"}
               PROVE  /\ status'[request'[r].order] = RequiredStatus(request'[r].type)
                      /\ request'[r].driver = assignedDriver'[request'[r].order]
  BY DEF RequestIsCurrent, Advancing
<1>3. CASE /\ status[request'[r].order] = RequiredStatus(request'[r].type)
           /\ request'[r].driver = assignedDriver[request'[r].order]
           /\ UNCHANGED <<status, assignedDriver>>
  BY <1>3
<1>4. CASE /\ Advancing(r)
           /\ request'[r].order = request[r].order
           /\ request'[r].type = request[r].type
           /\ request'[r].driver = request[r].driver
           /\ ~MarkPickedUp(r) /\ ~MarkDelivered(r)
  <2> DEFINE o == request[r].order
  <2>1. /\ o \in Orders
        /\ status[o] = RequiredStatus(request[r].type)
        /\ request[r].driver = assignedDriver[o]
    BY <1>1, <1>4 DEF RoadInv, RequestIsCurrent, Advancing, TypeInv, TripInv, RequestLocals
  <2>2. status[o] \in {"ASSIGNED", "PICKED_UP"}
    BY <2>1 DEF RequiredStatus
  <2>3. ASSUME NEW p \in Orders,
               \/ Lifecycle!Place(p) \/ Lifecycle!Search(p) \/ Lifecycle!GiveUp(p)
               \/ \E d \in Drivers : Lifecycle!Assign(p, d)
        PROVE  status'[o] = status[o] /\ assignedDriver'[o] = assignedDriver[o]
    <3>1. p # o
      BY <2>2, <2>3 DEF Lifecycle!Place, Lifecycle!Search, Lifecycle!GiveUp, Lifecycle!Assign,
                        Lifecycle!Moves
    <3>2. QED
      BY <1>1, <2>1, <2>3, <3>1
      DEF Lifecycle!Place, Lifecycle!Search, Lifecycle!GiveUp, Lifecycle!Assign,
          Lifecycle!Moves, StoreTypeOK
  <2>4. ASSUME NEW p \in Orders, Creation(p) \/ JobStalls(p)
        PROVE  status'[o] = status[o] /\ assignedDriver'[o] = assignedDriver[o]
    BY <2>3, <2>4, RoadInvFits, CreationFollows DEF JobStalls, storeVars, Lifecycle!pipeline
  <2>5. ASSUME NEW w \in Workers, Dispatching(w)
        PROVE  status'[o] = status[o] /\ assignedDriver'[o] = assignedDriver[o]
    BY <2>3, <2>5, DispatchFollows DEF Lifecycle!pipeline
  <2>6. ASSUME NEW s \in Requests, Travelling(s)
        PROVE  status'[o] = status[o] /\ assignedDriver'[o] = assignedDriver[o]
    <3>1. CASE MarkPickedUp(s) \/ MarkDelivered(s)
      <4>1. s # r /\ request[s].pc = "write"
        BY <1>4, <3>1 DEF MarkPickedUp, MarkDelivered, Step
      <4>2. request[s].order # o
        BY <1>4, <4>1 DEF AdvancesTakeTurns, Advancing
      <4>3. QED
        BY <1>1, <2>1, <3>1, <4>2 DEF MarkPickedUp, MarkDelivered, StoreTypeOK
    <3>2. CASE InsertPhoto(s) \/ NotifyTrip(s) \/ UNCHANGED storeVars
      BY <3>2 DEF InsertPhoto, NotifyTrip, storeVars
    <3>3. QED
      BY <2>6, <3>1, <3>2, TravellingWrites
  <2>7. status'[o] = status[o] /\ assignedDriver'[o] = assignedDriver[o]
    BY <2>4, <2>5, <2>6 DEF Next, vars, storeVars
  <2>8. QED
    BY <1>4, <2>1, <2>7
<1>5. QED
  BY <1>1, <1>2, <1>3, <1>4, AdvanceStep

\* RoadInv is inductive with one worker, while advances take turns.
LEMMA RoadInvStep ==
  ASSUME RoadInv, OneWorker, AdvancesTakeTurns, [Next]_vars
  PROVE  RoadInv'
<1>1. SoleInv'
  BY SoleInvStep DEF RoadInv
<1>2. OneTripPerDriver' /\ OnTripIffOnTheRoad'
  BY StepFollows, RoadKept
<1>3. QED
  BY <1>1, <1>2, CandidateStep, RequestStays DEF RoadInv

\* Nobody is on a trip, searched for or advanced when the system starts.
LEMMA RoadInvInit == Init => RoadInv
<1> SUFFICES ASSUME Init PROVE RoadInv
  OBVIOUS
<1>1. /\ \A o \in Orders : status[o] = "NONE"
      /\ \A w \in Workers : worker[w].pc = "idle"
      /\ \A r \in Requests : request[r].pc = "idle"
      /\ \A d \in Drivers : driverStatus[d] # "ON_TRIP"
  BY StoreAssumption
  DEF Init, StoreInit, DispatchInit, TripInit, IdleWorker, IdleRequest
<1>2. CandidateIsFree /\ RequestIsCurrent /\ OneTripPerDriver /\ OnTripIffOnTheRoad
  BY <1>1 DEF CandidateIsFree, RequestIsCurrent, Advancing, OneTripPerDriver,
              OnTripIffOnTheRoad, OnTheRoadWith, OnTheRoad
<1>3. QED
  BY <1>2, SoleInvInit DEF RoadInv

\* With one worker, RoadInv holds for as long as advances take turns.
LEMMA RoadInvAlways == ASSUME OneWorker PROVE Spec /\ []AdvancesTakeTurns => []RoadInv
<1>1. RoadInv /\ AdvancesTakeTurns /\ [Next]_vars => RoadInv'
  BY RoadInvStep
<1>2. QED
  BY <1>1, RoadInvInit, PTL DEF Spec

\* With one worker a driver carries one order, in every behaviour in which no
\* two requests advance one order at once (matching.processor.ts:67-81, :172-217).
THEOREM DriversCarryOneOrder ==
  OneWorker => (Spec /\ []AdvancesTakeTurns => []OneTripPerDriver)
<1> SUFFICES ASSUME OneWorker PROVE Spec /\ []AdvancesTakeTurns => []OneTripPerDriver
  OBVIOUS
<1>1. RoadInv => OneTripPerDriver
  BY DEF RoadInv
<1>2. QED
  BY <1>1, RoadInvAlways, PTL

\* In such a behaviour no crash, retry or failed request leaks a driver or frees
\* one too early, although requests about different orders overlap
\* (matching.processor.ts:172-217, orders.service.ts:986-1031).
THEOREM DriversAreFreedByDelivery ==
  OneWorker => (Spec /\ []AdvancesTakeTurns => []OnTripIffOnTheRoad)
<1> SUFFICES ASSUME OneWorker PROVE Spec /\ []AdvancesTakeTurns => []OnTripIffOnTheRoad
  OBVIOUS
<1>1. RoadInv => OnTripIffOnTheRoad
  BY DEF RoadInv
<1>2. QED
  BY <1>1, RoadInvAlways, PTL

\* In such a behaviour the pipeline, with its queue, crashes and retries,
\* implements OrderLifecycle: each of its steps is a step of the lifecycle or
\* leaves what the lifecycle shows unchanged.
THEOREM PipelineImplementsLifecycle ==
  OneWorker => (Spec /\ []AdvancesTakeTurns => RefinesLifecycle)
<1> SUFFICES ASSUME OneWorker PROVE Spec /\ []AdvancesTakeTurns => RefinesLifecycle
  OBVIOUS
<1>1. Init => Lifecycle!Init
  BY DEF Init, StoreInit, Lifecycle!Init
<1>2. RoadInv /\ [Next]_vars => [Lifecycle!Next]_(Lifecycle!pipeline)
  BY StepFollows
<1>3. QED
  BY <1>1, <1>2, RoadInvAlways, PTL DEF Spec, RefinesLifecycle, Lifecycle!Spec

-----------------------------------------------------------------------------
(***************************************************************************)
(* What holds with one worker, however trip requests overlap.              *)
(***************************************************************************)

\* An order's status goes one edge further, and with it at most its driver.
Forward(o) ==
  /\ \/ Lifecycle!Moves(o, "NONE", "PENDING")
     \/ Lifecycle!Moves(o, "PENDING", "MATCHING")
     \/ Lifecycle!Moves(o, "MATCHING", "CANCELLED")
  /\ UNCHANGED <<assignedDriver, driverStatus>>

Given(o, d) ==
  /\ Lifecycle!Moves(o, "MATCHING", "ASSIGNED")
  /\ assignedDriver' = [assignedDriver EXCEPT ![o] = d]
  /\ driverStatus' = [driverStatus EXCEPT ![d] = "ON_TRIP"]

\* An advance writes to a trip that may have gone on since it was read.
Fetched(o) ==
  /\ status[o] \in {"ASSIGNED", "PICKED_UP", "DELIVERED"}
  /\ status' = [status EXCEPT ![o] = "PICKED_UP"]
  /\ UNCHANGED <<assignedDriver, driverStatus>>

HandedOver(o) ==
  /\ status[o] \in {"PICKED_UP", "DELIVERED"}
  /\ status' = [status EXCEPT ![o] = "DELIVERED"]
  /\ driverStatus' = [driverStatus EXCEPT ![assignedDriver[o]] = "AVAILABLE"]
  /\ UNCHANGED assignedDriver

TripStep ==
  \/ UNCHANGED <<status, assignedDriver, driverStatus>>
  \/ \E o \in Orders :
       Forward(o) \/ Fetched(o) \/ HandedOver(o) \/ \E d \in Drivers : Given(o, d)

\* What a worker does to orders and drivers.
LEMMA DispatchTrips ==
  ASSUME SoleInv, NEW w \in Workers, Dispatching(w)
  PROVE  TripStep
<1> DEFINE o == worker[w].order
<1>1. TypeInv /\ StoreTypeOK
  BY DEF SoleInv, ChargeInv, SettledInv, TypeInv
<1>2. worker[w].pc # "idle" => o \in Orders /\ WorkerFits(worker[w].pc, status[o])
  BY SoleInvFits
<1>3. CASE MarkMatching(w)
  <2>1. /\ o \in Orders
        /\ status[o] \in {"PENDING", "MATCHING"}
        /\ status' = [status EXCEPT ![o] = "MATCHING"]
        /\ UNCHANGED <<assignedDriver, driverStatus>>
    BY <1>2, <1>3 DEF MarkMatching, At, WorkerFits
  <2>2. CASE status[o] = "PENDING"
    BY <2>1, <2>2 DEF TripStep, Forward, Lifecycle!Moves
  <2>3. CASE status[o] = "MATCHING"
    BY <1>1, <2>1, <2>3 DEF TripStep, StoreTypeOK
  <2>4. QED
    BY <2>1, <2>2, <2>3
<1>4. CASE CancelUnmatched(w) \/ CancelUnfunded(w)
  <2>1. /\ o \in Orders
        /\ status[o] = "MATCHING"
        /\ status' = [status EXCEPT ![o] = "CANCELLED"]
        /\ UNCHANGED <<assignedDriver, driverStatus>>
    BY <1>2, <1>4 DEF CancelUnmatched, CancelUnfunded, At, WorkerFits
  <2>2. QED
    BY <2>1 DEF TripStep, Forward, Lifecycle!Moves
<1>5. CASE Settle(w)
  <2>1. worker[w].pc = "pay"
    BY <1>5 DEF Settle, At
  <2>2. o \in Orders /\ status[o] = "MATCHING" /\ worker[w].candidate \in Drivers
    BY <1>1, <1>2, <2>1 DEF WorkerFits, TypeInv, DispatchInv, WorkerLocals
  <2>3. Given(o, worker[w].candidate)
    BY <1>5, <2>2 DEF Settle, SettlementWrites, Given, Lifecycle!Moves
  <2>4. QED
    BY <2>2, <2>3 DEF TripStep
<1>6. CASE UNCHANGED storeVars
  BY <1>6 DEF storeVars, TripStep
<1>7. CASE NotifyOutcome(w)
  BY <1>7 DEF NotifyOutcome, TripStep
<1>8. QED
  BY <1>3, <1>4, <1>5, <1>6, <1>7
  DEF Dispatching, TakeJob, LoadOrder, FindDriver, ReadBalance, Broadcast, FinishJob,
      JobThrows, WorkerCrashes

\* What any step does to orders and drivers.
LEMMA EveryTripStep ==
  ASSUME SoleInv, RequestFollowsTrip, [Next]_vars
  PROVE  TripStep
<1>1. TypeInv
  BY DEF SoleInv, ChargeInv, SettledInv
<1>2. ASSUME NEW o \in Orders, Creation(o)
      PROVE  TripStep
  BY <1>2, CreationFollows DEF TripStep, Forward, Lifecycle!Place, Lifecycle!pipeline
<1>3. ASSUME NEW r \in Requests, Travelling(r)
      PROVE  TripStep
  <2> DEFINE o == request[r].order
  <2>1. request[r].pc = "write" =>
          /\ o \in Orders
          /\ request[r].driver = assignedDriver[o]
          /\ status[o] \in {"ASSIGNED", "PICKED_UP", "DELIVERED"}
          /\ request[r].type = "DELIVERY" => status[o] # "ASSIGNED"
    BY <1>1 DEF RequestFollowsTrip, Advancing, TypeInv, TripInv, RequestLocals
  <2>2. CASE MarkPickedUp(r)
    BY <2>1, <2>2 DEF MarkPickedUp, Step, TripStep, Fetched
  <2>3. CASE MarkDelivered(r)
    <3>1. HandedOver(o) /\ o \in Orders
      BY <2>1, <2>3 DEF MarkDelivered, Step, HandedOver
    <3>2. QED
      BY <3>1 DEF TripStep
  <2>4. CASE InsertPhoto(r) \/ NotifyTrip(r) \/ UNCHANGED storeVars
    BY <2>4 DEF InsertPhoto, NotifyTrip, storeVars, TripStep
  <2>5. QED
    BY <1>3, <2>2, <2>3, <2>4, TravellingWrites
<1>4. QED
  BY <1>2, <1>3, DispatchTrips DEF Next, JobStalls, vars, storeVars, TripStep

\* A trip that has begun goes on with its driver, and no step takes it back to
\* where it was only assigned.
LEMMA TripGoesOn ==
  ASSUME StoreTypeOK, TripStep, NEW o \in Orders,
         status[o] \in {"ASSIGNED", "PICKED_UP", "DELIVERED"}
  PROVE  /\ assignedDriver'[o] = assignedDriver[o]
         /\ status'[o] \in {"ASSIGNED", "PICKED_UP", "DELIVERED"}
         /\ status[o] # "ASSIGNED" => status'[o] # "ASSIGNED"
<1>1. ASSUME NEW p \in Orders, Forward(p) \/ \E d \in Drivers : Given(p, d)
      PROVE  status'[o] = status[o] /\ assignedDriver'[o] = assignedDriver[o]
  <2>1. p # o
    BY <1>1 DEF Forward, Given, Lifecycle!Moves
  <2>2. QED
    BY <1>1, <2>1 DEF Forward, Given, Lifecycle!Moves, StoreTypeOK
<1>2. ASSUME NEW p \in Orders, Fetched(p) \/ HandedOver(p)
      PROVE  /\ UNCHANGED assignedDriver
             /\ status'[o] \in {status[o], "PICKED_UP", "DELIVERED"}
  BY <1>2 DEF Fetched, HandedOver, StoreTypeOK
<1>3. QED
  BY <1>1, <1>2 DEF TripStep

(* RequestFollowsTrip: what an advance has read was so, and the trip goes on. *)
LEMMA RequestFollowsStep ==
  ASSUME SoleInv, RequestFollowsTrip, [Next]_vars
  PROVE  RequestFollowsTrip'
<1>1. TypeInv /\ StoreTypeOK /\ TripStep
  BY EveryTripStep DEF SoleInv, ChargeInv, SettledInv, TypeInv
<1>2. SUFFICES ASSUME NEW r \in Requests, request'[r].pc \in {"decide", "list", "write"}
               PROVE  /\ request'[r].driver = assignedDriver'[request'[r].order]
                      /\ status'[request'[r].order] \in {"ASSIGNED", "PICKED_UP", "DELIVERED"}
                      /\ request'[r].type = "DELIVERY" => status'[request'[r].order] # "ASSIGNED"
  BY DEF RequestFollowsTrip, Advancing
<1>3. CASE /\ status[request'[r].order] = RequiredStatus(request'[r].type)
           /\ request'[r].type \in OrderPhotoType
           /\ request'[r].driver = assignedDriver[request'[r].order]
           /\ UNCHANGED <<status, assignedDriver>>
  BY <1>3 DEF RequiredStatus, OrderPhotoType
<1>4. CASE /\ Advancing(r)
           /\ request'[r].order = request[r].order
           /\ request'[r].type = request[r].type
           /\ request'[r].driver = request[r].driver
  <2>1. /\ request[r].order \in Orders
        /\ request[r].driver = assignedDriver[request[r].order]
        /\ status[request[r].order] \in {"ASSIGNED", "PICKED_UP", "DELIVERED"}
        /\ request[r].type = "DELIVERY" => status[request[r].order] # "ASSIGNED"
    BY <1>1, <1>4 DEF RequestFollowsTrip, Advancing, TypeInv, TripInv, RequestLocals
  <2>2. QED
    BY <1>1, <1>4, <2>1, TripGoesOn
<1>5. QED
  BY <1>1, <1>2, <1>3, <1>4, AdvanceStep

(* NoDriverLeaks: the order that keeps a driver ON_TRIP stays on the road,     *)
(* until its delivery frees the driver.                                        *)
LEMMA NoDriverLeaksStep ==
  ASSUME StoreTypeOK, NoDriverLeaks, TripStep
  PROVE  NoDriverLeaks'
<1>1. SUFFICES ASSUME NEW d \in Drivers, driverStatus'[d] = "ON_TRIP"
               PROVE  \E p \in Orders : /\ status'[p] \in {"ASSIGNED", "PICKED_UP"}
                                        /\ assignedDriver'[p] = d
  BY DEF NoDriverLeaks, OnTheRoadWith, OnTheRoad
<1>2. ASSUME driverStatus[d] = "ON_TRIP"
      PROVE  \E p \in Orders : /\ status[p] \in {"ASSIGNED", "PICKED_UP"}
                               /\ assignedDriver[p] = d
  BY <1>2 DEF NoDriverLeaks, OnTheRoadWith, OnTheRoad
<1>3. CASE UNCHANGED <<status, assignedDriver, driverStatus>>
  BY <1>1, <1>2, <1>3
<1>4. ASSUME NEW o \in Orders, Forward(o)
      PROVE  \E p \in Orders : status'[p] \in {"ASSIGNED", "PICKED_UP"} /\ assignedDriver'[p] = d
  <2>1. PICK p \in Orders : status[p] \in {"ASSIGNED", "PICKED_UP"} /\ assignedDriver[p] = d
    BY <1>1, <1>2, <1>4 DEF Forward
  <2>2. p # o
    BY <1>4, <2>1 DEF Forward, Lifecycle!Moves
  <2>3. status'[p] = status[p] /\ assignedDriver'[p] = assignedDriver[p]
    BY <1>4, <2>2 DEF Forward, Lifecycle!Moves, StoreTypeOK
  <2>4. QED
    BY <2>1, <2>3
<1>5. ASSUME NEW o \in Orders, Fetched(o)
      PROVE  \E p \in Orders : status'[p] \in {"ASSIGNED", "PICKED_UP"} /\ assignedDriver'[p] = d
  <2>1. PICK p \in Orders : status[p] \in {"ASSIGNED", "PICKED_UP"} /\ assignedDriver[p] = d
    BY <1>1, <1>2, <1>5 DEF Fetched
  <2>2. status'[p] \in {status[p], "PICKED_UP"} /\ assignedDriver'[p] = assignedDriver[p]
    BY <1>5 DEF Fetched, StoreTypeOK
  <2>3. QED
    BY <2>1, <2>2
<1>6. ASSUME NEW o \in Orders, HandedOver(o)
      PROVE  \E p \in Orders : status'[p] \in {"ASSIGNED", "PICKED_UP"} /\ assignedDriver'[p] = d
  <2>1. assignedDriver[o] # d /\ driverStatus'[d] = driverStatus[d]
    BY <1>1, <1>6 DEF HandedOver, StoreTypeOK
  <2>2. PICK p \in Orders : status[p] \in {"ASSIGNED", "PICKED_UP"} /\ assignedDriver[p] = d
    BY <1>1, <1>2, <2>1
  <2>3. status'[p] = status[p] /\ assignedDriver'[p] = assignedDriver[p]
    BY <1>6, <2>1, <2>2 DEF HandedOver, StoreTypeOK
  <2>4. QED
    BY <2>2, <2>3
<1>7. ASSUME NEW o \in Orders, NEW e \in Drivers, Given(o, e)
      PROVE  \E p \in Orders : status'[p] \in {"ASSIGNED", "PICKED_UP"} /\ assignedDriver'[p] = d
  <2>1. CASE d = e
    <3>1. status'[o] = "ASSIGNED" /\ assignedDriver'[o] = d
      BY <1>7, <2>1 DEF Given, Lifecycle!Moves, StoreTypeOK
    <3>2. QED
      BY <3>1
  <2>2. CASE d # e
    <3>1. PICK p \in Orders : status[p] \in {"ASSIGNED", "PICKED_UP"} /\ assignedDriver[p] = d
      BY <1>1, <1>2, <1>7, <2>2 DEF Given, StoreTypeOK
    <3>2. p # o
      BY <1>7, <3>1 DEF Given, Lifecycle!Moves
    <3>3. status'[p] = status[p] /\ assignedDriver'[p] = assignedDriver[p]
      BY <1>7, <3>2 DEF Given, Lifecycle!Moves, StoreTypeOK
    <3>4. QED
      BY <3>1, <3>3
  <2>3. QED
    BY <2>1, <2>2
<1>8. QED
  BY <1>3, <1>4, <1>5, <1>6, <1>7 DEF TripStep

\* With one worker, NoLeakInv holds in every reachable state.
LEMMA NoLeakInvAlways == ASSUME OneWorker PROVE Spec => []NoLeakInv
<1>1. Init => NoLeakInv
  <2> SUFFICES ASSUME Init PROVE NoLeakInv
    OBVIOUS
  <2>1. /\ \A r \in Requests : request[r].pc = "idle"
        /\ \A d \in Drivers : driverStatus[d] # "ON_TRIP"
    BY StoreAssumption DEF Init, StoreInit, TripInit, IdleRequest
  <2>2. QED
    BY <2>1, SoleInvInit DEF NoLeakInv, RequestFollowsTrip, Advancing, NoDriverLeaks
<1>2. ASSUME NoLeakInv, [Next]_vars
      PROVE  NoLeakInv'
  <2>1. SoleInv' /\ RequestFollowsTrip'
    BY <1>2, SoleInvStep, RequestFollowsStep DEF NoLeakInv
  <2>2. StoreTypeOK /\ TripStep /\ NoDriverLeaks
    BY <1>2, EveryTripStep DEF NoLeakInv, SoleInv, ChargeInv, SettledInv, TypeInv
  <2>3. QED
    BY <2>1, <2>2, NoDriverLeaksStep DEF NoLeakInv
<1>3. QED
  BY <1>1, <1>2, PTL DEF Spec

\* With one worker no driver is left ON_TRIP without an order on the road, through
\* crashes, retries and lost locks, and whatever trip requests overtake each
\* other (matching.processor.ts:172-217, orders.service.ts:1021-1029).
THEOREM NoDriverIsLeaked == OneWorker => (Spec => []NoDriverLeaks)
<1> SUFFICES ASSUME OneWorker PROVE Spec => []NoDriverLeaks
  OBVIOUS
<1>1. NoLeakInv => NoDriverLeaks
  BY DEF NoLeakInv
<1>2. QED
  BY <1>1, NoLeakInvAlways, PTL

\* With one worker the only way a status goes against API_SPEC.md:190-191 is a
\* late pickup that turns DELIVERED back (orders.service.ts:811, :1014), however
\* many trip requests are in flight.
THEOREM OnlyPickupsTurnBack == OneWorker => (Spec => StatusesTurnBackOnlyByPickup)
<1> SUFFICES ASSUME OneWorker PROVE Spec => StatusesTurnBackOnlyByPickup
  OBVIOUS
<1> DEFINE Edges == LifecycleEdges \cup {<<"DELIVERED", "PICKED_UP">>}
<1>1. ASSUME NoLeakInv, [Next]_vars, NEW o \in Orders, status'[o] # status[o]
      PROVE  <<status[o], status'[o]>> \in Edges
  <2>1. StoreTypeOK /\ TripStep
    BY <1>1, EveryTripStep DEF NoLeakInv, SoleInv, ChargeInv, SettledInv, TypeInv
  <2>2. ASSUME NEW p \in Orders, NEW from, NEW to, Lifecycle!Moves(p, from, to),
               <<from, to>> \in LifecycleEdges
        PROVE  <<status[o], status'[o]>> \in Edges
    BY <1>1, <2>1, <2>2 DEF Lifecycle!Moves, StoreTypeOK
  <2>3. ASSUME NEW p \in Orders, Fetched(p) \/ HandedOver(p)
        PROVE  <<status[o], status'[o]>> \in Edges
    <3>1. p = o
      BY <1>1, <2>1, <2>3 DEF Fetched, HandedOver, StoreTypeOK
    <3>2. \/ status[o] \in {"ASSIGNED", "DELIVERED"} /\ status'[o] = "PICKED_UP"
          \/ status[o] = "PICKED_UP" /\ status'[o] = "DELIVERED"
      BY <1>1, <2>1, <2>3, <3>1 DEF Fetched, HandedOver, StoreTypeOK
    <3>3. QED
      BY <3>2 DEF LifecycleEdges
  <2> HIDE DEF Edges
  <2>4. ASSUME NEW p \in Orders, Forward(p) \/ \E d \in Drivers : Given(p, d)
        PROVE  <<status[o], status'[o]>> \in Edges
    <3>1. \/ Lifecycle!Moves(p, "NONE", "PENDING") \/ Lifecycle!Moves(p, "PENDING", "MATCHING")
          \/ Lifecycle!Moves(p, "MATCHING", "CANCELLED") \/ Lifecycle!Moves(p, "MATCHING", "ASSIGNED")
      BY <2>4 DEF Forward, Given
    <3>2. QED
      BY <2>2, <3>1 DEF LifecycleEdges
  <2>5. QED
    BY <1>1, <2>1, <2>3, <2>4 DEF TripStep
<1>2. ASSUME NoLeakInv, [Next]_vars
      PROVE  [\A o \in Orders :
                status'[o] # status[o] =>
                  <<status[o], status'[o]>> \in LifecycleEdges \cup {<<"DELIVERED", "PICKED_UP">>}]_vars
  BY <1>1, <1>2
<1>3. QED
  BY <1>2, NoLeakInvAlways, PTL DEF Spec, StatusesTurnBackOnlyByPickup

\* With one worker an assignment is never handed to another driver, so no
\* user loses the right to open an order (order-access.interface.ts:33-70,
\* matching.processor.ts:172-217).
THEOREM AssignmentsAreKept == OneWorker => (Spec => AccessIsKept)
<1> SUFFICES ASSUME OneWorker PROVE Spec => AccessIsKept
  OBVIOUS
<1>1. ASSUME SoleInv, [Next]_vars, NEW o \in Orders
      PROVE  assignedDriver'[o] = assignedDriver[o] \/ assignedDriver[o] = NoDriver
  <2>1. CASE UNCHANGED assignedDriver
    BY <2>1
  <2>2. ASSUME NEW w \in Workers, Settle(w)
        PROVE  assignedDriver'[o] = assignedDriver[o] \/ assignedDriver[o] = NoDriver
    <3>1. TypeInv
      BY <1>1 DEF SoleInv, ChargeInv, SettledInv
    <3>2. worker[w].pc = "pay"
      BY <2>2 DEF Settle, At
    <3>3. CASE o = worker[w].order
      <4>1. status[o] = "MATCHING"
        BY <1>1, <3>2, <3>3 DEF SoleInv, WorkerIsCurrent
      <4>2. PaymentStatus(status[o]) # "PAID"
        BY <4>1, PaidStatus
      <4>3. QED
        BY <1>1, <4>2 DEF SoleInv, UnpaidIsUncharged
    <3>4. CASE o # worker[w].order
      BY <2>2, <3>1, <3>4, SettleEffect
    <3>5. QED
      BY <3>3, <3>4
  <2>3. QED
    BY <1>1, <2>1, <2>2, LedgerStep
<1>2. ASSUME SoleInv, [Next]_vars
      PROVE  \A u \in Users, o \in Orders :
               status[o] # "NONE" /\ UserCanReadOrder(u, o) => UserCanReadOrder(u, o)'
  BY <1>1, <1>2 DEF UserCanReadOrder
<1>3. QED
  BY <1>2, SoleInvAlways, PTL DEF Spec, AccessIsKept
=============================================================================
