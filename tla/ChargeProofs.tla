---------------------------- MODULE ChargeProofs ----------------------------
(***************************************************************************)
(* Proofs about how often an order is charged, what its recipients are     *)
(* told and what the books say, with any number of workers, stalls,        *)
(* crashes and failed attempts:                                            *)
(*   AssignedNoticesAreCharged  Spec => []AssignedNoticeIsCharged          *)
(*   RechargesNeedRedelivery    Spec => []ChargesNeedRedelivery            *)
(*   LedgerAddsUp               Spec => []BooksBalance                     *)
(*   DebtIsBounded              Spec => []OverdraftIsBounded               *)
(* The first follows from NoticeInv of FleetFlowInv.  The second counts:   *)
(* RedeliveryInv bounds the charges of an order and the workers that may   *)
(* still charge it by the number of times its job was handed out.  The     *)
(* last two are sums, over the orders of a merchant and over the workers   *)
(* about to take money from it, by the lemmas of SumTheorems.              *)
(***************************************************************************)
EXTENDS FleetFlowProofs, SumTheorems

\* Only a worker that announces an assignment tells anybody ORDER_ASSIGNED.
LEMMA NoticeStep ==
  ASSUME TypeInv, [Next]_vars, NEW o \in Orders,
         "ORDER_ASSIGNED" \in notices'[o], "ORDER_ASSIGNED" \notin notices[o]
  PROVE  \E w \in Workers : worker[w].pc = "notifyAssigned" /\ worker[w].order = o
<1> USE DEF TypeInv, StoreTypeOK
<1>1. ASSUME NEW p \in Orders, Creation(p)
      PROVE  UNCHANGED notices
  BY <1>1 DEF Creation, CheckFunds, PersistOrder, EnqueueDispatch, CreationFails, storeVars
<1>2. ASSUME NEW w \in Workers, Dispatching(w)
      PROVE  worker[w].pc = "notifyAssigned" /\ worker[w].order = o
  <2>1. CASE NotifyOutcome(w)
    <3> DEFINE type == IF At(w, "notifyAssigned") THEN "ORDER_ASSIGNED" ELSE "ORDER_CANCELLED"
    <3>1. notices' = [notices EXCEPT ![worker[w].order] = @ \cup {type}]
      BY <2>1 DEF NotifyOutcome
    <3>2. type = "ORDER_ASSIGNED" /\ worker[w].order = o
      <4> HIDE DEF type
      <4>1. QED
        BY <3>1
    <3>3. QED
      BY <3>2 DEF At
  <2>2. CASE UNCHANGED notices
    BY <2>2
  <2>3. QED
    BY <1>2, <2>1, <2>2
    DEF Dispatching, TakeJob, LoadOrder, MarkMatching, FindDriver, CancelUnmatched, ReadBalance,
        CancelUnfunded, Settle, Broadcast, FinishJob, JobThrows, WorkerCrashes, storeVars
<1>3. ASSUME NEW r \in Requests, Travelling(r)
      PROVE  FALSE
  <2>1. CASE NotifyTrip(r)
    <3>1. PICK n : /\ notices' = [notices EXCEPT ![request[r].order] = @ \cup {n}]
                   /\ n \in {"DEPARTURE_PHOTO_UPLOADED", "DELIVERY_PHOTO_UPLOADED",
                             "ORDER_PICKED_UP", "ORDER_DELIVERED"}
      BY <2>1, Zenon DEF NotifyTrip
    <3>2. QED
      BY <3>1
  <2>2. CASE UNCHANGED notices
    BY <2>2
  <2>3. QED
    BY <1>3, <2>1, <2>2, TravellingWrites
    DEF InsertPhoto, MarkPickedUp, MarkDelivered, storeVars
<1>4. QED
  BY <1>1, <1>2, <1>3 DEF Next, JobStalls, vars, storeVars

\* A worker announces an assignment right after it settled the order.
LEMMA AnnounceStep ==
  ASSUME TypeInv, [Next]_vars, NEW w \in Workers, worker'[w].pc = "notifyAssigned"
  PROVE  \/ worker'[w] = worker[w]
         \/ Settle(w) /\ worker'[w].order = worker[w].order
<1> USE DEF TypeInv, DispatchInv, DispatchTypeOK
<1>1. ASSUME NEW v \in Workers, Dispatching(v), v # w
      PROVE  worker'[w] = worker[w]
  BY <1>1 DEF Dispatching, TakeJob, LoadOrder, MarkMatching, FindDriver, CancelUnmatched,
              ReadBalance, CancelUnfunded, Settle, NotifyOutcome, Broadcast, FinishJob,
              JobThrows, WorkerCrashes, Goes
<1>2. CASE Dispatching(w)
  <2>1. CASE JobThrows(w) \/ WorkerCrashes(w) \/ FinishJob(w)
    BY <2>1 DEF JobThrows, WorkerCrashes, FinishJob, IdleWorker
  <2>2. ASSUME NEW p \in Orders, TakeJob(w, p)
        PROVE  FALSE
    BY <2>2 DEF TakeJob, IdleWorker
  <2>3. CASE Settle(w)
    BY <2>3 DEF Goes, Settle, WorkerState
  <2>4. CASE ReadBalance(w) \/ FindDriver(w)
    BY <2>4 DEF ReadBalance, FindDriver, Goes, WorkerState
  <2>5. CASE \/ LoadOrder(w) \/ MarkMatching(w) \/ CancelUnmatched(w) \/ CancelUnfunded(w)
             \/ NotifyOutcome(w) \/ Broadcast(w)
    BY <2>5 DEF LoadOrder, MarkMatching, CancelUnmatched, CancelUnfunded, NotifyOutcome,
                Broadcast, Goes, WorkerState
  <2>6. QED
    BY <1>2, <2>1, <2>2, <2>3, <2>4, <2>5 DEF Dispatching
<1>3. QED
  BY <1>1, <1>2 DEF Next, Creation, CheckFunds, PersistOrder, EnqueueDispatch, CreationFails,
                    JobStalls, Travelling, dispatchVars, vars

\* NoticeInv is inductive.
LEMMA NoticeInvStep ==
  ASSUME NoticeInv, [Next]_vars
  PROVE  NoticeInv'
<1>1. TypeInv /\ TypeInv'
  BY StepKeepsTypes DEF NoticeInv
<1>2. ASSUME NEW w \in Workers, worker'[w].pc = "notifyAssigned"
      PROVE  \E o \in Orders : o = worker'[w].order /\ Settled(o)'
  <2>1. CASE worker'[w] = worker[w]
    <3>1. PICK o \in Orders : o = worker[w].order /\ Settled(o)
      BY <1>1, <1>2, <2>1 DEF NoticeInv, AnnouncedIsSettled, TypeInv, DispatchInv, WorkerLocals
    <3>2. QED
      BY <1>1, <2>1, <3>1, SettledKept
  <2>2. CASE Settle(w) /\ worker'[w].order = worker[w].order
    BY <1>1, <2>2, SettleEffect
  <2>3. QED
    BY <1>1, <1>2, <2>1, <2>2, AnnounceStep
<1>3. ASSUME NEW o \in Orders, "ORDER_ASSIGNED" \in notices'[o]
      PROVE  debits'[o] >= 1
  <2>1. debits[o] >= 1
    BY <1>1, <1>3, NoticeStep DEF NoticeInv, AnnouncedIsSettled, AssignedNoticeIsCharged, Settled
  <2>2. debits[o] \in Nat
    BY <1>1 DEF TypeInv, StoreTypeOK
  <2>3. debits'[o] = debits[o] \/ debits'[o] = debits[o] + 1
    BY <1>1, LedgerStep, SettleEffect DEF ledgerVars
  <2>4. QED
    BY <2>1, <2>2, <2>3
<1>4. AnnouncedIsSettled'
  BY <1>2 DEF AnnouncedIsSettled, Settled
<1>5. QED
  BY <1>1, <1>3, <1>4 DEF NoticeInv, AssignedNoticeIsCharged

\* Whatever is retried or redelivered, nobody is told ORDER_ASSIGNED before the
\* charge is committed (matching.processor.ts:220-246).
THEOREM AssignedNoticesAreCharged == Spec => []AssignedNoticeIsCharged
<1>1. Init => NoticeInv
  BY TypeInvInit
  DEF Init, StoreInit, DispatchInit, IdleWorker, NoticeInv, AnnouncedIsSettled,
      AssignedNoticeIsCharged
<1>2. NoticeInv => AssignedNoticeIsCharged
  BY DEF NoticeInv
<1>3. QED
  BY <1>1, <1>2, NoticeInvStep, PTL DEF Spec

-----------------------------------------------------------------------------
\* A worker becomes a settler of an order by taking its job, and stops being
\* one when it settles.
LEMMA SettlerStep ==
  ASSUME TypeInv, [Next]_vars, NEW o \in Orders, NEW w \in Workers, w \in Settlers(o)'
  PROVE  ~Settle(w) /\ (w \in Settlers(o) \/ TakeJob(w, o))
<1> USE DEF TypeInv, DispatchInv, DispatchTypeOK
<1>1. Handles(w, o)' /\ worker'[w].pc \in Undecided
  BY DEF Settlers, Undecided
<1>2. Handles(w, o) \/ TakeJob(w, o)
  BY <1>1, HandlesStep
<1>3. ASSUME NEW v \in Workers, Dispatching(v), v # w
      PROVE  worker'[w] = worker[w]
  BY <1>3 DEF Dispatching, TakeJob, LoadOrder, MarkMatching, FindDriver, CancelUnmatched,
              ReadBalance, CancelUnfunded, Settle, NotifyOutcome, Broadcast, FinishJob,
              JobThrows, WorkerCrashes, Goes
<1>4. CASE Dispatching(w)
  <2>1. CASE JobThrows(w) \/ WorkerCrashes(w) \/ FinishJob(w)
    BY <1>1, <2>1 DEF JobThrows, WorkerCrashes, FinishJob, IdleWorker, Undecided
  <2>2. ASSUME NEW p \in Orders, TakeJob(w, p)
        PROVE  ~Settle(w) /\ TakeJob(w, o)
    <3>1. worker[w].pc = "idle" /\ worker'[w].order = p
      BY <2>2 DEF TakeJob, IdleWorker
    <3>2. QED
      BY <1>1, <2>2, <3>1 DEF Handles, Settle, At
  <2>3. CASE Settle(w) \/ NotifyOutcome(w) \/ Broadcast(w) \/ CancelUnmatched(w) \/ CancelUnfunded(w)
    BY <1>1, <2>3 DEF Settle, NotifyOutcome, Broadcast, CancelUnmatched, CancelUnfunded, Goes,
                      WorkerState, Undecided
  <2>4. CASE LoadOrder(w) \/ MarkMatching(w) \/ FindDriver(w) \/ ReadBalance(w)
    <3>1. worker[w].pc \in {"load", "mark", "find", "settle"}
      BY <2>4 DEF LoadOrder, MarkMatching, FindDriver, ReadBalance, At
    <3>2. QED
      BY <1>2, <3>1 DEF Settlers, Undecided, TakeJob, Settle, At
  <2>5. QED
    BY <1>4, <2>1, <2>2, <2>3, <2>4 DEF Dispatching
<1>5. CASE worker'[w] = worker[w]
  <2>1. Handles(w, o) /\ worker[w].pc \in Undecided
    BY <1>1, <1>5 DEF Handles
  <2>2. ~Settle(w)
    BY <1>5 DEF Settle, At, Goes, WorkerState
  <2>3. QED
    BY <2>1, <2>2 DEF Settlers
<1>6. QED
  BY <1>3, <1>4, <1>5 DEF Next, Creation, CheckFunds, PersistOrder, EnqueueDispatch, CreationFails,
                          JobStalls, Travelling, dispatchVars, vars

\* How many settlements the queue has permitted so far.
Permitted(o) == HandedOut(o) + job[o].stalls + job[o].attempts

\* A job that leaves its worker without completing has stalled or failed once
\* more, so it permits no fewer settlements than before.
LEMMA LeaveStep ==
  ASSUME TypeInv, NEW o \in Orders, job'[o].stalls \in Nat, job'[o].attempts \in Nat,
         job[o].state = "active",
         \/ /\ job'[o].state \in {"active", "completed"}
            /\ job'[o].stalls = job[o].stalls
            /\ job'[o].attempts = job[o].attempts
         \/ /\ job'[o].stalls + job'[o].attempts = job[o].stalls + job[o].attempts + 1
  PROVE  Permitted(o)' >= Permitted(o)
<1>1. job[o].stalls \in Nat /\ job[o].attempts \in Nat
  BY DispatchAssumption DEF TypeInv, DispatchInv, DispatchTypeOK, Job
<1>2. HandedOut(o) = 1 /\ HandedOut(o)' \in 0..1
  BY DEF HandedOut
<1>3. job'[o].state \in {"active", "completed"} => HandedOut(o)' = 1
  BY DEF HandedOut
<1>4. QED
  BY <1>1, <1>2, <1>3 DEF Permitted

\* No step takes a permission back, and taking a job gives one more.
LEMMA PermitStep ==
  ASSUME ChargeInv, [Next]_vars, NEW o \in Orders
  PROVE  /\ Permitted(o)' >= Permitted(o)
         /\ \A w \in Workers : TakeJob(w, o) => Permitted(o)' = Permitted(o) + 1
<1>1. TypeInv /\ TypeInv'
  BY StepKeepsTypes DEF ChargeInv, SettledInv
<1> USE DEF TypeInv, DispatchInv, DispatchTypeOK
<1>2. /\ job \in [Orders -> Job]
      /\ job[o] \in Job
      /\ job'[o] \in Job
      /\ job[o].stalls \in Nat /\ job'[o].stalls \in Nat
      /\ job[o].attempts \in Nat /\ job'[o].attempts \in Nat
      /\ HandedOut(o) \in 0..1
  BY <1>1, DispatchAssumption DEF Job, HandedOut
<1>3. ASSUME job'[o] = job[o]
      PROVE  Permitted(o)' >= Permitted(o)
  BY <1>2, <1>3 DEF Permitted, HandedOut
<1>4. ASSUME EnqueueDispatch(o)
      PROVE  Permitted(o)' >= Permitted(o)
  <2>1. job[o] = NoJob
    BY <1>4 DEF EnqueueDispatch, CreationGoes, ChargeInv, NotYetCreated
  <2>2. job'[o] = [NoJob EXCEPT !.state = "waiting"]
    BY <1>2, <1>4 DEF EnqueueDispatch
  <2>3. QED
    BY <1>2, <2>1, <2>2 DEF Permitted, HandedOut, NoJob
<1>5. ASSUME NEW w \in Workers, TakeJob(w, o)
      PROVE  Permitted(o)' = Permitted(o) + 1
  <2>1. job[o].state = "waiting" /\ job' = [job EXCEPT ![o].state = "active", ![o].owner = w]
    BY <1>5 DEF TakeJob
  <2>2. /\ job'[o].state = "active"
        /\ job'[o].stalls = job[o].stalls
        /\ job'[o].attempts = job[o].attempts
    BY <1>2, <2>1 DEF Job
  <2>3. QED
    BY <1>2, <2>1, <2>2 DEF Permitted, HandedOut
<1>6. ASSUME JobStalls(o)
      PROVE  Permitted(o)' >= Permitted(o)
  <2>1. job[o].state = "active" /\ job'[o].stalls = job[o].stalls + 1
        /\ job'[o].attempts = job[o].attempts
    BY <1>2, <1>6 DEF JobStalls, Job
  <2>2. job'[o].stalls + job'[o].attempts = job[o].stalls + job[o].attempts + 1
    BY <1>2, <2>1
  <2> HIDE DEF TypeInv
  <2>3. QED
    BY <1>1, <1>2, <2>1, <2>2, LeaveStep
<1>7. ASSUME NEW w \in Workers, FinishJob(w) \/ JobThrows(w) \/ WorkerCrashes(w)
      PROVE  Permitted(o)' >= Permitted(o)
  <2>1. CASE worker[w].order = o /\ job[o].owner = w
    <3>1. job[o].state = "active"
      BY <1>1, <2>1, DispatchAssumption DEF JobsBounded
    <3>2. CASE FinishJob(w)
      <4>1. /\ job'[o].state = "completed"
            /\ job'[o].stalls = job[o].stalls
            /\ job'[o].attempts = job[o].attempts
        BY <1>2, <2>1, <3>2 DEF FinishJob, Job
      <4>2. QED
        BY <1>1, <1>2, <3>1, <4>1, LeaveStep
    <3>3. CASE JobThrows(w)
      <4>1. job'[o].stalls = job[o].stalls /\ job'[o].attempts = job[o].attempts + 1
        BY <1>2, <2>1, <3>3 DEF JobThrows, Job
      <4>2. QED
        BY <1>1, <1>2, <3>1, <4>1, LeaveStep
    <3>4. CASE WorkerCrashes(w)
      <4>1. /\ job'[o].state = job[o].state
            /\ job'[o].stalls = job[o].stalls
            /\ job'[o].attempts = job[o].attempts
        BY <1>2, <2>1, <3>4 DEF WorkerCrashes, Job
      <4>2. QED
        BY <1>1, <1>2, <3>1, <4>1, LeaveStep
    <3>5. QED
      BY <1>7, <3>2, <3>3, <3>4
  <2>2. CASE ~(worker[w].order = o /\ job[o].owner = w)
    <3>1. job'[o] = job[o]
      BY <1>2, <1>7, <2>2 DEF FinishJob, JobThrows, WorkerCrashes
    <3>2. QED
      BY <1>3, <3>1
  <2>3. QED
    BY <2>1, <2>2
<1>8. ASSUME NEW p \in Orders, Creation(p)
      PROVE  job'[o] = job[o] \/ EnqueueDispatch(o)
  <2>1. CASE EnqueueDispatch(p)
    BY <1>2, <2>1 DEF EnqueueDispatch
  <2>2. QED
    BY <1>8, <2>1 DEF Creation, CheckFunds, PersistOrder, CreationFails
<1>9. ASSUME NEW p \in Orders, JobStalls(p)
      PROVE  job'[o] = job[o] \/ JobStalls(o)
  BY <1>2, <1>9 DEF JobStalls
<1>10. ASSUME NEW w \in Workers, Dispatching(w)
       PROVE  \/ job'[o] = job[o]
              \/ TakeJob(w, o)
              \/ FinishJob(w) \/ JobThrows(w) \/ WorkerCrashes(w)
  <2>1. ASSUME NEW p \in Orders, TakeJob(w, p)
        PROVE  job'[o] = job[o] \/ TakeJob(w, o)
    BY <1>2, <2>1 DEF TakeJob
  <2>2. CASE UNCHANGED job
    BY <2>2
  <2>3. QED
    BY <1>10, <2>1, <2>2
    DEF Dispatching, LoadOrder, MarkMatching, FindDriver, CancelUnmatched, ReadBalance,
        CancelUnfunded, Settle, NotifyOutcome, Broadcast
<1>11. \/ job'[o] = job[o] \/ EnqueueDispatch(o) \/ JobStalls(o)
       \/ \E w \in Workers : TakeJob(w, o) \/ FinishJob(w) \/ JobThrows(w) \/ WorkerCrashes(w)
  BY <1>8, <1>9, <1>10 DEF Next, Travelling, dispatchVars, vars
<1>12. Permitted(o) \in Nat
  BY <1>2 DEF Permitted
<1>13. QED
  BY <1>3, <1>4, <1>5, <1>6, <1>7, <1>11, <1>12

\* Every charge of an order, and every worker that may still charge it, has a
\* permission of its own.
LEMMA SettlementsStep ==
  ASSUME RedeliveryInv, [Next]_vars
  PROVE  SettlementsPermitted'
<1> SUFFICES ASSUME NEW o \in Orders
             PROVE  /\ IsFiniteSet(Settlers(o)')
                    /\ debits'[o] + Cardinality(Settlers(o)') <= Permitted(o)'
  BY DEF SettlementsPermitted, Permitted, HandedOut
<1> DEFINE S == Settlers(o)
           T == Settlers(o)'
<1>1. ChargeInv /\ TypeInv /\ TypeInv'
  BY StepKeepsTypes DEF RedeliveryInv, ChargeInv, SettledInv
<1>2. /\ IsFiniteSet(S)
      /\ debits[o] + Cardinality(S) <= Permitted(o)
  BY DEF RedeliveryInv, SettlementsPermitted, Permitted
<1>3. /\ debits[o] \in Nat
      /\ Permitted(o) \in Int /\ Permitted(o)' \in Int
  <2>1. debits[o] \in Nat
    BY <1>1 DEF TypeInv, StoreTypeOK
  <2>2. /\ job[o].stalls \in Nat /\ job'[o].stalls \in Nat
        /\ job[o].attempts \in Nat /\ job'[o].attempts \in Nat
    BY <1>1, DispatchAssumption DEF TypeInv, DispatchInv, DispatchTypeOK, Job
  <2>3. HandedOut(o) \in 0..1 /\ HandedOut(o)' \in 0..1
    BY DEF HandedOut
  <2>4. QED
    BY <2>1, <2>2, <2>3 DEF Permitted
<1>4. /\ Permitted(o)' >= Permitted(o)
      /\ \A w \in Workers : TakeJob(w, o) => Permitted(o)' = Permitted(o) + 1
  BY <1>1, PermitStep
<1>5. \A w \in T : w \in Workers /\ ~Settle(w) /\ (w \in S \/ TakeJob(w, o))
  <2>1. T \subseteq Workers
    BY DEF Settlers
  <2>2. QED
    BY <1>1, <2>1, SettlerStep
<1>6. Cardinality(S) \in Nat
  BY <1>2, FS_CardinalityType
<1> HIDE DEF S, T
<1>7. CASE \E w \in Workers : TakeJob(w, o)
  <2>1. PICK w \in Workers : TakeJob(w, o)
    BY <1>7
  <2>2. \A v \in Workers : TakeJob(v, o) => v = w
    <3>1. job \in [Orders -> Job]
      BY <1>1 DEF TypeInv, DispatchInv, DispatchTypeOK
    <3>2. ASSUME NEW v \in Workers, TakeJob(v, o)
          PROVE  job'[o].owner = v
      BY <3>1, <3>2 DEF TakeJob, Job
    <3>3. QED
      BY <2>1, <3>2
  <2>3. T \in SUBSET (S \cup {w})
    BY <1>5, <2>2
  <2>4. IsFiniteSet(S \cup {w}) /\ Cardinality(S \cup {w}) <= Cardinality(S) + 1
    <3>1. IsFiniteSet(S \cup {w})
      BY <1>2, FS_AddElement
    <3>2. Cardinality(S \cup {w}) = IF w \in S THEN Cardinality(S) ELSE Cardinality(S) + 1
      BY <1>2, FS_AddElement
    <3>3. QED
      BY <1>6, <3>1, <3>2
  <2>5. /\ IsFiniteSet(T)
        /\ Cardinality(T) <= Cardinality(S \cup {w})
        /\ Cardinality(T) \in Nat /\ Cardinality(S \cup {w}) \in Nat
    BY <2>3, <2>4, FS_Subset, FS_CardinalityType
  <2>6. debits'[o] = debits[o]
    BY <2>1 DEF TakeJob, storeVars, ledgerVars
  <2>7. Permitted(o)' = Permitted(o) + 1
    BY <1>4, <2>1
  <2>8. QED
    BY <1>2, <1>3, <1>6, <2>4, <2>5, <2>6, <2>7 DEF T
<1>8. CASE \E w \in Workers : Settle(w) /\ worker[w].order = o
  <2>1. PICK w \in Workers : Settle(w) /\ worker[w].order = o
    BY <1>8
  <2>2. w \in S
    BY <2>1 DEF S, Settlers, Handles, Undecided, Settle, At
  <2>3. \A v \in Workers : ~TakeJob(v, o)
    <3>1. UNCHANGED job
      BY <2>1 DEF Settle
    <3>2. QED
      BY <1>1, <3>1 DEF TakeJob, TypeInv, DispatchInv, DispatchTypeOK, Job
  <2>4. T \in SUBSET (S \ {w})
    BY <1>5, <2>1, <2>3
  <2>5. IsFiniteSet(S \ {w}) /\ Cardinality(S \ {w}) = Cardinality(S) - 1
    BY <1>2, <2>2, FS_RemoveElement
  <2>6. /\ IsFiniteSet(T)
        /\ Cardinality(T) <= Cardinality(S) - 1
        /\ Cardinality(T) \in Nat
    BY <2>4, <2>5, FS_Subset, FS_CardinalityType
  <2>7. debits'[o] = debits[o] + 1
    BY <1>1, <2>1, SettleEffect
  <2>8. QED
    BY <1>2, <1>3, <1>4, <1>6, <2>6, <2>7 DEF T
<1>9. CASE ~ \E w \in Workers : TakeJob(w, o) \/ (Settle(w) /\ worker[w].order = o)
  <2>1. T \in SUBSET S
    BY <1>5, <1>9
  <2>2. /\ IsFiniteSet(T)
        /\ Cardinality(T) <= Cardinality(S)
        /\ Cardinality(T) \in Nat
    BY <1>2, <2>1, FS_Subset, FS_CardinalityType
  <2>3. debits'[o] = debits[o]
    BY <1>1, <1>9, LedgerStep, SettleEffect DEF ledgerVars
  <2>4. QED
    BY <1>2, <1>3, <1>4, <1>6, <2>2, <2>3 DEF T
<1>10. QED
  BY <1>7, <1>8, <1>9

\* RedeliveryInv is inductive.
LEMMA RedeliveryInvStep ==
  ASSUME RedeliveryInv, [Next]_vars
  PROVE  RedeliveryInv'
<1>1. ChargeInv'
  BY ChargeInvStep DEF RedeliveryInv
<1>2. QED
  BY <1>1, SettlementsStep DEF RedeliveryInv

\* No job and no worker in the initial state.
LEMMA RedeliveryInvInit == Init => RedeliveryInv
<1> SUFFICES ASSUME Init PROVE RedeliveryInv
  OBVIOUS
<1>1. ASSUME NEW o \in Orders
      PROVE  /\ IsFiniteSet(Settlers(o))
             /\ debits[o] + Cardinality(Settlers(o))
                  <= HandedOut(o) + job[o].stalls + job[o].attempts
  <2>1. Settlers(o) = {}
    BY DEF Init, DispatchInit, IdleWorker, Settlers, Undecided
  <2>2. debits[o] = 0 /\ HandedOut(o) = 0 /\ job[o].stalls = 0 /\ job[o].attempts = 0
    BY DEF Init, StoreInit, DispatchInit, NoJob, HandedOut
  <2>3. QED
    BY <2>1, <2>2, FS_EmptySet
<1>2. QED
  BY <1>1, ChargeInvInit DEF RedeliveryInv, SettlementsPermitted

\* Each charge of an order beyond the first needs a lost lock or a failed
\* attempt of its own (queue.constants.ts, matching.processor.ts:32).
THEOREM RechargesNeedRedelivery == Spec => []ChargesNeedRedelivery
<1>1. RedeliveryInv => ChargesNeedRedelivery
  <2> SUFFICES ASSUME RedeliveryInv, NEW o \in Orders
               PROVE  debits[o] <= 1 + job[o].stalls + job[o].attempts
    BY DEF ChargesNeedRedelivery
  <2>1. /\ IsFiniteSet(Settlers(o))
        /\ debits[o] + Cardinality(Settlers(o)) <= HandedOut(o) + job[o].stalls + job[o].attempts
    BY DEF RedeliveryInv, SettlementsPermitted
  <2>2. Cardinality(Settlers(o)) \in Nat
    BY <2>1, FS_CardinalityType
  <2>3. /\ debits[o] \in Nat
        /\ job[o].stalls \in Nat
        /\ job[o].attempts \in Nat
        /\ HandedOut(o) \in 0..1
    BY DispatchAssumption
    DEF RedeliveryInv, ChargeInv, SettledInv, TypeInv, StoreTypeOK, DispatchInv, DispatchTypeOK,
        Job, HandedOut
  <2>4. QED
    BY <2>1, <2>2, <2>3
<1>2. QED
  BY <1>1, RedeliveryInvInit, RedeliveryInvStep, PTL DEF Spec

-----------------------------------------------------------------------------
\* Orders, drivers and workers are finitely many; somebody works.
FiniteBooks == IsFiniteSet(Orders) /\ IsFiniteSet(Drivers)
FiniteFleetOfWorkers == IsFiniteSet(Workers) /\ Workers # {}

-----------------------------------------------------------------------------
(***************************************************************************)
(* The ledger adds up.                                                     *)
(***************************************************************************)

BooksInv == TypeInv /\ BooksBalance

\* The prices of the orders that were charged, and how one more charge of an
\* order moves a merchant's sales.
LEMMA SalesStep ==
  ASSUME FiniteBooks, TypeInv, NEW m \in Merchants, NEW o \in Orders,
         debits'[o] = debits[o] + 1, \A p \in Orders \ {o} : debits'[p] = debits[p]
  PROVE  /\ Sales(m) \in Int
         /\ Sales(m)' = IF MerchantOf[o] = m THEN Sales(m) + Price[o] ELSE Sales(m)
<1> DEFINE f == [p \in Orders |-> debits[p] * Price[p]]
           g == [p \in Orders |-> debits'[p] * Price[p]]
           S == OrdersOf(m)
<1>1. S \in SUBSET Orders /\ IsFiniteSet(S)
  BY FS_Subset DEF OrdersOf, FiniteBooks
<1>2. \A p \in Orders : debits[p] \in Nat /\ Price[p] \in Nat
  BY BillTyped DEF TypeInv, StoreTypeOK
<1>3. \A a \in Nat, b \in Nat : a * b \in Int /\ (a + 1) * b = a * b + b
  OBVIOUS
<1>4. \A p \in Orders : f[p] \in Int
  BY <1>2, <1>3
<1>5. g[o] = f[o] + Price[o]
  BY <1>2, <1>3
<1>6. \A p \in Orders : p # o => g[p] = f[p]
  OBVIOUS
<1>7. Sales(m) = SumFunctionOnSet(f, S) /\ Sales(m)' = SumFunctionOnSet(g, S)
  BY DEF Sales, OrdersOf
<1>8. SumFunctionOnSet(f, S) \in Int
  BY <1>1, <1>4, SumOfIntegers
<1> HIDE DEF f, g, S
<1>9. CASE MerchantOf[o] = m
  <2>1. o \in S
    BY <1>9 DEF S, OrdersOf
  <2>2. g[o] \in Int /\ f[o] \in Int /\ Price[o] \in Int
    BY <1>2, <1>4, <1>5
  <2>3. SumFunctionOnSet(g, S) = SumFunctionOnSet(f, S) - f[o] + g[o]
    BY <1>1, <1>4, <1>6, <2>1, <2>2, SumMovesByOne
  <2> QED
    BY <1>5, <1>7, <1>8, <1>9, <2>2, <2>3
<1>10. CASE MerchantOf[o] # m
  <2>1. o \notin S
    BY <1>10 DEF S, OrdersOf
  <2>2. SumFunctionOnSet(f, S) = SumFunctionOnSet(g, S)
    BY <1>1, <1>6, <2>1, SumOfEquals
  <2> QED
    BY <1>7, <1>8, <1>10, <2>2
<1> QED
  BY <1>9, <1>10

\* One more credit of one driver adds one to the credits of the order.
LEMMA CreditsStep ==
  ASSUME FiniteBooks, NEW c \in [Drivers -> Nat], NEW d \in Drivers
  PROVE  SumFunctionOnSet([c EXCEPT ![d] = @ + 1], Drivers) = SumFunctionOnSet(c, Drivers) + 1
<1> DEFINE e == [c EXCEPT ![d] = @ + 1]
<1>1. /\ \A x \in Drivers : c[x] \in Int
      /\ e[d] = c[d] + 1
      /\ \A x \in Drivers : x # d => e[x] = c[x]
  OBVIOUS
<1> HIDE DEF e
<1>2. e[d] \in Int
  BY <1>1
<1>3. SumFunctionOnSet(e, Drivers) = SumFunctionOnSet(c, Drivers) - c[d] + e[d]
  BY <1>1, <1>2, SumMovesByOne DEF FiniteBooks
<1>4. SumFunctionOnSet(c, Drivers) \in Int
  BY <1>1, SumOfIntegers DEF FiniteBooks
<1>5. SumFunctionOnSet(e, Drivers) = SumFunctionOnSet(c, Drivers) + 1
  BY <1>1, <1>3, <1>4
<1> QED
  BY <1>5 DEF e

\* Nothing has been sold or paid out in the initial state.
LEMMA BooksInvInit ==
  ASSUME FiniteBooks, Init
  PROVE  BooksInv
<1>1. TypeInv
  BY TypeInvInit
<1>2. ASSUME NEW m \in Merchants
      PROVE  balance[m] + Sales(m) = balance[m]
  <2> DEFINE f == [p \in Orders |-> debits[p] * Price[p]]
  <2>1. \A p \in Orders : debits[p] = 0 /\ Price[p] \in Nat
    BY BillTyped DEF Init, StoreInit
  <2>2. OrdersOf(m) \in SUBSET Orders /\ IsFiniteSet(OrdersOf(m))
    BY FS_Subset DEF OrdersOf, FiniteBooks
  <2>3. \A p \in OrdersOf(m) : f[p] = 0
    BY <2>1, <2>2
  <2>4. Sales(m) = SumFunctionOnSet(f, OrdersOf(m))
    BY DEF Sales
  <2> HIDE DEF f
  <2>5. Sales(m) = 0
    BY <2>2, <2>3, <2>4, SumOfZeros
  <2>6. balance[m] \in Int
    BY <1>1 DEF TypeInv, StoreTypeOK
  <2> QED
    BY <2>5, <2>6
<1>3. ASSUME NEW o \in Orders
      PROVE  SumFunctionOnSet(credits[o], Drivers) = debits[o]
  <2>1. debits[o] = 0 /\ \A d \in Drivers : credits[o][d] = 0
    BY DEF Init, StoreInit
  <2> QED
    BY <2>1, SumOfZeros DEF FiniteBooks
<1>4. balance \in InitialBalances
  BY DEF Init, StoreInit
<1> QED
  BY <1>1, <1>2, <1>3, <1>4 DEF BooksInv, BooksBalance

\* Only a settlement writes the ledger, and it writes both sides of it.
LEMMA BooksInvStep ==
  ASSUME FiniteBooks, BooksInv, [Next]_vars
  PROVE  BooksInv'
<1> USE DEF BooksInv
<1>1. TypeInv'
  BY StepKeepsTypes
<1>2. CASE UNCHANGED <<assignedDriver, ledgerVars>>
  BY <1>1, <1>2 DEF BooksBalance, Sales, ledgerVars
<1>3. ASSUME NEW w \in Workers, Settle(w)
      PROVE  BooksBalance'
  <2> DEFINE o == worker[w].order
             d == worker[w].candidate
  <2>1. o \in Orders /\ d \in Drivers
    BY <1>3 DEF Settle, At, TypeInv, DispatchInv, WorkerLocals
  <2>2. SettlementWrites(o, d)
    BY <1>3 DEF Settle
  <2> HIDE DEF o, d
  <2>3. /\ debits'[o] = debits[o] + 1
        /\ \A p \in Orders \ {o} : debits'[p] = debits[p] /\ credits'[p] = credits[p]
        /\ credits'[o] = [credits[o] EXCEPT ![d] = @ + 1]
        /\ \A m \in Merchants :
             balance'[m] = IF m = MerchantOf[o] THEN balance[m] - Price[o] ELSE balance[m]
    BY <2>1, <2>2 DEF SettlementWrites, TypeInv, StoreTypeOK
  <2>4. PICK start \in InitialBalances : \A m \in Merchants : balance[m] + Sales(m) = start[m]
    BY DEF BooksBalance
  <2>5. ASSUME NEW m \in Merchants
        PROVE  balance'[m] + Sales(m)' = start[m]
    <3>1. /\ Sales(m) \in Int
          /\ Sales(m)' = IF MerchantOf[o] = m THEN Sales(m) + Price[o] ELSE Sales(m)
      BY <2>1, <2>3, SalesStep
    <3>2. balance[m] \in Int /\ Price[o] \in Int
      BY <2>1, BillTyped DEF TypeInv, StoreTypeOK
    <3>3. balance[m] + Sales(m) = start[m]
      BY <2>4
    <3>4. balance'[m] = IF m = MerchantOf[o] THEN balance[m] - Price[o] ELSE balance[m]
      BY <2>3
    <3> QED
      BY <3>1, <3>2, <3>3, <3>4
  <2>6. ASSUME NEW p \in Orders
        PROVE  SumFunctionOnSet(credits'[p], Drivers) = debits'[p]
    <3>1. SumFunctionOnSet(credits[p], Drivers) = debits[p]
      BY DEF BooksBalance
    <3>2. CASE p # o
      BY <2>3, <3>1, <3>2
    <3>3. CASE p = o
      <4>1. credits[o] \in [Drivers -> Nat]
        BY <2>1 DEF TypeInv, StoreTypeOK
      <4>2. SumFunctionOnSet([credits[o] EXCEPT ![d] = @ + 1], Drivers)
              = SumFunctionOnSet(credits[o], Drivers) + 1
        BY <2>1, <4>1, CreditsStep
      <4> QED
        BY <2>3, <3>1, <3>3, <4>2
    <3> QED
      BY <3>2, <3>3
  <2> QED
    BY <2>5, <2>6 DEF BooksBalance
<1> QED
  BY <1>1, <1>2, <1>3, LedgerStep

\* The ledger adds up in every reachable state, whatever the workers, the
\* retries and the crashes: the atomic decrement loses no charge and no
\* settlement books one side only (matching.processor.ts:192-217).
THEOREM LedgerAddsUp == FiniteBooks => (Spec => []BooksBalance)
<1> SUFFICES ASSUME FiniteBooks
             PROVE  Spec => []BooksBalance
  OBVIOUS
<1>1. Init => BooksInv
  BY BooksInvInit
<1>2. BooksInv /\ [Next]_vars => BooksInv'
  BY BooksInvStep
<1>3. BooksInv => BooksBalance
  BY DEF BooksInv
<1> QED
  BY <1>1, <1>2, <1>3, PTL DEF Spec

-----------------------------------------------------------------------------
(***************************************************************************)
(* How far a merchant can be overdrawn.                                    *)
(***************************************************************************)

\* Which worker a step moves, and what the step does to the balance.
LEMMA BalanceStep ==
  ASSUME TypeInv, [Next]_vars
  PROVE  \/ UNCHANGED <<worker, balance>>
         \/ \E w \in Workers :
              /\ \A v \in Workers : v # w => worker'[v] = worker[v]
              /\ \/ ReadBalance(w) /\ UNCHANGED balance
                 \/ Settle(w)
                 \/ worker'[w].pc # "pay" /\ UNCHANGED balance
<1> USE DEF TypeInv, DispatchInv, DispatchTypeOK
<1>1. ASSUME NEW w \in Workers, Dispatching(w)
      PROVE  /\ \A v \in Workers : v # w => worker'[v] = worker[v]
             /\ \/ ReadBalance(w) /\ UNCHANGED balance
                \/ Settle(w)
                \/ worker'[w].pc # "pay" /\ UNCHANGED balance
  <2>1. \A v \in Workers : v # w => worker'[v] = worker[v]
    BY <1>1 DEF Dispatching, TakeJob, LoadOrder, MarkMatching, FindDriver, CancelUnmatched,
                ReadBalance, CancelUnfunded, Settle, NotifyOutcome, Broadcast, FinishJob,
                JobThrows, WorkerCrashes, Goes
  <2>2. ASSUME NEW o \in Orders, TakeJob(w, o)
        PROVE  worker'[w].pc # "pay" /\ UNCHANGED balance
    BY <2>2 DEF TakeJob, storeVars, ledgerVars
  <2>3. CASE JobThrows(w) \/ WorkerCrashes(w) \/ FinishJob(w)
    BY <2>3 DEF JobThrows, WorkerCrashes, FinishJob, IdleWorker, storeVars, ledgerVars
  <2>4. CASE LoadOrder(w) \/ MarkMatching(w) \/ CancelUnmatched(w) \/ CancelUnfunded(w)
    BY <2>4 DEF LoadOrder, MarkMatching, CancelUnmatched, CancelUnfunded, Goes, WorkerState,
                storeVars, ledgerVars
  <2>5. CASE NotifyOutcome(w) \/ Broadcast(w)
    BY <2>5 DEF NotifyOutcome, Broadcast, Goes, WorkerState, storeVars, ledgerVars
  <2>6. CASE FindDriver(w)
    BY <2>6 DEF FindDriver, Goes, WorkerState, storeVars, ledgerVars
  <2>7. CASE ReadBalance(w)
    BY <2>7 DEF ReadBalance, storeVars, ledgerVars
  <2> QED
    BY <1>1, <2>1, <2>2, <2>3, <2>4, <2>5, <2>6, <2>7 DEF Dispatching
<1>2. ASSUME NEW o \in Orders, Creation(o)
      PROVE  UNCHANGED <<worker, balance>>
  BY <1>2 DEF Creation, CheckFunds, PersistOrder, EnqueueDispatch, CreationFails, storeVars,
              ledgerVars
<1>3. ASSUME NEW o \in Orders, JobStalls(o)
      PROVE  UNCHANGED <<worker, balance>>
  BY <1>3 DEF JobStalls, storeVars, ledgerVars
<1>4. ASSUME NEW r \in Requests, Travelling(r)
      PROVE  UNCHANGED <<worker, balance>>
  BY <1>4, TravellingWrites DEF Travelling, InsertPhoto, MarkPickedUp, MarkDelivered, NotifyTrip,
              storeVars, ledgerVars, dispatchVars
<1>5. CASE UNCHANGED vars
  BY <1>5 DEF vars, storeVars, ledgerVars, dispatchVars
<1> QED
  BY <1>1, <1>2, <1>3, <1>4, <1>5 DEF Next

\* What a worker is about to take is the price of one order of the merchant.
LEMMA CommittedBounded ==
  ASSUME TypeInv, NEW m, NEW limit \in Nat, \A o \in OrdersOf(m) : Price[o] <= limit,
         NEW w \in Workers
  PROVE  Committed(w, m) \in Nat /\ Committed(w, m) <= limit
<1>1. worker[w].pc = "pay" => worker[w].order \in Orders
  BY DEF TypeInv, DispatchInv, WorkerLocals
<1>2. \A o \in Orders : Price[o] \in Nat
  BY BillTyped
<1> QED
  BY <1>1, <1>2 DEF Committed, OrdersOf

\* One step keeps the debt within the limit for each worker but one: a read
\* finds the balance sufficient for its own order, and the other workers are
\* about to take one order each; a settlement only takes what was committed.
LEMMA CoveredStep ==
  ASSUME FiniteFleetOfWorkers, TypeInv, [Next]_vars,
         NEW m \in Merchants, NEW limit \in Nat, \A o \in OrdersOf(m) : Price[o] <= limit,
         Covered(m, limit)
  PROVE  Covered(m, limit)'
<1> DEFINE f == [v \in Workers |-> Committed(v, m)]
           g == [v \in Workers |-> Committed(v, m)']
           room == (Cardinality(Workers) - 1) * limit
<1>1. /\ Covered(m, limit) <=> balance[m] - SumFunctionOnSet(f, Workers) + room >= 0
      /\ Covered(m, limit)' <=> balance'[m] - SumFunctionOnSet(g, Workers) + room >= 0
  BY DEF Covered, Exposure
<1>2. TypeInv'
  BY StepKeepsTypes
<1>3. /\ \A v \in Workers : f[v] = Committed(v, m) /\ g[v] = Committed(v, m)'
      /\ \A v \in Workers : f[v] \in Nat /\ g[v] \in Nat /\ f[v] <= limit /\ g[v] <= limit
  <2>1. \A v \in Workers : Committed(v, m) \in Nat /\ Committed(v, m) <= limit
    BY CommittedBounded
  <2>2. \A v \in Workers : Committed(v, m)' \in Nat /\ Committed(v, m)' <= limit
    <3>1. \A v \in Workers : worker'[v].pc = "pay" => worker'[v].order \in Orders
      BY <1>2 DEF TypeInv, DispatchInv, WorkerLocals
    <3>2. \A o \in Orders : Price[o] \in Nat
      BY BillTyped
    <3> QED
      BY <3>1, <3>2 DEF Committed, OrdersOf
  <2> QED
    BY <2>1, <2>2
<1>4. /\ SumFunctionOnSet(f, Workers) \in Int
      /\ SumFunctionOnSet(g, Workers) \in Int
      /\ balance[m] \in Int
      /\ balance'[m] \in Int
  <2>1. balance[m] \in Int /\ balance'[m] \in Int
    BY <1>2 DEF TypeInv, StoreTypeOK
  <2> HIDE DEF f, g
  <2> QED
    BY <1>3, <2>1, SumOfIntegers DEF FiniteFleetOfWorkers
<1>5. Cardinality(Workers) \in Nat /\ room \in Int
  BY FS_CardinalityType DEF FiniteFleetOfWorkers
<1> HIDE DEF f, g, room
<1>6. CASE UNCHANGED <<worker, balance>>
  <2>1. \A v \in Workers : f[v] = g[v]
    BY <1>3, <1>6 DEF Committed
  <2>2. SumFunctionOnSet(f, Workers) = SumFunctionOnSet(g, Workers)
    BY <2>1, SumOfEquals DEF FiniteFleetOfWorkers
  <2> QED
    BY <1>1, <1>6, <2>2
<1>7. ASSUME NEW w \in Workers, \A v \in Workers : v # w => worker'[v] = worker[v],
             \/ ReadBalance(w) /\ UNCHANGED balance
             \/ Settle(w)
             \/ worker'[w].pc # "pay" /\ UNCHANGED balance
      PROVE  balance'[m] - SumFunctionOnSet(g, Workers) + room >= 0
  <2> DEFINE o == worker[w].order
  <2>1. \A v \in Workers : v # w => g[v] = f[v]
    BY <1>3, <1>7 DEF Committed
  <2>2. SumFunctionOnSet(g, Workers) = SumFunctionOnSet(f, Workers) - f[w] + g[w]
    BY <1>3, <2>1, SumMovesByOne DEF FiniteFleetOfWorkers
  <2>3. balance[m] - SumFunctionOnSet(f, Workers) + room >= 0
    BY <1>1
  <2>4. f[w] \in Nat /\ g[w] \in Nat /\ g[w] <= limit
    BY <1>3
  <2>5. CASE worker'[w].pc # "pay" /\ UNCHANGED balance
    <3>1. g[w] = 0
      BY <1>3, <2>5 DEF Committed
    <3> QED
      BY <1>4, <1>5, <2>2, <2>3, <2>4, <2>5, <3>1
  <2>6. CASE Settle(w)
    <3>1. o \in Orders /\ worker[w].pc = "pay" /\ worker[w].seen >= Price[o]
      BY <2>6 DEF Settle, At, TypeInv, DispatchInv, WorkerLocals
    <3>2. worker'[w].pc = "notifyAssigned"
      BY <2>6 DEF Settle, Goes, TypeInv, DispatchInv, DispatchTypeOK, WorkerState
    <3>3. balance'[m] = IF MerchantOf[o] = m THEN balance[m] - Price[o] ELSE balance[m]
      BY <2>6, <3>1 DEF Settle, SettlementWrites, TypeInv, StoreTypeOK
    <3>4. g[w] = 0
      BY <1>3, <3>2 DEF Committed
    <3>5. f[w] = IF MerchantOf[o] = m THEN Price[o] ELSE 0
      BY <1>3, <3>1 DEF Committed
    <3>6. balance'[m] = balance[m] - f[w]
      BY <1>4, <3>3, <3>5
    <3> QED
      BY <1>4, <1>5, <2>2, <2>3, <2>4, <3>4, <3>6
  <2>7. CASE ReadBalance(w) /\ UNCHANGED balance
    <3>1. /\ worker[w].pc = "settle"
          /\ worker'[w].order = o
          /\ worker'[w].seen = balance[MerchantOf[o]]
      BY <2>7 DEF ReadBalance, At, TypeInv, DispatchInv, DispatchTypeOK, WorkerState
    <3>2. f[w] = 0
      BY <1>3, <3>1 DEF Committed
    <3>3. CASE g[w] = 0
      BY <1>4, <1>5, <2>2, <2>3, <2>7, <3>2, <3>3
    <3>4. CASE g[w] # 0
      <4>1. g[w] <= balance[m]
        BY <1>3, <3>1, <3>4 DEF Committed
      <4>2. SumFunctionOnSet(g, Workers) = g[w] + SumFunctionOnSet(g, Workers \ {w})
        BY <1>3, SumTakesAny DEF FiniteFleetOfWorkers
      <4>3. /\ IsFiniteSet(Workers \ {w})
            /\ Cardinality(Workers \ {w}) = Cardinality(Workers) - 1
        BY FS_RemoveElement DEF FiniteFleetOfWorkers
      <4>4. SumFunctionOnSet(g, Workers \ {w}) <= Cardinality(Workers \ {w}) * limit
        BY <1>3, <4>3, SumAtMost
      <4>5. SumFunctionOnSet(g, Workers \ {w}) \in Int
        BY <1>3, <4>3, SumOfIntegers
      <4>6. SumFunctionOnSet(g, Workers \ {w}) <= room
        BY <4>3, <4>4 DEF room
      <4> QED
        BY <1>4, <1>5, <2>4, <2>7, <4>1, <4>2, <4>5, <4>6
    <3> QED
      BY <3>3, <3>4
  <2> QED
    BY <1>7, <2>5, <2>6, <2>7
<1> QED
  BY <1>1, <1>6, <1>7, BalanceStep

BoundInv == TypeInv /\ OverdraftInv

\* The limits are numbers: nothing, or the price of an order.
LEMMA LimitsAreNaturals ==
  \A limit \in {0} \cup {Price[o] : o \in Orders} : limit \in Nat
  BY BillTyped

\* Every merchant starts with money, and nobody is about to take any.
LEMMA BoundInvInit ==
  ASSUME FiniteFleetOfWorkers, Init
  PROVE  BoundInv
<1>1. TypeInv
  BY TypeInvInit
<1>2. ASSUME NEW m \in Merchants, NEW limit \in Nat
      PROVE  Covered(m, limit)
  <2> DEFINE f == [w \in Workers |-> Committed(w, m)]
  <2>1. \A w \in Workers : f[w] = 0
    BY DEF Init, DispatchInit, IdleWorker, Committed
  <2>2. Exposure(m) = SumFunctionOnSet(f, Workers)
    BY DEF Exposure
  <2> HIDE DEF f
  <2>3. Exposure(m) = 0
    BY <2>1, <2>2, SumOfZeros DEF FiniteFleetOfWorkers
  <2>4. balance[m] \in Nat
    BY StoreAssumption DEF Init, StoreInit
  <2>5. Cardinality(Workers) \in Nat /\ Cardinality(Workers) # 0
    BY FS_CardinalityType, FS_EmptySet DEF FiniteFleetOfWorkers
  <2>6. (Cardinality(Workers) - 1) * limit \in Nat
    <3>1. Cardinality(Workers) - 1 \in Nat
      BY <2>5
    <3>2. \A a \in Nat, b \in Nat : a * b \in Nat
      OBVIOUS
    <3> QED
      BY <3>1, <3>2
  <2> QED
    BY <2>3, <2>4, <2>6 DEF Covered
<1> QED
  BY <1>1, <1>2, LimitsAreNaturals DEF BoundInv, OverdraftInv

LEMMA BoundInvStep ==
  ASSUME FiniteFleetOfWorkers, BoundInv, [Next]_vars
  PROVE  BoundInv'
<1>1. TypeInv /\ TypeInv'
  BY StepKeepsTypes DEF BoundInv
<1>2. ASSUME NEW m \in Merchants, NEW limit \in {0} \cup {Price[o] : o \in Orders},
             \A o \in OrdersOf(m) : Price[o] <= limit
      PROVE  Covered(m, limit)'
  <2>1. limit \in Nat
    BY LimitsAreNaturals
  <2>2. Covered(m, limit)
    BY <1>2 DEF BoundInv, OverdraftInv
  <2> QED
    BY <1>1, <1>2, <2>1, <2>2, CoveredStep
<1> QED
  BY <1>1, <1>2 DEF BoundInv, OverdraftInv, OrdersOf

\* The dearest order of a merchant sets the limit; nothing, if it has none.
LEMMA BoundInvBounds ==
  ASSUME IsFiniteSet(Orders), FiniteFleetOfWorkers, BoundInv
  PROVE  OverdraftIsBounded
<1> SUFFICES ASSUME NEW m \in Merchants
             PROVE  \/ balance[m] >= 0
                    \/ \E o \in OrdersOf(m) :
                         balance[m] + (Cardinality(Workers) - 1) * Price[o] >= 0
  BY DEF OverdraftIsBounded
<1>1. Cardinality(Workers) \in Nat
  BY FS_CardinalityType DEF FiniteFleetOfWorkers
<1>2. balance[m] \in Int
  BY DEF BoundInv, TypeInv, StoreTypeOK
<1>3. Exposure(m) \in Nat
  <2> DEFINE f == [w \in Workers |-> Committed(w, m)]
  <2>1. \A w \in Workers : f[w] \in Nat
    <3>1. \A w \in Workers : worker[w].pc = "pay" => worker[w].order \in Orders
      BY DEF BoundInv, TypeInv, DispatchInv, WorkerLocals
    <3> QED
      BY <3>1, BillTyped DEF Committed
  <2>2. Exposure(m) = SumFunctionOnSet(f, Workers)
    BY DEF Exposure
  <2> HIDE DEF f
  <2> QED
    BY <2>1, <2>2, SumOfNaturals DEF FiniteFleetOfWorkers
<1>4. CASE OrdersOf(m) = {}
  <2>1. Covered(m, 0)
    BY <1>4 DEF BoundInv, OverdraftInv
  <2>2. (Cardinality(Workers) - 1) * 0 = 0
    BY <1>1
  <2>3. balance[m] - Exposure(m) + 0 >= 0
    BY <2>1, <2>2 DEF Covered
  <2> QED
    BY <1>2, <1>3, <2>3
<1>5. CASE OrdersOf(m) # {}
  <2>1. IsFiniteSet(OrdersOf(m)) /\ OrdersOf(m) \in SUBSET Orders
    BY FS_Subset DEF OrdersOf
  <2>2. PICK o \in OrdersOf(m) : \A p \in OrdersOf(m) : Price[p] <= Price[o]
    BY <1>5, <2>1, BillTyped, GreatestOfFinite
  <2>3. Covered(m, Price[o]) /\ Price[o] \in Nat
    BY <2>1, <2>2, BillTyped DEF BoundInv, OverdraftInv
  <2> DEFINE room == (Cardinality(Workers) - 1) * Price[o]
  <2>4. room \in Int
    BY <1>1, <2>3
  <2>5. balance[m] - Exposure(m) + room >= 0
    BY <2>3 DEF Covered
  <2>6. balance[m] + room >= 0
    <3> HIDE DEF room
    <3> QED
      BY <1>2, <1>3, <2>4, <2>5
  <2> QED
    BY <2>6
<1> QED
  BY <1>4, <1>5

\* However many settlements run side by side, each on a balance it read without
\* a lock, a merchant's debt stays within one order for each worker but one;
\* with one worker there is none (matching.processor.ts:146-199).
THEOREM DebtIsBounded ==
  IsFiniteSet(Orders) /\ FiniteFleetOfWorkers => (Spec => []OverdraftIsBounded)
<1> SUFFICES ASSUME IsFiniteSet(Orders), FiniteFleetOfWorkers
             PROVE  Spec => []OverdraftIsBounded
  OBVIOUS
<1>1. Init => BoundInv
  BY BoundInvInit
<1>2. BoundInv /\ [Next]_vars => BoundInv'
  BY BoundInvStep
<1>3. BoundInv => OverdraftIsBounded
  BY BoundInvBounds
<1> QED
  BY <1>1, <1>2, <1>3, PTL DEF Spec
=============================================================================
