------------------------------ MODULE Dispatch ------------------------------
(***************************************************************************)
(* From POST /orders to the end of the dispatch job: OrdersService.       *)
(* createOrder, the BullMQ dispatch queue, and MatchingProcessor.process. *)
(*                                                                         *)
(* A worker is one BullMQ worker of one API process (concurrency 1).  One *)
(* job per order (jobId dispatch-order-<id>), MaxAttempts attempts, and   *)
(* at-least-once delivery: a job whose lock is lost is handed out again,  *)
(* even while the worker that lost it is still running it.                *)
(***************************************************************************)
EXTENDS OrderStore

CONSTANTS
  Workers,      \* dispatch workers, one per API process
  NoWorker,     \* no worker holds the job's lock
  NoOrder,      \* the worker or request handles no order
  MaxAttempts,  \* "attempts" of the dispatch job
  MaxStalled    \* BullMQ's maxStalledCount

ASSUME DispatchAssumption ==
  /\ NoWorker \notin Workers
  /\ NoOrder \notin Orders
  /\ MaxAttempts \in Nat \ {0}
  /\ MaxStalled \in Nat

VARIABLES
  creation, \* creation[o]: how far the POST /orders that makes o has come
  job,      \* job[o]: the dispatch job of order o
  worker    \* worker[w]: the process() call worker w is in

dispatchVars == <<creation, job, worker>>

CreationStep == {"requested", "funded", "committed", "ended"}
JobState == {"none", "waiting", "active", "completed", "failed"}
WorkerStep ==
  {"idle", "load", "mark", "find", "cancel", "settle", "pay",
   "notifyAssigned", "notifyCancelled", "broadcast", "finish"}

Job == [state : JobState, attempts : 0..MaxAttempts, stalls : 0..(MaxStalled + 1),
        owner : Workers \cup {NoWorker}]

\* A worker's local variables; seen is the merchant balance it has read.
WorkerState == [pc : WorkerStep, order : Orders \cup {NoOrder},
                candidate : Drivers \cup {NoDriver}, seen : Int]

NoJob == [state |-> "none", attempts |-> 0, stalls |-> 0, owner |-> NoWorker]
IdleWorker == [pc |-> "idle", order |-> NoOrder, candidate |-> NoDriver, seen |-> 0]

DispatchInit ==
  /\ creation = [o \in Orders |-> "requested"]
  /\ job = [o \in Orders |-> NoJob]
  /\ worker = [w \in Workers |-> IdleWorker]

DispatchTypeOK ==
  /\ creation \in [Orders -> CreationStep]
  /\ job \in [Orders -> Job]
  /\ worker \in [Workers -> WorkerState]

-----------------------------------------------------------------------------
(***************************************************************************)
(* POST /orders.                                                           *)
(***************************************************************************)

CreationGoes(o, from, to) ==
  /\ creation[o] = from
  /\ creation' = [creation EXCEPT ![o] = to]

\* The merchant's balance is read and compared; too little ends in a 400.
CheckFunds(o) ==
  /\ \/ /\ balance[MerchantOf[o]] >= Price[o]
        /\ CreationGoes(o, "requested", "funded")
     \/ /\ balance[MerchantOf[o]] < Price[o]
        /\ CreationGoes(o, "requested", "ended")
  /\ UNCHANGED <<storeVars, job, worker>>

\* One transaction inserts the order as DRAFT and moves it to PENDING.
PersistOrder(o) ==
  /\ CreationGoes(o, "funded", "committed")
  /\ status' = [status EXCEPT ![o] = "PENDING"]
  /\ UNCHANGED <<assignedDriver, driverStatus, ledgerVars, proofVars, notices, job, worker>>

\* The job is added only after the commit, in another store.
EnqueueDispatch(o) ==
  /\ CreationGoes(o, "committed", "ended")
  /\ job' = [job EXCEPT ![o] = [NoJob EXCEPT !.state = "waiting"]]
  /\ UNCHANGED <<storeVars, worker>>

\* The request dies on the way: a failed statement, a Redis that refuses
\* the job, a crash of the process.  What is committed stays.
CreationFails(o) ==
  /\ creation[o] \in {"requested", "funded", "committed"}
  /\ creation' = [creation EXCEPT ![o] = "ended"]
  /\ UNCHANGED <<storeVars, job, worker>>

CreateOrder(o) == CheckFunds(o) \/ PersistOrder(o) \/ EnqueueDispatch(o)

-----------------------------------------------------------------------------
(***************************************************************************)
(* The queue.  A job's backoff delay only postpones its next attempt, so  *)
(* a delayed job is a waiting one.                                        *)
(***************************************************************************)

TakeJob(w, o) ==
  /\ worker[w].pc = "idle"
  /\ job[o].state = "waiting"
  /\ job' = [job EXCEPT ![o].state = "active", ![o].owner = w]
  /\ worker' = [worker EXCEPT ![w] = [IdleWorker EXCEPT !.pc = "load", !.order = o]]
  /\ UNCHANGED <<storeVars, creation>>

\* The job's lock has run out, because its worker crashed or did not renew
\* it in time: the job is handed out again, MaxStalled times at most.
JobStalls(o) ==
  /\ job[o].state = "active"
  /\ job' = [job EXCEPT
       ![o].state  = IF job[o].stalls < MaxStalled THEN "waiting" ELSE "failed",
       ![o].stalls = @ + 1,
       ![o].owner  = NoWorker]
  /\ UNCHANGED <<storeVars, creation, worker>>

\* process() returned.  A worker that has lost the lock cannot move the job.
FinishJob(w) ==
  /\ worker[w].pc = "finish"
  /\ worker' = [worker EXCEPT ![w] = IdleWorker]
  /\ LET o == worker[w].order IN
     job' = IF job[o].owner = w
            THEN [job EXCEPT ![o].state = "completed", ![o].owner = NoWorker]
            ELSE job
  /\ UNCHANGED <<storeVars, creation>>

\* Faulty variant: attempts are counted but never run out.
JobRetriesForever(w) ==
  /\ worker[w].pc \notin {"idle", "finish"}
  /\ worker' = [worker EXCEPT ![w] = IdleWorker]
  /\ job' = [job EXCEPT ![worker[w].order].state = "waiting",
                        ![worker[w].order].attempts = @ + 1,
                        ![worker[w].order].owner = NoWorker]
  /\ UNCHANGED <<storeVars, creation>>

\* Faulty variant: the error is caught and logged, so the job completes.
JobSwallowsError(w) ==
  /\ worker[w].pc \notin {"idle", "finish"}
  /\ worker' = [worker EXCEPT ![w].pc = "finish"]
  /\ UNCHANGED <<storeVars, creation, job>>

\* process() threw: a failed query, transaction, broadcast or notification.
JobThrows(w) ==
  /\ worker[w].pc \notin {"idle", "finish"}
  /\ worker' = [worker EXCEPT ![w] = IdleWorker]
  /\ LET o == worker[w].order IN
     job' = IF job[o].owner = w
            THEN [job EXCEPT
                   ![o].state = IF job[o].attempts + 1 < MaxAttempts
                                THEN "waiting" ELSE "failed",
                   ![o].attempts = @ + 1,
                   ![o].owner = NoWorker]
            ELSE job
  /\ UNCHANGED <<storeVars, creation>>

\* Faulty variant: the lock of a crashed worker never runs out.
CrashKeepsLock(w) ==
  /\ worker[w].pc # "idle"
  /\ worker' = [worker EXCEPT ![w] = IdleWorker]
  /\ UNCHANGED <<storeVars, creation, job>>

\* The process dies: its job stays active and nobody holds its lock.
WorkerCrashes(w) ==
  /\ worker[w].pc # "idle"
  /\ worker' = [worker EXCEPT ![w] = IdleWorker]
  /\ LET o == worker[w].order IN
     job' = IF job[o].owner = w THEN [job EXCEPT ![o].owner = NoWorker] ELSE job
  /\ UNCHANGED <<storeVars, creation>>

-----------------------------------------------------------------------------
(***************************************************************************)
(* MatchingProcessor.process, one action per statement it awaits.         *)
(***************************************************************************)

At(w, pc) == worker[w].pc = pc
Goes(w, pc) == worker' = [worker EXCEPT ![w].pc = pc]

\* Faulty variant: an order that is already decided is not skipped.
LoadOrderAnyStatus(w) ==
  /\ At(w, "load")
  /\ Goes(w, "mark")
  /\ UNCHANGED <<storeVars, creation, job>>

\* The order is read; anything but PENDING and MATCHING is skipped.
LoadOrder(w) ==
  /\ At(w, "load")
  /\ \/ /\ status[worker[w].order] \in {"PENDING", "MATCHING"}
        /\ Goes(w, "mark")
     \/ /\ status[worker[w].order] \notin {"PENDING", "MATCHING"}
        /\ Goes(w, "finish")
  /\ UNCHANGED <<storeVars, creation, job>>

\* The status is overwritten, whatever it has become since the read.  The
\* broadcast that follows writes no row; if it throws, JobThrows.
MarkMatching(w) ==
  /\ At(w, "mark")
  /\ status' = [status EXCEPT ![worker[w].order] = "MATCHING"]
  /\ Goes(w, "find")
  /\ UNCHANGED <<assignedDriver, driverStatus, ledgerVars, proofVars, notices, creation, job>>

\* Faulty variant: the assignment is announced before it is settled.
FindDriverAnnounces(w) ==
  /\ At(w, "find")
  /\ LET o == worker[w].order
         closest == ClosestDrivers(o, AvailableDrivers(o))
     IN \/ \E d \in closest :
             /\ worker' = [worker EXCEPT ![w].pc = "settle", ![w].candidate = d]
             /\ notices' = [notices EXCEPT ![o] = @ \cup {"ORDER_ASSIGNED"}]
        \/ closest = {} /\ Goes(w, "cancel") /\ UNCHANGED notices
  /\ UNCHANGED <<status, assignedDriver, driverStatus, ledgerVars, proofVars, creation, job>>

\* The available drivers are read and the closest is remembered.
FindDriver(w) ==
  /\ At(w, "find")
  /\ LET o == worker[w].order
         closest == ClosestDrivers(o, AvailableDrivers(o))
     IN \/ \E d \in closest :
             worker' = [worker EXCEPT ![w].pc = "settle", ![w].candidate = d]
        \/ closest = {} /\ Goes(w, "cancel")
  /\ UNCHANGED <<storeVars, creation, job>>

\* No candidate: the order is cancelled, again whatever its status.
CancelUnmatched(w) ==
  /\ At(w, "cancel")
  /\ status' = [status EXCEPT ![worker[w].order] = "CANCELLED"]
  /\ Goes(w, "notifyCancelled")
  /\ UNCHANGED <<assignedDriver, driverStatus, ledgerVars, proofVars, notices, creation, job>>

\* Faulty variant: the order is given its driver before the money is settled.
AssignBeforeSettling(w) ==
  LET o == worker[w].order
  IN /\ At(w, "settle")
     /\ worker' = [worker EXCEPT ![w].pc = "pay", ![w].seen = balance[MerchantOf[o]]]
     /\ status' = [status EXCEPT ![o] = "ASSIGNED"]
     /\ assignedDriver' = [assignedDriver EXCEPT ![o] = worker[w].candidate]
     /\ UNCHANGED <<driverStatus, ledgerVars, proofVars, notices, creation, job>>

\* The settlement transaction starts by reading the balance, without a lock.
ReadBalance(w) ==
  /\ At(w, "settle")
  /\ worker' = [worker EXCEPT ![w].pc = "pay",
                              ![w].seen = balance[MerchantOf[worker[w].order]]]
  /\ UNCHANGED <<storeVars, creation, job>>

\* The balance read does not cover the price.
CancelUnfunded(w) ==
  /\ At(w, "pay")
  /\ worker[w].seen < Price[worker[w].order]
  /\ status' = [status EXCEPT ![worker[w].order] = "CANCELLED"]
  /\ Goes(w, "notifyCancelled")
  /\ UNCHANGED <<assignedDriver, driverStatus, ledgerVars, proofVars, notices, creation, job>>

\* The writes of the settlement, shared with its faulty variants.
SettlementWrites(o, d) ==
  /\ status' = [status EXCEPT ![o] = "ASSIGNED"]
  /\ assignedDriver' = [assignedDriver EXCEPT ![o] = d]
  /\ driverStatus' = [driverStatus EXCEPT ![d] = "ON_TRIP"]
  /\ balance' = [balance EXCEPT ![MerchantOf[o]] = @ - Price[o]]
  /\ debits' = [debits EXCEPT ![o] = @ + 1]
  /\ credits' = [credits EXCEPT ![o][d] = @ + 1]

\* Faulty variant: the balance check of createOrder is relied upon.
SettleUnchecked(w) ==
  /\ At(w, "pay")
  /\ SettlementWrites(worker[w].order, worker[w].candidate)
  /\ Goes(w, "notifyAssigned")
  /\ UNCHANGED <<proofVars, notices, creation, job>>

\* Faulty variant: a commit whose acknowledgement is lost is tried again.
SettleRetriesCommit(w) ==
  /\ At(w, "pay")
  /\ worker[w].seen >= Price[worker[w].order]
  /\ SettlementWrites(worker[w].order, worker[w].candidate)
  /\ Goes(w, "notifyAssigned") \/ Goes(w, "settle")
  /\ UNCHANGED <<proofVars, notices, creation, job>>

\* Faulty variant: the new balance is computed from the one that was read.
SettleFromSeen(w) ==
  LET o == worker[w].order
      d == worker[w].candidate
  IN /\ At(w, "pay")
     /\ worker[w].seen >= Price[o]
     /\ status' = [status EXCEPT ![o] = "ASSIGNED"]
     /\ assignedDriver' = [assignedDriver EXCEPT ![o] = d]
     /\ driverStatus' = [driverStatus EXCEPT ![d] = "ON_TRIP"]
     /\ balance' = [balance EXCEPT ![MerchantOf[o]] = worker[w].seen - Price[o]]
     /\ debits' = [debits EXCEPT ![o] = @ + 1]
     /\ credits' = [credits EXCEPT ![o][d] = @ + 1]
     /\ Goes(w, "notifyAssigned")
     /\ UNCHANGED <<proofVars, notices, creation, job>>

\* The settlement commits: order, driver, balance and both ledger rows.  The
\* decrement applies to the committed balance; the rest is written blindly.
Settle(w) ==
  /\ At(w, "pay")
  /\ worker[w].seen >= Price[worker[w].order]
  /\ SettlementWrites(worker[w].order, worker[w].candidate)
  /\ Goes(w, "notifyAssigned")
  /\ UNCHANGED <<proofVars, notices, creation, job>>

\* notifyOrderAssigned, or the ORDER_CANCELLED fan-out, after the commit: the
\* inbox rows of the recipients.  A fan-out that stops half-way is this step
\* followed by JobThrows.
NotifyOutcome(w) ==
  LET type == IF At(w, "notifyAssigned") THEN "ORDER_ASSIGNED" ELSE "ORDER_CANCELLED"
  IN /\ worker[w].pc \in {"notifyAssigned", "notifyCancelled"}
     /\ notices' = [notices EXCEPT ![worker[w].order] = @ \cup {type}]
     /\ Goes(w, "broadcast")
     /\ UNCHANGED <<status, assignedDriver, driverStatus, ledgerVars, proofVars, creation, job>>

\* The rest of the fan-out and the final broadcast, which write no row.
Broadcast(w) ==
  /\ At(w, "broadcast")
  /\ Goes(w, "finish")
  /\ UNCHANGED <<storeVars, creation, job>>

\* What a worker does when nothing goes wrong.
Process(w) ==
  \/ LoadOrder(w) \/ MarkMatching(w) \/ FindDriver(w) \/ CancelUnmatched(w)
  \/ ReadBalance(w) \/ CancelUnfunded(w) \/ Settle(w) \/ NotifyOutcome(w)
  \/ Broadcast(w) \/ FinishJob(w)
=============================================================================
