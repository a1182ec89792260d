----------------------------- MODULE FleetFlow ------------------------------
(***************************************************************************)
(* The order pipeline as one system: API processes that create orders,    *)
(* dispatch workers that match and settle them, and the trip requests of  *)
(* drivers and operations staff, over one database.                        *)
(***************************************************************************)
EXTENDS Dispatch, Trip, Functions

vars == <<storeVars, dispatchVars, tripVars>>

Init == StoreInit /\ DispatchInit /\ TripInit

\* A request to create an order is served, or fails.
Creation(o) ==
  \/ CheckFunds(o) /\ UNCHANGED tripVars
  \/ PersistOrder(o) /\ UNCHANGED tripVars
  \/ EnqueueDispatch(o) /\ UNCHANGED tripVars
  \/ CreationFails(o) /\ UNCHANGED tripVars

\* A worker runs process() on a job, to its end or to an error.
Dispatching(w) ==
  \/ \E o \in Orders : TakeJob(w, o) /\ UNCHANGED tripVars
  \/ LoadOrder(w) /\ UNCHANGED tripVars
  \/ MarkMatching(w) /\ UNCHANGED tripVars
  \/ FindDriver(w) /\ UNCHANGED tripVars
  \/ CancelUnmatched(w) /\ UNCHANGED tripVars
  \/ ReadBalance(w) /\ UNCHANGED tripVars
  \/ CancelUnfunded(w) /\ UNCHANGED tripVars
  \/ Settle(w) /\ UNCHANGED tripVars
  \/ NotifyOutcome(w) /\ UNCHANGED tripVars
  \/ Broadcast(w) /\ UNCHANGED tripVars
  \/ FinishJob(w) /\ UNCHANGED tripVars
  \/ JobThrows(w) /\ UNCHANGED tripVars
  \/ WorkerCrashes(w) /\ UNCHANGED tripVars

\* A trip request arrives and is served, or fails.
Travelling(r) ==
  \/ \E u \in Users, o \in Orders, op \in Operation, type \in OrderPhotoType,
        reason \in BOOLEAN :
       ReadOrder(r, u, o, op, type, reason) /\ UNCHANGED dispatchVars
  \/ StoreFile(r) /\ UNCHANGED dispatchVars
  \/ InsertPhoto(r) /\ UNCHANGED dispatchVars
  \/ DecideProof(r) /\ UNCHANGED dispatchVars
  \/ ListPhotos(r) /\ UNCHANGED dispatchVars
  \/ MarkPickedUp(r) /\ UNCHANGED dispatchVars
  \/ MarkDelivered(r) /\ UNCHANGED dispatchVars
  \/ NotifyTrip(r) /\ UNCHANGED dispatchVars
  \/ RequestFails(r) /\ UNCHANGED dispatchVars

Next ==
  \/ \E o \in Orders : Creation(o)
  \/ \E o \in Orders : JobStalls(o) /\ UNCHANGED tripVars
  \/ \E w \in Workers : Dispatching(w)
  \/ \E r \in Requests : Travelling(r)

Spec == Init /\ [][Next]_vars

(***************************************************************************)
(* The event loop runs every callback and every awaited query answers;    *)
(* BullMQ keeps handing out waiting jobs and reclaims the jobs whose lock *)
(* nobody holds.  A request that has been received is served, unless it   *)
(* fails.  Nothing forces a user to make one.                              *)
(***************************************************************************)
Fairness ==
  /\ \A w \in Workers :
       WF_vars(((\E o \in Orders : TakeJob(w, o)) \/ Process(w)) /\ UNCHANGED tripVars)
  /\ \A o \in Orders :
       /\ WF_vars(job[o].owner = NoWorker /\ JobStalls(o) /\ UNCHANGED tripVars)
       /\ WF_vars(creation[o] # "requested" /\ CreateOrder(o) /\ UNCHANGED tripVars)
  /\ \A r \in Requests : WF_vars(Serve(r) /\ UNCHANGED dispatchVars)

FairSpec == Spec /\ Fairness

-----------------------------------------------------------------------------
\* Every row, job, worker and request has its type: attempts never exceed the
\* job's "attempts" option, and a job stalls once too often at most
\* (orders.service.ts:322, matching.processor.ts:32).
TypeOK == StoreTypeOK /\ DispatchTypeOK /\ TripTypeOK

-----------------------------------------------------------------------------
(***************************************************************************)
(* Safety, whatever the number of workers and of requests in flight.      *)
(***************************************************************************)

\* An order that is shown as PAID has a driver, a DEBIT row of its merchant
\* and a CREDIT row of that driver, however workers overwrite each other and
\* however late a pickup or delivery lands (matching.processor.ts:172-217).
PaidMeansSettled ==
  \A o \in Orders : PaymentStatus(status[o]) = "PAID" =>
    /\ debits[o] >= 1
    /\ assignedDriver[o] # NoDriver
    /\ credits[o][assignedDriver[o]] >= 1

\* As long as the queue has not handed an order's job out behind the back of
\* its worker, the order is charged once if it is shown as PAID and not at all
\* otherwise: neither retries, crashes after the settlement, other workers nor
\* trip requests charge it again or undo the assignment.
ChargedOnceUnlessStalled ==
  \A o \in Orders : job[o].stalls = 0 =>
    debits[o] = IF PaymentStatus(status[o]) = "PAID" THEN 1 ELSE 0

\* Under the same condition the decision of dispatch stands, for any number of
\* workers: a job that is completed has decided its order, a cancellation that
\* was announced is not taken back, and a driver is assigned with the charge,
\* once (matching.processor.ts:51-60, 106-125, 172-217).
DecisionStandsUnlessStalled ==
  \A o \in Orders : job[o].stalls = 0 =>
    /\ job[o].state = "completed" => Decided(o)
    /\ "ORDER_CANCELLED" \in notices[o] => status[o] = "CANCELLED"
    /\ assignedDriver[o] # NoDriver => PaymentStatus(status[o]) = "PAID"

\* An order is charged at most once per time its job was handed out: each
\* further charge needs a lost lock or a failed attempt of its own.
ChargesNeedRedelivery ==
  \A o \in Orders : debits[o] <= 1 + job[o].stalls + job[o].attempts

\* The ledger adds up, however many workers settle orders of one merchant at
\* once: what a merchant has paid since the start is the price of its orders,
\* once per DEBIT row, and every DEBIT row has one CREDIT row of a driver.  No
\* settlement overwrites the decrement of another (matching.processor.ts:192-217).
OrdersOf(m) == {o \in Orders : MerchantOf[o] = m}

Sales(m) == SumFunctionOnSet([o \in Orders |-> debits[o] * Price[o]], OrdersOf(m))

BooksBalance ==
  /\ \E start \in InitialBalances :
       \A m \in Merchants : balance[m] + Sales(m) = start[m]
  /\ \A o \in Orders : SumFunctionOnSet(credits[o], Drivers) = debits[o]

\* The balance is read without a lock and decremented later, so settlements that
\* run side by side can overdraw a merchant; but each read sees every charge
\* committed before it, so the debt stays within one order for each worker but
\* one, however many orders are settled (matching.processor.ts:146-199).
OverdraftIsBounded ==
  \A m \in Merchants :
    \/ balance[m] >= 0
    \/ \E o \in OrdersOf(m) :
         balance[m] + (Cardinality(Workers) - 1) * Price[o] >= 0

\* Worker w is running process() for order o.
Handles(w, o) == worker[w].pc # "idle" /\ worker[w].order = o

\* How many statements of process() a worker has before it, and how many steps
\* the dispatch of an order can still take: each attempt and each lost lock may
\* cost a run of process() (orders.service.ts:322, matching.processor.ts:32).
StepsLeft ==
  [pc \in WorkerStep |->
    CASE pc = "load" -> 8
      [] pc = "mark" -> 7
      [] pc = "find" -> 6
      [] pc \in {"cancel", "settle"} -> 5
      [] pc = "pay" -> 4
      [] pc \in {"notifyAssigned", "notifyCancelled"} -> 3
      [] pc = "broadcast" -> 2
      [] pc = "finish" -> 1
      [] OTHER -> 0]

Effort(ws, o) == [w \in Workers |-> IF ws[w].order = o THEN StepsLeft[ws[w].pc] ELSE 0]

Rank(j, ws, o) ==
  10 * ((MaxAttempts - j.attempts) + (MaxStalled + 1 - j.stalls))
  + (IF j.state = "waiting" THEN 9 ELSE 0)
  + SumFunctionOnSet(Effort(ws, o), Workers)

\* Dispatch never goes round in circles: once a job is queued, every step on its
\* order, by whichever worker, in time or after its lock is lost, and every
\* retry, crash and redelivery, brings the order closer to its end.
DispatchRunsDown ==
  [][\A o \in Orders : job[o].state # "none" =>
       \/ /\ job'[o] = job[o]
          /\ \A w \in Workers : Handles(w, o) \/ Handles(w, o)' => worker'[w] = worker[w]
       \/ /\ Rank(job'[o], worker', o) >= 0
          /\ Rank(job'[o], worker', o) < Rank(job[o], worker, o)]_vars

\* Nobody is told that an order is assigned before its charge is committed
\* (notifyOrderAssigned runs after the settlement transaction).
AssignedNoticeIsCharged ==
  \A o \in Orders : "ORDER_ASSIGNED" \in notices[o] => debits[o] >= 1

\* A trip that has started or ended left a JOURNEY_STARTED row, and one that
\* ended a completion row, each backed by a photo of its leg or by an
\* override reason (order-proof.interface.ts:15-58).
Backed(o, actions, type) ==
  \E e \in audit :
    /\ e.order = o
    /\ e.action \in actions
    /\ e.reason \/ type \in photos[o]

ProofBehindProgress ==
  \A o \in Orders :
    /\ status[o] \in {"PICKED_UP", "DELIVERED"} => Backed(o, {"JOURNEY_STARTED"}, "DEPARTURE")
    /\ status[o] = "DELIVERED" =>
         Backed(o, {"BOOKING_COMPLETED", "MANUAL_COMPLETION_BY_OPS"}, "DELIVERY")

\* A driver in the audit trail was assigned to that order and credited for it,
\* and never advanced it without photos or on an override reason.
DriverActsOnOwnTrip ==
  \A e \in audit : ~IsFleetTripDelegate(e.user) =>
    /\ credits[e.order][DriverIdOf[e.user]] >= 1
    /\ e.photos
    /\ ~e.reason

\* Every photo row points at a file that was stored before it.
PhotoRowHasFile == \A o \in Orders : photos[o] \subseteq files[o]

-----------------------------------------------------------------------------
(***************************************************************************)
(* Safety with one worker.                                                 *)
(***************************************************************************)

\* The settlement's balance check keeps every merchant out of debt, although
\* any number of orders pass the check of createOrder against one balance.
BalanceNeverNegative == \A m \in Merchants : balance[m] >= 0

\* An order that has been cancelled was never charged: what the merchant is
\* shown as NOT_CHARGED is true (order-display.util.ts:14-16).
NotChargedMeansNoDebit ==
  \A o \in Orders : PaymentStatus(status[o]) = "NOT_CHARGED" => debits[o] = 0

\* When the queue drops a job as completed, dispatch has decided the order:
\* no order is left PENDING or MATCHING with nobody working on it.
CompletedJobIsDecided ==
  \A o \in Orders : job[o].state = "completed" => Decided(o)

\* Recipients who were told ORDER_CANCELLED were told the truth for good.
CancelledNoticeIsFinal ==
  \A o \in Orders : "ORDER_CANCELLED" \in notices[o] => status[o] = "CANCELLED"

\* A user who could open an order can open it for good: the merchant's users
\* by the merchant it bills, its driver by the assignment, which no retry or
\* redelivery hands to somebody else (order-access.interface.ts:33-70).
AccessIsKept ==
  [][\A u \in Users, o \in Orders :
       status[o] # "NONE" /\ UserCanReadOrder(u, o) => UserCanReadOrder(u, o)']_vars

\* A driver is ON_TRIP only for an order on the road: no crash, retry or failed
\* request, and no two requests that overtake each other, leave a driver ON_TRIP
\* whom nothing will free (matching.processor.ts:172-217,
\* orders.service.ts:1021-1029).
OnTheRoadWith(d) == \E o \in Orders : OnTheRoad(o) /\ assignedDriver[o] = d

NoDriverLeaks == \A d \in Drivers : driverStatus[d] = "ON_TRIP" => OnTheRoadWith(d)

\* Statuses follow the lifecycle of API_SPEC.md:190-191, whatever overtakes what;
\* only a pickup that was decided before the delivery and written after it can
\* turn one back.
LifecycleEdges ==
  {<<"NONE", "PENDING">>, <<"PENDING", "MATCHING">>, <<"MATCHING", "ASSIGNED">>,
   <<"MATCHING", "CANCELLED">>, <<"ASSIGNED", "PICKED_UP">>, <<"PICKED_UP", "DELIVERED">>}

StatusesTurnBackOnlyByPickup ==
  [][\A o \in Orders :
       status'[o] # status[o] =>
         <<status[o], status'[o]>> \in LifecycleEdges \cup {<<"DELIVERED", "PICKED_UP">>}]_vars

-----------------------------------------------------------------------------
(***************************************************************************)
(* Safety with one worker, as long as the advances of an order take turns. *)
(***************************************************************************)

\* Nobody advances an order that somebody else is advancing: requests about
\* different orders, and uploads, overlap as they like.  The code does not see
\* to it: it is the condition for what follows.
Advancing(r) == request[r].pc \in {"decide", "list", "write"}

AdvancesTakeTurns ==
  \A r, s \in Requests :
    Advancing(r) /\ Advancing(s) /\ request[r].order = request[s].order => r = s

\* A driver carries one order at a time.
OneTripPerDriver ==
  \A o, p \in Orders :
    OnTheRoad(o) /\ OnTheRoad(p) /\ assignedDriver[o] = assignedDriver[p] => o = p

\* A driver is ON_TRIP exactly while an order of theirs is on the road: no
\* crash, retry or failed request leaks a driver or frees one too early.
OnTripIffOnTheRoad ==
  \A d \in Drivers : driverStatus[d] = "ON_TRIP" <=> OnTheRoadWith(d)

\* The driver of an ASSIGNED order is ON_TRIP (API_SPEC.md:276): no other order
\* of theirs frees them.
AssignedDriverIsOnTrip ==
  \A o \in Orders : status[o] = "ASSIGNED" => driverStatus[assignedDriver[o]] = "ON_TRIP"

\* The pipeline implements its abstract description: orders, drivers, funds
\* and charges change only by the steps of OrderLifecycle.
Lifecycle ==
  INSTANCE OrderLifecycle WITH
    phase <- status, carrier <- assignedDriver, funds <- balance, charges <- debits,
    fleet <- driverStatus, Fleet <- InitialDriver, Funds <- InitialBalances

RefinesLifecycle == Lifecycle!Spec

\* Statuses follow the lifecycle of API_SPEC.md:190-191 without exception.
FollowsLifecycle ==
  [][\A o \in Orders :
       status'[o] # status[o] => <<status[o], status'[o]>> \in LifecycleEdges]_vars

-----------------------------------------------------------------------------
(***************************************************************************)
(* Liveness, under FairSpec.                                               *)
(***************************************************************************)

\* A dispatch job in the queue leads to a decision about its order, through
\* retries, crashes and lost locks, unless the job's attempts run out.
QueuedJobIsDecided ==
  \A o \in Orders :
    job[o].state = "waiting" ~> Decided(o) \/ job[o].state = "failed"

\* An order that was accepted is dispatched: with the API running, none stays
\* PENDING (README.md:165, API_SPEC.md:54).
AcceptedOrderIsTakenUp ==
  \A o \in Orders : status[o] = "PENDING" ~> status[o] # "PENDING"

\* An assignment is announced, whatever fails after it has been committed
\* (API_SPEC.md:276, :293; matching.processor.ts:237).
AssignmentIsAnnounced ==
  \A o \in Orders : debits[o] >= 1 ~> "ORDER_ASSIGNED" \in notices[o]
=============================================================================
