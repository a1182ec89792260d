---------------------------- MODULE FleetFlowInv ----------------------------
(***************************************************************************)
(* The inductive invariants behind the safety properties of FleetFlow:    *)
(* each is preserved by every step on its own strength.                    *)
(***************************************************************************)
EXTENDS FleetFlow

\* The locals a worker will read are set, the holder of a lock has an active
\* job, and a job that may still run has attempts left.
WorkerLocals ==
  \A w \in Workers :
    /\ worker[w].pc # "idle" => worker[w].order \in Orders
    /\ worker[w].pc \in {"settle", "pay"} => worker[w].candidate \in Drivers

JobsBounded ==
  \A o \in Orders :
    /\ job[o].owner # NoWorker => job[o].state = "active"
    /\ job[o].state \in {"waiting", "active"} =>
         job[o].attempts < MaxAttempts /\ job[o].stalls <= MaxStalled

DispatchInv == DispatchTypeOK /\ WorkerLocals /\ JobsBounded

\* The locals a trip request will read are set.
RequestLocals ==
  \A r \in Requests :
    /\ request[r].pc # "idle" => request[r].order \in Orders /\ request[r].user \in Users
    /\ request[r].pc \in {"decide", "list", "write"} /\ request[r].type = "DELIVERY" =>
         request[r].driver \in Drivers

TripInv == TripTypeOK /\ RequestLocals

TypeInv == StoreTypeOK /\ DispatchInv /\ TripInv

\* The order has been settled at least once, with the driver it now has.
Settled(o) ==
  /\ debits[o] >= 1
  /\ assignedDriver[o] # NoDriver
  /\ credits[o][assignedDriver[o]] >= 1

\* A trip request in flight has seen an order that was settled.
InFlightMeansSettled ==
  \A r \in Requests : request[r].pc # "idle" => Settled(request[r].order)

SettledInv == TypeInv /\ PaidMeansSettled /\ InFlightMeansSettled

\* An order that is not committed yet has no row and no job.
NotYetCreated ==
  \A o \in Orders :
    /\ creation[o] \in {"requested", "funded"} => status[o] = "NONE"
    /\ creation[o] # "ended" => job[o] = NoJob

\* Without a lost lock, the worker that handles an order holds its job's lock,
\* so no other worker handles it; and until it settles, the order is uncharged
\* and stays as the worker read it.
LockMeansSole ==
  \A o \in Orders, w \in Workers :
    job[o].stalls = 0 /\ Handles(w, o) => job[o].owner = w

UndecidedWhileHandled ==
  \A o \in Orders, w \in Workers :
    /\ job[o].stalls = 0
    /\ Handles(w, o)
    /\ worker[w].pc \in {"mark", "find", "cancel", "settle", "pay"}
    => debits[o] = 0

ChargeInv ==
  /\ SettledInv
  /\ ChargedOnceUnlessStalled
  /\ NotYetCreated
  /\ LockMeansSole
  /\ UndecidedWhileHandled

-----------------------------------------------------------------------------
\* Behind PhotoRowHasFile: the file of a row about to be inserted is stored.
InsertHasFile ==
  \A r \in Requests : request[r].pc = "insert" => request[r].type \in files[request[r].order]

\* An advance that passed the proof rule has a photo of its leg or a reason.
AdvanceHasProof ==
  \A r \in Requests : request[r].pc \in {"list", "write"} =>
    request[r].skipped \/ request[r].type \in photos[request[r].order]

\* A request of the delivery leg is about a trip that was started.
DeliveryAfterPickup ==
  \A r \in Requests : request[r].pc # "idle" /\ request[r].type = "DELIVERY" =>
    Backed(request[r].order, {"JOURNEY_STARTED"}, "DEPARTURE")

\* A driver's request is about an order that driver was credited for, and
\* does not go on without photos.
DriverRequestIsOwn ==
  \A r \in Requests : request[r].pc # "idle" /\ ~IsFleetTripDelegate(request[r].user) =>
    /\ DriverIdOf[request[r].user] \in Drivers
    /\ credits[request[r].order][DriverIdOf[request[r].user]] >= 1
    /\ request[r].pc \in {"list", "write"} => ~request[r].skipped
    /\ request[r].pc = "write" => request[r].urls

\* Who advances a trip without being staff is a driver.
AuditedAreDrivers ==
  \A e \in audit : ~IsFleetTripDelegate(e.user) => DriverIdOf[e.user] \in Drivers

TrailInv ==
  /\ SettledInv
  /\ InsertHasFile
  /\ PhotoRowHasFile
  /\ AdvanceHasProof
  /\ DeliveryAfterPickup
  /\ DriverRequestIsOwn
  /\ ProofBehindProgress
  /\ AuditedAreDrivers
  /\ DriverActsOnOwnTrip

-----------------------------------------------------------------------------
\* Behind AssignedNoticeIsCharged: a worker announces what it has settled.
AnnouncedIsSettled ==
  \A w \in Workers : worker[w].pc = "notifyAssigned" => Settled(worker[w].order)

NoticeInv == TypeInv /\ AnnouncedIsSettled /\ AssignedNoticeIsCharged

\* The workers that handle an order and may still settle it.
Undecided == {"load", "mark", "find", "cancel", "settle", "pay"}
Settlers(o) == {w \in Workers : Handles(w, o) /\ worker[w].pc \in Undecided}

\* Each time a job is handed out permits one settlement: one that is used up
\* (a charge) or still open (a settler).  A job is handed out once at first,
\* and again only after it stalled or failed.
HandedOut(o) == IF job[o].state \in {"none", "waiting"} THEN 0 ELSE 1

SettlementsPermitted ==
  \A o \in Orders :
    /\ IsFiniteSet(Settlers(o))
    /\ debits[o] + Cardinality(Settlers(o)) <= HandedOut(o) + job[o].stalls + job[o].attempts

RedeliveryInv == ChargeInv /\ SettlementsPermitted

-----------------------------------------------------------------------------
(***************************************************************************)
(* The deployment the documentation describes: one API process with one    *)
(* worker.                                                                 *)
(***************************************************************************)
OneWorker == \A v, w \in Workers : v = w

\* An order that is not shown as PAID has neither charge nor driver.
UnpaidIsUncharged ==
  \A o \in Orders : PaymentStatus(status[o]) # "PAID" =>
    debits[o] = 0 /\ assignedDriver[o] = NoDriver

\* What the worker has read, or written itself, still holds.
WorkerIsCurrent ==
  \A w \in Workers : worker[w].pc # "idle" =>
    LET o == worker[w].order IN
    /\ job[o].state # "none"
    /\ worker[w].pc = "mark" => status[o] \in {"PENDING", "MATCHING"}
    /\ worker[w].pc \in {"find", "cancel", "settle", "pay"} => status[o] = "MATCHING"
    /\ worker[w].pc = "pay" => worker[w].seen = balance[MerchantOf[o]]
    /\ worker[w].pc = "notifyCancelled" => status[o] = "CANCELLED"
    /\ worker[w].pc \in {"notifyAssigned", "broadcast", "finish"} => Decided(o)

\* A job is about an order that was committed, and no DRAFT is ever seen.
JobsAreForOrders ==
  \A o \in Orders :
    /\ status[o] # "DRAFT"
    /\ job[o].state # "none" \/ creation[o] = "committed" => status[o] # "NONE"

\* What a worker at step pc owes to the status s of its order.
WorkerFits(pc, s) ==
  /\ pc = "mark" => s \in {"PENDING", "MATCHING"}
  /\ pc \in {"find", "cancel", "settle", "pay"} => s = "MATCHING"
  /\ pc = "notifyCancelled" => s = "CANCELLED"
  /\ pc \in {"notifyAssigned", "broadcast", "finish"} =>
       s \in {"ASSIGNED", "PICKED_UP", "DELIVERED", "CANCELLED"}

\* Behind DecisionStandsUnlessStalled, for any number of workers: without a lost
\* lock, what a worker has read of its order, or written itself, still holds.
HandlerIsCurrent ==
  \A o \in Orders, w \in Workers :
    job[o].stalls = 0 /\ Handles(w, o) => WorkerFits(worker[w].pc, status[o])

DecisionInv ==
  /\ ChargeInv
  /\ JobsAreForOrders
  /\ HandlerIsCurrent
  /\ DecisionStandsUnlessStalled

SoleInv ==
  /\ ChargeInv
  /\ UnpaidIsUncharged
  /\ WorkerIsCurrent
  /\ JobsAreForOrders
  /\ BalanceNeverNegative
  /\ CompletedJobIsDecided
  /\ CancelledNoticeIsFinal

\* The driver the worker has found is still free.
CandidateIsFree ==
  \A w \in Workers : worker[w].pc \in {"settle", "pay"} =>
    driverStatus[worker[w].candidate] = "AVAILABLE"

\* Behind NoDriverLeaks: the trip has gone on from where the advance has read
\* it, with the same driver.
RequestFollowsTrip ==
  \A r \in Requests : Advancing(r) =>
    /\ request[r].driver = assignedDriver[request[r].order]
    /\ status[request[r].order] \in {"ASSIGNED", "PICKED_UP", "DELIVERED"}
    /\ request[r].type = "DELIVERY" => status[request[r].order] # "ASSIGNED"

NoLeakInv == SoleInv /\ RequestFollowsTrip /\ NoDriverLeaks

\* While advances take turns, the order is still as the advance has read it.
RequestIsCurrent ==
  \A r \in Requests : Advancing(r) =>
    /\ status[request[r].order] = RequiredStatus(request[r].type)
    /\ request[r].driver = assignedDriver[request[r].order]

RoadInv ==
  /\ SoleInv
  /\ CandidateIsFree
  /\ RequestIsCurrent
  /\ OneTripPerDriver
  /\ OnTripIffOnTheRoad

-----------------------------------------------------------------------------
\* Behind OverdraftIsBounded: the price a worker is about to take from merchant
\* m, on a balance it found sufficient.
Committed(w, m) ==
  IF /\ worker[w].pc = "pay"
     /\ MerchantOf[worker[w].order] = m
     /\ worker[w].seen >= Price[worker[w].order]
  THEN Price[worker[w].order] ELSE 0

Exposure(m) == SumFunctionOnSet([w \in Workers |-> Committed(w, m)], Workers)

\* Once every worker has paid what it is about to, the debt is within a limit
\* for each worker but one.
Covered(m, limit) == balance[m] - Exposure(m) + (Cardinality(Workers) - 1) * limit >= 0

OverdraftInv ==
  \A m \in Merchants, limit \in {0} \cup {Price[o] : o \in Orders} :
    (\A o \in OrdersOf(m) : Price[o] <= limit) => Covered(m, limit)

=============================================================================
