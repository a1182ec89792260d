-------------------------------- MODULE Trip --------------------------------
(***************************************************************************)
(* The trip after assignment: OrdersService.uploadOrderPhoto,             *)
(* markOrderPickedUp and markOrderDelivered, with the checks of           *)
(* order-access, order-trip and order-proof.                               *)
(*                                                                         *)
(* A request slot is one HTTP request that an API process is serving.     *)
(* Each handler reads the order, checks it, and only several awaited      *)
(* statements later writes; nothing re-checks the order at the write.     *)
(***************************************************************************)
EXTENDS OrderStore

CONSTANTS
  Requests,       \* slots of trip requests in flight at the same time
  Users,          \* signed-in, active users
  Permissions,    \* permissions of a user's role
  DriverIdOf,     \* user.driverId
  MerchantIdOf,   \* user.merchantId
  NoMerchant,     \* user.merchantId = null
  NoUser,         \* the slot serves nobody
  NoTarget        \* the slot serves no order

ReadAll      == "orders:read:all"
ReadOwn      == "orders:read:own"
ReadAssigned == "orders:read:assigned"
FleetManage  == "fleet:manage"

ASSUME TripAssumption ==
  /\ NoUser \notin Users
  /\ NoTarget \notin Orders
  /\ NoMerchant \notin Merchants
  /\ Permissions \in [Users -> SUBSET {ReadAll, ReadOwn, ReadAssigned, FleetManage}]
  /\ DriverIdOf \in [Users -> Drivers \cup {NoDriver}]
  /\ MerchantIdOf \in [Users -> Merchants \cup {NoMerchant}]

VARIABLES
  request, \* request[r]: the handler call slot r is in
  files    \* files[o]: photo types of which the storage holds a file of order o

tripVars == <<request, files>>

Operation == {"photo", "advance"}
RequestStep == {"idle", "decide", "list", "write", "store", "insert", "notify"}

(***************************************************************************)
(* A handler's locals: driver is order.assignedDriverId as it was read,   *)
(* reason whether the body holds an overrideReason, skipped and urls the  *)
(* proof decision and whether photo urls were listed.  An advance of type *)
(* DEPARTURE is a pickup, of type DELIVERY a delivery.                     *)
(***************************************************************************)
RequestState ==
  [pc : RequestStep, op : Operation, type : OrderPhotoType,
   order : Orders \cup {NoTarget}, user : Users \cup {NoUser},
   driver : Drivers \cup {NoDriver}, reason : BOOLEAN, skipped : BOOLEAN, urls : BOOLEAN]

IdleRequest ==
  [pc |-> "idle", op |-> "photo", type |-> "DEPARTURE", order |-> NoTarget,
   user |-> NoUser, driver |-> NoDriver, reason |-> FALSE, skipped |-> FALSE, urls |-> FALSE]

OrderAuditAction ==
  {"DEPARTURE_PHOTO_UPLOADED", "DELIVERY_PHOTO_UPLOADED", "JOURNEY_STARTED",
   "BOOKING_COMPLETED", "MANUAL_COMPLETION_BY_OPS", "COMPLETION_WITHOUT_PROOF_PHOTOS"}

\* photos: the row lists at least one url; reason: it holds an overrideReason.
AuditEvent ==
  [order : Orders, action : OrderAuditAction, user : Users,
   photos : BOOLEAN, reason : BOOLEAN]

Event(q, action, urls, reason) ==
  [order |-> q.order, action |-> action, user |-> q.user, photos |-> urls, reason |-> reason]

TripInit ==
  /\ request = [r \in Requests |-> IdleRequest]
  /\ files = [o \in Orders |-> {}]

TripTypeOK ==
  /\ request \in [Requests -> RequestState]
  /\ files \in [Orders -> SUBSET OrderPhotoType]
  /\ audit \subseteq AuditEvent

-----------------------------------------------------------------------------
(***************************************************************************)
(* The checks.                                                             *)
(***************************************************************************)

\* @RequireAnyPermission of the photos, pickup and deliver routes.
PassesRouteGuard(u) == Permissions[u] \cap {ReadAssigned, ReadAll, FleetManage} # {}

\* userCanReadOrder, for a signed-in user.
UserCanReadOrder(u, o) ==
  \/ ReadAll \in Permissions[u]
  \/ ReadOwn \in Permissions[u] /\ MerchantIdOf[u] = MerchantOf[o]
  \/ /\ ReadAssigned \in Permissions[u]
     /\ DriverIdOf[u] # NoDriver
     /\ DriverIdOf[u] = assignedDriver[o]

\* isFleetTripDelegate: operations staff.
IsFleetTripDelegate(u) == Permissions[u] \cap {ReadAll, FleetManage} # {}

\* userCanAdvanceTripOrder.
UserCanAdvanceTripOrder(u, o) ==
  /\ OnTheRoad(o)
  /\ \/ IsFleetTripDelegate(u)
     \/ /\ ReadAssigned \in Permissions[u]
        /\ DriverIdOf[u] # NoDriver
        /\ DriverIdOf[u] = assignedDriver[o]

\* isAssignedDriverForOrder, on the driver id the handler has read.
IsAssignedDriverForOrder(u, d) == DriverIdOf[u] # NoDriver /\ DriverIdOf[u] = d

\* Faulty variant: operations need neither a photo nor a reason.
ProofDecisionTrustsOps(u, d, hasPhoto, reason) ==
  IF IsFleetTripDelegate(u) \/ (hasPhoto /\ IsAssignedDriverForOrder(u, d))
  THEN "shown" ELSE "rejected"

\* assertProofPhotosForTripAdvance: a driver shows a photo, operations show
\* one or give a reason.
ProofDecision(u, d, hasPhoto, reason) ==
  CASE ~IsFleetTripDelegate(u) /\ ~IsAssignedDriverForOrder(u, d) -> "rejected"
    [] hasPhoto /\ (IsFleetTripDelegate(u) \/ IsAssignedDriverForOrder(u, d)) -> "shown"
    [] ~hasPhoto /\ IsFleetTripDelegate(u) /\ reason -> "skipped"
    [] OTHER -> "rejected"

\* The status in which a photo of a type may be uploaded, and from which the
\* trip advances.
RequiredStatus(type) == IF type = "DEPARTURE" THEN "ASSIGNED" ELSE "PICKED_UP"

-----------------------------------------------------------------------------
(***************************************************************************)
(* The handlers.  A request whose check fails answers 4xx and changes     *)
(* nothing, so the checks are guards.                                      *)
(***************************************************************************)

Step(r, from, to) ==
  /\ request[r].pc = from
  /\ request' = [request EXCEPT ![r].pc = to]

\* The request has passed its checks and goes on with the order as read.
Accept(r, u, o, op, type, reason) ==
  request' = [request EXCEPT ![r] =
    [IdleRequest EXCEPT !.pc = IF op = "photo" THEN "store" ELSE "decide",
                        !.op = op, !.type = type, !.order = o, !.user = u,
                        !.driver = assignedDriver[o], !.reason = reason]]

\* Faulty variant: assertValidTransition is missing.
ReadOrderAnyLeg(r, u, o, op, type, reason) ==
  /\ request[r].pc = "idle"
  /\ PassesRouteGuard(u)
  /\ UserCanReadOrder(u, o)
  /\ UserCanAdvanceTripOrder(u, o)
  /\ Accept(r, u, o, op, type, reason)
  /\ UNCHANGED <<storeVars, files>>

\* Faulty variant: any driver may read and advance any trip.
ReadOrderOfOthers(r, u, o, op, type, reason) ==
  /\ request[r].pc = "idle"
  /\ PassesRouteGuard(u)
  /\ status[o] = RequiredStatus(type)
  /\ Accept(r, u, o, op, type, reason)
  /\ UNCHANGED <<storeVars, files>>

\* The order is read and checked; the assigned driver is kept for later.  A
\* delivery also needs an assigned driver; only an advance has a body that
\* may give a reason.
ReadOrder(r, u, o, op, type, reason) ==
  /\ request[r].pc = "idle"
  /\ PassesRouteGuard(u)
  /\ status[o] # "NONE"
  /\ UserCanReadOrder(u, o)
  /\ UserCanAdvanceTripOrder(u, o)
  /\ status[o] = RequiredStatus(type)
  /\ op = "advance" /\ type = "DELIVERY" => assignedDriver[o] # NoDriver
  /\ reason => op = "advance"
  /\ Accept(r, u, o, op, type, reason)
  /\ UNCHANGED <<storeVars, files>>

\* uploadOrderPhoto: the file goes to storage before the row is inserted.
StoreFile(r) ==
  /\ Step(r, "store", "insert")
  /\ files' = [files EXCEPT ![request[r].order] = @ \cup {request[r].type}]
  /\ UNCHANGED storeVars

\* Faulty variant: the row is inserted first, the upload follows.
InsertPhotoFirst(r) ==
  LET q == request[r]
  IN /\ Step(r, "store", "notify")
     /\ photos' = [photos EXCEPT ![q.order] = @ \cup {q.type}]
     /\ UNCHANGED <<status, assignedDriver, driverStatus, ledgerVars, audit, notices, files>>

\* uploadOrderPhoto: one transaction inserts the photo row and its audit row.
InsertPhoto(r) ==
  LET q == request[r]
      action == IF q.type = "DEPARTURE"
                THEN "DEPARTURE_PHOTO_UPLOADED" ELSE "DELIVERY_PHOTO_UPLOADED"
  IN /\ Step(r, "insert", "notify")
     /\ photos' = [photos EXCEPT ![q.order] = @ \cup {q.type}]
     /\ audit' = audit \cup {Event(q, action, TRUE, FALSE)}
     /\ UNCHANGED <<status, assignedDriver, driverStatus, ledgerVars, notices, files>>

\* The photos are counted and the proof rule applied.
DecideProof(r) ==
  LET q == request[r]
      decision == ProofDecision(q.user, q.driver, q.type \in photos[q.order], q.reason)
  IN /\ q.pc = "decide"
     /\ \/ /\ decision = "rejected"
           /\ request' = [request EXCEPT ![r] = IdleRequest]
        \/ /\ decision # "rejected"
           /\ request' = [request EXCEPT ![r].pc = "list",
                                         ![r].skipped = (decision = "skipped")]
     /\ UNCHANGED <<storeVars, files>>

\* The photo urls for the audit row are read by a second query.
ListPhotos(r) ==
  LET q == request[r]
  IN /\ q.pc = "list"
     /\ request' = [request EXCEPT ![r].pc = "write",
                                   ![r].urls = q.type \in photos[q.order]]
     /\ UNCHANGED <<storeVars, files>>

\* markOrderPickedUp's transaction: the status is overwritten.
MarkPickedUp(r) ==
  LET q == request[r]
  IN /\ Step(r, "write", "notify")
     /\ q.type = "DEPARTURE"
     /\ status' = [status EXCEPT ![q.order] = "PICKED_UP"]
     /\ audit' = audit \cup {Event(q, "JOURNEY_STARTED", q.urls, q.skipped)}
     /\ UNCHANGED <<assignedDriver, driverStatus, ledgerVars, photos, notices, files>>

\* Faulty variant: the driver is not freed.
MarkDeliveredOnly(r) ==
  LET q == request[r]
  IN /\ Step(r, "write", "notify")
     /\ q.type = "DELIVERY"
     /\ status' = [status EXCEPT ![q.order] = "DELIVERED"]
     /\ UNCHANGED <<assignedDriver, driverStatus, ledgerVars, proofVars, notices, files>>

\* markOrderDelivered's transaction: the status is overwritten and the driver
\* that was read with the order becomes AVAILABLE.
MarkDelivered(r) ==
  LET q == request[r]
      action == IF q.skipped THEN "MANUAL_COMPLETION_BY_OPS" ELSE "BOOKING_COMPLETED"
      skipped == IF q.skipped
                 THEN {Event(q, "COMPLETION_WITHOUT_PROOF_PHOTOS", FALSE, TRUE)} ELSE {}
  IN /\ Step(r, "write", "notify")
     /\ q.type = "DELIVERY"
     /\ status' = [status EXCEPT ![q.order] = "DELIVERED"]
     /\ driverStatus' = [driverStatus EXCEPT ![q.driver] = "AVAILABLE"]
     /\ audit' = audit \cup {Event(q, action, q.urls, q.skipped)} \cup skipped
     /\ UNCHANGED <<assignedDriver, ledgerVars, photos, notices, files>>

\* notifyTripAdvance or notifyProofPhotoUploaded; then the answer is sent.
NotifyTrip(r) ==
  LET q == request[r]
      type == CASE q.op = "photo" /\ q.type = "DEPARTURE" -> "DEPARTURE_PHOTO_UPLOADED"
                [] q.op = "photo" /\ q.type = "DELIVERY"  -> "DELIVERY_PHOTO_UPLOADED"
                [] q.op = "advance" /\ q.type = "DEPARTURE" -> "ORDER_PICKED_UP"
                [] OTHER -> "ORDER_DELIVERED"
  IN /\ q.pc = "notify"
     /\ notices' = [notices EXCEPT ![q.order] = @ \cup {type}]
     /\ request' = [request EXCEPT ![r] = IdleRequest]
     /\ UNCHANGED <<status, assignedDriver, driverStatus, ledgerVars, proofVars, files>>

\* A query, the upload or the notification fails, or the process dies; the
\* client sees an error and what is committed stays.
RequestFails(r) ==
  /\ request[r].pc # "idle"
  /\ request' = [request EXCEPT ![r] = IdleRequest]
  /\ UNCHANGED <<storeVars, files>>

Serve(r) ==
  \/ StoreFile(r) \/ InsertPhoto(r) \/ DecideProof(r) \/ ListPhotos(r)
  \/ MarkPickedUp(r) \/ MarkDelivered(r) \/ NotifyTrip(r)
=============================================================================
