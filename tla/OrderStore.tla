----------------------------- MODULE OrderStore -----------------------------
(***************************************************************************)
(* The database rows that dispatch workers and trip requests share: the   *)
(* order, its driver, the merchant's balance, the ledger, the proof       *)
(* photos, the audit trail and the notification inbox                     *)
(* (prisma/schema.prisma).  Every handler works on these rows in several  *)
(* awaited statements; each statement or transaction is one atomic step   *)
(* (PostgreSQL READ COMMITTED, Prisma's default).                         *)
(*                                                                         *)
(* The order of the timeline rows is not kept: every transaction that     *)
(* writes a status appends one timeline row with the same status, so the  *)
(* sequence of values of status[o] is the timeline.                       *)
(***************************************************************************)
EXTENDS Integers, FiniteSets

CONSTANTS
  Orders,         \* order ids, created or not
  Drivers,        \* driver ids
  Merchants,      \* merchant ids
  NoDriver,       \* assignedDriverId = null
  MerchantOf,     \* the merchant an order bills
  Price,          \* order.price, fixed when the order is created
  Distance,       \* Distance[o][d]: km from the driver to the pickup point
  VehicleMatches, \* VehicleMatches[o]: drivers with the required vehicle type
  MatchRadiusKm,  \* MATCH_RADIUS_KM
  InitialBalances, \* what merchant.balance may be when the system starts
  InitialDriver   \* driver.status when the system starts

(***************************************************************************)
(* DRAFT is a status of the enum, but the transaction that inserts a      *)
(* DRAFT row moves it to PENDING before it commits.  "NONE" stands for an *)
(* order that does not exist yet.                                         *)
(***************************************************************************)
OrderStatus ==
  {"DRAFT", "PENDING", "MATCHING", "ASSIGNED", "PICKED_UP", "DELIVERED", "CANCELLED"}
DriverStatus == {"AVAILABLE", "ON_TRIP", "OFFLINE"}
OrderPhotoType == {"DEPARTURE", "DELIVERY"}
NotificationType ==
  {"ORDER_ASSIGNED", "ORDER_PICKED_UP", "ORDER_DELIVERED", "ORDER_CANCELLED",
   "DEPARTURE_PHOTO_UPLOADED", "DELIVERY_PHOTO_UPLOADED"}

(***************************************************************************)
(* InitialDriver leaves ON_TRIP out: a driver is on a trip only once a    *)
(* settlement has put it there.                                           *)
(***************************************************************************)
ASSUME StoreAssumption ==
  /\ NoDriver \notin Drivers
  /\ MerchantOf \in [Orders -> Merchants]
  /\ Price \in [Orders -> Nat]
  /\ Distance \in [Orders -> [Drivers -> Nat]]
  /\ VehicleMatches \in [Orders -> SUBSET Drivers]
  /\ MatchRadiusKm \in Nat
  /\ InitialBalances \subseteq [Merchants -> Nat]
  /\ InitialDriver \in [Drivers -> {"AVAILABLE", "OFFLINE"}]

VARIABLES
  status,         \* order.status
  assignedDriver, \* order.assignedDriverId
  driverStatus,   \* driver.status
  balance,        \* merchant.balance
  debits,         \* number of DEBIT rows written for an order
  credits,        \* credits[o][d]: number of CREDIT rows for driver d and order o
  photos,         \* the types of which an order has at least one OrderPhoto row
  audit,          \* the OrderAuditEvent rows
  notices         \* notices[o]: types of the notification rows about order o

ledgerVars == <<balance, debits, credits>>
proofVars  == <<photos, audit>>
storeVars  == <<status, assignedDriver, driverStatus, ledgerVars, proofVars, notices>>

StoreInit ==
  /\ status = [o \in Orders |-> "NONE"]
  /\ assignedDriver = [o \in Orders |-> NoDriver]
  /\ driverStatus = InitialDriver
  /\ balance \in InitialBalances
  /\ debits = [o \in Orders |-> 0]
  /\ credits = [o \in Orders |-> [d \in Drivers |-> 0]]
  /\ photos = [o \in Orders |-> {}]
  /\ audit = {}
  /\ notices = [o \in Orders |-> {}]

StoreTypeOK ==
  /\ status \in [Orders -> OrderStatus \cup {"NONE"}]
  /\ assignedDriver \in [Orders -> Drivers \cup {NoDriver}]
  /\ driverStatus \in [Drivers -> DriverStatus]
  /\ balance \in [Merchants -> Int]
  /\ debits \in [Orders -> Nat]
  /\ credits \in [Orders -> [Drivers -> Nat]]
  /\ photos \in [Orders -> SUBSET OrderPhotoType]
  /\ notices \in [Orders -> SUBSET NotificationType]

(***************************************************************************)
(* What the API shows a merchant about payment: a function of the status  *)
(* alone (resolveOrderPaymentStatus).                                      *)
(***************************************************************************)
PaymentStatus(s) ==
  CASE s \in {"ASSIGNED", "PICKED_UP", "DELIVERED"} -> "PAID"
    [] s = "CANCELLED" -> "NOT_CHARGED"
    [] OTHER -> "UNPAID"

\* The order is somewhere between assignment and delivery.
OnTheRoad(o) == status[o] \in {"ASSIGNED", "PICKED_UP"}

\* Dispatch has taken its decision about the order.
Decided(o) == status[o] \in {"ASSIGNED", "PICKED_UP", "DELIVERED", "CANCELLED"}

\* Faulty variant: the status filter is lost.
DriversOfAnyStatus(o) == VehicleMatches[o]

(***************************************************************************)
(* The AVAILABLE drivers of the required vehicle type within the radius,  *)
(* and the closest of them; findMany gives no order, so a tie is broken   *)
(* either way.                                                            *)
(***************************************************************************)
AvailableDrivers(o) == {d \in VehicleMatches[o] : driverStatus[d] = "AVAILABLE"}

InRadius(o, ds) == {d \in ds : Distance[o][d] <= MatchRadiusKm}

ClosestDrivers(o, ds) ==
  {d \in InRadius(o, ds) : \A e \in InRadius(o, ds) : Distance[o][d] <= Distance[o][e]}
=============================================================================
