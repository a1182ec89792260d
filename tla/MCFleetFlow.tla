---------------------------- MODULE MCFleetFlow -----------------------------
(***************************************************************************)
(* Small instances of FleetFlow: one merchant whose balance covers one of *)
(* two orders (or both), a close driver d1 and a driver d2 at the very    *)
(* edge of the radius, a user per driver, and an operations user.         *)
(***************************************************************************)
EXTENDS FleetFlowInv, TLC

CONSTANTS o1, o2, d1, d2, m1, ud1, ud2, uops

MCMerchantOf == [o \in Orders |-> m1]
MCPrice == [o \in Orders |-> IF o = o1 THEN 3 ELSE 2]
MCDistance == [o \in Orders |-> [d \in Drivers |-> IF d = d1 THEN 2 ELSE 5]]
MCVehicleMatches == [o \in Orders |-> Drivers]
MCScarce == {[m \in Merchants |-> 4]}
MCAmple == {[m \in Merchants |-> 9]}
MCScarceOrAmple == MCScarce \cup MCAmple
MCInitialDriver == [d \in Drivers |-> "AVAILABLE"]
MCPermissions ==
  [u \in Users |-> IF u = uops THEN {ReadAll, FleetManage} ELSE {ReadAssigned}]
MCDriverIdOf == [u \in Users |-> CASE u = ud1 -> d1 [] u = ud2 -> d2 [] OTHER -> NoDriver]
MCMerchantIdOf == [u \in Users |-> NoMerchant]

(***************************************************************************)
(* audit, notices and files are written and never read by an action, so   *)
(* two states that differ only there have the same futures.  Runs whose   *)
(* properties do not mention them explore one state of each such class.   *)
(* (TypeOK does mention them; for every state it is proved, not checked.)  *)
(***************************************************************************)
LiveState == <<status, assignedDriver, driverStatus, ledgerVars, photos, dispatchVars, request>>

\* As LiveState, with the rows the proof properties are about.
ProofState == <<LiveState, audit, files>>

\* Workers are interchangeable, and so are request slots.
Interchangeable == Permutations(Workers) \cup Permutations(Requests)
=============================================================================
