--------------------------- MODULE OrderLifecycle ---------------------------
(***************************************************************************)
(* What the order pipeline promises, without processes, queues or crashes: *)
(* an order moves along the lifecycle of API_SPEC.md one step at a time;  *)
(* it is charged in the very step that gives it a driver, once, and only  *)
(* within the merchant's balance; a driver who is given an order carries  *)
(* no other; and delivery is the only way out of a trip.                  *)
(***************************************************************************)
EXTENDS Integers

CONSTANTS Orders, Drivers, NoDriver, MerchantOf, Price, Fleet, Funds

VARIABLES phase, carrier, funds, charges, fleet

pipeline == <<phase, carrier, funds, charges, fleet>>

Init ==
  /\ phase = [o \in Orders |-> "NONE"]
  /\ carrier = [o \in Orders |-> NoDriver]
  /\ funds \in Funds
  /\ charges = [o \in Orders |-> 0]
  /\ fleet = Fleet

Moves(o, from, to) ==
  /\ phase[o] = from
  /\ phase' = [phase EXCEPT ![o] = to]

Carries(d, o) == carrier[o] = d /\ phase[o] \in {"ASSIGNED", "PICKED_UP"}

\* An order is accepted, taken up by dispatch, or given up by dispatch.
Place(o)  == Moves(o, "NONE", "PENDING") /\ UNCHANGED <<carrier, funds, charges, fleet>>
Search(o) == Moves(o, "PENDING", "MATCHING") /\ UNCHANGED <<carrier, funds, charges, fleet>>
GiveUp(o) == Moves(o, "MATCHING", "CANCELLED") /\ UNCHANGED <<carrier, funds, charges, fleet>>

\* A free driver is given the order, and the merchant pays.
Assign(o, d) ==
  /\ Moves(o, "MATCHING", "ASSIGNED")
  /\ fleet[d] = "AVAILABLE"
  /\ \A p \in Orders : ~Carries(d, p)
  /\ funds[MerchantOf[o]] >= Price[o]
  /\ carrier' = [carrier EXCEPT ![o] = d]
  /\ fleet' = [fleet EXCEPT ![d] = "ON_TRIP"]
  /\ funds' = [funds EXCEPT ![MerchantOf[o]] = @ - Price[o]]
  /\ charges' = [charges EXCEPT ![o] = @ + 1]

PickUp(o) == Moves(o, "ASSIGNED", "PICKED_UP") /\ UNCHANGED <<carrier, funds, charges, fleet>>

\* The parcel is handed over and its driver is free again.
Deliver(o) ==
  /\ Moves(o, "PICKED_UP", "DELIVERED")
  /\ fleet' = [fleet EXCEPT ![carrier[o]] = "AVAILABLE"]
  /\ UNCHANGED <<carrier, funds, charges>>

Next ==
  \E o \in Orders :
    \/ Place(o) \/ Search(o) \/ GiveUp(o) \/ PickUp(o) \/ Deliver(o)
    \/ \E d \in Drivers : Assign(o, d)

Spec == Init /\ [][Next]_pipeline
=============================================================================
