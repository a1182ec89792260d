------------------------------ MODULE Pricing -------------------------------
(***************************************************************************)
(* Prices in rupiah over distances in whole metres: the fares are         *)
(* integers, and a distance enters them only through the number of        *)
(* kilometres it has started.                                              *)
(***************************************************************************)
EXTENDS Integers

VehicleType == {"BIKE", "CAR", "TRUCK"}

BaseFare  == [BIKE |-> 15000, CAR |-> 35000, TRUCK |-> 90000]
PerKmRate == [BIKE |-> 2500, CAR |-> 4500, TRUCK |-> 9000]

\* Faulty variant: Math.round(distanceKm)
NearestKm(metres) == (metres + 500) \div 1000

\* Math.ceil(distanceKm)
StartedKm(metres) == (metres + 999) \div 1000

CalculateOrderPrice(v, metres) == BaseFare[v] + StartedKm(metres) * PerKmRate[v]

\* estimateOrderPrice asks the same service as createOrder does.
EstimateOrderPrice(v, metres) == CalculateOrderPrice(v, metres)
=============================================================================
