---------------------------- MODULE PortalProofs ----------------------------
(***************************************************************************)
(* The order endpoints, for any number of users, clients, merchants and   *)
(* orders, and whatever administrators do to the accounts meanwhile.       *)
(***************************************************************************)
EXTENDS Portal, TLAPS

(***************************************************************************)
(* How the rules for orders fit together, for every caller and order.      *)
(***************************************************************************)

\* The callers that the guards leave on a request.
IsCaller(c) ==
  /\ c.mode \in {"api_key", "jwt"}
  /\ c.mode = "api_key" => c.merchant # NoMerchant

\* The order list shows a caller no order that it may not open
\* (orders.service.ts:1210-1241, order-access.interface.ts:33-70).
THEOREM ListedIsReadable ==
  ASSUME NEW c, NEW m, NEW d, IsCaller(c), OrderListWhere(c, m, d)
  PROVE  UserCanReadOrder(c, m, d)
<1>1. CASE c.mode = "api_key"
  BY <1>1 DEF OrderListWhere, ListsByMerchant, UserCanReadOrder
<1>2. CASE c.mode = "jwt" /\ ReadAll \in c.permissions
  BY <1>2 DEF UserCanReadOrder
<1>3. CASE c.mode = "jwt" /\ ReadAll \notin c.permissions /\ ListsByMerchant(c)
  BY <1>3 DEF OrderListWhere, ListsByMerchant, UserCanReadOrder
<1>4. CASE c.mode = "jwt" /\ ReadAll \notin c.permissions /\ ~ListsByMerchant(c)
  BY <1>4 DEF OrderListWhere, UserCanReadOrder
<1> QED
  BY <1>1, <1>2, <1>3, <1>4 DEF IsCaller

\* The reverse holds for a caller with one scope: the list hides an order that
\* may be opened only from a user who reads both a merchant's orders and those
\* assigned to a driver, since the first scope that applies is the whole filter.
THEOREM ReadableIsListed ==
  ASSUME NEW c, NEW m, NEW d, IsCaller(c), UserCanReadOrder(c, m, d),
         c.mode = "jwt" /\ ListsByMerchant(c) => ReadAll \in c.permissions \/ ReadAssigned \notin c.permissions
  PROVE  OrderListWhere(c, m, d)
<1>1. CASE c.mode = "api_key"
  BY <1>1 DEF OrderListWhere, ListsByMerchant, UserCanReadOrder
<1>2. CASE c.mode = "jwt" /\ ReadAll \in c.permissions
  BY <1>2 DEF OrderListWhere
<1>3. CASE c.mode = "jwt" /\ ReadAll \notin c.permissions /\ ListsByMerchant(c)
  BY <1>3 DEF OrderListWhere, ListsByMerchant, UserCanReadOrder
<1>4. CASE c.mode = "jwt" /\ ReadAll \notin c.permissions /\ ~ListsByMerchant(c)
  BY <1>4 DEF OrderListWhere, ListsByMerchant, UserCanReadOrder
<1> QED
  BY <1>1, <1>2, <1>3, <1>4 DEF IsCaller

(***************************************************************************)
(* What the fares promise, for every distance.                             *)
(***************************************************************************)

\* The fares are positive integers, and rise with the class of the vehicle.
LEMMA FareTable ==
  /\ \A v \in VehicleType : BaseFare[v] \in Nat \ {0} /\ PerKmRate[v] \in Nat \ {0}
  /\ BaseFare.BIKE < BaseFare.CAR /\ BaseFare.CAR < BaseFare.TRUCK
  /\ PerKmRate.BIKE < PerKmRate.CAR /\ PerKmRate.CAR < PerKmRate.TRUCK
BY DEF VehicleType, BaseFare, PerKmRate

\* The billed kilometres are the distance rounded up: no part of a kilometre
\* goes unbilled, and less than one kilometre is billed on top of the route
\* (Math.ceil in calculateOrderPrice).
THEOREM BilledKmIsCeiling ==
  ASSUME NEW metres \in Nat
  PROVE  /\ StartedKm(metres) \in Nat
         /\ StartedKm(metres) * 1000 >= metres
         /\ StartedKm(metres) * 1000 < metres + 1000
BY DEF StartedKm

\* A longer route starts at least as many kilometres.
LEMMA StartedKmIsMonotone ==
  ASSUME NEW a \in Nat, NEW b \in Nat, a <= b
  PROVE  StartedKm(a) <= StartedKm(b)
BY DEF StartedKm

\* A natural number times a larger one is no less.
LEMMA TimesIsMonotone ==
  ASSUME NEW a \in Nat, NEW b \in Nat, NEW r \in Nat, a <= b
  PROVE  a * r <= b * r
OBVIOUS

\* A price is a natural number, whatever the route.
LEMMA PriceIsNat ==
  ASSUME NEW v \in VehicleType, NEW metres \in Nat
  PROVE  CalculateOrderPrice(v, metres) \in Nat
<1>1. BaseFare[v] \in Nat /\ PerKmRate[v] \in Nat /\ StartedKm(metres) \in Nat
  BY FareTable, BilledKmIsCeiling
<1> QED
  BY <1>1 DEF CalculateOrderPrice

\* Nobody pays less for a longer route (pricing.service.ts:28-36).
THEOREM LongerIsNeverCheaper ==
  ASSUME NEW v \in VehicleType, NEW a \in Nat, NEW b \in Nat, a <= b
  PROVE  CalculateOrderPrice(v, a) <= CalculateOrderPrice(v, b)
<1>1. BaseFare[v] \in Nat /\ PerKmRate[v] \in Nat
  BY FareTable
<1>2. StartedKm(a) \in Nat /\ StartedKm(b) \in Nat /\ StartedKm(a) <= StartedKm(b)
  BY BilledKmIsCeiling, StartedKmIsMonotone
<1>3. StartedKm(a) * PerKmRate[v] <= StartedKm(b) * PerKmRate[v]
  BY <1>1, <1>2, TimesIsMonotone
<1> QED
  BY <1>1, <1>2, <1>3 DEF CalculateOrderPrice

\* On every route a car costs more than a bike, and a truck more than a car.
THEOREM LargerVehicleCostsMore ==
  ASSUME NEW metres \in Nat
  PROVE  /\ CalculateOrderPrice("BIKE", metres) < CalculateOrderPrice("CAR", metres)
         /\ CalculateOrderPrice("CAR", metres) < CalculateOrderPrice("TRUCK", metres)
<1>1. StartedKm(metres) \in Nat
  BY BilledKmIsCeiling
<1> QED
  BY <1>1 DEF CalculateOrderPrice, BaseFare, PerKmRate

(***************************************************************************)
(* The rules for creation.                                                 *)
(***************************************************************************)

\* The merchant of a new order is the caller's own, or one that a caller
\* without a merchant may name; a signed-in caller holds the permission.
LEMMA ResolvedMerchant ==
  ASSUME NEW c, NEW dto, c.mode \in {"api_key", "jwt"},
         ResolveMerchantIdForCreate(c, dto) # NoMerchant
  PROVE  /\ \/ ResolveMerchantIdForCreate(c, dto) = c.merchant
            \/ /\ ResolveMerchantIdForCreate(c, dto) = dto
               /\ c.mode = "jwt"
               /\ c.merchant = NoMerchant
               /\ CanDelegateMerchantContext(c)
         /\ c.mode = "jwt" => OrdersCreate \in c.permissions
<1>1. CASE c.mode = "api_key"
  BY <1>1 DEF ResolveMerchantIdForCreate
<1>2. CASE c.mode = "jwt" /\ OrdersCreate \notin c.permissions
  BY <1>2 DEF ResolveMerchantIdForCreate
<1>3. CASE c.mode = "jwt" /\ OrdersCreate \in c.permissions /\ c.merchant # NoMerchant
  <2>1. ResolveMerchantIdForCreate(c, dto) =
          IF dto \in {NoMerchant, c.merchant} THEN c.merchant ELSE NoMerchant
    BY <1>3 DEF ResolveMerchantIdForCreate
  <2> QED
    BY <1>3, <2>1
<1>4. CASE c.mode = "jwt" /\ OrdersCreate \in c.permissions /\ c.merchant = NoMerchant
  <2>1. ResolveMerchantIdForCreate(c, dto) =
          IF CanDelegateMerchantContext(c) THEN dto ELSE NoMerchant
    BY <1>4 DEF ResolveMerchantIdForCreate
  <2> QED
    BY <1>4, <2>1
<1> QED
  BY <1>1, <1>2, <1>3, <1>4

-----------------------------------------------------------------------------
(***************************************************************************)
(* Types.                                                                  *)
(***************************************************************************)

\* A signed-in caller has the permissions of a role.
IsGranted(c) == c.mode = "jwt" => \E role \in Roles : c.permissions = PermissionsOf[role]

TypeInv ==
  /\ TypeOK
  /\ \A u \in Users : account[u] \in AccountsOf[u]
  /\ \A k \in Clients :
       /\ client[k].pc = "idle" => client[k].user = NoUser
       /\ client[k].pc # "idle" => IsCaller(client[k].caller) /\ IsGranted(client[k].caller)

\* The callers that the two ways of authentication leave are callers.
LEMMA AuthenticatedCallers ==
  /\ \A m \in Merchants \cup {NoMerchant} : ApiKeyCaller(m) \in Caller
  /\ \A a \in Account : CallerOf(a) \in Caller /\ CallerOf(a).mode = "jwt"
BY PortalAssumption DEF ApiKeyCaller, CallerOf, UserCaller, Caller, Account

\* A client that does nothing is a client.
LEMMA IdleClientIsClient == IdleClient \in Client
BY AuthenticatedCallers DEF IdleClient, Client, Operation

\* What a client's state becomes when its request ends.
LEMMA EndedClient ==
  ASSUME TypeOK, NEW k \in Clients, NEW screen, Ends(k, screen),
         screen.as \in Caller, screen.seen \in SUBSET Nat,
         screen.quote \in [route : Routes \cup {NoRoute}, price : Nat]
  PROVE  /\ client' \in [Clients -> Client]
         /\ \A j \in Clients \ {k} : client'[j] = client[j]
         /\ client'[k].pc = "idle"
         /\ client'[k].placed = 0
         /\ client'[k].user = NoUser
         /\ client'[k].as = screen.as
         /\ client'[k].seen = screen.seen
         /\ client'[k].quote = screen.quote
<1> DEFINE q == [IdleClient EXCEPT !.as = screen.as, !.seen = screen.seen, !.quote = screen.quote]
<1>1. /\ q \in Client
      /\ q.pc = "idle" /\ q.placed = 0 /\ q.user = NoUser
      /\ q.as = screen.as /\ q.seen = screen.seen /\ q.quote = screen.quote
  BY IdleClientIsClient DEF IdleClient, Client
<1>2. client' = [client EXCEPT ![k] = q] /\ client \in [Clients -> Client]
  BY DEF Ends, TypeOK
<1> HIDE DEF q
<1> QED
  BY <1>1, <1>2

-----------------------------------------------------------------------------
(***************************************************************************)
(* What a step does to the orders and to each client.                      *)
(***************************************************************************)

\* Orders are added, and keep all but their driver.
OrdersGrow ==
  /\ orders' \in Seq(Order)
  /\ DOMAIN orders \subseteq DOMAIN orders'
  /\ \A o \in DOMAIN orders :
       /\ orders'[o].merchant = orders[o].merchant
       /\ orders'[o].route = orders[o].route
       /\ orders'[o].price = orders[o].price
  /\ \A o \in DOMAIN orders' \ DOMAIN orders :
       orders'[o].price = CalculateOrderPrice(orders'[o].route.vehicle, orders'[o].route.metres)

\* What authentication leaves: the merchant of an API key, or an active user
\* with the rights of the account as it is now.
Authenticated(u, c) ==
  \/ u = NoUser /\ c.mode = "api_key" /\ c.merchant # NoMerchant
  \/ u \in Users /\ account[u].isActive /\ c = CallerOf(account[u])

\* The request of client k has passed the guards.
Begins(k) ==
  /\ client[k].pc = "idle" /\ client'[k].pc = "handle"
  /\ Authenticated(client'[k].user, client'[k].caller)
  /\ client'[k] = [client[k] EXCEPT !.pc = "handle", !.op = client'[k].op,
                                    !.user = client'[k].user, !.caller = client'[k].caller]

\* The request of client k has inserted an order.
Placed(k) ==
  /\ client[k].pc = "handle"
  /\ client'[k] = [client[k] EXCEPT !.pc = "reply", !.placed = Len(orders) + 1]
  /\ Len(orders) + 1 \in DOMAIN orders'
  /\ \E dto \in Merchants \cup {NoMerchant} :
       LET m == ResolveMerchantIdForCreate(client[k].caller, dto)
       IN m # NoMerchant /\ orders'[Len(orders) + 1].merchant = m

\* The request of client k has ended, with or without something to show.
Ended(k) ==
  /\ client[k].pc # "idle"
  /\ orders' = orders
  /\ client'[k].pc = "idle" /\ client'[k].placed = 0 /\ client'[k].user = NoUser
  /\ \/ client'[k].as = client[k].as /\ client'[k].seen = client[k].seen
     \/ /\ client'[k].as = client[k].caller
        /\ client'[k].seen \subseteq DOMAIN orders
        /\ \A o \in client'[k].seen : CanRead(client[k].caller, o)
  /\ \/ client'[k].quote = client[k].quote
     \/ \E r \in Routes :
          client'[k].quote = [route |-> r, price |-> EstimateOrderPrice(r.vehicle, r.metres)]

ClientStep(k) == client'[k] = client[k] \/ Begins(k) \/ Placed(k) \/ Ended(k)

\* Routes have a price.
LEMMA RoutePrice ==
  ASSUME NEW r \in Routes
  PROVE  CalculateOrderPrice(r.vehicle, r.metres) \in Nat
BY PriceIsNat, PortalAssumption

\* The request that inserts an order.
LEMMA PlaceOrderStep ==
  ASSUME TypeInv, NEW k \in Clients, NEW dto \in Merchants \cup {NoMerchant},
         NEW r \in Routes, PlaceOrder(k, dto, r)
  PROVE  /\ OrdersGrow
         /\ client' \in [Clients -> Client]
         /\ Placed(k)
         /\ \A j \in Clients \ {k} : client'[j] = client[j]
<1> DEFINE m == ResolveMerchantIdForCreate(client[k].caller, dto)
<1> DEFINE new == [merchant |-> m, driver |-> NoDriver, route |-> r,
                   price |-> CalculateOrderPrice(r.vehicle, r.metres)]
<1>1. client \in [Clients -> Client] /\ orders \in Seq(Order) /\ client[k].caller \in Caller
  BY DEF TypeInv, TypeOK, Client
<1>2. m # NoMerchant /\ orders' = Append(orders, new)
  BY DEF PlaceOrder
<1>3. m \in Merchants
  <2>1. client[k].caller.mode \in {"api_key", "jwt"}
        /\ client[k].caller.merchant \in Merchants \cup {NoMerchant}
    BY <1>1 DEF Caller
  <2>2. m = client[k].caller.merchant \/ m = dto
    BY <1>2, <2>1, ResolvedMerchant
  <2> QED
    BY <1>2, <2>1, <2>2
<1>4. /\ new \in Order /\ new.merchant = m
      /\ new.price = CalculateOrderPrice(new.route.vehicle, new.route.metres)
  BY <1>3, RoutePrice DEF Order
<1> HIDE DEF new, m
<1>5. OrdersGrow /\ Len(orders) + 1 \in DOMAIN orders' /\ orders'[Len(orders) + 1] = new
  <2>1. /\ orders' \in Seq(Order) /\ DOMAIN orders \subseteq DOMAIN orders'
        /\ \A o \in DOMAIN orders : orders'[o] = orders[o]
        /\ \A o \in DOMAIN orders' \ DOMAIN orders : orders'[o] = new
        /\ Len(orders) + 1 \in DOMAIN orders' \ DOMAIN orders
    BY <1>1, <1>2, <1>4
  <2> QED
    BY <1>4, <2>1 DEF OrdersGrow
<1>6. client' = [client EXCEPT ![k] = [client[k] EXCEPT !.pc = "reply", !.placed = Len(orders) + 1]]
      /\ client[k].pc = "handle"
  BY <1>1 DEF PlaceOrder, Handles
<1>7. [client[k] EXCEPT !.pc = "reply", !.placed = Len(orders) + 1] \in Client
  <2>1. Len(orders) + 1 \in Nat /\ client[k] \in Client
    BY <1>1
  <2> QED
    BY <2>1 DEF Client
<1>8. Placed(k)
  <2>1. m # NoMerchant /\ orders'[Len(orders) + 1].merchant = m
    BY <1>2, <1>4, <1>5
  <2> QED
    BY <1>1, <1>5, <1>6, <2>1 DEF Placed, m
<1> QED
  BY <1>1, <1>5, <1>6, <1>7, <1>8

\* A step of the handler of client k, with nothing changed but that client.
LEMMA EndsStep ==
  ASSUME TypeInv, NEW k \in Clients, client[k].pc # "idle", NEW screen, Ends(k, screen),
         UNCHANGED orders,
         \/ screen.as = client[k].as /\ screen.seen = client[k].seen
         \/ /\ screen.as = client[k].caller
            /\ screen.seen \subseteq DOMAIN orders
            /\ \A o \in screen.seen : CanRead(client[k].caller, o),
         \/ screen.quote = client[k].quote
         \/ \E r \in Routes :
              screen.quote = [route |-> r, price |-> EstimateOrderPrice(r.vehicle, r.metres)]
  PROVE  /\ client' \in [Clients -> Client]
         /\ Ended(k)
         /\ \A j \in Clients \ {k} : client'[j] = client[j]
<1>1. client[k] \in Client /\ orders \in Seq(Order)
  BY DEF TypeInv, TypeOK
<1>2. screen.as \in Caller /\ screen.seen \in SUBSET Nat
  BY <1>1 DEF Client
<1>3. screen.quote \in [route : Routes \cup {NoRoute}, price : Nat]
  <2>1. CASE screen.quote = client[k].quote
    BY <1>1, <2>1 DEF Client
  <2>2. ASSUME NEW r \in Routes,
               screen.quote = [route |-> r, price |-> EstimateOrderPrice(r.vehicle, r.metres)]
        PROVE  screen.quote \in [route : Routes \cup {NoRoute}, price : Nat]
    <3>1. EstimateOrderPrice(r.vehicle, r.metres) \in Nat
      BY RoutePrice DEF EstimateOrderPrice
    <3> QED
      BY <2>2, <3>1
  <2> QED
    BY <2>1, <2>2
<1>4. TypeOK
  BY DEF TypeInv
<1>5. /\ client' \in [Clients -> Client]
      /\ \A j \in Clients \ {k} : client'[j] = client[j]
      /\ client'[k].pc = "idle" /\ client'[k].placed = 0 /\ client'[k].user = NoUser
      /\ client'[k].as = screen.as /\ client'[k].seen = screen.seen
      /\ client'[k].quote = screen.quote
  BY <1>2, <1>3, <1>4, EndedClient
<1> QED
  BY <1>5 DEF Ended

\* The guards let a request through.
LEMMA ArrivesStep ==
  ASSUME TypeInv, NEW k \in Clients, NEW op \in Operation, NEW u \in Users \cup {NoUser},
         NEW c \in Caller, Authenticated(u, c), Arrives(k, op, u, c)
  PROVE  /\ client' \in [Clients -> Client]
         /\ Begins(k)
         /\ \A j \in Clients \ {k} : client'[j] = client[j]
<1> DEFINE q == [client[k] EXCEPT !.pc = "handle", !.op = op, !.user = u, !.caller = c]
<1>1. client \in [Clients -> Client] /\ client[k] \in Client
  BY DEF TypeInv, TypeOK
<1>2. q \in Client /\ q.pc = "handle" /\ q.op = op /\ q.user = u /\ q.caller = c
  BY <1>1 DEF Client
<1>3. client' = [client EXCEPT ![k] = q] /\ client[k].pc = "idle"
  BY <1>1 DEF Arrives
<1>4. client' \in [Clients -> Client] /\ client'[k] = q
  BY <1>1, <1>2, <1>3
<1>5. \A j \in Clients \ {k} : client'[j] = client[j]
  BY <1>1, <1>3
<1>6. client'[k].pc = "handle" /\ client'[k].op = op /\ client'[k].user = u
      /\ client'[k].caller = c
  BY <1>2, <1>4
<1> QED
  BY <1>3, <1>4, <1>5, <1>6 DEF Begins

\* A listed or opened order may be read.
LEMMA ListedCanBeRead ==
  ASSUME TypeInv, NEW k \in Clients, client[k].pc # "idle"
  PROVE  /\ Listed(client[k].caller) \subseteq DOMAIN orders
         /\ \A o \in Listed(client[k].caller) : CanRead(client[k].caller, o)
BY ListedIsReadable DEF TypeInv, Listed, CanRead

\* Nothing changes for a client or an order.
LEMMA NothingMoves ==
  ASSUME TypeInv, UNCHANGED <<orders, client>>
  PROVE  /\ OrdersGrow
         /\ client' \in [Clients -> Client]
         /\ \A k \in Clients : ClientStep(k)
BY DEF TypeInv, TypeOK, OrdersGrow, ClientStep

\* The orders stay as they are.
LEMMA OrdersKept ==
  ASSUME TypeInv, UNCHANGED orders
  PROVE  OrdersGrow
BY DEF TypeInv, TypeOK, OrdersGrow

\* A step of the handler of a client.
LEMMA HandleStep ==
  ASSUME TypeInv, NEW k \in Clients, Handle(k)
  PROVE  /\ OrdersGrow
         /\ client' \in [Clients -> Client]
         /\ \A j \in Clients : ClientStep(j)
<1>1. client[k] \in Client
  BY DEF TypeInv, TypeOK
<1>2. ASSUME NEW r \in Routes, Estimate(k, r)
      PROVE  OrdersGrow /\ client' \in [Clients -> Client] /\ Ended(k)
             /\ \A j \in Clients \ {k} : client'[j] = client[j]
  <2> DEFINE screen == [client[k] EXCEPT !.quote =
                 [route |-> r, price |-> EstimateOrderPrice(r.vehicle, r.metres)]]
  <2>1. /\ screen.as = client[k].as /\ screen.seen = client[k].seen
        /\ screen.quote = [route |-> r, price |-> EstimateOrderPrice(r.vehicle, r.metres)]
    BY <1>1 DEF Client
  <2>2. client[k].pc # "idle" /\ Ends(k, screen) /\ UNCHANGED orders
    BY <1>2 DEF Estimate, Handles
  <2> HIDE DEF screen
  <2> QED
    BY <2>1, <2>2, EndsStep, OrdersKept
<1>3. ASSUME NEW dto \in Merchants \cup {NoMerchant}, NEW r \in Routes, PlaceOrder(k, dto, r)
      PROVE  OrdersGrow /\ client' \in [Clients -> Client] /\ Placed(k)
             /\ \A j \in Clients \ {k} : client'[j] = client[j]
  BY <1>3, PlaceOrderStep
<1>4. ASSUME ReplyWithOrder(k) \/ RequestEnds(k)
      PROVE  OrdersGrow /\ client' \in [Clients -> Client] /\ Ended(k)
             /\ \A j \in Clients \ {k} : client'[j] = client[j]
  <2>1. client[k].pc # "idle" /\ Ends(k, client[k]) /\ UNCHANGED orders
    BY <1>4 DEF ReplyWithOrder, RequestEnds
  <2> QED
    BY <2>1, EndsStep, OrdersKept
<1>5. ASSUME ListOrders(k)
      PROVE  OrdersGrow /\ client' \in [Clients -> Client] /\ Ended(k)
             /\ \A j \in Clients \ {k} : client'[j] = client[j]
  <2> DEFINE screen == [client[k] EXCEPT !.as = client[k].caller, !.seen = Listed(client[k].caller)]
  <2>1. /\ screen.as = client[k].caller /\ screen.seen = Listed(client[k].caller)
        /\ screen.quote = client[k].quote
    BY <1>1 DEF Client
  <2>2. client[k].pc # "idle" /\ Ends(k, screen) /\ UNCHANGED orders
    BY <1>5 DEF ListOrders, Handles
  <2>3. /\ screen.seen \subseteq DOMAIN orders
        /\ \A o \in screen.seen : CanRead(client[k].caller, o)
    BY <2>1, <2>2, ListedCanBeRead
  <2> HIDE DEF screen
  <2> QED
    BY <2>1, <2>2, <2>3, EndsStep, OrdersKept
<1>6. ASSUME NEW o \in DOMAIN orders, OpenOrder(k, o)
      PROVE  OrdersGrow /\ client' \in [Clients -> Client] /\ Ended(k)
             /\ \A j \in Clients \ {k} : client'[j] = client[j]
  <2> DEFINE screen == [client[k] EXCEPT !.as = client[k].caller, !.seen = {o}]
  <2>1. /\ screen.as = client[k].caller /\ screen.seen = {o}
        /\ screen.quote = client[k].quote
    BY <1>1 DEF Client
  <2>2. client[k].pc # "idle" /\ Ends(k, screen) /\ UNCHANGED orders
        /\ CanRead(client[k].caller, o)
    BY <1>6 DEF OpenOrder, Handles
  <2> HIDE DEF screen
  <2> QED
    BY <2>1, <2>2, EndsStep, OrdersKept
<1> QED
  BY <1>2, <1>3, <1>4, <1>5, <1>6 DEF Handle, ClientStep

\* The effect of a step on the orders and the clients.
OrderlyStep ==
  /\ OrdersGrow
  /\ client' \in [Clients -> Client]
  /\ \A k \in Clients : ClientStep(k)

\* Every step, as the orders and the clients see it.
LEMMA EveryStep ==
  ASSUME TypeInv, [Next]_vars
  PROVE  OrderlyStep
<1>1. ASSUME UNCHANGED <<orders, client>>
      PROVE  OrderlyStep
  BY <1>1, NothingMoves DEF OrderlyStep
<1>2. ASSUME NEW k \in Clients, NEW op \in Operation, NEW m \in Merchants,
             ArrivesWithKey(k, op, m)
      PROVE  OrderlyStep
  <2>1. ApiKeyCaller(m) \in Caller /\ Authenticated(NoUser, ApiKeyCaller(m))
    BY AuthenticatedCallers, PortalAssumption DEF Authenticated, ApiKeyCaller
  <2>2. Arrives(k, op, NoUser, ApiKeyCaller(m)) /\ UNCHANGED orders
    BY <1>2 DEF ArrivesWithKey, Arrives
  <2> QED
    BY <2>1, <2>2, ArrivesStep, OrdersKept DEF ClientStep, OrderlyStep
<1>3. ASSUME NEW k \in Clients, NEW op \in Operation, NEW t \in tokens,
             ArrivesWithToken(k, op, t)
      PROVE  OrderlyStep
  <2>1. t.user \in Users /\ account[t.user] \in Account
    BY DEF TypeInv, TypeOK, Token
  <2>2. CallerOf(account[t.user]) \in Caller /\ Authenticated(t.user, CallerOf(account[t.user]))
    BY <1>3, <2>1, AuthenticatedCallers DEF Authenticated, ArrivesWithToken, Validate
  <2>3. Arrives(k, op, t.user, CallerOf(account[t.user])) /\ UNCHANGED orders
    BY <1>3 DEF ArrivesWithToken, Arrives, Validate
  <2> QED
    BY <2>1, <2>2, <2>3, ArrivesStep, OrdersKept DEF ClientStep, OrderlyStep
<1>4. ASSUME NEW k \in Clients, Handle(k)
      PROVE  OrderlyStep
  BY <1>4, HandleStep DEF OrderlyStep
<1>5. ASSUME NEW o \in DOMAIN orders, NEW d \in Drivers, OrderAssigned(o, d)
      PROVE  OrderlyStep
  <2>1. orders \in Seq(Order) /\ client \in [Clients -> Client]
    BY DEF TypeInv, TypeOK
  <2> DEFINE given == [orders[o] EXCEPT !.driver = d]
  <2>2. /\ given \in Order
        /\ given.merchant = orders[o].merchant /\ given.route = orders[o].route
        /\ given.price = orders[o].price
    <3>1. orders[o] \in Order
      BY <2>1
    <3> QED
      BY <3>1 DEF Order
  <2>3. /\ orders' = [orders EXCEPT ![o] = given]
        /\ UNCHANGED client
    BY <1>5, <2>1 DEF OrderAssigned
  <2> HIDE DEF given
  <2>4. orders' \in Seq(Order) /\ DOMAIN orders' = DOMAIN orders
    BY <2>1, <2>2, <2>3
  <2>5. \A p \in DOMAIN orders : orders'[p] = IF p = o THEN given ELSE orders[p]
    BY <2>1, <2>3
  <2>6. OrdersGrow
    BY <2>2, <2>3, <2>4, <2>5 DEF OrdersGrow
  <2> QED
    BY <2>1, <2>3, <2>6 DEF ClientStep, OrderlyStep
<1>6. CASE UNCHANGED vars
  BY <1>1, <1>6 DEF vars
<1>7. CASE Next
  <2>1. ASSUME NEW u \in Users, NEW role \in Roles, Login(u, role) PROVE OrderlyStep
    BY <1>1, <2>1 DEF Login
  <2>2. ASSUME NEW u \in Users, NEW a \in AccountsOf[u], AccountChanges(u, a) PROVE OrderlyStep
    BY <1>1, <2>2 DEF AccountChanges
  <2>3. ASSUME NEW t \in tokens, TokenExpires(t) PROVE OrderlyStep
    BY <1>1, <2>3 DEF TokenExpires
  <2>4. CASE \E u \in Users : \/ \E role \in Roles : Login(u, role)
                             \/ \E a \in AccountsOf[u] \ {account[u]} : AccountChanges(u, a)
    BY <2>1, <2>2, <2>4
  <2>5. CASE \E t \in tokens : TokenExpires(t)
    BY <2>3, <2>5
  <2>6. CASE \E k \in Clients, op \in Operation :
               \/ \E m \in Merchants : ArrivesWithKey(k, op, m)
               \/ \E t \in tokens : ArrivesWithToken(k, op, t)
    BY <1>2, <1>3, <2>6
  <2>7. CASE \E k \in Clients : Handle(k)
    BY <1>4, <2>7
  <2>8. CASE \E o \in DOMAIN orders, d \in Drivers : OrderAssigned(o, d)
    BY <1>5, <2>8
  <2> QED
    BY <1>7, <2>4, <2>5, <2>6, <2>7, <2>8 DEF Next
<1> QED
  BY <1>6, <1>7

-----------------------------------------------------------------------------
(***************************************************************************)
(* The type invariant.                                                     *)
(***************************************************************************)

(* Init: nobody has signed in or asked for anything. *)
LEMMA TypeInvInit == Init => TypeInv
<1> SUFFICES ASSUME Init PROVE TypeInv
  OBVIOUS
<1>1. account \in [Users -> Account] /\ \A u \in Users : account[u] \in AccountsOf[u]
  BY PortalAssumption DEF Init
<1>2. tokens \subseteq Token /\ orders \in Seq(Order) /\ DOMAIN orders = {}
  BY DEF Init
<1>3. client \in [Clients -> Client]
  BY IdleClientIsClient DEF Init
<1>4. \A k \in Clients :
        /\ client[k].pc = "idle" /\ client[k].user = NoUser
        /\ client[k].seen = {} /\ client[k].placed = 0
  BY DEF Init, IdleClient
<1> QED
  BY <1>1, <1>2, <1>3, <1>4 DEF TypeInv, TypeOK

\* Accounts and tokens stay what they are.
LEMMA AccountsStep ==
  ASSUME TypeInv, [Next]_vars
  PROVE  /\ account' \in [Users -> Account]
         /\ \A u \in Users : account'[u] \in AccountsOf[u]
         /\ tokens' \subseteq Token
<1>1. /\ account \in [Users -> Account]
      /\ \A u \in Users : account[u] \in AccountsOf[u]
      /\ tokens \subseteq Token
  BY DEF TypeInv, TypeOK
<1>2. \/ UNCHANGED account
      \/ \E u \in Users : \E a \in AccountsOf[u] : account' = [account EXCEPT ![u] = a]
  BY DEF Next, vars, Login, AccountChanges, TokenExpires, ArrivesWithKey, ArrivesWithToken,
         Arrives, Handle, Estimate, PlaceOrder, ReplyWithOrder, ListOrders, OpenOrder,
         RequestEnds, OrderAssigned
<1>3. \/ tokens' \subseteq tokens
      \/ \E u \in Users : \E role \in Roles : tokens' = tokens \cup {[user |-> u, role |-> role]}
  BY DEF Next, vars, Login, AccountChanges, TokenExpires, ArrivesWithKey, ArrivesWithToken,
         Arrives, Handle, Estimate, PlaceOrder, ReplyWithOrder, ListOrders, OpenOrder,
         RequestEnds, OrderAssigned
<1>4. tokens' \subseteq Token
  BY <1>1, <1>3 DEF Token
<1> QED
  BY <1>1, <1>2, <1>4, PortalAssumption

\* Authentication leaves callers.
LEMMA AuthenticatedIsCaller ==
  ASSUME TypeInv, NEW u, NEW c, Authenticated(u, c)
  PROVE  IsCaller(c) /\ IsGranted(c)
<1>1. CASE c.mode = "api_key" /\ c.merchant # NoMerchant
  BY <1>1 DEF IsCaller, IsGranted
<1>2. CASE u \in Users /\ c = CallerOf(account[u])
  <2>1. account[u] \in Account
    BY <1>2 DEF TypeInv, TypeOK
  <2>2. account[u].role \in Roles /\ c.mode = "jwt" /\ c.permissions = PermissionsOf[account[u].role]
    BY <1>2, <2>1 DEF Account, CallerOf, UserCaller
  <2> QED
    BY <2>2 DEF IsCaller, IsGranted
<1> QED
  BY <1>1, <1>2 DEF Authenticated

(* TypeInv: every step, by what EveryStep says it does to orders and clients. *)
LEMMA TypeInvStep ==
  ASSUME TypeInv, [Next]_vars
  PROVE  TypeInv'
<1>1. OrdersGrow /\ client' \in [Clients -> Client]
  BY EveryStep DEF OrderlyStep
<1>2. ASSUME NEW k \in Clients
      PROVE  /\ client'[k].seen \subseteq DOMAIN orders'
             /\ client'[k].placed \in DOMAIN orders' \cup {0}
             /\ client'[k].pc = "reply" => client'[k].placed # 0
             /\ client'[k].pc = "idle" => client'[k].user = NoUser
             /\ client'[k].pc # "idle" => IsCaller(client'[k].caller) /\ IsGranted(client'[k].caller)
  <2>1. /\ client[k] \in Client
        /\ client[k].seen \subseteq DOMAIN orders
        /\ client[k].placed \in DOMAIN orders \cup {0}
        /\ client[k].pc = "reply" => client[k].placed # 0
        /\ client[k].pc = "idle" => client[k].user = NoUser
        /\ client[k].pc # "idle" => IsCaller(client[k].caller) /\ IsGranted(client[k].caller)
        /\ DOMAIN orders \subseteq DOMAIN orders'
        /\ Len(orders) \in Nat
    BY <1>1 DEF TypeInv, TypeOK, OrdersGrow
  <2>2. CASE client'[k] = client[k]
    BY <2>1, <2>2
  <2>3. CASE Begins(k)
    <3>1. IsCaller(client'[k].caller) /\ IsGranted(client'[k].caller)
      BY <2>3, AuthenticatedIsCaller DEF Begins
    <3>2. /\ client'[k].seen = client[k].seen /\ client'[k].placed = client[k].placed
          /\ client'[k].pc = "handle"
      BY <2>1, <2>3 DEF Begins, Client
    <3> QED
      BY <2>1, <3>1, <3>2
  <2>4. CASE Placed(k)
    <3>1. /\ client'[k].seen = client[k].seen /\ client'[k].caller = client[k].caller
          /\ client'[k].placed = Len(orders) + 1
          /\ Len(orders) + 1 \in DOMAIN orders'
          /\ client[k].pc = "handle" /\ client'[k].pc = "reply"
      BY <2>1, <2>4 DEF Placed, Client
    <3>2. IsCaller(client'[k].caller) /\ IsGranted(client'[k].caller)
      BY <2>1, <3>1, Zenon
    <3> QED
      BY <2>1, <3>1, <3>2
  <2>5. CASE Ended(k)
    BY <2>1, <2>5 DEF Ended
  <2> QED
    BY <2>2, <2>3, <2>4, <2>5, EveryStep DEF OrderlyStep, ClientStep
<1>3. orders' \in Seq(Order)
  BY <1>1 DEF OrdersGrow
<1>4. TypeOK'
  BY <1>1, <1>2, <1>3, AccountsStep DEF TypeOK
<1> QED
  BY <1>2, <1>4, AccountsStep DEF TypeInv

\* Every account, token, order and client has its type, and what a client has
\* been shown exists.
THEOREM PortalTypeCorrect == Spec => []TypeOK
<1>1. TypeInv /\ [Next]_vars => TypeInv'
  BY TypeInvStep
<1>2. TypeInv => TypeOK
  BY DEF TypeInv
<1> QED
  BY TypeInvInit, <1>1, <1>2, PTL DEF Spec

-----------------------------------------------------------------------------
(***************************************************************************)
(* Reading.                                                                *)
(***************************************************************************)

\* Who may read an order may read it still when it has been given to a driver
\* for the first time, or to none.
LEMMA ReadableUntilReassigned ==
  ASSUME OrdersGrow, NEW c, NEW o \in DOMAIN orders, CanRead(c, o),
         orders[o].driver \in {NoDriver, orders'[o].driver}
  PROVE  UserCanReadOrder(c, orders'[o].merchant, orders'[o].driver)
<1>1. orders'[o].merchant = orders[o].merchant
  BY DEF OrdersGrow
<1>2. CASE orders'[o].driver = orders[o].driver
  BY <1>1, <1>2 DEF CanRead
<1>3. CASE orders[o].driver = NoDriver
  BY <1>1, <1>3 DEF CanRead, UserCanReadOrder
<1> QED
  BY <1>2, <1>3

\* ShownCanBeOpened, for one client and with the primes written out.
ShownOrReassigned(k) ==
  \/ \A o \in client'[k].seen :
       UserCanReadOrder(client'[k].as, orders'[o].merchant, orders'[o].driver)
  \/ /\ client'[k].as = client[k].as
     /\ client'[k].seen = client[k].seen
     /\ (\A o \in client[k].seen : CanRead(client[k].as, o)) =>
          \E o \in client[k].seen : orders[o].driver \notin {NoDriver, orders'[o].driver}

(* What is shown anew may be read at that moment, and what was shown before,   *)
(* unless another driver has the order now.                                   *)
LEMMA ShownStep ==
  ASSUME TypeInv, [Next]_vars, NEW k \in Clients
  PROVE  ShownOrReassigned(k)
<1>1. /\ OrdersGrow
      /\ client[k] \in Client /\ client[k].seen \subseteq DOMAIN orders
  BY EveryStep DEF OrderlyStep, TypeInv, TypeOK
<1>2. CASE client'[k].as = client[k].as /\ client'[k].seen = client[k].seen
  <2> SUFFICES ASSUME \A o \in client[k].seen : CanRead(client[k].as, o),
                      \A o \in client[k].seen : orders[o].driver \in {NoDriver, orders'[o].driver}
               PROVE  \A o \in client[k].seen :
                        UserCanReadOrder(client[k].as, orders'[o].merchant, orders'[o].driver)
    BY <1>2 DEF ShownOrReassigned
  <2> QED
    BY <1>1, ReadableUntilReassigned
<1>3. CASE /\ orders' = orders
           /\ client'[k].as = client[k].caller
           /\ \A o \in client'[k].seen : CanRead(client[k].caller, o)
  BY <1>3 DEF ShownOrReassigned, CanRead
<1>4. CASE client'[k] = client[k]
  BY <1>2, <1>4
<1>5. CASE Begins(k) \/ Placed(k)
  BY <1>1, <1>2, <1>5 DEF Begins, Placed, Client
<1>6. CASE Ended(k)
  BY <1>2, <1>3, <1>6 DEF Ended
<1> QED
  BY <1>4, <1>5, <1>6, EveryStep DEF OrderlyStep, ClientStep

\* What a caller is shown it may open: no interleaving of lists, creations and
\* changes of accounts shows an order beyond the rule for one order, and only
\* an order's passing from one driver to another takes the right away.
THEOREM ShownOrdersCanBeOpened == Spec => ShownCanBeOpened
<1>1. ASSUME TypeInv, [Next]_vars
      PROVE  [\A k \in Clients :
                \/ ScreenIsReadable(k)'
                \/ /\ Screen(k)' = Screen(k)
                   /\ ScreenIsReadable(k) =>
                        \E o \in client[k].seen : orders[o].driver \notin {NoDriver, orders'[o].driver}]_vars
  BY <1>1, ShownStep DEF ShownOrReassigned, ScreenIsReadable, Screen, CanRead
<1>2. TypeInv /\ [Next]_vars => TypeInv'
  BY TypeInvStep
<1> QED
  BY TypeInvInit, <1>1, <1>2, PTL DEF Spec, ShownCanBeOpened

-----------------------------------------------------------------------------
(***************************************************************************)
(* Creation.                                                               *)
(***************************************************************************)

\* The merchant an order is billed to, as BilledByRight has it, and the way it
\* was found.
LEMMA BilledStep ==
  ASSUME TypeInv, BilledByRight, [Next]_vars
  PROVE  BilledByRight'
<1> SUFFICES ASSUME NEW k \in Clients, client'[k].pc = "reply"
             PROVE  \/ orders'[client'[k].placed].merchant = client'[k].caller.merchant
                    \/ /\ client'[k].caller.merchant = NoMerchant
                       /\ CanDelegateMerchantContext(client'[k].caller)
  BY DEF BilledByRight
<1>1. client[k] \in Client /\ OrdersGrow
  BY EveryStep DEF OrderlyStep, TypeInv, TypeOK
<1>2. CASE client'[k] = client[k]
  <2>1. client[k].placed \in DOMAIN orders
    BY <1>2 DEF TypeInv, TypeOK
  <2>2. orders'[client[k].placed].merchant = orders[client[k].placed].merchant
    BY <1>1, <2>1 DEF OrdersGrow
  <2> QED
    BY <1>2, <2>2 DEF BilledByRight
<1>3. CASE Placed(k)
  <2>1. /\ client'[k].placed = Len(orders) + 1
        /\ client'[k].caller = client[k].caller
        /\ client[k].caller.mode \in {"api_key", "jwt"}
    BY <1>1, <1>3 DEF Placed, Client, Caller
  <2>2. PICK dto \in Merchants \cup {NoMerchant} :
          /\ ResolveMerchantIdForCreate(client[k].caller, dto) # NoMerchant
          /\ orders'[Len(orders) + 1].merchant = ResolveMerchantIdForCreate(client[k].caller, dto)
    BY <1>3 DEF Placed
  <2> QED
    BY <2>1, <2>2, ResolvedMerchant
<1>4. CASE Begins(k) \/ Ended(k)
  BY <1>4 DEF Begins, Ended
<1> QED
  BY <1>2, <1>3, <1>4, EveryStep DEF OrderlyStep, ClientStep

\* No order bills a merchant for whom its caller may not act.
THEOREM OrdersBillByRight == Spec => []BilledByRight
<1>1. Init => BilledByRight
  BY DEF Init, IdleClient, BilledByRight
<1>2. TypeInv /\ BilledByRight /\ [Next]_vars => TypeInv' /\ BilledByRight'
  BY TypeInvStep, BilledStep
<1> QED
  BY TypeInvInit, <1>1, <1>2, PTL DEF Spec

\* Every order and every quote has the price of its route.
PricedByRoute ==
  /\ \A o \in DOMAIN orders :
       orders[o].price = CalculateOrderPrice(orders[o].route.vehicle, orders[o].route.metres)
  /\ \A k \in Clients : client[k].quote.route \in Routes =>
       client[k].quote.price =
         CalculateOrderPrice(client[k].quote.route.vehicle, client[k].quote.route.metres)

(* PricedByRoute: a new order and a new quote take the fare of their route. *)
LEMMA PricedStep ==
  ASSUME TypeInv, PricedByRoute, [Next]_vars
  PROVE  PricedByRoute'
<1>1. OrdersGrow
  BY EveryStep DEF OrderlyStep
<1>2. \A o \in DOMAIN orders' :
        orders'[o].price = CalculateOrderPrice(orders'[o].route.vehicle, orders'[o].route.metres)
  BY <1>1 DEF OrdersGrow, PricedByRoute
<1>3. ASSUME NEW k \in Clients, client'[k].quote.route \in Routes
      PROVE  client'[k].quote.price =
               CalculateOrderPrice(client'[k].quote.route.vehicle, client'[k].quote.route.metres)
  <2>1. client[k] \in Client
    BY DEF TypeInv, TypeOK
  <2>2. CASE client'[k].quote = client[k].quote
    BY <1>3, <2>2 DEF PricedByRoute
  <2>3. CASE client'[k] = client[k] \/ Begins(k) \/ Placed(k)
    BY <2>1, <2>2, <2>3 DEF Begins, Placed, Client
  <2>4. CASE \E r \in Routes :
               client'[k].quote = [route |-> r, price |-> EstimateOrderPrice(r.vehicle, r.metres)]
    BY <2>4 DEF EstimateOrderPrice
  <2> QED
    BY <2>2, <2>3, <2>4, EveryStep DEF OrderlyStep, ClientStep, Ended
<1> QED
  BY <1>2, <1>3 DEF PricedByRoute

\* A price that charges the started kilometres covers the route.
LEMMA PriceCoversRoute ==
  ASSUME NEW r \in Routes
  PROVE  CoversRoute(CalculateOrderPrice(r.vehicle, r.metres), r)
<1>1. /\ r.metres \in Nat
      /\ BaseFare[r.vehicle] \in Nat /\ PerKmRate[r.vehicle] \in Nat \ {0}
      /\ StartedKm(r.metres) \in Nat
      /\ StartedKm(r.metres) * 1000 >= r.metres
      /\ StartedKm(r.metres) * 1000 < r.metres + 1000
  <2>1. r.vehicle \in VehicleType /\ r.metres \in Nat
    BY PortalAssumption
  <2> QED
    BY <2>1, FareTable, BilledKmIsCeiling
<1> DEFINE base == BaseFare[r.vehicle]
           rate == PerKmRate[r.vehicle]
           km   == StartedKm(r.metres)
<1>2. 1000 * (CalculateOrderPrice(r.vehicle, r.metres) - base) = rate * (km * 1000)
  <2>1. CalculateOrderPrice(r.vehicle, r.metres) = base + km * rate
    BY DEF CalculateOrderPrice
  <2>2. \A b, n, p \in Nat : 1000 * ((b + n * p) - b) = p * (n * 1000)
    OBVIOUS
  <2> QED
    BY <1>1, <2>1, <2>2
<1>3. \A p \in Nat \ {0} : \A a, b \in Nat : a >= b => p * a >= p * b
  OBVIOUS
<1>4. \A p \in Nat \ {0} : \A a, b \in Nat : a < b => p * a < p * b
  OBVIOUS
<1>5. rate * (km * 1000) >= rate * r.metres /\ rate * (km * 1000) < rate * (r.metres + 1000)
  <2>1. km * 1000 \in Nat /\ r.metres + 1000 \in Nat
    BY <1>1
  <2> QED
    BY <1>1, <1>3, <1>4, <2>1
<1> QED
  BY <1>2, <1>5 DEF CoversRoute

\* No client is quoted and no order costs less than its route, or a kilometre
\* more: for every distance.
THEOREM FaresCoverRoutes == Spec => []FareCoversRoute
<1>1. Init => PricedByRoute
  BY PortalAssumption DEF Init, IdleClient, PricedByRoute
<1>2. TypeInv /\ PricedByRoute /\ [Next]_vars => TypeInv' /\ PricedByRoute'
  BY TypeInvStep, PricedStep
<1>3. TypeInv /\ PricedByRoute => FareCoversRoute
  <2> SUFFICES ASSUME TypeInv, PricedByRoute PROVE FareCoversRoute
    OBVIOUS
  <2>1. ASSUME NEW o \in DOMAIN orders
        PROVE  CoversRoute(orders[o].price, orders[o].route)
    <3>1. orders[o] \in Order
      BY DEF TypeInv, TypeOK
    <3>2. /\ orders[o].route \in Routes
          /\ orders[o].price = CalculateOrderPrice(orders[o].route.vehicle, orders[o].route.metres)
      BY <3>1 DEF Order, PricedByRoute
    <3> QED
      BY <3>2, PriceCoversRoute
  <2>2. ASSUME NEW k \in Clients, client[k].quote.route # NoRoute
        PROVE  CoversRoute(client[k].quote.price, client[k].quote.route)
    <3>1. client[k] \in Client
      BY DEF TypeInv, TypeOK
    <3>2. client[k].quote.route \in Routes
      BY <2>2, <3>1 DEF Client
    <3>3. client[k].quote.price =
            CalculateOrderPrice(client[k].quote.route.vehicle, client[k].quote.route.metres)
      BY <3>2 DEF PricedByRoute
    <3> QED
      BY <3>2, <3>3, PriceCoversRoute
  <2> QED
    BY <2>1, <2>2 DEF FareCoversRoute
<1> QED
  BY TypeInvInit, <1>1, <1>2, <1>3, PTL DEF Spec

\* What the table of permissions has to grant: a role that creates orders
\* reads those of its merchant, and one that also manages merchants, and so
\* may create orders for any, reads all.
RolesReadWhatTheyCreate ==
  \A role \in Roles : OrdersCreate \in PermissionsOf[role] =>
    /\ ReadOwn \in PermissionsOf[role] \/ ReadAll \in PermissionsOf[role]
    /\ MerchantsManage \in PermissionsOf[role] => ReadAll \in PermissionsOf[role]

\* A signed-in caller who has created an order had the permission to.
CreatorsMayCreate ==
  \A k \in Clients : client[k].pc = "reply" /\ client[k].caller.mode = "jwt" =>
    OrdersCreate \in client[k].caller.permissions

(* CreatorsMayCreate: an order is only placed by who holds the permission. *)
LEMMA CreatorsStep ==
  ASSUME TypeInv, CreatorsMayCreate, [Next]_vars
  PROVE  CreatorsMayCreate'
<1> SUFFICES ASSUME NEW k \in Clients, client'[k].pc = "reply", client'[k].caller.mode = "jwt"
             PROVE  OrdersCreate \in client'[k].caller.permissions
  BY DEF CreatorsMayCreate
<1>1. client[k] \in Client
  BY DEF TypeInv, TypeOK
<1>2. CASE client'[k] = client[k]
  BY <1>2 DEF CreatorsMayCreate
<1>3. CASE Placed(k)
  <2>1. client'[k].caller = client[k].caller /\ client[k].caller.mode \in {"api_key", "jwt"}
    BY <1>1, <1>3 DEF Placed, Client, Caller
  <2>2. PICK dto \in Merchants \cup {NoMerchant} :
          ResolveMerchantIdForCreate(client[k].caller, dto) # NoMerchant
    BY <1>3 DEF Placed
  <2> QED
    BY <2>1, <2>2, ResolvedMerchant
<1>4. CASE Begins(k) \/ Ended(k)
  BY <1>4 DEF Begins, Ended
<1> QED
  BY <1>2, <1>3, <1>4, EveryStep DEF OrderlyStep, ClientStep

\* Under such a table, nobody is refused the answer to an order that has been
\* committed, whatever becomes of the account in the meantime.
THEOREM CommittedOrdersAreAnswered ==
  ASSUME RolesReadWhatTheyCreate
  PROVE  Spec => []CommittedCanBeAnswered
<1>1. Init => BilledByRight /\ CreatorsMayCreate
  BY DEF Init, IdleClient, BilledByRight, CreatorsMayCreate
<1>2. TypeInv /\ BilledByRight /\ CreatorsMayCreate /\ [Next]_vars
        => TypeInv' /\ BilledByRight' /\ CreatorsMayCreate'
  BY TypeInvStep, BilledStep, CreatorsStep
<1>3. TypeInv /\ BilledByRight /\ CreatorsMayCreate => CommittedCanBeAnswered
  <2> SUFFICES ASSUME TypeInv, BilledByRight, CreatorsMayCreate,
                      NEW k \in Clients, client[k].pc = "reply"
               PROVE  CanRead(client[k].caller, client[k].placed)
    BY DEF CommittedCanBeAnswered
  <2> DEFINE c == client[k].caller
             m == orders[client[k].placed].merchant
  <2>1. m # NoMerchant /\ c.mode \in {"api_key", "jwt"}
    <3>1. orders[client[k].placed] \in Order /\ c \in Caller
      BY DEF TypeInv, TypeOK, Client
    <3> QED
      BY <3>1, PortalAssumption DEF Order, Caller
  <2>2. m = c.merchant \/ (c.merchant = NoMerchant /\ CanDelegateMerchantContext(c))
    BY DEF BilledByRight
  <2>3. c.mode = "api_key" => c.merchant # NoMerchant
    BY DEF TypeInv, IsCaller
  <2>4. CASE c.mode = "api_key"
    BY <2>2, <2>3, <2>4 DEF CanRead, UserCanReadOrder
  <2>5. CASE c.mode = "jwt"
    <3>1. PICK role \in Roles : c.permissions = PermissionsOf[role]
      BY <2>5 DEF TypeInv, IsGranted
    <3>2. OrdersCreate \in c.permissions
      BY <2>5 DEF CreatorsMayCreate
    <3>3. /\ ReadOwn \in c.permissions \/ ReadAll \in c.permissions
          /\ MerchantsManage \in c.permissions => ReadAll \in c.permissions
      BY <3>1, <3>2, RolesReadWhatTheyCreate DEF RolesReadWhatTheyCreate
    <3>4. CASE m = c.merchant
      BY <2>1, <2>5, <3>3, <3>4 DEF CanRead, UserCanReadOrder
    <3>5. CASE CanDelegateMerchantContext(c)
      BY <2>5, <3>3, <3>5 DEF CanDelegateMerchantContext, CanRead, UserCanReadOrder
    <3> QED
      BY <2>2, <3>4, <3>5
  <2> QED
    BY <2>1, <2>4, <2>5
<1> QED
  BY TypeInvInit, <1>1, <1>2, <1>3, PTL DEF Spec

=============================================================================
