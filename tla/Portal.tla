------------------------------- MODULE Portal -------------------------------
(***************************************************************************)
(* The order endpoints as their clients meet them: sign-in, authentication *)
(* by token or API key, permissions, quotes, creation, listing and reading *)
(* of orders, while administrators change the accounts.                    *)
(*                                                                         *)
(* Dispatch is seen only through the driver that an order gets.  What     *)
(* createOrder does after it has resolved the merchant is the subject of  *)
(* Dispatch; here its transaction is one step, which may be refused.      *)
(***************************************************************************)
EXTENDS Access, Pricing, FiniteSets, Sequences

CONSTANTS
  Users,         \* user ids
  NoUser,        \* no user: the caller has an API key
  Merchants,     \* merchant ids, each with its API key
  Drivers,       \* driver ids
  Roles,         \* roles a user may have
  PermissionsOf, \* getPermissionsForRole
  AccountsOf,    \* AccountsOf[u]: the accounts administrators may give to user u
  Clients,       \* programs that send one request at a time
  Routes,        \* vehicle types and distances that are asked for
  NoRoute,       \* no quote
  MaxOrders,     \* bound on the orders created
  ListLimit      \* how many orders listOrders returns at most

Account == [role : Roles, merchant : Merchants \cup {NoMerchant},
            driver : Drivers \cup {NoDriver}, isActive : BOOLEAN]

ASSUME PortalAssumption ==
  /\ NoUser \notin Users
  /\ NoMerchant \notin Merchants
  /\ NoDriver \notin Drivers
  /\ PermissionsOf \in [Roles -> SUBSET Permission]
  /\ AccountsOf \in [Users -> SUBSET Account]
  /\ Routes \subseteq [vehicle : VehicleType, metres : Nat]
  /\ NoRoute \notin Routes
  /\ MaxOrders \in Nat
  /\ ListLimit \in Nat \ {0}

VARIABLES
  account, \* account[u]: the user row
  tokens,  \* access tokens that have not expired: user and role at sign-in
  orders,  \* the orders, oldest first
  client   \* client[k]: the request client k is making, and what it was shown

vars == <<account, tokens, orders, client>>

Token == [user : Users, role : Roles]
Order == [merchant : Merchants, driver : Drivers \cup {NoDriver},
          route : Routes, price : Nat]

Operation == {"create", "list", "open", "estimate"}

Caller == [mode : {"api_key", "jwt"}, merchant : Merchants \cup {NoMerchant},
           driver : Drivers \cup {NoDriver}, permissions : SUBSET Permission]

(***************************************************************************)
(* user and caller are what the guards have left on the request in        *)
(* progress, placed is the order it has inserted.  seen and quote are what *)
(* the client's screen shows, and as the caller it was shown to.           *)
(***************************************************************************)
Client == [pc : {"idle", "handle", "reply"}, op : Operation, user : Users \cup {NoUser},
           caller : Caller, placed : Nat, as : Caller, seen : SUBSET Nat,
           quote : [route : Routes \cup {NoRoute}, price : Nat]]

IdleClient ==
  [pc |-> "idle", op |-> "list", user |-> NoUser, caller |-> ApiKeyCaller(NoMerchant),
   placed |-> 0, as |-> ApiKeyCaller(NoMerchant), seen |-> {},
   quote |-> [route |-> NoRoute, price |-> 0]]

Init ==
  /\ account \in [Users -> UNION {AccountsOf[u] : u \in Users}]
  /\ \A u \in Users : account[u] \in AccountsOf[u]
  /\ tokens = {}
  /\ orders = <<>>
  /\ client = [k \in Clients |-> IdleClient]

TypeOK ==
  /\ account \in [Users -> Account]
  /\ tokens \subseteq Token
  /\ orders \in Seq(Order)
  /\ client \in [Clients -> Client]
  /\ \A k \in Clients :
       /\ client[k].seen \subseteq DOMAIN orders
       /\ client[k].placed \in DOMAIN orders \cup {0}
       /\ client[k].pc = "reply" => client[k].placed # 0

-----------------------------------------------------------------------------
(***************************************************************************)
(* Accounts and tokens.                                                    *)
(***************************************************************************)

\* POST /auth/login: an active user, with the role of the account.
Login(u, role) ==
  /\ account[u].isActive
  /\ account[u].role = role
  /\ tokens' = tokens \cup {[user |-> u, role |-> role]}
  /\ UNCHANGED <<account, orders, client>>

TokenExpires(t) ==
  /\ tokens' = tokens \ {t}
  /\ UNCHANGED <<account, orders, client>>

\* An administrator edits the user row, by hand or with the seed.
AccountChanges(u, a) ==
  /\ account' = [account EXCEPT ![u] = a]
  /\ UNCHANGED <<tokens, orders, client>>

CallerOf(a) == UserCaller(a.merchant, a.driver, PermissionsOf[a.role])

\* JwtStrategy.validate reads the user again; only an active one is accepted.
Validate(t) == account[t.user]

-----------------------------------------------------------------------------
(***************************************************************************)
(* A request.  The guards run first; a request they refuse changes        *)
(* nothing, so they are guards of the action.                              *)
(***************************************************************************)

\* @RequirePermissions and @RequireAnyPermission of the order routes.
PassesGuard(c, op) ==
  IF op \in {"create", "estimate"}
  THEN HasAllPermissions(c, {OrdersCreate})
  ELSE HasAnyPermission(c, {ReadOwn, ReadAssigned, ReadAll})

Arrives(k, op, u, c) ==
  /\ client[k].pc = "idle"
  /\ PassesGuard(c, op)
  /\ client' = [client EXCEPT ![k].pc = "handle", ![k].op = op, ![k].user = u, ![k].caller = c]
  /\ UNCHANGED <<account, tokens, orders>>

\* HybridAuthGuard: an API key wins over a token.
ArrivesWithKey(k, op, m) == Arrives(k, op, NoUser, ApiKeyCaller(m))

ArrivesWithToken(k, op, t) ==
  /\ Validate(t).isActive
  /\ Arrives(k, op, t.user, CallerOf(Validate(t)))

\* The request is answered; screen is what the client shows then.
Ends(k, screen) ==
  client' = [client EXCEPT ![k] =
    [IdleClient EXCEPT !.as = screen.as, !.seen = screen.seen, !.quote = screen.quote]]

Handles(k, op) == client[k].pc = "handle" /\ client[k].op = op

\* POST /orders/estimate
Estimate(k, r) ==
  /\ Handles(k, "estimate")
  /\ Ends(k, [client[k] EXCEPT !.quote =
               [route |-> r, price |-> EstimateOrderPrice(r.vehicle, r.metres)]])
  /\ UNCHANGED <<account, tokens, orders>>

\* Faulty variant: an order may be placed without a merchant.
PlaceOrderForNobody(k, dto, r) ==
  /\ Handles(k, "create")
  /\ Len(orders) < MaxOrders
  /\ orders' = Append(orders,
       [merchant |-> ResolveMerchantIdForCreate(client[k].caller, dto), driver |-> NoDriver,
        route |-> r, price |-> CalculateOrderPrice(r.vehicle, r.metres)])
  /\ client' = [client EXCEPT ![k].pc = "reply", ![k].placed = Len(orders) + 1]
  /\ UNCHANGED <<account, tokens>>

\* POST /orders, up to and with the transaction that inserts the order.
PlaceOrder(k, dto, r) ==
  /\ Handles(k, "create")
  /\ Len(orders) < MaxOrders
  /\ LET m == ResolveMerchantIdForCreate(client[k].caller, dto)
     IN /\ m # NoMerchant
        /\ orders' = Append(orders,
             [merchant |-> m, driver |-> NoDriver, route |-> r,
              price |-> CalculateOrderPrice(r.vehicle, r.metres)])
  /\ client' = [client EXCEPT ![k].pc = "reply", ![k].placed = Len(orders) + 1]
  /\ UNCHANGED <<account, tokens>>

CanRead(c, o) == UserCanReadOrder(c, orders[o].merchant, orders[o].driver)

\* createOrder returns what getOrderById gives the caller.
ReplyWithOrder(k) ==
  /\ client[k].pc = "reply"
  /\ CanRead(client[k].caller, client[k].placed)
  /\ Ends(k, client[k])
  /\ UNCHANGED <<account, tokens, orders>>

\* GET /orders: the newest orders within the caller's scope.
Listed(c) ==
  LET mine == {o \in DOMAIN orders : OrderListWhere(c, orders[o].merchant, orders[o].driver)}
  IN {o \in mine : Cardinality({p \in mine : p > o}) < ListLimit}

ListOrders(k) ==
  /\ Handles(k, "list")
  /\ Ends(k, [client[k] EXCEPT !.as = client[k].caller, !.seen = Listed(client[k].caller)])
  /\ UNCHANGED <<account, tokens, orders>>

\* GET /orders/:id
OpenOrder(k, o) ==
  /\ Handles(k, "open")
  /\ CanRead(client[k].caller, o)
  /\ Ends(k, [client[k] EXCEPT !.as = client[k].caller, !.seen = {o}])
  /\ UNCHANGED <<account, tokens, orders>>

\* The handler answers 4xx, or fails; an order that is committed stays.
RequestEnds(k) ==
  /\ client[k].pc # "idle"
  /\ Ends(k, client[k])
  /\ UNCHANGED <<account, tokens, orders>>

\* Dispatch gives the order to a driver: a redelivered job overwrites the one
\* that an earlier run has assigned.
OrderAssigned(o, d) ==
  /\ orders' = [orders EXCEPT ![o].driver = d]
  /\ UNCHANGED <<account, tokens, client>>

Handle(k) ==
  \/ \E r \in Routes : Estimate(k, r) \/ \E m \in Merchants \cup {NoMerchant} : PlaceOrder(k, m, r)
  \/ ReplyWithOrder(k)
  \/ ListOrders(k)
  \/ \E o \in DOMAIN orders : OpenOrder(k, o)
  \/ RequestEnds(k)

Next ==
  \/ \E u \in Users : \/ \E role \in Roles : Login(u, role)
                      \/ \E a \in AccountsOf[u] \ {account[u]} : AccountChanges(u, a)
  \/ \E t \in tokens : TokenExpires(t)
  \/ \E k \in Clients, op \in Operation : \/ \E m \in Merchants : ArrivesWithKey(k, op, m)
                                          \/ \E t \in tokens : ArrivesWithToken(k, op, t)
  \/ \E k \in Clients : Handle(k)
  \/ \E o \in DOMAIN orders, d \in Drivers : OrderAssigned(o, d)

Spec == Init /\ [][Next]_vars

-----------------------------------------------------------------------------
\* What a client shows, and to whom; and whether that caller may open all of it.
Screen(k) == <<client[k].as, client[k].seen>>
ScreenIsReadable(k) == \A o \in client[k].seen : CanRead(client[k].as, o)

\* What a caller is shown, by the list or by the order itself, it may open at
\* that moment: the list's filter never reaches further than the rule for one
\* order.  It loses the right only while the screen is left as it was and a
\* redelivered job hands an order on it to another driver
\* (orders.service.ts:1210-1241, order-access.interface.ts:33-70,
\* matching.processor.ts:172-185).
ShownCanBeOpened ==
  [][\A k \in Clients :
       \/ ScreenIsReadable(k)'
       \/ /\ Screen(k)' = Screen(k)
          /\ ScreenIsReadable(k) =>
               \E o \in client[k].seen : orders[o].driver \notin {NoDriver, orders'[o].driver}]_vars

\* An order bills the merchant of its API key or of its user; only a user
\* without a merchant who manages merchants or reads all orders may name one.
BilledByRight ==
  \A k \in Clients : client[k].pc = "reply" =>
    LET c == client[k].caller
        m == orders[client[k].placed].merchant
    IN m = c.merchant \/ (c.merchant = NoMerchant /\ CanDelegateMerchantContext(c))

\* Nobody whose order has been committed is answered 403 for want of the
\* right to read it (orders.service.ts:336).
CommittedCanBeAnswered ==
  \A k \in Clients : client[k].pc = "reply" => CanRead(client[k].caller, client[k].placed)

\* A price pays for every metre of the route, and for less than a kilometre
\* beyond it.
CoversRoute(price, r) ==
  LET forDistance == 1000 * (price - BaseFare[r.vehicle])
  IN /\ forDistance >= PerKmRate[r.vehicle] * r.metres
     /\ forDistance < PerKmRate[r.vehicle] * (r.metres + 1000)

\* Whatever a client is quoted and whatever an order costs covers its route, at
\* the boundary of a kilometre too (pricing.service.ts:27-46).
FareCoversRoute ==
  /\ \A o \in DOMAIN orders : CoversRoute(orders[o].price, orders[o].route)
  /\ \A k \in Clients : client[k].quote.route # NoRoute =>
       CoversRoute(client[k].quote.price, client[k].quote.route)
=============================================================================
