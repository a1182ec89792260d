------------------------------- MODULE Access -------------------------------
(***************************************************************************)
(* Who may do what: the guards of a route, the merchant an order is billed *)
(* to, the filter of the order list, and the rule for reading one order.  *)
(*                                                                         *)
(* A caller is what the guards leave on the request: a merchant known by  *)
(* its API key, or a signed-in user with the permissions of the role.     *)
(***************************************************************************)
EXTENDS Integers

CONSTANTS
  NoMerchant, \* merchantId = null
  NoDriver    \* driverId = null, assignedDriverId = null

OrdersCreate    == "orders:create"
ReadAll         == "orders:read:all"
ReadOwn         == "orders:read:own"
ReadAssigned    == "orders:read:assigned"
MerchantsManage == "merchants:manage"

\* The permissions that the order routes look at.
Permission == {OrdersCreate, ReadAll, ReadOwn, ReadAssigned, MerchantsManage}

ApiKeyCaller(m) == [mode |-> "api_key", merchant |-> m, driver |-> NoDriver, permissions |-> {}]

UserCaller(m, d, permissions) ==
  [mode |-> "jwt", merchant |-> m, driver |-> d, permissions |-> permissions]

\* PermissionsGuard: an API key stands for two permissions.
Granted(c) ==
  IF c.mode = "api_key" THEN {OrdersCreate, ReadOwn} ELSE c.permissions

HasAllPermissions(c, required) == required \subseteq Granted(c)
HasAnyPermission(c, required)  == required = {} \/ required \cap Granted(c) # {}

-----------------------------------------------------------------------------
\* Faulty variant: whoever may create may name the merchant.
CreatorsDelegate(c) == OrdersCreate \in c.permissions

\* canDelegateMerchantContext
CanDelegateMerchantContext(c) == c.permissions \cap {MerchantsManage, ReadAll} # {}

\* Faulty variant: the merchant named in the body wins.
BodyNamesMerchant(c, dto) ==
  CASE c.mode = "api_key" -> c.merchant
    [] c.mode = "jwt" /\ OrdersCreate \in c.permissions ->
         IF dto # NoMerchant THEN dto ELSE c.merchant
    [] OTHER -> NoMerchant

\* resolveMerchantIdForCreate, for the merchantId of the body; NoMerchant is a 403.
ResolveMerchantIdForCreate(c, dto) ==
  CASE c.mode = "api_key" -> c.merchant
    [] c.mode = "jwt" /\ OrdersCreate \notin c.permissions -> NoMerchant
    [] c.mode = "jwt" /\ OrdersCreate \in c.permissions /\ c.merchant # NoMerchant ->
         IF dto \in {NoMerchant, c.merchant} THEN c.merchant ELSE NoMerchant
    [] OTHER -> IF CanDelegateMerchantContext(c) THEN dto ELSE NoMerchant

-----------------------------------------------------------------------------
\* userCanReadOrder, for an order of merchant m assigned to driver d.
UserCanReadOrder(c, m, d) ==
  \/ c.mode = "api_key" /\ m = c.merchant
  \/ /\ c.mode = "jwt"
     /\ \/ ReadAll \in c.permissions
        \/ ReadOwn \in c.permissions /\ c.merchant # NoMerchant /\ m = c.merchant
        \/ ReadAssigned \in c.permissions /\ c.driver # NoDriver /\ d = c.driver

\* Faulty variant: a null merchantId becomes an undefined filter, which
\* matches every row.
ListUnfiltered(c, m, d) ==
  CASE c.mode = "api_key"              -> m = c.merchant
    [] c.mode = "jwt" /\ ReadAll \in c.permissions -> TRUE
    [] c.mode = "jwt" /\ ReadAll \notin c.permissions /\ ReadOwn \in c.permissions ->
         c.merchant = NoMerchant \/ m = c.merchant
    [] OTHER -> ReadAssigned \in c.permissions /\ c.driver # NoDriver /\ d = c.driver

\* buildOrderListWhere: the first scope that applies is the filter, the
\* others are not added; without any, the list is refused.
ListsByMerchant(c) ==
  \/ c.mode = "api_key"
  \/ ReadOwn \in c.permissions /\ c.merchant # NoMerchant

OrderListWhere(c, m, d) ==
  CASE c.mode = "jwt" /\ ReadAll \in c.permissions -> TRUE
    [] ~(c.mode = "jwt" /\ ReadAll \in c.permissions) /\ ListsByMerchant(c) -> m = c.merchant
    [] OTHER -> ReadAssigned \in c.permissions /\ c.driver # NoDriver /\ d = c.driver
=============================================================================
