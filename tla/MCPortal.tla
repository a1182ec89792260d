----------------------------- MODULE MCPortal ------------------------------
(***************************************************************************)
(* Two merchants, two drivers, and two users whose accounts change: a      *)
(* merchant's admin who loses the merchant, and a driver partner who      *)
(* becomes inactive or a superadmin.  The permissions are those that      *)
(* test/integration/rbac.integration.spec.ts and                          *)
(* shared-rbac.integration.spec.ts show.                                   *)
(***************************************************************************)
EXTENDS Portal

CONSTANTS m1, m2, d1, d2, ua, ub

MCPermissionsOf ==
  [role \in Roles |->
     CASE role = "MERCHANT_ADMIN" -> {OrdersCreate, ReadOwn}
       [] role = "DRIVER_PARTNER" -> {ReadAssigned}
       [] role = "SUPERADMIN"     -> {OrdersCreate, ReadAll, ReadOwn, ReadAssigned, MerchantsManage}]

Row(role, m, d, active) == [role |-> role, merchant |-> m, driver |-> d, isActive |-> active]

MCAccountsOf ==
  [u \in Users |->
     IF u = ua
     THEN {Row("MERCHANT_ADMIN", m, NoDriver, TRUE) : m \in {m1, NoMerchant}}
     ELSE {Row("DRIVER_PARTNER", NoMerchant, d1, TRUE), Row("DRIVER_PARTNER", NoMerchant, d1, FALSE),
           Row("SUPERADMIN", NoMerchant, NoDriver, TRUE)}]

MCRoutes == {[vehicle |-> "BIKE", metres |-> 2000], [vehicle |-> "BIKE", metres |-> 2001]}

(***************************************************************************)
(* The role in a token is read by no action (Validate reads the account), *)
(* so states that differ only there have the same futures.                 *)
(***************************************************************************)
RolesUnread == <<account, {t.user : t \in tokens}, orders, client>>
=============================================================================
