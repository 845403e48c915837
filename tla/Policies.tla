------------------------------ MODULE Policies ------------------------------
(***************************************************************************)
(* The rego policies.  A rule body that refers to a member that the input  *)
(* lacks is undefined, so that the rule does not hold.  Names with a dot   *)
(* or a colon in them are pairs: <<"order", "read">>, <<"user", "u1">>.    *)
(***************************************************************************)
EXTENDS Integers

\* The documents a client can be configured to query; data is the root.
Paths == {"data", "identity/authz", "identity/pci",
          "identity/authz/payment_service", "identity/authz/order_service"}

\* The empty name.
Nameless == <<"", "">>

-----------------------------------------------------------------------------
(* policies/shared: what the identity team owns.                           *)

PciScoped(in) == "pci_scope" \in DOMAIN in /\ in.pci_scope

PciAllow(in) ==
  in.trust_level = "high" /\ PciScoped(in) /\ in.auth_method \in {"oidc", "mtls"}

PciDeny(in) ==
  PciScoped(in) /\ (in.auth_method = "legacy" \/ in.trust_level # "high")

Soc2Deny(in) ==
  \/ in.subject = Nameless \/ in.auth_method = ""
  \/ in.action \in {"write", "delete"} /\ in.trust_level = "low"

\* grants is data.permissions: [role -> set of [service, action]].
Permits(grants, role, service, action) ==
  /\ role \in DOMAIN grants
  /\ \E g \in grants[role] : g.service = service /\ g.action \in {action, "*"}

AuthzAllow(grants, in) ==
  \/ \E role \in in.roles : Permits(grants, role, in.service_name, in.action)
  \/ in.subject = <<"service", in.service_name>>

AuthzDeny(in) == in.trust_level = "low" /\ in.action # "read"

-----------------------------------------------------------------------------
(* policies/examples: what the services' teams own.                        *)

PaymentAllow(in) == PciAllow(in) /\ \E role \in in.roles : role[1] = "payment"

PaymentDeny(in) == in.trust_level # "high" \/ in.auth_method = "legacy"

OrderAllow(grants, in) ==
  \/ AuthzAllow(grants, in)
  \/ in.action = "read" /\ <<"order", "read">> \in in.roles
  \/ in.action = "write" /\ in.trust_level # "low" /\ <<"order", "write">> \in in.roles

OrderDeny(in) == in.resource = <<"order", "payment">> /\ ~PciAllow(in)

-----------------------------------------------------------------------------
(* What OPA answers to a query of a document: its allow, when it has one.  *)

Allow(path, grants, in) ==
  \/ path = "identity/authz" /\ AuthzAllow(grants, in)
  \/ path = "identity/pci"   /\ PciAllow(in)
  \/ path = "identity/authz/payment_service" /\ PaymentAllow(in)
  \/ path = "identity/authz/order_service"   /\ OrderAllow(grants, in)

\* The document's own denials, which the same answer holds.
OwnDeny(path, in) ==
  \/ path = "identity/authz" /\ AuthzDeny(in)
  \/ path = "identity/authz/payment_service" /\ PaymentDeny(in)
  \/ path = "identity/authz/order_service"   /\ OrderDeny(in)

\* The baselines that no team can override.
BaselineDeny(in) == PciDeny(in) \/ Soc2Deny(in)
=============================================================================
