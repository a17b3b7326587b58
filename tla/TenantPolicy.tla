---------------------------- MODULE TenantPolicy ----------------------------
(***************************************************************************)
(* The rules a new tenant has to follow (lib/tenant-policy.ts), and the    *)
(* checks of POST /api/tenants before them.  A body says whether every     *)
(* other required field is there and fits (complete), and which of size,   *)
(* VLAN, address and override it has.                                      *)
(***************************************************************************)
EXTENDS Integers, Sequences

CONSTANTS
  NoAddress,     \* no address in the body
  BadValue       \* a size or VLAN that is none of the known sizes, or no integer

Sizes == {"S", "M", "L", "XL"}

\* computeTenantIp: 10.<vlan>.10.100
TenantIp(vlan) == <<10, vlan, 10, 100>>

\* The address buildProvisionPlan gives the machine, whatever the record says.
PlanIp(vlan) == <<10, vlan, 10, 100>>

FieldsOk(b) ==
  /\ b.complete
  /\ b.size \in Sizes
  /\ b.vlan # BadValue /\ b.vlan \in 2..4094

\* validateTenantPolicyConstraints, of a body whose fields are there.
Violations(b) ==
  (IF b.size \in Sizes THEN {} ELSE {"INVALID_SIZE"})
  \union (IF b.ip \in {NoAddress, TenantIp(b.vlan)} THEN {} ELSE {"INVALID_IP"})

\* Faulty variant, which no specification uses: whoever asks may override.
OverridesAnyone(b, role) == b.override

\* Only an admin's override counts.
Overrides(b, role) == role = "admin" /\ b.override

\* An empty address is no address here, though it violates the rule.
ResolvedIp(b, role) ==
  IF Overrides(b, role) /\ b.ip \notin {NoAddress, <<>>} THEN b.ip ELSE TenantIp(b.vlan)
=============================================================================
