--------------------------- MODULE MCProvisioning ---------------------------
(***************************************************************************)
(* Provisioning on small instances: two tenants, one with a VLAN that fits *)
(* an address and one beyond 999, and a few configurations.                *)
(***************************************************************************)
EXTENDS Provisioning, TLC

CONSTANTS t1, t2, j1, j2

MCVlan == (t1 :> 100) @@ (t2 :> 1000)
NarrowVlan == (t1 :> 100) @@ (t2 :> 200)

\* A request to execute and one of any kind, up to swapping the jobs; of two to
\* execute, one at least is for t1.
Rank(r) ==
  (CASE r.kind = "environment" -> 0 [] r.kind = "dry" -> 2 [] r.kind = "execute" -> 4)
  + (IF r.tenant = t1 THEN 0 ELSE 1)

MCWorkloads ==
  {f \in AllWorkloads :
     /\ f[j2].kind = "execute" /\ Rank(f[j1]) <= Rank(f[j2])
     /\ f[j1].kind = "execute" => f[j1].tenant = t1}

\* One request to provision.
SingleWorkloads ==
  {f \in [Jobs -> [kind : {"execute", "dry"}, tenant : {t1}]] : TRUE}

\* Everything works and a hook is there.
Working == [executable |-> TRUE, hook |-> "valid", backend |-> "file"]
WorkingSettings == {Working}

\* And each way to be configured otherwise.
MCSettings ==
  {Working,
   [executable |-> FALSE, hook |-> "unset", backend |-> "file"],
   [executable |-> TRUE, hook |-> "rejected", backend |-> "db"]}
=============================================================================
