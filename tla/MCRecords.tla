----------------------------- MODULE MCRecords ------------------------------
(***************************************************************************)
(* Records on small instances: what the calls of a run ask for, by whom,   *)
(* and the environments the process runs in.                               *)
(***************************************************************************)
EXTENDS Records

CONSTANTS c1, c2, c3, o1, o2, t1, t2, v1, v2, technician, admin, reader

SmallOlder == <<o1, o2>>

Entry(token, role, expiresAt) ==
  [token |-> token, user |-> TRUE, role |-> role, expiresAt |-> expiresAt]

\* Tokens that never expire, or soon; entries that do not parse; a token renewed in place.
Staff == <<Entry(technician, Junk, 2), Entry(admin, "admin", Never), Entry(reader, "readonly", 1)>>
Renewed == <<Entry(technician, "technician", 1), Entry(technician, "technician", Never),
             Entry(admin, "admin", Junk), [Entry(reader, "admin", Never) EXCEPT !.user = FALSE]>>

Base == [mode |-> Junk, dev |-> FALSE, oidc |-> FALSE, tokens |-> Staff, warning |-> 1,
         tooling |-> TRUE, backend |-> "file", writable |-> TRUE,
         reachable |-> TRUE, tables |-> ExpectedTables]

SmallSettings ==
  {Base,
   [Base EXCEPT !.mode = "dev-header", !.tokens = Renewed, !.warning = Junk, !.tooling = FALSE],
   [Base EXCEPT !.mode = "dev-header", !.dev = TRUE, !.writable = FALSE],
   [Base EXCEPT !.mode = "jwt", !.oidc = TRUE, !.backend = "db"],
   [Base EXCEPT !.mode = "dev-header", !.dev = TRUE, !.backend = "db"],
   [Base EXCEPT !.backend = "db", !.tables = @ \ {"reports"}]}

ClaimsOf(roles, role) == [verified |-> TRUE, roles |-> roles, role |-> role, groups |-> <<"readonly">>]

By(token, header, claims) == [token |-> token, header |-> header, claims |-> claims]

Technician == By(technician, Junk, ClaimsOf(<<Junk, "technician">>, "admin"))
Admin == By(admin, "admin", ClaimsOf(<<>>, "admin"))
Reader == By(reader, "readonly", ClaimsOf(<<>>, Junk))
Stranger == By(NoToken, Junk, [ClaimsOf(<<"admin">>, Junk) EXCEPT !.verified = FALSE])

Ask(kind, credential, body) == [kind |-> kind, credential |-> credential, body |-> body]

Deploy(t, v, env, dry) == [tenant |-> t, version |-> v, env |-> env, dry |-> dry]
Job(t, status) == [tenant |-> t, status |-> status]
Tenant(n, size, vlan, ip, override) ==
  [name |-> n, complete |-> TRUE, size |-> size, vlan |-> vlan, ip |-> ip, override |-> override]
All == [filter |-> NoTenant]
Meta(expiresAt) == [user |-> TRUE, role |-> "admin", expiresAt |-> expiresAt]
Tokens3(s, last) == [secrets |-> s, tokens |-> <<Meta(1), Meta(2), Meta(last)>>]

Three(a, b, c) == [x \in Calls |-> CASE x = c1 -> a [] x = c2 -> b [] OTHER -> c]

SmallWorkloads ==
  {\* two deployments to one target, and somebody unknown
   Three(Ask("deploy", Technician, Deploy(t1, v1, Junk, FALSE)),
         Ask("deploy", Technician, Deploy(t1, v2, "Staging", FALSE)),
         Ask("job", Stranger, Job(t2, "Queued"))),
   \* three tenants: an address of an admin's own, of a technician's own, and a name twice
   Three(Ask("tenant", Admin, Tenant(t1, "S", 2, <<10, 9, 9, 9>>, TRUE)),
         Ask("tenant", Technician, Tenant(t2, "S", 4094, <<10, 9, 9, 9>>, TRUE)),
         Ask("tenant", Technician, Tenant(t1, "XL", 3, NoAddress, FALSE))),
   \* the page opens and its user asks for two jobs
   Three(Ask("open", Reader, Junk),
         Ask("submit", Technician, Job(t1, "default")),
         Ask("run", Technician, Job(t2, "DryRun"))),
   \* jobs are made while the list is read page by page
   Three(Ask("scan", Reader, All),
         Ask("job", Technician, Job(t1, "Running")),
         Ask("job", Technician, Job(t2, "default"))),
   \* listing one tenant's jobs; a status that is none
   Three(Ask("scan", Technician, [filter |-> t1]),
         Ask("submit", Technician, Job(t1, Junk)),
         Ask("deploy", Technician, Deploy(t1, v1, "Production", FALSE))),
   \* reports; a rotation simulated with secrets, and with a token that never expires
   Three(Ask("health", Admin, Junk),
         Ask("simulate", Admin, Tokens3(FALSE, 3)),
         Ask("simulate", Admin, Tokens3(TRUE, Never))),
   \* a tenant that does not fit, a dry run, and a rotation planned
   Three(Ask("tenant", Admin, Tenant(t1, BadValue, BadValue, <<>>, TRUE)),
         Ask("deploy", Technician, Deploy(t1, v1, Junk, TRUE)),
         Ask("rotate", Admin, Junk)),
   \* no version, no such environment, an address that is empty
   Three(Ask("deploy", Technician, Deploy(t1, Junk, Junk, FALSE)),
         Ask("deploy", Technician, Deploy(t1, v1, "Test", FALSE)),
         Ask("tenant", Admin, Tenant(t2, "M", 1000, <<>>, TRUE)))}
=============================================================================
