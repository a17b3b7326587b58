---------------------------- MODULE RecordsProofs ---------------------------
(***************************************************************************)
(* Proofs about the endpoints that make records, for any calls, bodies,    *)
(* tokens, environments, faults and crashes.                               *)
(***************************************************************************)
EXTENDS Records, FiniteSetTheorems, SequenceTheorems, TLAPS

----------------------------------------------------------------------------
(* Requests and environments.                                              *)

Requests == req \in Workloads

LEMMA RequestFacts ==
  ASSUME Requests, NEW c \in Calls
  PROVE  /\ Kind(c) \in Kinds /\ req[c].credential \in Credentials
         /\ Kind(c) = "deploy" => Body(c) \in DeployBodies
         /\ Kind(c) \in {"job", "submit"} => Body(c) \in JobBodies
         /\ Kind(c) = "run" => Body(c) \in ProvisionBodies
         /\ Kind(c) = "tenant" => Body(c) \in TenantBodies
         /\ Kind(c) = "simulate" => Body(c) \in SimulationBodies
<1>1. IsRequest(req[c])
  BY WorkloadsAssumption DEF Requests
<1> QED
  BY <1>1 DEF IsRequest, Kind, Body

LEMMA OperationType ==
  ASSUME Requests, NEW c \in Calls
  PROVE  Operation(c) \in Operations
BY RequestFacts DEF Operation, Operations, RequiredRole, Kinds, PageLoads

\* A set of positions has a first.
LEMMA FirstFacts ==
  ASSUME NEW s, NEW I, I \subseteq Nat, I # {}
  PROVE  \E i \in I : FirstOf(s, I) = s[i] /\ \A j \in I : i <= j
<1> DEFINE Below == {0..i : i \in I}
<1>1. /\ Below \subseteq SUBSET Nat /\ Below # {}
      /\ \A x \in Below : IsFiniteSet(x)
  <2>1. \A i \in I : 0..i \in SUBSET Nat /\ IsFiniteSet(0..i)
    BY FS_Interval
  <2> QED
    BY <2>1
<1>2. Below \subseteq FiniteSubsetsOf(Nat)
  BY <1>1 DEF FiniteSubsetsOf
<1>3. IsWellFoundedOn(StrictSubsetOrdering(Nat), FiniteSubsetsOf(Nat))
  BY FS_StrictSubsetOrderingWellFounded
<1> HIDE DEF Below
<1>4. PICK x \in Below : \A y \in Below : <<y, x>> \notin StrictSubsetOrdering(Nat)
  BY <1>1, <1>2, <1>3, WFMin
<1>5. PICK i \in I : x = 0..i
  BY <1>4 DEF Below
<1>6. ASSUME NEW j \in I, j < i PROVE FALSE
  <2>1. /\ 0..j \in SUBSET Nat /\ x \in SUBSET Nat
        /\ 0..j \subseteq x /\ 0..j # x
    BY <1>5, <1>6
  <2>2. <<0..j, x>> \in StrictSubsetOrdering(Nat)
    BY <2>1 DEF StrictSubsetOrdering
  <2>3. 0..j \in Below
    BY DEF Below
  <2> QED
    BY <1>4, <2>2, <2>3
<1>7. \A j \in I : i <= j
  BY <1>6
<1>8. \E k \in I : \A j \in I : k <= j
  BY <1>7
<1> QED
  BY <1>8 DEF FirstOf

----------------------------------------------------------------------------
(* The guard.                                                              *)

LEMMA MayGrants ==
  ASSUME NEW role \in Roles, NEW o \in Operations
  PROVE  May(role, o) <=> Grants(role, o)
<1>1. role # Nobody
  BY DEF Roles, Nobody
<1>2. /\ Rank["readonly"] = 1 /\ Rank["technician"] = 2 /\ Rank["admin"] = 3
  BY DEF Rank
<1>3. /\ o \in {"deploy", "job", "tenant", "provision"} => RequiredRole[o] = "technician"
      /\ o \in Reports => RequiredRole[o] = "admin"
      /\ o = "jobs" => RequiredRole[o] = "readonly"
      /\ o \in {"deploy", "job", "tenant", "provision", "jobs"} \union Reports
  BY DEF Operations, RequiredRole, Reports
<1>4. \A a : a \in {"deploy", "job", "tenant", "provision"} => a \notin Reports /\ a # "jobs"
  BY DEF Reports
<1>5. "jobs" \notin Reports
  BY DEF Reports
<1> HIDE DEF Operations
<1> QED
  BY <1>1, <1>2, <1>3, <1>4, <1>5 DEF May, HasMinimumRole, Grants, Roles

LEMMA NobodyMayNot ==
  ASSUME NEW o
  PROVE  ~May(Nobody, o)
BY DEF May

LEMMA NormalizeType ==
  ASSUME NEW r
  PROVE  NormalizeRole(r) \in Roles
BY DEF NormalizeRole, Roles

LEMMA SettingFacts ==
  ASSUME NEW s \in Settings
  PROVE  /\ s.tokens \in Seq(RawEntries)
         /\ s.warning \in {Junk} \union Nat
BY SettingsAssumption DEF Environments

\* A trusted token counts while an entry of it is in force.
LEMMA TrustedFacts ==
  ASSUME Requests, setting \in Settings, now \in Nat, NEW c \in Calls,
         NEW role, role = TrustedRole(setting.tokens, req[c].credential.token, now)
  PROVE  LET entitled == \E e \in Range(setting.tokens) : Entitles(e, c)
             served == May(role, Operation(c))
         IN  (served => entitled) /\ (Distinct(setting.tokens) => (entitled => served))
<1> DEFINE raw == setting.tokens
           token == req[c].credential.token
           entries == Parse(raw)
           matches == {i \in DOMAIN entries : entries[i].token = token}
           o == Operation(c)
<1>1. raw \in Seq(RawEntries) /\ \A i \in DOMAIN raw : raw[i] \in RawEntries
  BY SettingFacts, ElementOfSeq
<1>2. DOMAIN raw \subseteq Nat
  BY <1>1
<1>3. o \in Operations
  BY OperationType
<1>4. token \in Tokens \union {NoToken}
  BY RequestFacts DEF Credentials
<1>5. /\ DOMAIN entries = {i \in DOMAIN raw : Parsable(raw[i])}
      /\ \A i \in DOMAIN entries : /\ entries[i].token = raw[i].token
                                   /\ entries[i].expiresAt = raw[i].expiresAt
                                   /\ entries[i].role = NormalizeRole(raw[i].role)
  <2>1. \A i \in DOMAIN raw :
          /\ [raw[i] EXCEPT !.role = NormalizeRole(raw[i].role)].token = raw[i].token
          /\ [raw[i] EXCEPT !.role = NormalizeRole(raw[i].role)].expiresAt = raw[i].expiresAt
          /\ [raw[i] EXCEPT !.role = NormalizeRole(raw[i].role)].role = NormalizeRole(raw[i].role)
    BY <1>1 DEF RawEntries
  <2> QED
    BY <2>1 DEF Parse
<1> HIDE DEF entries, o
<1>6. \A i \in DOMAIN raw : (IF raw[i].role = Junk THEN "technician" ELSE raw[i].role) = NormalizeRole(raw[i].role)
  BY <1>1, JunkAssumption DEF RawEntries, NormalizeRole, Roles
<1>7. \A i \in DOMAIN raw : raw[i].expiresAt \in {Never, Junk} \union Nat
  BY <1>1 DEF RawEntries
<1>8. ASSUME NEW i \in DOMAIN raw
      PROVE  Entitles(raw[i], c) <=>
               /\ i \in matches /\ ~Expired(raw[i].expiresAt, now)
               /\ May(NormalizeRole(raw[i].role), o)
  <2>1. Grants(NormalizeRole(raw[i].role), o) <=> May(NormalizeRole(raw[i].role), o)
    BY <1>3, MayGrants, NormalizeType
  <2>2. i \in matches <=> Parsable(raw[i]) /\ raw[i].token = token
    BY <1>5
  <2>3. raw[i].expiresAt # Junk =>
          ((raw[i].expiresAt # Never => now < raw[i].expiresAt) <=> ~Expired(raw[i].expiresAt, now))
    BY <1>7 DEF Expired
  <2>4. raw[i].token = token => raw[i].token # Junk
    BY <1>4, TokensAssumption
  <2>5. Entitles(raw[i], c) <=>
          /\ raw[i].token = token /\ raw[i].user /\ raw[i].expiresAt # Junk
          /\ raw[i].expiresAt # Never => now < raw[i].expiresAt
          /\ Grants(NormalizeRole(raw[i].role), o)
    BY <1>6 DEF Entitles, o
  <2> QED
    BY <2>1, <2>2, <2>3, <2>4, <2>5 DEF Parsable
<1>9. CASE matches = {}
  <2>1. role = Nobody
    BY <1>9 DEF TrustedRole, entries
  <2>2. ~\E e \in Range(raw) : Entitles(e, c)
    BY <1>8, <1>9 DEF Range
  <2> QED
    BY <2>1, <2>2, NobodyMayNot
<1>10. CASE matches # {}
  <2>1. PICK k \in matches : FirstOf(entries, matches) = entries[k]
    BY <1>2, <1>5, <1>10, FirstFacts
  <2>2. k \in DOMAIN raw /\ Parsable(raw[k]) /\ raw[k].token = token
    BY <1>5
  <2>3. role = IF Expired(raw[k].expiresAt, now) THEN Nobody ELSE NormalizeRole(raw[k].role)
    BY <1>5, <1>10, <2>1 DEF TrustedRole, entries
  <2>4. May(role, o) <=> Entitles(raw[k], c)
    BY <1>8, <2>2, <2>3, NobodyMayNot
  <2>5. May(role, o) => \E e \in Range(raw) : Entitles(e, c)
    BY <2>2, <2>4 DEF Range
  <2>6. ASSUME Distinct(raw), NEW e \in Range(raw), Entitles(e, c) PROVE May(role, o)
    <3>1. PICK i \in DOMAIN raw : e = raw[i]
      BY DEF Range
    <3>2. i \in matches
      BY <1>8, <2>6, <3>1
    <3>3. raw[i].token = token
      BY <1>5, <3>2
    <3>4. i = k
      BY <2>2, <2>6, <3>3 DEF Distinct
    <3> QED
      BY <2>4, <2>6, <3>1, <3>4
  <2> QED
    BY <2>5, <2>6 DEF o
<1> QED
  BY <1>9, <1>10

\* What two sequences joined are made of.
LEMMA JoinFacts ==
  ASSUME NEW S, NEW s \in Seq(S), NEW t \in Seq(S)
  PROVE  /\ s \o t \in Seq(S) /\ DOMAIN (s \o t) \subseteq Nat
         /\ \A i \in DOMAIN (s \o t) : (s \o t)[i] \in Range(s) \union Range(t)
<1> DEFINE j == s \o t
<1>1. /\ j \in Seq(S) /\ Len(j) = Len(s) + Len(t)
      /\ \A i \in 1..Len(j) : j[i] = IF i <= Len(s) THEN s[i] ELSE t[i - Len(s)]
  BY ConcatProperties
<1>2. /\ Len(s) \in Nat /\ Len(t) \in Nat /\ DOMAIN j = 1..Len(j)
      /\ DOMAIN s = 1..Len(s) /\ DOMAIN t = 1..Len(t)
  BY <1>1
<1> HIDE DEF j
<1>3. ASSUME NEW i \in DOMAIN j PROVE j[i] \in Range(s) \union Range(t)
  <2>1. CASE i <= Len(s)
    BY <1>1, <1>2, <2>1 DEF Range
  <2>2. CASE i > Len(s)
    <3>1. j[i] = t[i - Len(s)] /\ i - Len(s) \in 1..Len(t)
      BY <1>1, <1>2, <2>2
    <3> QED
      BY <1>2, <3>1 DEF Range
  <2> QED
    BY <1>1, <1>2, <2>1, <2>2
<1> QED
  BY <1>1, <1>2, <1>3 DEF j

\* The claims that decide a JWT's role are among those it names.
LEMMA ClaimedFacts ==
  ASSUME NEW claims \in Claims, NEW role, role = ClaimedRole(claims)
  PROVE  role \in Roles /\ (role = "readonly" \/ role \in Claimed(claims))
<1> DEFINE front == claims.roles \o <<claims.role>>
           listed == front \o claims.groups
           named == {i \in DOMAIN listed : listed[i] \in Roles}
           Names == Roles \union {Junk}
<1>1. claims.roles \in Seq(Names) /\ claims.groups \in Seq(Names) /\ claims.role \in Names
  BY DEF Claims
<1>2. <<claims.role>> \in Seq(Names) /\ Range(<<claims.role>>) = {claims.role}
  BY <1>1 DEF Range
<1>3. /\ front \in Seq(Names)
      /\ \A i \in DOMAIN front : front[i] \in Claimed(claims)
  <2>1. front \in Seq(Names) /\
        \A i \in DOMAIN front : front[i] \in Range(claims.roles) \union Range(<<claims.role>>)
    BY <1>1, <1>2, JoinFacts
  <2> QED
    BY <1>2, <2>1 DEF Claimed
<1>4. Range(front) \subseteq Claimed(claims)
  BY <1>3 DEF Range
<1> HIDE DEF front
<1>5. DOMAIN listed \subseteq Nat /\ \A i \in DOMAIN listed : listed[i] \in Claimed(claims)
  <2>1. DOMAIN listed \subseteq Nat /\
        \A i \in DOMAIN listed : listed[i] \in Range(front) \union Range(claims.groups)
    BY <1>1, <1>3, JoinFacts
  <2>2. Range(claims.groups) \subseteq Claimed(claims)
    BY DEF Claimed
  <2> QED
    BY <1>4, <2>1, <2>2
<1>6. role = IF named = {} THEN "readonly" ELSE FirstOf(listed, named)
  BY DEF ClaimedRole, front
<1>7. named \subseteq Nat
  BY <1>5
<1> HIDE DEF listed
<1>8. CASE named = {}
  BY <1>6, <1>8 DEF Roles
<1>9. CASE named # {}
  <2>1. PICK i \in named : FirstOf(listed, named) = listed[i]
    BY <1>7, <1>9, FirstFacts
  <2> QED
    BY <1>5, <1>6, <1>9, <2>1
<1> QED
  BY <1>8, <1>9

\* Whoever the guard takes the caller for, it decides as configured.
LEMMA GuardFacts ==
  ASSUME Requests, setting \in Settings, now \in Nat, NEW c \in Calls,
         NEW role, role = Caller(c) \/ (role = Nobody /\ ResolveMode(setting) = "jwt")
  PROVE  Decided(c, May(role, Operation(c)))
<1> DEFINE o == Operation(c)
           mode == ResolveMode(setting)
           credential == req[c].credential
<1>1. o \in Operations
  BY OperationType
<1>2. credential \in Credentials
  BY RequestFacts
<1>3. mode \in {"trusted-bearer", "jwt", "vault", "dev-header"}
  BY DEF ResolveMode
<1>4. CASE mode = "trusted-bearer"
  <2>1. role = TrustedRole(setting.tokens, credential.token, now)
    BY <1>4 DEF Caller, CallerRole
  <2>2. LET entitled == \E e \in Range(setting.tokens) : Entitles(e, c)
            served == May(role, Operation(c))
        IN  (served => entitled) /\ (Distinct(setting.tokens) => (entitled => served))
    BY <2>1, TrustedFacts
  <2> QED
    BY <1>4, <2>2 DEF Decided
<1>5. CASE mode = "jwt"
  <2>1. ASSUME May(role, o)
        PROVE  /\ credential.claims.verified
               /\ o = "jobs" \/ \E r \in Claimed(credential.claims) : Grants(r, o)
    <3>1. role # Nobody
      BY <2>1, NobodyMayNot
    <3>2. role = JwtRole(setting, credential)
      BY <1>5, <3>1 DEF Caller, CallerRole
    <3>3. credential.claims.verified /\ role = ClaimedRole(credential.claims)
      BY <3>1, <3>2 DEF JwtRole
    <3>4. credential.claims \in Claims
      BY <1>2 DEF Credentials
    <3>5. role \in Roles /\ (role = "readonly" \/ role \in Claimed(credential.claims))
      BY <3>3, <3>4, ClaimedFacts
    <3>6. Grants(role, o)
      BY <1>1, <2>1, <3>5, MayGrants
    <3>7. CASE role = "readonly"
      BY <3>3, <3>6, <3>7 DEF Grants
    <3>8. CASE role \in Claimed(credential.claims)
      BY <3>3, <3>6, <3>8
    <3> QED
      BY <3>5, <3>7, <3>8
  <2> QED
    BY <1>5, <2>1 DEF Decided
<1>6. CASE mode \in {"vault", "dev-header"}
  <2>1. role = NormalizeRole(credential.header)
    BY <1>6 DEF Caller, CallerRole
  <2>2. May(role, o) <=> Grants(role, o)
    BY <1>1, <2>1, NormalizeType, MayGrants
  <2>3. May(role, o) \in BOOLEAN /\ Grants(role, o) \in BOOLEAN
    BY DEF May, Grants, HasMinimumRole
  <2> HIDE DEF o
  <2>4. May(role, o) = Grants(role, o)
    BY <2>2, <2>3
  <2> QED
    BY <1>6, <2>1, <2>4 DEF Decided, o
<1> QED
  BY <1>3, <1>4, <1>5, <1>6

----------------------------------------------------------------------------
(* The invariant.                                                          *)

Made == {i \in Ids : job[i] # None}
Deployed == {c \in Calls : deployment[c] # None}

StoreTyped ==
  /\ deployment \in [Calls -> DeploymentRecords \union {None}]
  /\ job \in [Ids -> JobRecords \union {None}]
  /\ tenant \in [Calls -> TenantRecords \union {None}]
  /\ jobs \in Seq(Made)
  /\ deployed \in Seq(Deployed)

\* The parts of what a call holds.
Parts == {"role", "command", "page", "items", "pages", "seen", "base", "day", "expiries", "report"}

CallsTyped ==
  /\ setting \in Settings /\ serving \in BOOLEAN /\ now \in 0..Horizon
  /\ req \in Workloads
  /\ pc \in [Calls -> Awaits]
  /\ result \in [Calls -> {"none", "ok", "denied", "invalid", "failed"}]
  /\ DOMAIN events = Calls /\ DOMAIN lost = Calls /\ DOMAIN work = Calls
  /\ \A c \in Calls : DOMAIN work[c] = Parts
  /\ faults \in 0..MaxFaults /\ crashes \in 0..MaxCrashes

Typed == StoreTyped /\ CallsTyped

\* Call c has told the audit log e, whether or not it could store it.
Says(c, e) == e \in events[c] \/ e \in lost[c]

\* An event is lost only by a fault.
Heard(c) == lost[c] # {} => faults > 0

Running == {"track", "start", "exec", "update", "settle", "outcome"}

\* A handler is only where its requests get to.
Staged(c) ==
  /\ pc[c] \in {"plan", "deployment"} \union Running => Kind(c) = "deploy" /\ WellFormed(Body(c))
  /\ pc[c] = "create" => Kind(c) \in {"job", "submit", "run"} /\ ValidJob(Body(c))
  /\ pc[c] = "reload" => Kind(c) \in {"submit", "run"}
  /\ pc[c] \in {"list", "listed"} => Kind(c) \in PageLoads \union {"scan"}
  /\ pc[c] = "answer" => Kind(c) \in PageLoads
  /\ pc[c] = "requested" => Kind(c) = "tenant"
  /\ pc[c] \in {"override", "tenant"} => Kind(c) = "tenant" /\ FieldsOk(Body(c))
  /\ pc[c] = "report" => /\ Kind(c) \in Reports
                         /\ Kind(c) = "simulate" => ValidSimulation(Body(c))
  /\ pc[c] \in {"success", "failure"} => Kind(c) \in {"tenant", "rotate", "simulate"}
  /\ result[c] # "none" => pc[c] = "over"

\* How far the records of a deployment are.
Recorded(c) ==
  /\ deployment[c] # None => Kind(c) = "deploy" /\ pc[c] \in Running \union {"over", "gone"}
  /\ pc[c] \in Running => deployment[c] # None
  /\ pc[c] \in Running \ {"track"} => job[c] # None
  /\ pc[c] \in {"update", "settle", "outcome"} => work[c].command \in {"ok", "skipped", "failed"}
  /\ pc[c] \in {"settle", "outcome"} => job[c].status = JobOutcome(c)
  /\ pc[c] = "outcome" => deployment[c].status = DeploymentOutcome(c)
  /\ Kind(c) = "deploy" /\ (Says(c, "success") \/ Says(c, "failure")) => pc[c] = "over"

\* What is told of a deployment.
Told(c) ==
  Kind(c) = "deploy" /\ deployment[c] # None =>
    /\ Says(c, "success") => Succeeded(c)
    /\ Says(c, "failure") => ~Succeeded(c)
    /\ result[c] = "ok" => Says(c, "success") \/ Says(c, "failure")
    /\ Says(c, "success") \/ Says(c, "failure") =>
         IF Succeeded(c) THEN job[c].status = "Success" /\ deployment[c].status = "Healthy"
         ELSE job[c].status = "Failed" /\ deployment[c].status = "Failed"

\* How far the record of a tenant is.
Enrolled(c) ==
  /\ tenant[c] # None =>
       Kind(c) = "tenant" /\ job[c] # None /\ pc[c] \in {"success", "failure", "over", "gone"}
  /\ Kind(c) = "tenant" /\ (pc[c] = "success" \/ Says(c, "success")) => tenant[c] # None
  /\ tenant[c] # None /\ (pc[c] = "failure" \/ Says(c, "failure")) => faults > 0
  /\ Kind(c) = "tenant" =>
       /\ Says(c, "success") \/ Says(c, "failure") => pc[c] = "over"
       /\ ~(Says(c, "success") /\ Says(c, "failure"))
       /\ result[c] = "ok" => Says(c, "success")
       /\ result[c] = "failed" => Says(c, "failure")

\* Whose address it has.
Addressed(c) ==
  /\ pc[c] = "override" => Overrides(Body(c), work[c].role)
  /\ pc[c] = "tenant" =>
       \/ Violations(Body(c)) = {}
       \/ Overrides(Body(c), work[c].role) /\ Says(c, "override")
  /\ tenant[c] # None =>
       \/ tenant[c].ip = PlanIp(tenant[c].vlan)
       \/ work[c].role = "admin" /\ Says(c, "override")

\* A report counts the expiries it is about, on its day.
Counts(w) ==
  /\ IsFiniteSet(DOMAIN w.expiries)
  /\ \A i \in DOMAIN w.expiries : w.expiries[i] \in {Never} \union Nat
  /\ w.day \in Nat
  /\ \E days \in Nat : w.report = Counted(w.expiries, days, w.day)

Reported(c) ==
  Kind(c) \in Reports /\ (pc[c] = "success" \/ result[c] = "ok") => Counts(work[c])

Local(c) ==
  Staged(c) /\ Heard(c) /\ Recorded(c) /\ Told(c) /\ Enrolled(c) /\ Addressed(c) /\ Reported(c)

Inv == Typed /\ \A c \in Calls : Local(c)

----------------------------------------------------------------------------
(* What a step of one call leaves of the others.                           *)

Same(d) ==
  /\ pc'[d] = pc[d] /\ work'[d] = work[d] /\ result'[d] = result[d]
  /\ events'[d] = events[d] /\ lost'[d] = lost[d]
  /\ deployment'[d] = deployment[d] /\ tenant'[d] = tenant[d] /\ job'[d] = job[d]

Frame(c) ==
  /\ req' = req
  /\ faults \in Nat /\ faults' \in Nat /\ faults <= faults'
  /\ \A d \in Calls : d # c => Same(d)

LEMMA Untouched ==
  ASSUME NEW d, Local(d), Same(d), req' = req,
         faults \in Nat, faults' \in Nat, faults <= faults'
  PROVE  Local(d)'
<1> USE DEF Same, Kind, Body, Says
<1>0. Heard(d)'
  BY DEF Local, Heard
<1>1. Staged(d)'
  BY DEF Local, Staged
<1>2. Recorded(d)'
  BY DEF Local, Recorded, JobOutcome, DeploymentOutcome, Succeeded
<1>3. Told(d)'
  BY DEF Local, Told, Succeeded
<1>4. Enrolled(d)'
  BY DEF Local, Enrolled
<1>5. Addressed(d)'
  BY DEF Local, Addressed
<1>6. Reported(d)'
  BY DEF Local, Reported
<1> QED
  BY <1>0, <1>1, <1>2, <1>3, <1>4, <1>5, <1>6 DEF Local

LEMMA FrameKeeps ==
  ASSUME \A d \in Calls : Local(d), NEW c \in Calls, Frame(c), Local(c)'
  PROVE  (\A d \in Calls : Local(d))'
<1>1. ASSUME NEW d \in Calls, d # c PROVE Local(d)'
  BY <1>1, Untouched DEF Frame
<1> QED
  BY <1>1

LEMMA StoreStays ==
  ASSUME StoreTyped, UNCHANGED <<deployment, deployed, job, jobs, tenant>>
  PROVE  StoreTyped'
BY DEF StoreTyped, Made, Deployed

Results == {"none", "ok", "denied", "invalid", "failed"}

\* A step that at most moves a call, logs an event of it and gives its answer.
LEMMA Speaks ==
  ASSUME Inv, NEW c \in Calls, NEW p \in Awaits, NEW r \in Results,
         pc' = [pc EXCEPT ![c] = p],
         (result' = result /\ r = result[c]) \/ result' = [result EXCEPT ![c] = r],
         events' = events \/ \E e : events' = [events EXCEPT ![c] = @ \union {e}],
         lost' = lost \/ \E e : lost' = [lost EXCEPT ![c] = @ \union {e}],
         faults' = faults \/ Fault,
         UNCHANGED <<world, store, req, work, crashes>>
  PROVE  /\ Typed' /\ Frame(c)
         /\ pc'[c] = p /\ result'[c] = r /\ work'[c] = work[c]
         /\ deployment'[c] = deployment[c] /\ tenant'[c] = tenant[c] /\ job'[c] = job[c]
<1>1. /\ StoreTyped /\ CallsTyped
  BY DEF Inv, Typed
<1>2. StoreTyped'
  BY <1>1, StoreStays DEF store
<1>3. /\ pc' \in [Calls -> Awaits] /\ result' \in [Calls -> Results]
      /\ pc'[c] = p /\ result'[c] = r
      /\ \A d \in Calls : d # c => pc'[d] = pc[d] /\ result'[d] = result[d]
  BY <1>1 DEF CallsTyped, Results
<1>4. /\ DOMAIN events' = Calls /\ DOMAIN lost' = Calls
      /\ \A d \in Calls : d # c => events'[d] = events[d] /\ lost'[d] = lost[d]
  BY <1>1 DEF CallsTyped
<1>5. faults \in Nat /\ faults' \in 0..MaxFaults /\ faults <= faults'
  BY <1>1, BoundsAssumption DEF CallsTyped, Fault
<1>6. CallsTyped'
  BY <1>1, <1>3, <1>4, <1>5 DEF CallsTyped, Results, world
<1>7. Frame(c)
  BY <1>3, <1>4, <1>5 DEF Frame, Same, store
<1> QED
  BY <1>2, <1>3, <1>6, <1>7 DEF Typed, store

\* What a logging step changes of the log.
LEMMA Logs ==
  ASSUME Inv, NEW c \in Calls, NEW e, Log(c, e)
  PROVE  /\ events' = events \/ \E x : events' = [events EXCEPT ![c] = @ \union {x}]
         /\ lost' = lost \/ \E x : lost' = [lost EXCEPT ![c] = @ \union {x}]
         /\ faults' = faults \/ Fault
         /\ faults \in Nat /\ faults' \in Nat /\ faults <= faults'
         /\ \A x : Says(c, x)' <=> Says(c, x) \/ x = e
         /\ Heard(c)'
<1>1. CallsTyped /\ Heard(c) /\ faults \in Nat
  BY BoundsAssumption DEF Inv, Typed, CallsTyped, Local
<1>2. CASE /\ events' = [events EXCEPT ![c] = @ \union {e}]
           /\ lost' = lost /\ faults' = faults
  <2>1. events'[c] = events[c] \union {e} /\ lost'[c] = lost[c]
    BY <1>1, <1>2 DEF CallsTyped
  <2>2. Heard(c)' /\ \A x : Says(c, x)' <=> Says(c, x) \/ x = e
    BY <1>1, <1>2, <2>1 DEF Says, Heard
  <2>3. \E x : events' = [events EXCEPT ![c] = @ \union {x}]
    BY <1>2
  <2>4. faults' \in Nat /\ faults <= faults'
    BY <1>1, <1>2
  <2> QED
    BY <1>1, <1>2, <2>2, <2>3, <2>4
<1>3. CASE /\ Fault
           /\ lost' = [lost EXCEPT ![c] = @ \union {e}]
           /\ events' = events
  <2>1. faults' \in Nat /\ faults' > 0 /\ faults <= faults'
    BY <1>1, <1>3 DEF Fault
  <2> QED
    BY <1>1, <1>3, <2>1 DEF CallsTyped, Says, Heard
<1> QED
  BY <1>2, <1>3 DEF Log

LEMMA FirstStage ==
  ASSUME Requests, NEW c \in Calls, pc[c] = "reload" => Kind(c) \in {"submit", "run"},
         NEW l, l = First(c)
  PROVE  /\ l \in {"reject", "plan", "deployment", "create", "invalid", "requested", "report", "list"}
         /\ l \in {"plan", "deployment"} => Kind(c) = "deploy" /\ WellFormed(Body(c))
         /\ l = "deployment" => ~Body(c).dry
         /\ l = "create" => Kind(c) \in {"job", "submit", "run"} /\ ValidJob(Body(c))
         /\ l = "list" => Kind(c) \in PageLoads \union {"scan"}
         /\ l = "requested" => Kind(c) = "tenant"
         /\ l = "report" => /\ Kind(c) \in Reports
                            /\ Kind(c) = "simulate" => ValidSimulation(Body(c))
<1>1. Kind(c) \in Kinds
  BY RequestFacts
<1>2. Kind(c) = "run" => ValidJob(Body(c))
  BY RequestFacts, NoTenantAssumption DEF ProvisionBodies, ValidJob, JobStatus
<1>3. CASE pc[c] = "reload"
  BY <1>3 DEF First, Operation, PageLoads
<1>4. CASE pc[c] # "reload" /\ Kind(c) \in {"scan", "open"}
  BY <1>4 DEF First, Operation, PageLoads
<1>5. CASE pc[c] # "reload" /\ Kind(c) = "submit"
  BY <1>5 DEF First, Operation
<1>6. CASE pc[c] # "reload" /\ Kind(c) = "run"
  BY <1>2, <1>6 DEF First, Operation
<1>7. CASE pc[c] # "reload" /\ Kind(c) \notin {"scan", "open", "submit", "run"}
  <2>1. Operation(c) = Kind(c)
    BY <1>7 DEF Operation
  <2>2. Kind(c) \in {"deploy", "job", "tenant", "health", "rotate", "simulate"}
    BY <1>1, <1>7 DEF Kinds, PageLoads
  <2>3. CASE Kind(c) = "deploy"
    BY <2>1, <2>3 DEF First
  <2>4. CASE Kind(c) = "job"
    BY <2>1, <2>4 DEF First
  <2>5. CASE Kind(c) = "tenant"
    BY <2>1, <2>5 DEF First
  <2>6. CASE Kind(c) \in {"health", "rotate"}
    BY <2>1, <2>6 DEF First, Reports
  <2>7. CASE Kind(c) = "simulate"
    BY <2>1, <2>7 DEF First, Reports
  <2> QED
    BY <2>2, <2>3, <2>4, <2>5, <2>6, <2>7
<1> QED
  BY <1>3, <1>4, <1>5, <1>6, <1>7

\* The parts of the invariant at c, for a step that gives these values to c.
LEMMA SpeakSteps ==
  ASSUME Inv, NEW c \in Calls,
         \/ Deny(c) \/ Invalid(c) \/ Reject(c) \/ Plan(c) \/ AuditStart(c) \/ AuditOutcome(c)
         \/ RequestTenant(c) \/ AuditOverride(c) \/ RefuseTenant(c)
         \/ AuditSuccess(c) \/ AuditFailure(c)
  PROVE  Typed' /\ Frame(c) /\ Local(c)'
<1> USE DEF Goto, Conclude
<1>1. Local(c) /\ result[c] \in Results /\ faults \in Nat
  BY BoundsAssumption DEF Inv, Typed, CallsTyped, Results
<1>2. CASE Deny(c)
  <2>1. /\ pc' = [pc EXCEPT ![c] = "over"]
        /\ result' = [result EXCEPT ![c] = "denied"]
        /\ Log(c, "denied")
        /\ UNCHANGED <<world, store, req, work, crashes>>
    BY <1>2 DEF Deny
  <2>3. /\ events' = events \/ \E x : events' = [events EXCEPT ![c] = @ \union {x}]
        /\ lost' = lost \/ \E x : lost' = [lost EXCEPT ![c] = @ \union {x}]
        /\ faults' = faults \/ Fault
        /\ faults' \in Nat /\ faults <= faults'
        /\ \A x : Says(c, x)' <=> Says(c, x) \/ x = "denied"
        /\ Heard(c)'
    BY <2>1, Logs
  <2>6. /\ Typed' /\ Frame(c) /\ req' = req
        /\ pc'[c] = "over" /\ result'[c] = "denied" /\ work'[c] = work[c]
        /\ deployment'[c] = deployment[c] /\ tenant'[c] = tenant[c] /\ job'[c] = job[c]
    BY <1>1, <2>1, <2>3, Speaks DEF Awaits, Results
  <2>7. Local(c)'
    BY <1>1, <1>2, <2>3, <2>6 DEF Deny, Local, Staged, Recorded, Told, Enrolled, Addressed,
       Reported, Kind, Body, Succeeded, JobOutcome, DeploymentOutcome, Running, Reports
  <2> QED
    BY <2>6, <2>7
<1>3. CASE Invalid(c)
  <2>1. /\ pc' = [pc EXCEPT ![c] = "over"]
        /\ result' = [result EXCEPT ![c] = "invalid"]
        /\ UNCHANGED <<world, store, trail, req, work, faults, crashes>>
    BY <1>3 DEF Invalid, bounds
  <2>3. /\ events' = events /\ lost' = lost /\ faults' = faults
        /\ \A x : Says(c, x)' <=> Says(c, x)
        /\ Heard(c)'
    BY <1>1, <2>1 DEF trail, Says, Heard, Local
  <2>6. /\ Typed' /\ Frame(c) /\ req' = req
        /\ pc'[c] = "over" /\ result'[c] = "invalid" /\ work'[c] = work[c]
        /\ deployment'[c] = deployment[c] /\ tenant'[c] = tenant[c] /\ job'[c] = job[c]
    BY <1>1, <2>1, <2>3, Speaks DEF Awaits, Results
  <2>7. Local(c)'
    BY <1>1, <1>3, <2>3, <2>6 DEF Invalid, Local, Staged, Recorded, Told, Enrolled, Addressed,
       Reported, Kind, Body, Succeeded, JobOutcome, DeploymentOutcome, Running, Reports
  <2> QED
    BY <2>6, <2>7
<1>4. CASE Reject(c)
  <2>1. /\ pc' = [pc EXCEPT ![c] = "over"]
        /\ result' = [result EXCEPT ![c] = "invalid"]
        /\ Log(c, "rejected")
        /\ UNCHANGED <<world, store, req, work, crashes>>
    BY <1>4 DEF Reject
  <2>3. /\ events' = events \/ \E x : events' = [events EXCEPT ![c] = @ \union {x}]
        /\ lost' = lost \/ \E x : lost' = [lost EXCEPT ![c] = @ \union {x}]
        /\ faults' = faults \/ Fault
        /\ faults' \in Nat /\ faults <= faults'
        /\ \A x : Says(c, x)' <=> Says(c, x) \/ x = "rejected"
        /\ Heard(c)'
    BY <2>1, Logs
  <2>6. /\ Typed' /\ Frame(c) /\ req' = req
        /\ pc'[c] = "over" /\ result'[c] = "invalid" /\ work'[c] = work[c]
        /\ deployment'[c] = deployment[c] /\ tenant'[c] = tenant[c] /\ job'[c] = job[c]
    BY <1>1, <2>1, <2>3, Speaks DEF Awaits, Results
  <2>7. Local(c)'
    BY <1>1, <1>4, <2>3, <2>6 DEF Reject, Local, Staged, Recorded, Told, Enrolled, Addressed,
       Reported, Kind, Body, Succeeded, JobOutcome, DeploymentOutcome, Running, Reports
  <2> QED
    BY <2>6, <2>7
<1>5. CASE Plan(c)
  <2>1. /\ pc' = [pc EXCEPT ![c] = "over"]
        /\ result' = [result EXCEPT ![c] = "ok"]
        /\ Log(c, "planned")
        /\ UNCHANGED <<world, store, req, work, crashes>>
    BY <1>5 DEF Plan
  <2>3. /\ events' = events \/ \E x : events' = [events EXCEPT ![c] = @ \union {x}]
        /\ lost' = lost \/ \E x : lost' = [lost EXCEPT ![c] = @ \union {x}]
        /\ faults' = faults \/ Fault
        /\ faults' \in Nat /\ faults <= faults'
        /\ \A x : Says(c, x)' <=> Says(c, x) \/ x = "planned"
        /\ Heard(c)'
    BY <2>1, Logs
  <2>6. /\ Typed' /\ Frame(c) /\ req' = req
        /\ pc'[c] = "over" /\ result'[c] = "ok" /\ work'[c] = work[c]
        /\ deployment'[c] = deployment[c] /\ tenant'[c] = tenant[c] /\ job'[c] = job[c]
    BY <1>1, <2>1, <2>3, Speaks DEF Awaits, Results
  <2>7. Local(c)'
    BY <1>1, <1>5, <2>3, <2>6 DEF Plan, Local, Staged, Recorded, Told, Enrolled, Addressed,
       Reported, Kind, Body, Succeeded, JobOutcome, DeploymentOutcome, Running, Reports
  <2> QED
    BY <2>6, <2>7
<1>6. CASE AuditStart(c)
  <2>1. /\ pc' = [pc EXCEPT ![c] = "exec"]
        /\ result' = result
        /\ Log(c, "start")
        /\ UNCHANGED <<world, store, req, work, crashes>>
    BY <1>6 DEF AuditStart
  <2>3. /\ events' = events \/ \E x : events' = [events EXCEPT ![c] = @ \union {x}]
        /\ lost' = lost \/ \E x : lost' = [lost EXCEPT ![c] = @ \union {x}]
        /\ faults' = faults \/ Fault
        /\ faults' \in Nat /\ faults <= faults'
        /\ \A x : Says(c, x)' <=> Says(c, x) \/ x = "start"
        /\ Heard(c)'
    BY <2>1, Logs
  <2>6. /\ Typed' /\ Frame(c) /\ req' = req
        /\ pc'[c] = "exec" /\ result'[c] = result[c] /\ work'[c] = work[c]
        /\ deployment'[c] = deployment[c] /\ tenant'[c] = tenant[c] /\ job'[c] = job[c]
    BY <1>1, <2>1, <2>3, Speaks DEF Awaits, Results
  <2>7. Local(c)'
    BY <1>1, <1>6, <2>3, <2>6 DEF AuditStart, Local, Staged, Recorded, Told, Enrolled, Addressed,
       Reported, Kind, Body, Succeeded, JobOutcome, DeploymentOutcome, Running, Reports
  <2> QED
    BY <2>6, <2>7
<1>7. CASE AuditOutcome(c)
  <2>1. /\ pc' = [pc EXCEPT ![c] = "over"]
        /\ result' = [result EXCEPT ![c] = "ok"]
        /\ Log(c, IF Succeeded(c) THEN "success" ELSE "failure")
        /\ UNCHANGED <<world, store, req, work, crashes>>
    BY <1>7 DEF AuditOutcome
  <2>2. PICK e \in {"success", "failure"} : Log(c, e) /\ (e = "success" <=> Succeeded(c))
    BY <2>1
  <2>3. /\ events' = events \/ \E x : events' = [events EXCEPT ![c] = @ \union {x}]
        /\ lost' = lost \/ \E x : lost' = [lost EXCEPT ![c] = @ \union {x}]
        /\ faults' = faults \/ Fault
        /\ faults' \in Nat /\ faults <= faults'
        /\ \A x : Says(c, x)' <=> Says(c, x) \/ x = e
        /\ Heard(c)'
    BY <2>2, Logs
  <2>6. /\ Typed' /\ Frame(c) /\ req' = req
        /\ pc'[c] = "over" /\ result'[c] = "ok" /\ work'[c] = work[c]
        /\ deployment'[c] = deployment[c] /\ tenant'[c] = tenant[c] /\ job'[c] = job[c]
    BY <1>1, <2>1, <2>3, Speaks DEF Awaits, Results
  <2>7. Local(c)'
    BY <1>1, <1>7, <2>2, <2>3, <2>6 DEF AuditOutcome, Local, Staged, Recorded, Told, Enrolled, Addressed,
       Reported, Kind, Body, Succeeded, JobOutcome, DeploymentOutcome, Running, Reports
  <2> QED
    BY <2>6, <2>7
<1>8. CASE RequestTenant(c)
  <2>1. /\ pc' = [pc EXCEPT ![c] = AfterRequest(c)]
        /\ result' = result
        /\ Log(c, "requested")
        /\ UNCHANGED <<world, store, req, work, crashes>>
    BY <1>8 DEF RequestTenant
  <2>3. /\ events' = events \/ \E x : events' = [events EXCEPT ![c] = @ \union {x}]
        /\ lost' = lost \/ \E x : lost' = [lost EXCEPT ![c] = @ \union {x}]
        /\ faults' = faults \/ Fault
        /\ faults' \in Nat /\ faults <= faults'
        /\ \A x : Says(c, x)' <=> Says(c, x) \/ x = "requested"
        /\ Heard(c)'
    BY <2>1, Logs
  <2> DEFINE p == AfterRequest(c)
  <2>4. /\ p \in {"invalid", "tenant", "override", "reject"} /\ p \in Awaits
        /\ p \in {"tenant", "override"} => FieldsOk(Body(c))
        /\ p = "override" => Overrides(Body(c), work[c].role)
        /\ p = "tenant" => Violations(Body(c)) = {}
    BY DEF AfterRequest, Awaits
  <2>5. pc' = [pc EXCEPT ![c] = p]
    BY <2>1
  <2> HIDE DEF p
  <2>6. /\ Typed' /\ Frame(c) /\ req' = req
        /\ pc'[c] = p /\ result'[c] = result[c] /\ work'[c] = work[c]
        /\ deployment'[c] = deployment[c] /\ tenant'[c] = tenant[c] /\ job'[c] = job[c]
    BY <1>1, <2>1, <2>3, <2>4, <2>5, Speaks DEF Awaits, Results
  <2>7. Local(c)'
    BY <1>1, <1>8, <2>3, <2>4, <2>6 DEF RequestTenant, Local, Staged, Recorded, Told, Enrolled, Addressed,
       Reported, Kind, Body, Succeeded, JobOutcome, DeploymentOutcome, Running, Reports
  <2> QED
    BY <2>6, <2>7
<1>9. CASE AuditOverride(c)
  <2>1. /\ pc' = [pc EXCEPT ![c] = "tenant"]
        /\ result' = result
        /\ Log(c, "override")
        /\ UNCHANGED <<world, store, req, work, crashes>>
    BY <1>9 DEF AuditOverride
  <2>3. /\ events' = events \/ \E x : events' = [events EXCEPT ![c] = @ \union {x}]
        /\ lost' = lost \/ \E x : lost' = [lost EXCEPT ![c] = @ \union {x}]
        /\ faults' = faults \/ Fault
        /\ faults' \in Nat /\ faults <= faults'
        /\ \A x : Says(c, x)' <=> Says(c, x) \/ x = "override"
        /\ Heard(c)'
    BY <2>1, Logs
  <2>6. /\ Typed' /\ Frame(c) /\ req' = req
        /\ pc'[c] = "tenant" /\ result'[c] = result[c] /\ work'[c] = work[c]
        /\ deployment'[c] = deployment[c] /\ tenant'[c] = tenant[c] /\ job'[c] = job[c]
    BY <1>1, <2>1, <2>3, Speaks DEF Awaits, Results
  <2>7. Local(c)'
    BY <1>1, <1>9, <2>3, <2>6 DEF AuditOverride, Local, Staged, Recorded, Told, Enrolled, Addressed,
       Reported, Kind, Body, Succeeded, JobOutcome, DeploymentOutcome, Running, Reports
  <2> QED
    BY <2>6, <2>7
<1>10. CASE RefuseTenant(c)
  <2>1. /\ pc' = [pc EXCEPT ![c] = "failure"]
        /\ result' = result
        /\ UNCHANGED <<world, store, trail, req, work, faults, crashes>>
    BY <1>10 DEF RefuseTenant, bounds
  <2>3. /\ events' = events /\ lost' = lost /\ faults' = faults
        /\ \A x : Says(c, x)' <=> Says(c, x)
        /\ Heard(c)'
    BY <1>1, <2>1 DEF trail, Says, Heard, Local
  <2>6. /\ Typed' /\ Frame(c) /\ req' = req
        /\ pc'[c] = "failure" /\ result'[c] = result[c] /\ work'[c] = work[c]
        /\ deployment'[c] = deployment[c] /\ tenant'[c] = tenant[c] /\ job'[c] = job[c]
    BY <1>1, <2>1, <2>3, Speaks DEF Awaits, Results
  <2>7. Local(c)'
    BY <1>1, <1>10, <2>3, <2>6 DEF RefuseTenant, Local, Staged, Recorded, Told, Enrolled, Addressed,
       Reported, Kind, Body, Succeeded, JobOutcome, DeploymentOutcome, Running, Reports
  <2> QED
    BY <2>6, <2>7
<1>11. CASE AuditSuccess(c)
  <2>1. /\ pc' = [pc EXCEPT ![c] = "over"]
        /\ result' = [result EXCEPT ![c] = "ok"]
        /\ Log(c, "success")
        /\ UNCHANGED <<world, store, req, work, crashes>>
    BY <1>11 DEF AuditSuccess
  <2>3. /\ events' = events \/ \E x : events' = [events EXCEPT ![c] = @ \union {x}]
        /\ lost' = lost \/ \E x : lost' = [lost EXCEPT ![c] = @ \union {x}]
        /\ faults' = faults \/ Fault
        /\ faults' \in Nat /\ faults <= faults'
        /\ \A x : Says(c, x)' <=> Says(c, x) \/ x = "success"
        /\ Heard(c)'
    BY <2>1, Logs
  <2>6. /\ Typed' /\ Frame(c) /\ req' = req
        /\ pc'[c] = "over" /\ result'[c] = "ok" /\ work'[c] = work[c]
        /\ deployment'[c] = deployment[c] /\ tenant'[c] = tenant[c] /\ job'[c] = job[c]
    BY <1>1, <2>1, <2>3, Speaks DEF Awaits, Results
  <2>7. Local(c)'
    BY <1>1, <1>11, <2>3, <2>6 DEF AuditSuccess, Local, Staged, Recorded, Told, Enrolled, Addressed,
       Reported, Kind, Body, Succeeded, JobOutcome, DeploymentOutcome, Running, Reports
  <2> QED
    BY <2>6, <2>7
<1>12. CASE AuditFailure(c)
  <2>1. /\ pc' = [pc EXCEPT ![c] = "over"]
        /\ result' = [result EXCEPT ![c] = "failed"]
        /\ Log(c, "failure")
        /\ UNCHANGED <<world, store, req, work, crashes>>
    BY <1>12 DEF AuditFailure
  <2>3. /\ events' = events \/ \E x : events' = [events EXCEPT ![c] = @ \union {x}]
        /\ lost' = lost \/ \E x : lost' = [lost EXCEPT ![c] = @ \union {x}]
        /\ faults' = faults \/ Fault
        /\ faults' \in Nat /\ faults <= faults'
        /\ \A x : Says(c, x)' <=> Says(c, x) \/ x = "failure"
        /\ Heard(c)'
    BY <2>1, Logs
  <2>6. /\ Typed' /\ Frame(c) /\ req' = req
        /\ pc'[c] = "over" /\ result'[c] = "failed" /\ work'[c] = work[c]
        /\ deployment'[c] = deployment[c] /\ tenant'[c] = tenant[c] /\ job'[c] = job[c]
    BY <1>1, <2>1, <2>3, Speaks DEF Awaits, Results
  <2>7. Local(c)'
    BY <1>1, <1>12, <2>3, <2>6 DEF AuditFailure, Local, Staged, Recorded, Told, Enrolled, Addressed,
       Reported, Kind, Body, Succeeded, JobOutcome, DeploymentOutcome, Running, Reports
  <2> QED
    BY <2>6, <2>7
<1> QED
  BY <1>2, <1>3, <1>4, <1>5, <1>6, <1>7, <1>8, <1>9, <1>10, <1>11, <1>12

\* An access that throws ends the request or leads into the catch of POST /api/tenants.
LEMMA Breaks ==
  ASSUME Inv, NEW c \in Calls, Fault, Break(c)
  PROVE  /\ pc' \in [Calls -> Awaits] /\ result' \in [Calls -> Results]
         /\ \A d \in Calls : d # c => pc'[d] = pc[d] /\ result'[d] = result[d]
         /\ faults \in Nat /\ faults' \in Nat /\ faults <= faults' /\ faults' > 0
         /\ \/ pc[c] # "tenant" /\ pc'[c] = "over" /\ result'[c] = "failed"
            \/ pc[c] = "tenant" /\ pc'[c] = "failure" /\ result'[c] = result[c]
<1>1. CallsTyped /\ faults \in Nat
  BY BoundsAssumption DEF Inv, Typed, CallsTyped
<1>2. faults' \in Nat /\ faults <= faults' /\ faults' > 0
  BY <1>1 DEF Fault
<1>3. CASE Caught(c)
  BY <1>1, <1>2, <1>3 DEF Break, Caught, Goto, CallsTyped, Awaits, Results
<1>4. CASE ~Caught(c)
  BY <1>1, <1>2, <1>4 DEF Break, Caught, Goto, Conclude, CallsTyped, Awaits, Results
<1> QED
  BY <1>3, <1>4

\* So does one that throws after it has made its change.
LEMMA Proceeds ==
  ASSUME Inv, NEW c \in Calls, NEW l \in Awaits, Proceed(c, l)
  PROVE  /\ pc' \in [Calls -> Awaits] /\ result' \in [Calls -> Results]
         /\ \A d \in Calls : d # c => pc'[d] = pc[d] /\ result'[d] = result[d]
         /\ faults' = faults \/ Fault
         /\ faults \in Nat /\ faults' \in Nat /\ faults <= faults'
         /\ \/ pc'[c] = l /\ result'[c] = result[c] /\ faults' = faults
            \/ pc[c] # "tenant" /\ pc'[c] = "over" /\ result'[c] = "failed" /\ faults' > 0
            \/ pc[c] = "tenant" /\ pc'[c] = "failure" /\ result'[c] = result[c] /\ faults' > 0
<1>1. CallsTyped /\ faults \in Nat
  BY BoundsAssumption DEF Inv, Typed, CallsTyped
<1>2. CASE Goto(c, l) /\ result' = result /\ faults' = faults
  BY <1>1, <1>2 DEF Goto, CallsTyped, Results
<1>3. CASE Fault /\ Break(c)
  BY <1>3, Breaks
<1> QED
  BY <1>2, <1>3 DEF Proceed

\* A step that changes what c holds, where it is and what it answers.
LEMMA Holds ==
  ASSUME Inv, NEW c \in Calls,
         DOMAIN work' = Calls, DOMAIN work'[c] = Parts,
         \A d \in Calls : d # c => work'[d] = work[d] /\ pc'[d] = pc[d] /\ result'[d] = result[d],
         pc' \in [Calls -> Awaits], result' \in [Calls -> Results],
         faults' = faults \/ Fault,
         UNCHANGED <<world, store, trail, req, crashes>>
  PROVE  /\ Typed' /\ Frame(c)
         /\ deployment'[c] = deployment[c] /\ tenant'[c] = tenant[c] /\ job'[c] = job[c]
         /\ events'[c] = events[c] /\ lost'[c] = lost[c]
<1>1. StoreTyped /\ CallsTyped
  BY DEF Inv, Typed
<1>2. StoreTyped'
  BY <1>1, StoreStays DEF store
<1>3. faults \in Nat /\ faults' \in 0..MaxFaults /\ faults <= faults'
  BY <1>1, BoundsAssumption DEF CallsTyped, Fault
<1>4. \A d \in Calls : DOMAIN work'[d] = Parts
  BY <1>1 DEF CallsTyped
<1>5. CallsTyped'
  BY <1>1, <1>3, <1>4 DEF CallsTyped, Results, world, trail
<1>6. Frame(c)
  BY <1>3 DEF Frame, Same, store, trail
<1> QED
  BY <1>2, <1>5, <1>6 DEF Typed, store, trail

LEMMA FailStep ==
  ASSUME Inv, NEW c \in Calls, Fail(c)
  PROVE  Typed' /\ Frame(c) /\ Local(c)'
<1>1. Local(c) /\ CallsTyped
  BY DEF Inv, Typed
<1>2. /\ pc[c] \in Accesses /\ Fault /\ Break(c)
      /\ UNCHANGED <<world, store, trail, req, work, crashes>>
  BY DEF Fail
<1>3. /\ pc' \in [Calls -> Awaits] /\ result' \in [Calls -> Results]
      /\ \A d \in Calls : d # c => pc'[d] = pc[d] /\ result'[d] = result[d]
      /\ faults' \in Nat /\ faults <= faults' /\ faults' > 0
      /\ \/ pc[c] # "tenant" /\ pc'[c] = "over" /\ result'[c] = "failed"
         \/ pc[c] = "tenant" /\ pc'[c] = "failure" /\ result'[c] = result[c]
  BY <1>2, Breaks
<1>4. DOMAIN work' = Calls /\ DOMAIN work'[c] = Parts /\ work' = work
  BY <1>1, <1>2 DEF CallsTyped
<1>5. /\ Typed' /\ Frame(c)
      /\ deployment'[c] = deployment[c] /\ tenant'[c] = tenant[c] /\ job'[c] = job[c]
      /\ events'[c] = events[c] /\ lost'[c] = lost[c]
  BY <1>2, <1>3, <1>4, Holds
<1>6. /\ req' = req /\ work' = work /\ Heard(c)'
      /\ \A x : Says(c, x)' <=> Says(c, x)
  BY <1>2, <1>3, <1>5 DEF Says, Heard
<1>7. Local(c)'
  BY <1>1, <1>2, <1>3, <1>5, <1>6 DEF Accesses, Local, Staged, Recorded, Told, Enrolled, Addressed,
     Reported, Kind, Body, Succeeded, JobOutcome, DeploymentOutcome, Running, PageLoads, Reports
<1> QED
  BY <1>5, <1>7

LEMMA SaysSame ==
  ASSUME Inv, NEW c \in Calls, events'[c] = events[c], lost'[c] = lost[c], faults' = faults
  PROVE  Heard(c)' /\ \A x : Says(c, x)' <=> Says(c, x)
BY DEF Inv, Local, Heard, Says

LEMMA BeginStep ==
  ASSUME Inv, NEW c \in Calls, Begin(c)
  PROVE  Typed' /\ Frame(c) /\ Local(c)'
<1>1. Local(c) /\ CallsTyped
  BY DEF Inv, Typed
<1>2. /\ pc[c] = "idle" /\ pc' = [pc EXCEPT ![c] = "auth"]
      /\ \E base : work' = [work EXCEPT ![c].base = base]
      /\ UNCHANGED <<world, store, trail, req, result, faults, crashes>>
  BY DEF Begin, Goto, bounds
<1>3. /\ DOMAIN work' = Calls /\ DOMAIN work'[c] = Parts /\ work'[c].role = work[c].role
      /\ \A d \in Calls : d # c => work'[d] = work[d]
  BY <1>1, <1>2 DEF CallsTyped, Parts
<1>4. /\ pc' \in [Calls -> Awaits] /\ result' \in [Calls -> Results] /\ pc'[c] = "auth"
      /\ \A d \in Calls : d # c => pc'[d] = pc[d] /\ result'[d] = result[d]
  BY <1>1, <1>2 DEF CallsTyped, Awaits, Results
<1>5. /\ Typed' /\ Frame(c)
      /\ deployment'[c] = deployment[c] /\ tenant'[c] = tenant[c] /\ job'[c] = job[c]
      /\ events'[c] = events[c] /\ lost'[c] = lost[c]
  BY <1>2, <1>3, <1>4, Holds
<1>6. Local(c)'
  BY <1>1, <1>2, <1>3, <1>4, <1>5 DEF Local, Staged, Heard, Says, Recorded, Told, Enrolled, Addressed,
     Reported, Kind, Body, Running, Reports
<1> QED
  BY <1>5, <1>6

LEMMA AuthorizeStep ==
  ASSUME Inv, NEW c \in Calls, Authorize(c)
  PROVE  Typed' /\ Frame(c) /\ Local(c)'
<1>1. Local(c) /\ CallsTyped
  BY DEF Inv, Typed
<1>2. PICK role \in {Caller(c), Nobody} :
        /\ IF role = Caller(c) THEN UNCHANGED faults ELSE ResolveMode(setting) = "jwt" /\ Fault
        /\ Goto(c, IF May(role, Operation(c)) THEN First(c) ELSE "deny")
        /\ work' = [work EXCEPT ![c].role = role]
  BY DEF Authorize
<1>3. /\ pc[c] \in {"auth", "reload"}
      /\ pc' = [pc EXCEPT ![c] = IF May(role, Operation(c)) THEN First(c) ELSE "deny"]
      /\ faults' = faults \/ Fault
      /\ UNCHANGED <<world, store, trail, req, result, crashes>>
  BY <1>2 DEF Authorize, Goto
<1> DEFINE l == IF May(role, Operation(c)) THEN First(c) ELSE "deny"
<1>4. Requests /\ (pc[c] = "reload" => Kind(c) \in {"submit", "run"})
  BY <1>1 DEF Requests, CallsTyped, Local, Staged
<1>5. /\ l \in {"deny", "reject", "plan", "deployment", "create", "invalid", "requested", "report", "list"}
      /\ l \in {"plan", "deployment"} => Kind(c) = "deploy" /\ WellFormed(Body(c))
      /\ l = "create" => Kind(c) \in {"job", "submit", "run"} /\ ValidJob(Body(c))
      /\ l = "list" => Kind(c) \in PageLoads \union {"scan"}
      /\ l = "requested" => Kind(c) = "tenant"
      /\ l = "report" => /\ Kind(c) \in Reports
                         /\ Kind(c) = "simulate" => ValidSimulation(Body(c))
  BY <1>4, FirstStage
<1> HIDE DEF l
<1>6. /\ DOMAIN work' = Calls /\ DOMAIN work'[c] = Parts
      /\ \A d \in Calls : d # c => work'[d] = work[d]
  BY <1>1, <1>2 DEF CallsTyped, Parts
<1>7. pc' = [pc EXCEPT ![c] = l]
  BY <1>3 DEF l
<1>8. /\ pc' \in [Calls -> Awaits] /\ result' \in [Calls -> Results] /\ pc'[c] = l
      /\ \A d \in Calls : d # c => pc'[d] = pc[d] /\ result'[d] = result[d]
  BY <1>1, <1>3, <1>5, <1>7 DEF CallsTyped, Awaits, Results
<1>9. /\ Typed' /\ Frame(c)
      /\ deployment'[c] = deployment[c] /\ tenant'[c] = tenant[c] /\ job'[c] = job[c]
      /\ events'[c] = events[c] /\ lost'[c] = lost[c]
  BY <1>3, <1>6, <1>8, Holds
<1>10. /\ result'[c] = result[c] /\ req' = req /\ (faults > 0 => faults' > 0) /\ Heard(c)'
       /\ \A x : Says(c, x)' <=> Says(c, x)
  BY <1>1, <1>3, <1>9, BoundsAssumption DEF CallsTyped, Fault, Says, Heard, Local
<1>11. /\ deployment[c] = None /\ tenant[c] = None /\ result[c] = "none"
       /\ Kind(c) \in {"deploy", "tenant"} => ~(Says(c, "success") \/ Says(c, "failure"))
  BY <1>1, <1>3 DEF Local, Staged, Recorded, Enrolled, Running
<1>12. Local(c)'
  BY <1>5, <1>8, <1>9, <1>10, <1>11 DEF Local, Staged, Recorded, Told, Enrolled, Addressed,
     Reported, Kind, Body, Running, Reports
<1> QED
  BY <1>9, <1>12

----------------------------------------------------------------------------
(* Steps that change records.                                              *)

\* A sequence of members of S is one of members of a larger set.
LEMMA Widened ==
  ASSUME NEW S, NEW T, S \subseteq T, NEW s \in Seq(S), NEW x \in T
  PROVE  s \in Seq(T) /\ <<x>> \o s \in Seq(T)
<1>1. s \in Seq(T)
  BY SeqDef
<1>2. <<x>> \in Seq(T)
  OBVIOUS
<1> QED
  BY <1>1, <1>2, ConcatProperties

\* A step that leaves the environment, what is held and what is logged alone.
LEMMA Keeps ==
  ASSUME Inv, NEW c \in Calls, StoreTyped',
         \A d \in Calls : d # c =>
           /\ pc'[d] = pc[d] /\ result'[d] = result[d]
           /\ deployment'[d] = deployment[d] /\ tenant'[d] = tenant[d] /\ job'[d] = job[d],
         pc' \in [Calls -> Awaits], result' \in [Calls -> Results],
         faults' = faults \/ Fault,
         UNCHANGED <<world, trail, req, work, crashes>>
  PROVE  Typed' /\ Frame(c)
<1>1. CallsTyped
  BY DEF Inv, Typed
<1>2. faults \in Nat /\ faults' \in 0..MaxFaults /\ faults <= faults'
  BY <1>1, BoundsAssumption DEF CallsTyped, Fault
<1>3. CallsTyped'
  BY <1>1, <1>2 DEF CallsTyped, Results, world, trail
<1>4. Frame(c)
  BY <1>2 DEF Frame, Same, trail
<1> QED
  BY <1>3, <1>4 DEF Typed

LEMMA AddJobFacts ==
  ASSUME StoreTyped, NEW c \in Calls, NEW status \in JobStatus,
         NEW t \in Tenants \union {NoTenant}, AddJob(c, status, t)
  PROVE  /\ job' \in [Ids -> JobRecords \union {None}]
         /\ jobs' \in Seq(Made')
         /\ job'[c] = [status |-> status, tenant |-> t] /\ job'[c] # None
         /\ \A d \in Calls : d # c => job'[d] = job[d]
<1> DEFINE r == [status |-> status, tenant |-> t]
<1>1. r \in JobRecords /\ r # None
  BY NoneAssumption DEF JobRecords
<1> HIDE DEF r
<1>2. /\ c \in Ids /\ job \in [Ids -> JobRecords \union {None}] /\ jobs \in Seq(Made)
      /\ job' = [job EXCEPT ![c] = r] /\ jobs' = <<c>> \o jobs
  BY DEF StoreTyped, AddJob, Ids, r
<1>3. /\ job' \in [Ids -> JobRecords \union {None}] /\ job'[c] = r
      /\ \A i \in Ids : i # c => job'[i] = job[i]
  BY <1>1, <1>2
<1>4. Made \subseteq Made' /\ c \in Made'
  BY <1>1, <1>2, <1>3 DEF Made
<1>5. jobs' \in Seq(Made')
  BY <1>2, <1>4, Widened
<1>6. Calls \subseteq Ids
  BY DEF Ids
<1> QED
  BY <1>1, <1>3, <1>5, <1>6 DEF r

LEMMA KeptTenantType ==
  ASSUME NEW t \in Tenants \union {NoTenant}
  PROVE  KeptTenant(t) \in Tenants \union {NoTenant}
BY DEF KeptTenant

LEMMA CreateDeploymentStep ==
  ASSUME Inv, NEW c \in Calls, CreateDeployment(c)
  PROVE  Typed' /\ Frame(c) /\ Local(c)'
<1> DEFINE r == [target |-> Target(c), version |-> Body(c).version, status |-> "Healthy"]
<1>1. Local(c) /\ StoreTyped /\ CallsTyped /\ Requests
  BY DEF Inv, Typed, CallsTyped, Requests
<1>2. Kind(c) = "deploy" /\ WellFormed(Body(c)) /\ Body(c) \in DeployBodies /\ pc[c] = "deployment"
  BY <1>1, RequestFacts DEF Local, Staged, CreateDeployment
<1>3. r \in DeploymentRecords /\ r # None
  <2>1. Body(c).tenant \in Tenants /\ Body(c).version \in Versions /\ EnvOf(Body(c)) \in Envs
    BY <1>2 DEF WellFormed, DeployBodies
  <2>2. Target(c) \in Targets
    BY <2>1 DEF Target, Targets
  <2>3. r \in DeploymentRecords
    BY <2>1, <2>2 DEF DeploymentRecords, DeploymentStatus
  <2> QED
    BY <2>3, NoneAssumption
<1> HIDE DEF r
<1>4. /\ deployment' = [deployment EXCEPT ![c] = r] /\ deployed' = <<c>> \o deployed
      /\ Proceed(c, "track")
      /\ job' = job /\ jobs' = jobs /\ tenant' = tenant
      /\ UNCHANGED <<world, trail, req, work, crashes>>
  BY DEF CreateDeployment, r
<1>5. /\ deployment' \in [Calls -> DeploymentRecords \union {None}] /\ deployment'[c] # None
      /\ \A d \in Calls : d # c => deployment'[d] = deployment[d]
  BY <1>1, <1>3, <1>4 DEF StoreTyped
<1>6. Deployed \subseteq Deployed' /\ c \in Deployed'
  BY <1>1, <1>5 DEF Deployed
<1>7. deployed' \in Seq(Deployed')
  BY <1>1, <1>4, <1>6, Widened DEF StoreTyped
<1>8. StoreTyped'
  BY <1>1, <1>4, <1>5, <1>7 DEF StoreTyped, Made
<1>9. /\ pc' \in [Calls -> Awaits] /\ result' \in [Calls -> Results]
      /\ \A d \in Calls : d # c => pc'[d] = pc[d] /\ result'[d] = result[d]
      /\ faults' = faults \/ Fault
      /\ \/ pc'[c] = "track" /\ result'[c] = result[c] /\ faults' = faults
         \/ pc'[c] = "over" /\ faults' > 0 /\ result'[c] = "failed"
  BY <1>2, <1>4, Proceeds DEF Awaits
<1>10. Typed' /\ Frame(c)
  BY <1>4, <1>5, <1>8, <1>9, Keeps
<1>11. /\ req' = req /\ work' = work /\ Heard(c)'
      /\ \A x : Says(c, x)' <=> Says(c, x)
  BY <1>1, <1>4, <1>9 DEF Local, Heard, Says, trail
<1>12. Local(c)'
  BY <1>1, <1>2, <1>4, <1>5, <1>9, <1>11 DEF Local, Staged, Recorded, Told, Enrolled, Addressed,
     Reported, Kind, Body, Succeeded, JobOutcome, DeploymentOutcome, Running, Reports
<1> QED
  BY <1>10, <1>12

LEMMA CreateTrackingJobStep ==
  ASSUME Inv, NEW c \in Calls, CreateTrackingJob(c)
  PROVE  Typed' /\ Frame(c) /\ Local(c)'
<1>1. Local(c) /\ StoreTyped /\ CallsTyped /\ Requests
  BY DEF Inv, Typed, CallsTyped, Requests
<1>2. Kind(c) = "deploy" /\ WellFormed(Body(c)) /\ Body(c) \in DeployBodies /\ pc[c] = "track"
  BY <1>1, RequestFacts DEF Local, Staged, CreateTrackingJob, Running
<1>3. KeptTenant(Body(c).tenant) \in Tenants \union {NoTenant}
  BY <1>2, KeptTenantType DEF WellFormed, DeployBodies
<1>4. /\ AddJob(c, "Running", KeptTenant(Body(c).tenant))
      /\ Proceed(c, "start")
      /\ deployment' = deployment /\ deployed' = deployed /\ tenant' = tenant
      /\ UNCHANGED <<world, trail, req, work, crashes>>
  BY DEF CreateTrackingJob
<1>5. /\ job' \in [Ids -> JobRecords \union {None}] /\ jobs' \in Seq(Made') /\ job'[c] # None
      /\ \A d \in Calls : d # c => job'[d] = job[d]
  BY <1>1, <1>3, <1>4, AddJobFacts DEF JobStatus
<1>6. StoreTyped'
  BY <1>1, <1>4, <1>5 DEF StoreTyped, Deployed
<1>7. /\ pc' \in [Calls -> Awaits] /\ result' \in [Calls -> Results]
      /\ \A d \in Calls : d # c => pc'[d] = pc[d] /\ result'[d] = result[d]
      /\ faults' = faults \/ Fault
      /\ \/ pc'[c] = "start" /\ result'[c] = result[c] /\ faults' = faults
         \/ pc'[c] = "over" /\ faults' > 0 /\ result'[c] = "failed"
  BY <1>2, <1>4, Proceeds DEF Awaits
<1>8. Typed' /\ Frame(c)
  BY <1>4, <1>5, <1>6, <1>7, Keeps
<1>9. /\ req' = req /\ work' = work /\ Heard(c)'
      /\ \A x : Says(c, x)' <=> Says(c, x)
  BY <1>1, <1>4, <1>7 DEF Local, Heard, Says, trail
<1>10. Local(c)'
  BY <1>1, <1>2, <1>4, <1>5, <1>7, <1>9 DEF Local, Staged, Recorded, Told, Enrolled, Addressed,
     Reported, Kind, Body, Succeeded, JobOutcome, DeploymentOutcome, Running, Reports
<1> QED
  BY <1>8, <1>10

LEMMA ExecStep ==
  ASSUME Inv, NEW c \in Calls, Exec(c)
  PROVE  Typed' /\ Frame(c) /\ Local(c)'
<1>1. Local(c) /\ CallsTyped
  BY DEF Inv, Typed
<1>2. PICK command \in {"ok", "skipped", "failed"} : work' = [work EXCEPT ![c].command = command]
  BY DEF Exec
<1>3. /\ pc[c] = "exec" /\ pc' = [pc EXCEPT ![c] = "update"]
      /\ UNCHANGED <<world, store, trail, req, result, bounds>>
  BY DEF Exec, Goto
<1>4. /\ DOMAIN work' = Calls /\ DOMAIN work'[c] = Parts
      /\ work'[c].role = work[c].role /\ work'[c].command = command
      /\ \A d \in Calls : d # c => work'[d] = work[d]
  BY <1>1, <1>2 DEF CallsTyped, Parts
<1>5. /\ pc' \in [Calls -> Awaits] /\ result' \in [Calls -> Results] /\ pc'[c] = "update"
      /\ \A d \in Calls : d # c => pc'[d] = pc[d] /\ result'[d] = result[d]
  BY <1>1, <1>3 DEF CallsTyped, Awaits, Results
<1>6. /\ Typed' /\ Frame(c)
      /\ deployment'[c] = deployment[c] /\ tenant'[c] = tenant[c] /\ job'[c] = job[c]
      /\ events'[c] = events[c] /\ lost'[c] = lost[c]
  BY <1>3, <1>4, <1>5, Holds DEF bounds
<1>7. Heard(c)' /\ \A x : Says(c, x)' <=> Says(c, x)
  BY <1>3, <1>6, SaysSame DEF bounds
<1>8. Local(c)'
  BY <1>1, <1>3, <1>4, <1>5, <1>6, <1>7 DEF Local, Staged, Recorded, Told, Enrolled, Addressed,
     Reported, Kind, Body, Succeeded, JobOutcome, DeploymentOutcome, Running, Reports
<1> QED
  BY <1>6, <1>8

LEMMA UpdateJobStep ==
  ASSUME Inv, NEW c \in Calls, UpdateJob(c)
  PROVE  Typed' /\ Frame(c) /\ Local(c)'
<1>1. Local(c) /\ StoreTyped /\ CallsTyped
  BY DEF Inv, Typed
<1>2. pc[c] = "update" /\ job[c] # None /\ c \in Ids /\ JobOutcome(c) \in JobStatus
  BY <1>1 DEF UpdateJob, Local, Recorded, Running, Ids, JobOutcome, JobStatus
<1>3. /\ job' = [job EXCEPT ![c].status = JobOutcome(c)]
      /\ Proceed(c, "settle")
      /\ jobs' = jobs /\ deployment' = deployment /\ deployed' = deployed /\ tenant' = tenant
      /\ UNCHANGED <<world, trail, req, work, crashes>>
  BY DEF UpdateJob
<1>4. job[c] \in JobRecords
  BY <1>1, <1>2 DEF StoreTyped
<1>5. job'[c] \in JobRecords /\ job'[c].status = JobOutcome(c)
  BY <1>1, <1>2, <1>3, <1>4 DEF StoreTyped, JobRecords
<1>6. /\ job' \in [Ids -> JobRecords \union {None}] /\ job'[c] # None
      /\ \A i \in Ids : i # c => job'[i] = job[i]
  <2>1. DOMAIN job' = Ids /\ \A i \in Ids : i # c => job'[i] = job[i]
    BY <1>1, <1>3 DEF StoreTyped
  <2>2. \A i \in Ids : job'[i] \in JobRecords \union {None}
    BY <1>1, <1>5, <2>1 DEF StoreTyped
  <2>3. job' = [i \in Ids |-> job'[i]]
    BY <1>1, <1>3 DEF StoreTyped
  <2> QED
    BY <1>5, <2>1, <2>2, <2>3, NoneAssumption
<1>7. Made' = Made
  BY <1>2, <1>6 DEF Made
<1>8. StoreTyped'
  BY <1>1, <1>3, <1>6, <1>7 DEF StoreTyped, Deployed
<1>9. /\ pc' \in [Calls -> Awaits] /\ result' \in [Calls -> Results]
      /\ \A d \in Calls : d # c => pc'[d] = pc[d] /\ result'[d] = result[d]
      /\ faults' = faults \/ Fault
      /\ \/ pc'[c] = "settle" /\ result'[c] = result[c] /\ faults' = faults
         \/ pc'[c] = "over" /\ faults' > 0 /\ result'[c] = "failed"
  BY <1>2, <1>3, Proceeds DEF Awaits
<1>10. \A d \in Calls : d # c => job'[d] = job[d]
  BY <1>6 DEF Ids
<1>11. Typed' /\ Frame(c)
  BY <1>3, <1>8, <1>9, <1>10, Keeps
<1>12. /\ req' = req /\ work' = work /\ Heard(c)'
      /\ \A x : Says(c, x)' <=> Says(c, x)
  BY <1>1, <1>3, <1>9 DEF Local, Heard, Says, trail
<1>13. Local(c)'
  BY <1>1, <1>2, <1>3, <1>5, <1>6, <1>9, <1>12 DEF Local, Staged, Recorded, Told, Enrolled, Addressed,
     Reported, Kind, Body, Succeeded, JobOutcome, DeploymentOutcome, Running, Reports
<1> QED
  BY <1>11, <1>13

LEMMA UpdateDeploymentStep ==
  ASSUME Inv, NEW c \in Calls, UpdateDeployment(c)
  PROVE  Typed' /\ Frame(c) /\ Local(c)'
<1>1. Local(c) /\ StoreTyped /\ CallsTyped
  BY DEF Inv, Typed
<1>2. pc[c] = "settle" /\ deployment[c] # None /\ DeploymentOutcome(c) \in DeploymentStatus
  BY <1>1 DEF UpdateDeployment, Local, Recorded, Running, DeploymentOutcome, DeploymentStatus
<1>3. /\ deployment' = [deployment EXCEPT ![c].status = DeploymentOutcome(c)]
      /\ Proceed(c, "outcome")
      /\ job' = job /\ jobs' = jobs /\ deployed' = deployed /\ tenant' = tenant
      /\ UNCHANGED <<world, trail, req, work, crashes>>
  BY DEF UpdateDeployment
<1>4. deployment[c] \in DeploymentRecords
  BY <1>1, <1>2 DEF StoreTyped
<1>5. deployment'[c] \in DeploymentRecords /\ deployment'[c].status = DeploymentOutcome(c)
  BY <1>1, <1>2, <1>3, <1>4 DEF StoreTyped, DeploymentRecords
<1>6. /\ deployment' \in [Calls -> DeploymentRecords \union {None}] /\ deployment'[c] # None
      /\ \A d \in Calls : d # c => deployment'[d] = deployment[d]
  <2>1. DOMAIN deployment' = Calls /\ \A d \in Calls : d # c => deployment'[d] = deployment[d]
    BY <1>1, <1>3 DEF StoreTyped
  <2>2. \A d \in Calls : deployment'[d] \in DeploymentRecords \union {None}
    BY <1>1, <1>5, <2>1 DEF StoreTyped
  <2>3. deployment' = [d \in Calls |-> deployment'[d]]
    BY <1>1, <1>3 DEF StoreTyped
  <2> QED
    BY <1>5, <2>1, <2>2, <2>3, NoneAssumption
<1>7. Deployed' = Deployed
  BY <1>2, <1>6 DEF Deployed
<1>8. StoreTyped'
  BY <1>1, <1>3, <1>6, <1>7 DEF StoreTyped, Made
<1>9. /\ pc' \in [Calls -> Awaits] /\ result' \in [Calls -> Results]
      /\ \A d \in Calls : d # c => pc'[d] = pc[d] /\ result'[d] = result[d]
      /\ faults' = faults \/ Fault
      /\ \/ pc'[c] = "outcome" /\ result'[c] = result[c] /\ faults' = faults
         \/ pc'[c] = "over" /\ faults' > 0 /\ result'[c] = "failed"
  BY <1>2, <1>3, Proceeds DEF Awaits
<1>10. Typed' /\ Frame(c)
  BY <1>3, <1>6, <1>8, <1>9, Keeps
<1>11. /\ req' = req /\ work' = work /\ Heard(c)'
      /\ \A x : Says(c, x)' <=> Says(c, x)
  BY <1>1, <1>3, <1>9 DEF Local, Heard, Says, trail
<1>12. Local(c)'
  BY <1>1, <1>2, <1>3, <1>5, <1>6, <1>9, <1>11 DEF Local, Staged, Recorded, Told, Enrolled, Addressed,
     Reported, Kind, Body, Succeeded, JobOutcome, DeploymentOutcome, Running, Reports
<1> QED
  BY <1>10, <1>12

LEMMA CreateJobStep ==
  ASSUME Inv, NEW c \in Calls, CreateJob(c)
  PROVE  Typed' /\ Frame(c) /\ Local(c)'
<1> DEFINE status == IF Body(c).status = "default" THEN "Queued" ELSE Body(c).status
           t == KeptTenant(Body(c).tenant)
<1>1. Local(c) /\ StoreTyped /\ CallsTyped /\ Requests
  BY DEF Inv, Typed, CallsTyped, Requests
<1>2. Kind(c) \in {"job", "submit", "run"} /\ ValidJob(Body(c)) /\ pc[c] = "create"
  BY <1>1 DEF Local, Staged, CreateJob
<1>3. Body(c).tenant \in Tenants
  BY <1>1, <1>2, RequestFacts DEF JobBodies, ProvisionBodies, ValidJob
<1>4. status \in JobStatus /\ t \in Tenants \union {NoTenant}
  BY <1>2, <1>3, KeptTenantType DEF ValidJob, JobStatus
<1>5. /\ AddJob(c, status, t)
      /\ deployment' = deployment /\ deployed' = deployed /\ tenant' = tenant
      /\ UNCHANGED <<world, trail, req, work, crashes>>
  BY DEF CreateJob
<1> HIDE DEF status, t
<1>6. /\ job' \in [Ids -> JobRecords \union {None}] /\ jobs' \in Seq(Made') /\ job'[c] # None
      /\ \A d \in Calls : d # c => job'[d] = job[d]
  BY <1>1, <1>4, <1>5, AddJobFacts
<1>7. StoreTyped'
  BY <1>1, <1>5, <1>6 DEF StoreTyped, Deployed
<1>8. /\ pc' \in [Calls -> Awaits] /\ result' \in [Calls -> Results]
      /\ \/ Kind(c) = "job" /\ pc'[c] = "over" /\ result'[c] = "ok" /\ faults' = faults
         \/ Kind(c) \in {"submit", "run"} /\ pc'[c] = "reload" /\ result'[c] = result[c] /\ faults' = faults
         \/ pc'[c] = "over" /\ result'[c] = "failed" /\ faults' > 0
      /\ faults' = faults \/ Fault
      /\ \A d \in Calls : d # c => pc'[d] = pc[d] /\ result'[d] = result[d]
  <2>1. CASE Kind(c) = "job" /\ Conclude(c, "ok") /\ faults' = faults
    BY <1>1, <2>1 DEF Conclude, Goto, CallsTyped, Awaits, Results
  <2>2. CASE Kind(c) # "job" /\ Proceed(c, "reload")
    BY <1>2, <2>2, Proceeds DEF Awaits
  <2>3. CASE Fault /\ Break(c)
    BY <1>2, <2>3, Breaks
  <2> QED
    BY <2>1, <2>2, <2>3 DEF CreateJob
<1>9. Typed' /\ Frame(c)
  BY <1>5, <1>6, <1>7, <1>8, Keeps
<1>10. /\ req' = req /\ work' = work /\ Heard(c)'
       /\ \A x : Says(c, x)' <=> Says(c, x)
  BY <1>1, <1>5, <1>8 DEF Local, Heard, Says, trail
<1>11. Local(c)'
  BY <1>1, <1>2, <1>5, <1>6, <1>8, <1>10 DEF Local, Staged, Recorded, Told, Enrolled, Addressed,
     Reported, Kind, Body, Succeeded, JobOutcome, DeploymentOutcome, Running, Reports
<1> QED
  BY <1>9, <1>11

LEMMA FieldFacts ==
  ASSUME NEW b \in TenantBodies, FieldsOk(b)
  PROVE  /\ b.name \in Tenants /\ b.vlan \in Nat /\ b.ip \in {NoAddress} \union Seq(Nat)
         /\ b.size \in Sizes
<1>1. b.size \in Sizes /\ b.vlan \in 2..4094
  BY DEF FieldsOk
<1>2. b.name \in Tenants /\ b.ip \in {NoAddress} \union Seq(Nat)
  BY DEF TenantBodies
<1>3. b.vlan \in Nat
  <2> DEFINE v == b.vlan
  <2>1. v \in 2..4094
    BY <1>1
  <2> HIDE DEF v
  <2>2. v \in Nat
    BY <2>1
  <2> QED
    BY <2>2 DEF v
<1> QED
  BY <1>1, <1>2, <1>3

LEMMA CreateTenantStep ==
  ASSUME Inv, NEW c \in Calls, CreateTenant(c)
  PROVE  Typed' /\ Frame(c) /\ Local(c)'
<1> DEFINE b == Body(c)
           ip == ResolvedIp(b, work[c].role)
           r == [name |-> b.name, vlan |-> b.vlan, ip |-> ip]
<1>1. Local(c) /\ StoreTyped /\ CallsTyped /\ Requests
  BY DEF Inv, Typed, CallsTyped, Requests
<1>2. Kind(c) = "tenant" /\ FieldsOk(b) /\ pc[c] = "tenant"
  BY <1>1 DEF Local, Staged, CreateTenant
<1>3. b \in TenantBodies
  BY <1>1, <1>2, RequestFacts
<1>4. /\ b.name \in Tenants /\ b.vlan \in Nat /\ b.ip \in {NoAddress} \union Seq(Nat)
      /\ b.size \in Sizes
  BY <1>2, <1>3, FieldFacts
<1>5. TenantIp(b.vlan) \in Seq(Nat) /\ TenantIp(b.vlan) = PlanIp(b.vlan)
  BY <1>4 DEF TenantIp, PlanIp
<1>6. ip \in Seq(Nat)
  BY <1>4, <1>5 DEF ResolvedIp
<1>7. ip = PlanIp(b.vlan) \/ (work[c].role = "admin" /\ Says(c, "override"))
  <2>1. CASE Overrides(b, work[c].role) /\ Says(c, "override")
    BY <2>1 DEF Overrides
  <2>2. CASE Violations(b) = {}
    <3>1. b.ip \in {NoAddress, TenantIp(b.vlan)}
      BY <2>2 DEF Violations
    <3> QED
      BY <1>5, <3>1 DEF ResolvedIp
  <2> QED
    BY <1>1, <1>2, <2>1, <2>2 DEF Local, Addressed
<1> HIDE DEF ip
<1>8. r \in TenantRecords /\ r # None /\ r.ip = ip /\ r.vlan = b.vlan
  <2>1. r \in TenantRecords
    BY <1>4, <1>6 DEF TenantRecords
  <2> QED
    BY <2>1, NoneAssumption
<1>9. /\ tenant' = [tenant EXCEPT ![c] = r] /\ AddJob(c, "Queued", b.name)
      /\ Proceed(c, "success")
      /\ deployment' = deployment /\ deployed' = deployed
      /\ UNCHANGED <<world, trail, req, work, crashes>>
  BY DEF CreateTenant, ip
<1> HIDE DEF r, b
<1>10. /\ tenant' \in [Calls -> TenantRecords \union {None}] /\ tenant'[c] = r
       /\ \A d \in Calls : d # c => tenant'[d] = tenant[d]
  BY <1>1, <1>8, <1>9 DEF StoreTyped
<1>11. /\ job' \in [Ids -> JobRecords \union {None}] /\ jobs' \in Seq(Made') /\ job'[c] # None
       /\ \A d \in Calls : d # c => job'[d] = job[d]
  BY <1>1, <1>4, <1>9, AddJobFacts DEF JobStatus
<1>12. StoreTyped'
  BY <1>1, <1>9, <1>10, <1>11 DEF StoreTyped, Deployed
<1>13. /\ pc' \in [Calls -> Awaits] /\ result' \in [Calls -> Results]
       /\ \A d \in Calls : d # c => pc'[d] = pc[d] /\ result'[d] = result[d]
       /\ faults' = faults \/ Fault
       /\ \/ pc'[c] = "success" /\ result'[c] = result[c] /\ faults' = faults
          \/ pc'[c] = "failure" /\ faults' > 0 /\ result'[c] = result[c]
  BY <1>2, <1>9, Proceeds DEF Awaits
<1>14. Typed' /\ Frame(c)
  BY <1>9, <1>10, <1>11, <1>12, <1>13, Keeps
<1>15. /\ req' = req /\ work' = work /\ Heard(c)'
       /\ \A x : Says(c, x)' <=> Says(c, x)
  BY <1>1, <1>9, <1>13 DEF Local, Heard, Says, trail
<1>16. \/ tenant'[c].ip = PlanIp(tenant'[c].vlan)
       \/ work'[c].role = "admin" /\ Says(c, "override")'
  BY <1>7, <1>8, <1>10, <1>15
<1>17. /\ Kind(c) = "tenant" /\ Kind(c)' = "tenant" /\ deployment'[c] = None
       /\ result[c] = "none" /\ ~Says(c, "success") /\ ~Says(c, "failure")
  BY <1>1, <1>2, <1>9, <1>15 DEF Local, Staged, Recorded, Enrolled, Running, Kind
<1>18. Local(c)'
  BY <1>8, <1>10, <1>11, <1>13, <1>15, <1>16, <1>17 DEF Local, Staged, Recorded, Told, Enrolled,
     Addressed, Reported, Running, Reports
<1> QED
  BY <1>14, <1>18

LEMMA ListSteps ==
  ASSUME Inv, NEW c \in Calls, List(c) \/ Listed(c) \/ Show(c)
  PROVE  Typed' /\ Frame(c) /\ Local(c)'
<1>1. Local(c) /\ CallsTyped
  BY DEF Inv, Typed
<1>2. Kind(c) \in PageLoads \union {"scan"} /\ pc[c] \in {"list", "listed", "answer"}
  BY <1>1 DEF List, Listed, Show, Local, Staged
<1>3. UNCHANGED <<world, store, trail, req, bounds>>
  BY DEF List, Listed, Show
<1>4. /\ DOMAIN work' = Calls /\ DOMAIN work'[c] = Parts /\ work'[c].role = work[c].role
      /\ \A d \in Calls : d # c => work'[d] = work[d]
  <2>1. CASE List(c)
    BY <1>1, <2>1 DEF List, CallsTyped, Parts
  <2>2. CASE Listed(c)
    BY <1>1, <2>2 DEF Listed, CallsTyped, Parts
  <2>3. CASE Show(c)
    BY <1>1, <2>3 DEF Show, CallsTyped, Parts
  <2> QED
    BY <2>1, <2>2, <2>3
<1>5. /\ pc' \in [Calls -> Awaits] /\ result' \in [Calls -> Results]
      /\ \/ pc'[c] = "over" /\ result'[c] = "ok"
         \/ pc'[c] \in {"listed", "auth"} /\ result'[c] = result[c]
         \/ pc'[c] = "answer" /\ result'[c] = result[c] /\ Kind(c) \in PageLoads
      /\ \A d \in Calls : d # c => pc'[d] = pc[d] /\ result'[d] = result[d]
  <2>1. CASE List(c)
    BY <1>1, <2>1 DEF List, Goto, CallsTyped, Awaits, Results
  <2>2. CASE Listed(c) /\ Kind(c) \in PageLoads
    BY <1>1, <2>2 DEF Listed, Goto, CallsTyped, Awaits, Results
  <2>3. CASE Listed(c) /\ Kind(c) \notin PageLoads
    <3>1. CASE work[c].page < work[c].pages
      BY <1>1, <2>3, <3>1 DEF Listed, Goto, CallsTyped, Awaits, Results
    <3>2. CASE ~(work[c].page < work[c].pages)
      BY <1>1, <2>3, <3>2 DEF Listed, Goto, Conclude, CallsTyped, Awaits, Results
    <3> QED
      BY <3>1, <3>2
  <2>4. CASE Show(c)
    BY <1>1, <2>4 DEF Show, Goto, Conclude, CallsTyped, Awaits, Results
  <2> QED
    BY <2>1, <2>2, <2>3, <2>4
<1>6. /\ Typed' /\ Frame(c)
      /\ deployment'[c] = deployment[c] /\ tenant'[c] = tenant[c] /\ job'[c] = job[c]
      /\ events'[c] = events[c] /\ lost'[c] = lost[c]
  BY <1>3, <1>4, <1>5, Holds DEF bounds
<1>7. /\ deployment[c] = None /\ tenant[c] = None
      /\ Kind(c)' = Kind(c) /\ faults' = faults
      /\ Kind(c) \notin {"tenant", "deploy"} \union Reports
      /\ result[c] = "none"
  BY <1>1, <1>2, <1>3 DEF Local, Staged, Recorded, Enrolled, Running, Kind, PageLoads, Reports, bounds
<1>8. Heard(c)' /\ \A x : Says(c, x)' <=> Says(c, x)
  BY <1>3, <1>6, SaysSame DEF bounds
<1>9. Local(c)'
  BY <1>2, <1>5, <1>6, <1>7, <1>8 DEF Local, Staged, Recorded, Told, Enrolled, Addressed, Reported, Running
<1> QED
  BY <1>6, <1>9

LEMMA ReportStep ==
  ASSUME Inv, NEW c \in Calls, Report(c)
  PROVE  Typed' /\ Frame(c) /\ Local(c)'
<1> DEFINE days == WarningDays(setting.warning)
           metadata == Body(c).tokens
           es == IF Kind(c) = "simulate" THEN Expiries(metadata) ELSE Expiries(Parse(setting.tokens))
<1>1. Local(c) /\ CallsTyped /\ Requests /\ setting \in Settings /\ now \in Nat
  BY BoundsAssumption DEF Inv, Typed, CallsTyped, Requests
<1>2. pc[c] = "report" /\ Kind(c) \in Reports /\ (Kind(c) = "simulate" => ValidSimulation(Body(c)))
  BY <1>1 DEF Report, Local, Staged
<1>3. days \in Nat
  BY <1>1, SettingFacts DEF WarningDays
<1>4. IsFiniteSet(DOMAIN es) /\ \A i \in DOMAIN es : es[i] \in {Never} \union Nat
  <2>1. CASE Kind(c) = "simulate"
    <3>1. Body(c) \in SimulationBodies /\ ValidSimulation(Body(c))
      BY <1>1, <1>2, <2>1, RequestFacts
    <3>2. metadata \in Seq([user : BOOLEAN, role : Roles \union {Junk},
                            expiresAt : {Never, Junk} \union Nat])
      BY <3>1 DEF SimulationBodies, metadata
    <3> HIDE DEF metadata
    <3>3. /\ DOMAIN metadata = 1..Len(metadata) /\ Len(metadata) \in Nat
          /\ \A i \in DOMAIN metadata : metadata[i].expiresAt \in {Never, Junk} \union Nat
      <4>1. DOMAIN metadata = 1..Len(metadata) /\ Len(metadata) \in Nat
        BY <3>2
      <4>2. \A i \in 1..Len(metadata) : metadata[i] \in
              [user : BOOLEAN, role : Roles \union {Junk}, expiresAt : {Never, Junk} \union Nat]
        BY <3>2, ElementOfSeq
      <4> QED
        BY <4>1, <4>2
    <3>4. \A i \in DOMAIN metadata : metadata[i].expiresAt \notin {Never, Junk}
      BY <3>1 DEF ValidSimulation, ValidMetadata, metadata
    <3>5. IsFiniteSet(DOMAIN metadata)
      BY <3>3, FS_Interval
    <3> QED
      BY <2>1, <3>3, <3>4, <3>5 DEF Expiries
  <2>2. CASE Kind(c) # "simulate"
    <3> DEFINE raw == setting.tokens
    <3>1. raw \in Seq(RawEntries)
      BY <1>1, SettingFacts
    <3>2. /\ DOMAIN raw = 1..Len(raw) /\ Len(raw) \in Nat
          /\ \A i \in DOMAIN raw : raw[i] \in RawEntries
      BY <3>1
    <3>3. DOMAIN Parse(raw) = {i \in DOMAIN raw : Parsable(raw[i])}
      BY DEF Parse
    <3>4. \A i \in DOMAIN Parse(raw) : Parse(raw)[i].expiresAt \in {Never} \union Nat
      BY <3>2 DEF Parse, Parsable, RawEntries
    <3>5. IsFiniteSet(DOMAIN raw)
      BY <3>2, FS_Interval
    <3>6. IsFiniteSet(DOMAIN Parse(raw))
      BY <3>3, <3>5, FS_Subset
    <3> QED
      BY <2>2, <3>4, <3>6 DEF Expiries
  <2> QED
    BY <2>1, <2>2
<1>5. work' = [work EXCEPT ![c].day = now, ![c].expiries = es, ![c].report = Counted(es, days, now)]
  BY DEF Report, ImpactSummary, HealthSummary
<1> HIDE DEF es, days
<1>6. /\ DOMAIN work' = Calls /\ DOMAIN work'[c] = Parts /\ work'[c].role = work[c].role
      /\ work'[c].day = now /\ work'[c].expiries = es /\ work'[c].report = Counted(es, days, now)
      /\ \A d \in Calls : d # c => work'[d] = work[d]
  BY <1>1, <1>5 DEF CallsTyped, Parts
<1>7. Counts(work'[c])
  BY <1>1, <1>3, <1>4, <1>6 DEF Counts
<1>8. /\ pc' \in [Calls -> Awaits] /\ result' \in [Calls -> Results]
      /\ \/ Kind(c) = "health" /\ pc'[c] = "over" /\ result'[c] = "ok"
         \/ Kind(c) \in {"rotate", "simulate"} /\ pc'[c] = "success" /\ result'[c] = result[c]
      /\ \A d \in Calls : d # c => pc'[d] = pc[d] /\ result'[d] = result[d]
  <2>1. CASE Kind(c) = "health"
    BY <1>1, <2>1 DEF Report, Conclude, Goto, CallsTyped, Awaits, Results
  <2>2. CASE Kind(c) # "health"
    BY <1>1, <1>2, <2>2 DEF Report, Goto, CallsTyped, Awaits, Results, Reports
  <2> QED
    BY <2>1, <2>2
<1>9. UNCHANGED <<world, store, trail, req, bounds>>
  BY DEF Report
<1>10. /\ Typed' /\ Frame(c)
       /\ deployment'[c] = deployment[c] /\ tenant'[c] = tenant[c] /\ job'[c] = job[c]
       /\ events'[c] = events[c] /\ lost'[c] = lost[c]
  BY <1>6, <1>8, <1>9, Holds DEF bounds
<1>11. /\ deployment[c] = None /\ tenant[c] = None
       /\ Kind(c)' = Kind(c) /\ faults' = faults
       /\ Kind(c) \notin {"tenant", "deploy"} /\ result[c] = "none"
  BY <1>1, <1>2, <1>9 DEF Local, Staged, Recorded, Enrolled, Running, Kind, Reports, bounds
<1>12. Heard(c)' /\ \A x : Says(c, x)' <=> Says(c, x)
  BY <1>9, <1>10, SaysSame DEF bounds
<1>13. Local(c)'
  BY <1>7, <1>8, <1>10, <1>11, <1>12 DEF Local, Staged, Recorded, Told, Enrolled, Addressed, Reported, Running
<1> QED
  BY <1>10, <1>13

----------------------------------------------------------------------------
(* Time, crashes, and the invariant.                                       *)

LEMMA TickStep ==
  ASSUME Inv, Tick
  PROVE  Inv'
<1>1. StoreTyped /\ CallsTyped /\ faults \in Nat
  BY BoundsAssumption DEF Inv, Typed, CallsTyped
<1>2. now' \in 0..Horizon
  BY <1>1, BoundsAssumption DEF Tick, CallsTyped
<1>3. /\ setting' = setting /\ serving' = serving
      /\ UNCHANGED <<store, trail, req, pc, work, result, bounds>>
  BY DEF Tick
<1>4. Typed'
  BY <1>1, <1>2, <1>3, StoreStays DEF Typed, CallsTyped, store, bounds, trail
<1>5. ASSUME NEW c \in Calls PROVE Local(c)'
  <2>1. Same(c) /\ req' = req /\ faults' = faults
    BY <1>3 DEF Same, store, bounds, trail
  <2>2. Local(c)
    BY DEF Inv
  <2> QED
    BY <1>1, <2>1, <2>2, Untouched
<1> QED
  BY <1>4, <1>5 DEF Inv

LEMMA CrashStep ==
  ASSUME Inv, Crash
  PROVE  Inv'
<1>1. StoreTyped /\ CallsTyped
  BY DEF Inv, Typed
<1>2. setting' \in Settings /\ serving' = Ready(setting')
  BY DEF Crash
<1>3. serving' \in BOOLEAN
  <2>1. Ready(setting') \in BOOLEAN
    BY <1>2, SettingsAssumption DEF Ready
  <2> QED
    BY <1>2, <2>1
<1>4. /\ crashes' = crashes + 1 /\ crashes < MaxCrashes
      /\ pc' = [c \in Calls |-> IF UnderWay(c) THEN "gone" ELSE pc[c]]
      /\ UNCHANGED <<now, store, trail, req, work, result, faults>>
  BY DEF Crash
<1>5. pc' \in [Calls -> Awaits] /\ crashes' \in 0..MaxCrashes
  BY <1>1, <1>4, BoundsAssumption DEF CallsTyped, Awaits
<1>6. Typed'
  BY <1>1, <1>2, <1>3, <1>4, <1>5, StoreStays DEF Typed, CallsTyped, store, trail
<1>7. ASSUME NEW c \in Calls PROVE Local(c)'
  <2>1. /\ Local(c) /\ req' = req /\ faults' = faults /\ work' = work /\ events' = events /\ lost' = lost
        /\ result' = result /\ deployment' = deployment /\ tenant' = tenant /\ job' = job
    BY <1>4 DEF Inv, store, trail
  <2>2. \/ pc[c] \in {"idle", "over", "gone"} /\ pc'[c] = pc[c]
        \/ pc[c] \notin {"idle", "over", "gone"} /\ pc'[c] = "gone"
    BY <1>4 DEF UnderWay
  <2> QED
    BY <2>1, <2>2 DEF Local, Staged, Heard, Says, Recorded, Told, Enrolled, Addressed,
     Reported, Kind, Body, Succeeded, JobOutcome, DeploymentOutcome, Running, Reports
<1> QED
  BY <1>6, <1>7 DEF Inv

LEMMA InitInv ==
  Init => Inv
<1> SUFFICES ASSUME Init PROVE Inv
  OBVIOUS
<1> DEFINE old == [status |-> "Success", tenant |-> NoTenant]
           n == Len(Older)
<1>1. Older \in Seq(Range(Older)) /\ n \in Nat /\ DOMAIN Older = 1..n
  BY OlderAssumption
<1>2. old \in JobRecords /\ old # None
  <2>1. old \in JobRecords
    BY DEF JobRecords, JobStatus
  <2> QED
    BY <2>1, NoneAssumption
<1>3. job = [i \in Ids |-> IF i \in Calls THEN None ELSE old]
  BY DEF Init
<1> HIDE DEF old
<1>4. job \in [Ids -> JobRecords \union {None}]
  BY <1>2, <1>3
<1>5. \A k \in 1..n : Older[k] \in Made
  BY <1>1, <1>2, <1>3, OlderAssumption DEF Made, Ids, Range
<1>6. jobs \in Seq(Made)
  <2>1. jobs = [i \in 1..n |-> Older[n + 1 - i]]
    BY DEF Init
  <2>2. \A i \in 1..n : Older[n + 1 - i] \in Made
    BY <1>1, <1>5
  <2> HIDE DEF n
  <2>3. jobs \in [1..n -> Made]
    BY <2>1, <2>2
  <2> QED
    BY <1>1, <2>3, SeqDef
<1>7. deployed \in Seq(Deployed)
  BY DEF Init
<1>8. StoreTyped
  BY <1>4, <1>6, <1>7 DEF StoreTyped, Init
<1>9. setting \in Settings /\ serving = Ready(setting)
  BY DEF Init
<1>10. serving \in BOOLEAN
  BY <1>9, SettingsAssumption DEF Ready
<1>11. CallsTyped
  BY <1>9, <1>10, BoundsAssumption DEF CallsTyped, Init, Awaits, Idle, Parts
<1>12. ASSUME NEW c \in Calls PROVE Local(c)
  BY DEF Init, Local, Staged, Heard, Says, Recorded, Told, Enrolled, Addressed, Reported, Running
<1> QED
  BY <1>8, <1>11, <1>12 DEF Inv, Typed

LEMMA StepInv ==
  Inv /\ [Next]_vars => Inv'
<1> SUFFICES ASSUME Inv, [Next]_vars PROVE Inv'
  OBVIOUS
<1>1. ASSUME NEW c \in Calls, Typed', Frame(c), Local(c)' PROVE Inv'
  BY <1>1, FrameKeeps DEF Inv
<1>2. ASSUME NEW c \in Calls,
             \/ Deny(c) \/ Invalid(c) \/ Reject(c) \/ Plan(c) \/ AuditStart(c) \/ AuditOutcome(c)
             \/ RequestTenant(c) \/ AuditOverride(c) \/ RefuseTenant(c)
             \/ AuditSuccess(c) \/ AuditFailure(c)
      PROVE  Inv'
  BY <1>1, <1>2, SpeakSteps
<1>3. ASSUME NEW c \in Calls, Begin(c) PROVE Inv'
  BY <1>1, <1>3, BeginStep
<1>4. ASSUME NEW c \in Calls, Authorize(c) PROVE Inv'
  BY <1>1, <1>4, AuthorizeStep
<1>5. ASSUME NEW c \in Calls, CreateDeployment(c) PROVE Inv'
  BY <1>1, <1>5, CreateDeploymentStep
<1>6. ASSUME NEW c \in Calls, CreateTrackingJob(c) PROVE Inv'
  BY <1>1, <1>6, CreateTrackingJobStep
<1>7. ASSUME NEW c \in Calls, Exec(c) PROVE Inv'
  BY <1>1, <1>7, ExecStep
<1>8. ASSUME NEW c \in Calls, UpdateJob(c) PROVE Inv'
  BY <1>1, <1>8, UpdateJobStep
<1>9. ASSUME NEW c \in Calls, UpdateDeployment(c) PROVE Inv'
  BY <1>1, <1>9, UpdateDeploymentStep
<1>10. ASSUME NEW c \in Calls, CreateJob(c) PROVE Inv'
  BY <1>1, <1>10, CreateJobStep
<1>11. ASSUME NEW c \in Calls, CreateTenant(c) PROVE Inv'
  BY <1>1, <1>11, CreateTenantStep
<1>12. ASSUME NEW c \in Calls, List(c) \/ Listed(c) \/ Show(c) PROVE Inv'
  BY <1>1, <1>12, ListSteps
<1>13. ASSUME NEW c \in Calls, Report(c) PROVE Inv'
  BY <1>1, <1>13, ReportStep
<1>14. ASSUME NEW c \in Calls, Fail(c) PROVE Inv'
  BY <1>1, <1>14, FailStep
<1>15. CASE Tick
  BY <1>15, TickStep
<1>16. CASE Crash
  BY <1>16, CrashStep
<1>17. CASE UNCHANGED vars
  <2>1. Typed'
    BY <1>17, StoreStays DEF Inv, Typed, CallsTyped, vars, world, store, bounds, trail
  <2>2. ASSUME NEW c \in Calls PROVE Local(c)'
    <3>1. Local(c) /\ Same(c) /\ req' = req /\ faults' = faults /\ faults \in Nat
      BY <1>17, BoundsAssumption DEF Inv, Typed, CallsTyped, Same, vars, store, bounds, trail
    <3> QED
      BY <3>1, Untouched
  <2> QED
    BY <2>1, <2>2 DEF Inv
<1> QED
  BY <1>2, <1>3, <1>4, <1>5, <1>6, <1>7, <1>8, <1>9, <1>10, <1>11, <1>12, <1>13, <1>14, <1>15,
     <1>16, <1>17 DEF Next

LEMMA Invariance ==
  Spec => []Inv
BY InitInv, StepInv, PTL DEF Spec

----------------------------------------------------------------------------
(* Every variable keeps its type, whatever the requests contain.           *)
THEOREM Typing ==
  Spec => []TypeOK
<1>1. Inv => TypeOK
  BY DEF Inv, Typed, StoreTyped, CallsTyped, Made, Deployed, TypeOK
<1> QED
  BY <1>1, Invariance, PTL

(* A request passes the guard exactly as the environment of that moment    *)
(* says, on that day: a trusted token while an entry of it lasts, a JWT    *)
(* with the role its claims name (lib/auth-core.ts, lib/jwt-oidc.ts).      *)
THEOREM Guarded ==
  Spec => AccessAsConfigured
<1> DEFINE Passes == \A c \in Calls :
             pc[c] \in {"auth", "reload"} /\ pc'[c] \notin {pc[c], "gone"} =>
               Decided(c, pc'[c] # "deny")
<1>1. ASSUME Inv, [Next]_vars, NEW c \in Calls,
             pc[c] \in {"auth", "reload"}, pc'[c] \notin {pc[c], "gone"}
      PROVE  Decided(c, pc'[c] # "deny")
  <2>1. CallsTyped /\ Local(c) /\ Requests /\ setting \in Settings /\ now \in Nat
    <3>1. CallsTyped /\ Local(c)
      BY <1>1 DEF Inv, Typed
    <3> QED
      BY <3>1, BoundsAssumption DEF CallsTyped, Requests
  <2>2. Authorize(c)
    <3>1. ASSUME NEW d \in Calls, d # c, pc' = [pc EXCEPT ![d] = pc'[d]] PROVE FALSE
      BY <1>1, <3>1, <2>1 DEF CallsTyped
    <3>2. ASSUME NEW d \in Calls, d # c, Frame(d) PROVE FALSE
      BY <1>1, <3>2 DEF Frame, Same
    <3>3. ASSUME NEW d \in Calls, d # c,
                 \/ Deny(d) \/ Invalid(d) \/ Reject(d) \/ Plan(d) \/ AuditStart(d) \/ AuditOutcome(d)
                 \/ RequestTenant(d) \/ AuditOverride(d) \/ RefuseTenant(d)
                 \/ AuditSuccess(d) \/ AuditFailure(d)
          PROVE  FALSE
      BY <1>1, <3>2, <3>3, SpeakSteps
    <3>4. ASSUME NEW d \in Calls, d # c,
                 \/ Begin(d) \/ Authorize(d) \/ CreateDeployment(d) \/ CreateTrackingJob(d)
                 \/ Exec(d) \/ UpdateJob(d) \/ UpdateDeployment(d) \/ CreateJob(d) \/ CreateTenant(d)
                 \/ List(d) \/ Listed(d) \/ Show(d) \/ Report(d) \/ Fail(d)
          PROVE  FALSE
      BY <1>1, <3>2, <3>4, BeginStep, AuthorizeStep, CreateDeploymentStep, CreateTrackingJobStep,
         ExecStep, UpdateJobStep, UpdateDeploymentStep, CreateJobStep, CreateTenantStep, ListSteps,
         ReportStep, FailStep
    <3>5. /\ ~Deny(c) /\ ~Invalid(c) /\ ~Reject(c) /\ ~Plan(c) /\ ~AuditStart(c) /\ ~AuditOutcome(c)
          /\ ~RequestTenant(c) /\ ~AuditOverride(c) /\ ~RefuseTenant(c)
          /\ ~AuditSuccess(c) /\ ~AuditFailure(c)
      BY <1>1 DEF Deny, Invalid, Reject, Plan, AuditStart, AuditOutcome, RequestTenant,
         AuditOverride, RefuseTenant, AuditSuccess, AuditFailure
    <3>6. /\ ~Begin(c) /\ ~CreateDeployment(c) /\ ~CreateTrackingJob(c)
          /\ ~Exec(c) /\ ~UpdateJob(c) /\ ~UpdateDeployment(c) /\ ~CreateJob(c) /\ ~CreateTenant(c)
          /\ ~List(c) /\ ~Listed(c) /\ ~Show(c) /\ ~Report(c) /\ ~Fail(c)
      BY <1>1 DEF Begin, CreateDeployment, CreateTrackingJob, Exec, UpdateJob, UpdateDeployment,
         CreateJob, CreateTenant, List, Listed, Show, Report, Fail, Accesses
    <3>7. ~Tick /\ ~UNCHANGED vars
      BY <1>1 DEF Tick, vars
    <3>8. ~Crash
      BY <1>1 DEF Crash, UnderWay
    <3> QED
      BY <1>1, <3>3, <3>4, <3>5, <3>6, <3>7, <3>8 DEF Next
  <2>3. PICK role \in {Caller(c), Nobody} :
          /\ IF role = Caller(c) THEN UNCHANGED faults ELSE ResolveMode(setting) = "jwt" /\ Fault
          /\ Goto(c, IF May(role, Operation(c)) THEN First(c) ELSE "deny")
    BY <2>2 DEF Authorize
  <2>4. Decided(c, May(role, Operation(c)))
    BY <2>1, <2>3, GuardFacts
  <2>5. First(c) # "deny"
    BY <2>1, FirstStage DEF Local, Staged
  <2>6. pc'[c] = IF May(role, Operation(c)) THEN First(c) ELSE "deny"
    BY <2>1, <2>3 DEF Goto, CallsTyped
  <2>7. May(role, Operation(c)) \in BOOLEAN
    BY DEF May, HasMinimumRole
  <2>8. (pc'[c] # "deny") = May(role, Operation(c))
    BY <2>5, <2>6, <2>7
  <2> QED
    BY <2>4, <2>8
<1>2. Inv /\ [Next]_vars => [Passes]_vars
  BY <1>1
<1> QED
  BY <1>2, Invariance, PTL DEF Spec, AccessAsConfigured

(* What a deployment tells the audit log is what its command did, once its *)
(* records agree, and it is answered ok only after that; the creation of a *)
(* tenant is told as it is answered, a success only of records that are    *)
(* there.  The log has what it is told unless the append failed, which the *)
(* handlers do not look at (app/api/deployments/route.ts,                  *)
(* app/api/tenants/route.ts).                                              *)
THEOREM Outcomes ==
  Spec => []OutcomeTold
<1>1. ASSUME Inv PROVE OutcomeTold
  <2>1. ASSUME NEW c \in Calls PROVE lost[c] # {} => faults > 0
    BY <1>1, <2>1 DEF Inv, Local, Heard
  <2>2. ASSUME NEW c \in Calls, Kind(c) = "deploy", deployment[c] # None
        PROVE  /\ Verdicts(c) \subseteq {IF Succeeded(c) THEN "success" ELSE "failure"}
               /\ result[c] = "ok" => Verdicts(c) # {}
               /\ Verdicts(c) # {} =>
                    IF Succeeded(c) THEN job[c].status = "Success" /\ deployment[c].status = "Healthy"
                    ELSE job[c].status = "Failed" /\ deployment[c].status = "Failed"
    <3>1. Told(c)
      BY <1>1, <2>2 DEF Inv, Local
    <3> QED
      BY <2>2, <3>1 DEF Told, Says, Verdicts
  <2>3. ASSUME NEW c \in Calls, Kind(c) = "tenant"
        PROVE  /\ Verdicts(c) # {"success", "failure"}
               /\ result[c] = "ok" => "success" \in Verdicts(c)
               /\ result[c] = "failed" => "failure" \in Verdicts(c)
               /\ "success" \in Verdicts(c) => tenant[c] # None
               /\ tenant[c] # None => job[c] # None
               /\ "failure" \in Verdicts(c) /\ tenant[c] # None => faults > 0
    <3>1. Enrolled(c)
      BY <1>1, <2>3 DEF Inv, Local
    <3> QED
      BY <2>3, <3>1 DEF Enrolled, Says, Verdicts
  <2> QED
    BY <2>1, <2>2, <2>3 DEF OutcomeTold
<1>2. Inv => OutcomeTold
  BY <1>1
<1> QED
  BY <1>2, Invariance, PTL

(* A tenant's record has the address its machine is given, or one an admin *)
(* asked for, of which the audit log was told before (lib/tenant-policy.ts,*)
(* app/api/tenants/route.ts).                                              *)
THEOREM Addresses ==
  Spec => []TenantAddressed
<1>1. Inv => TenantAddressed
  BY DEF Inv, Local, Addressed, Says, TenantAddressed
<1> QED
  BY <1>1, Invariance, PTL

(* As long as the warning window of a report lasts, no more tokens run out *)
(* than it warned of (lib/auth-core.ts, lib/token-rotation.ts).            *)
THEOREM Warnings ==
  Spec => []RefusalsForeseen
<1>1. ASSUME Inv, NEW c \in Calls, Kind(c) \in Reports, result[c] = "ok"
      PROVE  LET es == work[c].expiries
                 lapsed == {i \in DOMAIN es : es[i] # Never /\ es[i] > work[c].day /\ es[i] <= now}
             IN  /\ now <= work[c].day + work[c].report.warningDays =>
                      Cardinality(lapsed) <= work[c].report.expiringSoon
                 /\ work[c].report.active = Cardinality({i \in DOMAIN es : es[i] # Never => es[i] > work[c].day})
  <2> DEFINE es == work[c].expiries
             day == work[c].day
             gone == {i \in DOMAIN es : Expired(es[i], day)}
             lapsed == {i \in DOMAIN es : es[i] # Never /\ es[i] > day /\ es[i] <= now}
             lasting == {i \in DOMAIN es : es[i] # Never => es[i] > day}
  <2>1. Counts(work[c]) /\ now \in Nat
    BY <1>1, BoundsAssumption DEF Inv, Local, Reported, Typed, CallsTyped
  <2>2. PICK days \in Nat : work[c].report = Counted(es, days, day)
    BY <2>1 DEF Counts
  <2> DEFINE soon == {i \in DOMAIN es : ExpiringSoon(es[i], days, day)}
  <2>3. /\ work[c].report.warningDays = days
        /\ work[c].report.expiringSoon = Cardinality(soon)
        /\ work[c].report.active = Cardinality(DOMAIN es) - Cardinality(gone)
    BY <2>2 DEF Counted
  <2>4. /\ IsFiniteSet(DOMAIN es) /\ day \in Nat
        /\ \A i \in DOMAIN es : es[i] \in {Never} \union Nat
    BY <2>1 DEF Counts
  <2> HIDE DEF es, day
  <2>5. ASSUME now <= day + days PROVE Cardinality(lapsed) <= Cardinality(soon)
    <3>1. lapsed \subseteq soon
      BY <2>1, <2>2, <2>4, <2>5 DEF ExpiringSoon, Expired
    <3>2. IsFiniteSet(soon)
      BY <2>4, FS_Subset
    <3> QED
      BY <3>1, <3>2, FS_Subset
  <2>6. Cardinality(DOMAIN es) - Cardinality(gone) = Cardinality(lasting)
    <3>1. lasting = DOMAIN es \ gone
      BY <2>4 DEF Expired
    <3>2. gone \subseteq DOMAIN es /\ IsFiniteSet(gone)
      BY <2>4, FS_Subset
    <3>3. Cardinality(DOMAIN es \ gone) = Cardinality(DOMAIN es) - Cardinality(DOMAIN es \cap gone)
      BY <2>4, <3>2, FS_Difference
    <3>4. DOMAIN es \cap gone = gone
      BY <3>2
    <3> QED
      BY <3>1, <3>3, <3>4
  <2> QED
    BY <2>3, <2>5, <2>6 DEF es, day
<1>2. Inv => RefusalsForeseen
  BY <1>1 DEF RefusalsForeseen
<1> QED
  BY <1>2, Invariance, PTL

----------------------------------------------------------------------------
(* Which deployment of a target runs.                                      *)

Of(t) == {k \in DOMAIN deployed : deployment[deployed[k]].target = t}

Newest(k, t) == k \in Of(t) /\ \A j \in Of(t) : k <= j

Executed == {"update", "settle", "outcome", "over", "gone"}

RecordsFit ==
  /\ DOMAIN running = Targets
  /\ \A c \in Calls : pc[c] \in {"deployment"} \union Running => Deploys(c)
  /\ \A c \in Calls : work[c].command # "none" => pc[c] \in Executed
  /\ \A c \in Calls : deployment[c] # None =>
       deployment[c].target = Target(c) /\ deployment[c].version = Body(c).version

\* Two deployments of a target that are both under way contend for it.
Alone ==
  \A c, d \in Calls :
    c # d /\ Deploys(c) /\ Deploys(d) /\ UnderWay(c) /\ UnderWay(d) /\ Target(c) = Target(d) =>
      Target(c) \in contended

\* A deployment under way is the newest of a target nothing else is deployed to.
Latest ==
  \A c \in Calls : pc[c] \in Running /\ Target(c) \notin contended =>
    \E k \in Of(Target(c)) : Newest(k, Target(c)) /\ deployed[k] = c

\* The newest one runs once its command has succeeded.
InForce ==
  \A t \in Targets : t \notin contended =>
    \A k \in Of(t) : Newest(k, t) /\ work[deployed[k]].command = "ok" =>
      running[t] = deployment[deployed[k]].version

Runs == RecordsFit /\ Alone /\ Latest /\ InForce

LEMMA DeployedFacts ==
  ASSUME Inv
  PROVE  /\ DOMAIN deployed = 1..Len(deployed) /\ Len(deployed) \in Nat
         /\ \A k \in DOMAIN deployed : deployed[k] \in Calls /\ deployment[deployed[k]] # None
<1>1. deployed \in Seq(Deployed)
  BY DEF Inv, Typed, StoreTyped
<1>2. DOMAIN deployed = 1..Len(deployed) /\ Len(deployed) \in Nat
  BY <1>1
<1>3. \A k \in 1..Len(deployed) : deployed[k] \in Deployed
  BY <1>1, ElementOfSeq
<1> QED
  BY <1>2, <1>3 DEF Deployed

\* A target has one newest deployment.
LEMMA NewestUnique ==
  ASSUME Inv, NEW t, NEW i, NEW j, Newest(i, t), Newest(j, t)
  PROVE  i = j
<1>1. i \in Nat /\ j \in Nat /\ i <= j /\ j <= i
  BY DeployedFacts DEF Newest, Of
<1> QED
  BY <1>1

\* A step that neither makes a deployment nor runs or begins one.
LEMMA Aside ==
  ASSUME Inv, Runs, UNCHANGED <<deployed, running, req, contended>>,
         \A c \in Calls :
           /\ deployment'[c] = deployment[c] \/
                /\ deployment[c] # None /\ deployment'[c] # None
                /\ deployment'[c].target = deployment[c].target
                /\ deployment'[c].version = deployment[c].version
           /\ work'[c].command = work[c].command
           /\ UnderWay(c)' => UnderWay(c)
           /\ pc'[c] \in Running => pc[c] \in Running
           /\ pc[c] \in Executed => pc'[c] \in Executed
           /\ pc'[c] = "deployment" => pc[c] = "deployment" \/ Deploys(c)
  PROVE  Runs'
<1>1. \A c \in Calls : /\ Deploys(c)' = Deploys(c) /\ Target(c)' = Target(c) /\ Body(c)' = Body(c)
                       /\ deployment'[c].target = deployment[c].target
                       /\ deployment'[c].version = deployment[c].version
  BY DEF Deploys, Target, Kind, Body
<1>2. \A t : Of(t)' = Of(t)
  BY <1>1, DeployedFacts DEF Of
<1>3. \A k, t : Newest(k, t)' = Newest(k, t)
  BY <1>2 DEF Newest
<1>4. RecordsFit'
  BY <1>1 DEF Runs, RecordsFit
<1>5. Alone'
  BY <1>1 DEF Runs, Alone
<1>6. Latest'
  BY <1>1, <1>2, <1>3 DEF Runs, Latest
<1>7. InForce'
  <2>1. \A t : \A k \in Of(t) : deployed[k] \in Calls
    BY DeployedFacts DEF Of
  <2> QED
    BY <1>1, <1>2, <1>3, <2>1 DEF Runs, InForce
<1> QED
  BY <1>4, <1>5, <1>6, <1>7 DEF Runs

LEMMA BeginRuns ==
  ASSUME Inv, Runs, NEW c \in Calls, Begin(c)
  PROVE  Runs'
<1>1. /\ pc[c] = "idle" /\ pc' = [pc EXCEPT ![c] = "auth"]
      /\ \E base : work' = [work EXCEPT ![c].base = base]
      /\ UNCHANGED <<deployment, deployed, running, req>>
  BY DEF Begin, Goto, store
<1>2. /\ contended \subseteq contended'
      /\ \A d \in Calls : Deploys(c) /\ Deploys(d) /\ UnderWay(d) /\ Target(c) = Target(d) =>
           Target(d) \in contended'
  BY DEF Begin
<1>3. \A d \in Calls : /\ Deploys(d)' = Deploys(d) /\ Target(d)' = Target(d) /\ Body(d)' = Body(d)
                       /\ pc'[d] = pc[d] \/ (d = c /\ pc'[d] = "auth")
                       /\ work'[d].command = work[d].command
  BY <1>1 DEF Deploys, Target, Kind, Body, Inv, Typed, CallsTyped, Parts
<1>4. (\A t : Of(t)' = Of(t)) /\ (\A k, t : Newest(k, t)' = Newest(k, t))
  BY <1>1 DEF Of, Newest
<1>5. pc[c] \notin Executed \union Running \union {"deployment"} /\ "auth" \notin Running \union {"deployment"}
  BY <1>1 DEF Executed, Running
<1>6. RecordsFit'
  BY <1>1, <1>3, <1>5 DEF Runs, RecordsFit
<1>7. Alone'
  <2>1. ASSUME NEW d \in Calls, NEW e \in Calls, d # e, Deploys(d), Deploys(e), UnderWay(d)', UnderWay(e)',
               Target(d) = Target(e)
        PROVE  Target(d) \in contended'
    <3>1. d # c => UnderWay(d)
      BY <1>3, <2>1 DEF UnderWay
    <3>2. e # c => UnderWay(e)
      BY <1>3, <2>1 DEF UnderWay
    <3> QED
      BY <1>2, <2>1, <3>1, <3>2 DEF Runs, Alone
  <2> QED
    BY <1>3, <2>1 DEF Alone
<1>8. Latest'
  BY <1>1, <1>2, <1>3, <1>4, <1>5 DEF Runs, Latest
<1>9. InForce'
  <2>1. \A t : \A k \in Of(t) : deployed[k] \in Calls
    BY DeployedFacts DEF Of
  <2> QED
    BY <1>1, <1>2, <1>3, <1>4, <2>1 DEF Runs, InForce
<1> QED
  BY <1>6, <1>7, <1>8, <1>9 DEF Runs

LEMMA CreateDeploymentRuns ==
  ASSUME Inv, Runs, NEW c \in Calls, CreateDeployment(c)
  PROVE  Runs'
<1> DEFINE r == [target |-> Target(c), version |-> Body(c).version, status |-> "Healthy"]
<1>0. PICK u : u = Target(c)
  OBVIOUS
<1>1. /\ pc[c] = "deployment" /\ Proceed(c, "track")
      /\ deployment' = [deployment EXCEPT ![c] = r] /\ deployed' = <<c>> \o deployed
      /\ UNCHANGED <<running, req, work, contended>>
  BY DEF CreateDeployment, history
<1>2. CallsTyped /\ StoreTyped /\ Local(c)
  BY DEF Inv, Typed
<1>3. deployment[c] = None /\ Deploys(c) /\ work[c].command = "none" /\ UnderWay(c)
  BY <1>1, <1>2 DEF Local, Recorded, Running, Runs, RecordsFit, Executed, UnderWay
<1>20. /\ \A d \in Calls : d # c => pc'[d] = pc[d]
       /\ pc'[c] \in {"track", "over"}
  BY <1>1, Proceeds DEF Awaits
<1>4. r.target = u /\ r.version = Body(c).version
  BY <1>0
<1> HIDE DEF r
<1>5. \A d \in Calls : /\ Deploys(d)' = Deploys(d) /\ Target(d)' = Target(d) /\ Body(d)' = Body(d)
                       /\ d # c => pc'[d] = pc[d] /\ deployment'[d] = deployment[d]
  BY <1>1, <1>2, <1>20 DEF Deploys, Target, Kind, Body, CallsTyped, StoreTyped
<1>6. pc'[c] \in {"track", "over"} /\ deployment'[c] = r
  BY <1>1, <1>2, <1>20 DEF StoreTyped
<1>7. /\ DOMAIN deployed' = 1..(Len(deployed) + 1)
      /\ deployed'[1] = c
      /\ \A k \in DOMAIN deployed : deployed'[k + 1] = deployed[k]
  <2>1. deployed \in Seq(Deployed) /\ <<c>> \in Seq({c})
    BY <1>2 DEF StoreTyped
  <2>2. deployed \in Seq(Deployed \union {c}) /\ <<c>> \in Seq(Deployed \union {c})
    BY <2>1, SeqDef
  <2>3. /\ Len(deployed') = 1 + Len(deployed)
        /\ \A i \in 1..Len(deployed') : deployed'[i] = IF i <= 1 THEN <<c>>[i] ELSE deployed[i - 1]
        /\ deployed' \in Seq(Deployed \union {c})
    BY <1>1, <2>2, ConcatProperties
  <2> QED
    BY <2>3, DeployedFacts
<1>8. \A k \in DOMAIN deployed : deployed[k] # c /\ deployed[k] \in Calls
  BY <1>3, DeployedFacts
<1>9. 1 \in Of(u)' /\ Newest(1, u)'
  <2>1. 1 \in Of(u)'
    BY <1>4, <1>6, <1>7, DeployedFacts DEF Of
  <2>2. \A j \in Of(u)' : 1 <= j
    BY <1>7, DeployedFacts DEF Of
  <2> QED
    BY <2>1, <2>2 DEF Newest
<1>10. ASSUME NEW t, t # u, NEW k
       PROVE  /\ k \in Of(t) => k + 1 \in Of(t)'
              /\ k \in Of(t)' => k - 1 \in Of(t) /\ k - 1 \in Nat
  <2>1. ASSUME k \in Of(t) PROVE k + 1 \in Of(t)'
    BY <1>5, <1>7, <1>8, <2>1, DeployedFacts DEF Of
  <2>2. ASSUME k \in Of(t)' PROVE k - 1 \in Of(t) /\ k - 1 \in Nat
    <3>1. k \in 1..(Len(deployed) + 1) /\ deployment'[deployed'[k]].target = t
      BY <1>7, <2>2 DEF Of
    <3>2. k # 1
      BY <1>4, <1>6, <1>7, <1>10, <3>1
    <3>3. k - 1 \in DOMAIN deployed /\ k = (k - 1) + 1 /\ k - 1 \in Nat
      BY <3>1, <3>2, DeployedFacts
    <3>4. deployed'[k] = deployed[k - 1]
      BY <1>7, <3>3
    <3> QED
      BY <1>5, <1>8, <3>1, <3>3, <3>4 DEF Of
  <2> QED
    BY <2>1, <2>2
<1>11. ASSUME NEW t, t # u, NEW k, Newest(k, t) PROVE Newest(k + 1, t)'
  <2>1. k + 1 \in Of(t)' /\ k \in Nat
    BY <1>10, <1>11, DeployedFacts DEF Newest, Of
  <2>2. ASSUME NEW j \in Of(t)' PROVE k + 1 <= j
    <3>1. j - 1 \in Of(t) /\ j - 1 \in Nat
      BY <1>10, <1>11, <2>2
    <3>2. k <= j - 1 /\ j \in Nat
      BY <1>7, <1>11, <2>2, <3>1, DeployedFacts DEF Newest, Of
    <3> QED
      BY <2>1, <3>1, <3>2
  <2> QED
    BY <2>1, <2>2 DEF Newest
<1>12. ASSUME NEW t, t # u, NEW k, Newest(k, t)'
       PROVE  /\ Newest(k - 1, t) /\ k - 1 \in Of(t) /\ k - 1 \in DOMAIN deployed
              /\ deployed'[k] = deployed[k - 1]
  <2>1. k \in Of(t)' /\ k - 1 \in Of(t) /\ k - 1 \in Nat /\ k - 1 \in DOMAIN deployed
    BY <1>10, <1>12 DEF Newest, Of
  <2>2. k \in Nat
    BY <1>7, <2>1, DeployedFacts DEF Of
  <2>3. ASSUME NEW j \in Of(t) PROVE k - 1 <= j
    <3>1. j + 1 \in Of(t)' /\ j \in Nat
      <4>1. j + 1 \in Of(t)'
        BY <1>10, <1>12, <2>3
      <4>2. j \in Nat
        BY <2>3, DeployedFacts DEF Of
      <4> QED
        BY <4>1, <4>2
    <3>2. k <= j + 1
      BY <1>12, <3>1 DEF Newest
    <3> QED
      BY <2>2, <3>1, <3>2
  <2>4. k = (k - 1) + 1
    BY <2>2
  <2>5. deployed'[(k - 1) + 1] = deployed[k - 1]
    BY <1>7, <2>1
  <2> QED
    BY <2>1, <2>3, <2>4, <2>5 DEF Newest
<1>13. RecordsFit'
  BY <1>0, <1>1, <1>3, <1>4, <1>5, <1>6 DEF Runs, RecordsFit, Running, Executed
<1>14. Alone'
  BY <1>1, <1>3, <1>5, <1>6 DEF Runs, Alone, UnderWay
<1>15. ASSUME NEW d \in Calls, pc'[d] \in Running, NEW t, t = Target(d), t \notin contended
       PROVE  \E k \in Of(t)' : Newest(k, t)' /\ deployed'[k] = d
  <2>1. CASE d = c
    BY <1>0, <1>7, <1>9, <1>15, <2>1
  <2>2. CASE d # c
    <3>1. pc[d] \in Running
      BY <1>5, <1>15, <2>2
    <3>2. Deploys(d) /\ UnderWay(d)
      BY <3>1 DEF Runs, RecordsFit, Running, UnderWay
    <3>3. t # u
      BY <1>0, <1>3, <1>15, <2>2, <3>2 DEF Runs, Alone
    <3>4. PICK k \in Of(t) : Newest(k, t) /\ deployed[k] = d
      BY <1>15, <3>1 DEF Runs, Latest
    <3>5. Newest(k + 1, t)'
      BY <1>11, <3>3, <3>4
    <3>6. k + 1 \in Of(t)'
      BY <3>5 DEF Newest
    <3>7. deployed'[k + 1] = d
      BY <1>7, <3>4 DEF Of
    <3> QED
      BY <3>5, <3>6, <3>7
  <2> QED
    BY <2>1, <2>2
<1>16. Latest'
  BY <1>1, <1>5, <1>15 DEF Latest
<1>17. ASSUME NEW t \in Targets, t \notin contended, NEW k, Newest(k, t)',
              work[deployed'[k]].command = "ok"
       PROVE  running[t] = deployment'[deployed'[k]].version
  <2>1. CASE t = u
    <3>1. k = 1
      <4>1. k \in Of(u)' /\ k <= 1
        BY <1>9, <1>17, <2>1 DEF Newest
      <4> QED
        BY <1>7, <4>1, DeployedFacts DEF Of
    <3> QED
      BY <1>3, <1>7, <1>17, <3>1
  <2>2. CASE t # u
    BY <1>5, <1>8, <1>12, <1>17, <2>2 DEF Runs, InForce
  <2> QED
    BY <2>1, <2>2
<1>18. InForce'
  BY <1>1, <1>17 DEF InForce
<1> QED
  BY <1>13, <1>14, <1>16, <1>18 DEF Runs

LEMMA ExecRuns ==
  ASSUME Inv, Runs, NEW c \in Calls, Exec(c)
  PROVE  Runs'
<1> DEFINE u == Target(c)
           version == Body(c).version
<1>1. /\ pc[c] = "exec" /\ pc' = [pc EXCEPT ![c] = "update"]
      /\ UNCHANGED <<deployment, deployed, req, contended>>
  BY DEF Exec, Goto, store, history
<1>2. PICK command \in {"ok", "skipped", "failed"} :
        /\ work' = [work EXCEPT ![c].command = command]
        /\ running' = running \/ running' = [running EXCEPT ![u] = version]
        /\ command = "ok" => running' = [running EXCEPT ![u] = version]
  BY DEF Exec
<1>3. CallsTyped /\ Local(c) /\ Requests
  BY DEF Inv, Typed, CallsTyped, Requests
<1>4. deployment[c] # None /\ c \in Deployed
  BY <1>1, <1>3 DEF Local, Recorded, Running, Deployed
<1>5. deployment[c].target = u /\ deployment[c].version = version
  BY <1>4 DEF Runs, RecordsFit
<1>6. u \in Targets
  BY <1>4, <1>5 DEF Inv, Typed, StoreTyped, DeploymentRecords
<1> HIDE DEF u, version
<1>7. \A d \in Calls : /\ Deploys(d)' = Deploys(d) /\ Target(d)' = Target(d) /\ Body(d)' = Body(d)
                       /\ d # c => pc'[d] = pc[d] /\ work'[d] = work[d]
  BY <1>1, <1>2, <1>3 DEF Deploys, Target, Kind, Body, CallsTyped
<1>8. pc'[c] = "update" /\ work'[c].command = command
  BY <1>1, <1>2, <1>3 DEF CallsTyped, Parts
<1>9. (\A t : Of(t)' = Of(t)) /\ (\A k, t : Newest(k, t)' = Newest(k, t))
  BY <1>1 DEF Of, Newest
<1>10. /\ DOMAIN running' = Targets
       /\ \A t \in Targets : t # u => running'[t] = running[t]
       /\ command = "ok" => running'[u] = version
  BY <1>2, <1>6 DEF Runs, RecordsFit
<1>11. RecordsFit'
  BY <1>1, <1>7, <1>8, <1>10 DEF Runs, RecordsFit, Running, Executed
<1>12. Alone'
  BY <1>1, <1>7, <1>8 DEF Runs, Alone, UnderWay
<1>13. pc[c] \in Running
  BY <1>1 DEF Running
<1>14. Latest'
  BY <1>1, <1>7, <1>8, <1>9, <1>13 DEF Runs, Latest
<1>15. ASSUME NEW t \in Targets, t \notin contended, NEW k \in Of(t), Newest(k, t),
              work'[deployed[k]].command = "ok"
       PROVE  running'[t] = deployment[deployed[k]].version
  <2>1. deployed[k] \in Calls /\ deployment[deployed[k]].target = t
    BY DeployedFacts DEF Of
  <2>2. CASE t = u
    <3>1. PICK i \in Of(u) : Newest(i, u) /\ deployed[i] = c
      BY <1>13, <1>15, <2>2 DEF Runs, Latest, u
    <3>2. deployed[k] = c
      BY <1>15, <2>2, <3>1, NewestUnique
    <3> QED
      BY <1>5, <1>8, <1>10, <1>15, <2>2, <3>2
  <2>3. CASE t # u
    <3>1. deployed[k] # c
      BY <1>5, <2>1, <2>3
    <3> QED
      BY <1>7, <1>10, <1>15, <2>1, <2>3, <3>1 DEF Runs, InForce
  <2> QED
    BY <2>2, <2>3
<1>16. InForce'
  BY <1>1, <1>9, <1>15 DEF InForce
<1> QED
  BY <1>11, <1>12, <1>14, <1>16 DEF Runs

LEMMA CrashRuns ==
  ASSUME Inv, Runs, Crash
  PROVE  Runs'
<1>1. /\ pc' = [c \in Calls |-> IF UnderWay(c) THEN "gone" ELSE pc[c]]
      /\ UNCHANGED <<deployment, deployed, req, work, contended>>
  BY DEF Crash, store, history
<1>2. \/ running' = running
      \/ \E c \in Calls : pc[c] = "exec" /\ running' = [running EXCEPT ![Target(c)] = Body(c).version]
  BY DEF Crash
<1>3. \A d \in Calls : /\ Deploys(d)' = Deploys(d) /\ Target(d)' = Target(d) /\ Body(d)' = Body(d)
                       /\ pc'[d] \in {"idle", "over", "gone"}
                       /\ pc[d] \in Executed => pc'[d] \in Executed
  BY <1>1 DEF Deploys, Target, Kind, Body, UnderWay, Executed
<1>4. (\A t : Of(t)' = Of(t)) /\ (\A k, t : Newest(k, t)' = Newest(k, t))
  BY <1>1 DEF Of, Newest
<1>5. DOMAIN running' = Targets
  BY <1>2 DEF Runs, RecordsFit
<1>6. RecordsFit'
  BY <1>1, <1>3, <1>5 DEF Runs, RecordsFit, Running
<1>7. Alone'
  BY <1>3 DEF Alone, UnderWay
<1>8. Latest'
  BY <1>3 DEF Latest, Running
<1>9. ASSUME NEW t \in Targets, t \notin contended, NEW k \in Of(t), Newest(k, t),
             work[deployed[k]].command = "ok"
      PROVE  running'[t] = deployment[deployed[k]].version
  <2>1. running[t] = deployment[deployed[k]].version
    BY <1>9 DEF Runs, InForce
  <2>2. CASE running' = running
    BY <2>1, <2>2
  <2>3. ASSUME NEW c \in Calls, pc[c] = "exec", running' = [running EXCEPT ![Target(c)] = Body(c).version],
               t = Target(c)
        PROVE  FALSE
    <3>1. PICK i \in Of(t) : Newest(i, t) /\ deployed[i] = c
      BY <1>9, <2>3 DEF Runs, Latest, Running
    <3>2. deployed[k] = c
      BY <1>9, <3>1, NewestUnique
    <3>3. work[c].command = "none"
      BY <2>3 DEF Runs, RecordsFit, Executed
    <3> QED
      BY <1>9, <3>2, <3>3
  <2>4. ASSUME NEW c \in Calls, pc[c] = "exec", running' = [running EXCEPT ![Target(c)] = Body(c).version],
               t # Target(c)
        PROVE  running'[t] = running[t]
    BY <2>4 DEF Runs, RecordsFit
  <2> QED
    BY <1>2, <2>1, <2>2, <2>3, <2>4
<1>10. InForce'
  BY <1>1, <1>4, <1>9 DEF InForce
<1> QED
  BY <1>6, <1>7, <1>8, <1>10 DEF Runs

\* Of all other steps of calls.
LEMMA OtherRuns ==
  ASSUME Inv, Runs, NEW c \in Calls,
         \/ Authorize(c) \/ Deny(c) \/ Invalid(c) \/ Reject(c) \/ Plan(c) \/ CreateTrackingJob(c)
         \/ AuditStart(c) \/ UpdateJob(c) \/ UpdateDeployment(c) \/ AuditOutcome(c) \/ CreateJob(c)
         \/ RequestTenant(c) \/ AuditOverride(c) \/ CreateTenant(c) \/ RefuseTenant(c)
         \/ AuditSuccess(c) \/ AuditFailure(c) \/ List(c) \/ Listed(c) \/ Show(c) \/ Report(c) \/ Fail(c)
  PROVE  Runs'
<1> DEFINE Moved(p, q) ==
             /\ p \notin {"idle", "over", "gone"}
             /\ q \in Running => p \in Running
             /\ p \in Executed => q \in Executed
             /\ q = "deployment" => Deploys(c)
<1>1. CallsTyped /\ StoreTyped /\ Local(c)
  BY DEF Inv, Typed
<1>2. UNCHANGED <<deployed, running, req, contended>>
  BY DEF Authorize, Deny, Invalid, Reject, Plan, CreateTrackingJob, AuditStart, UpdateJob,
     UpdateDeployment, AuditOutcome, CreateJob, RequestTenant, AuditOverride, CreateTenant,
     RefuseTenant, AuditSuccess, AuditFailure, List, Listed, Show, Report, Fail, store, history
<1>3. /\ \A d \in Calls : d # c => deployment'[d] = deployment[d]
      /\ deployment'[c] = deployment[c] \/
           /\ deployment[c] # None /\ deployment'[c] # None
           /\ deployment'[c].target = deployment[c].target
           /\ deployment'[c].version = deployment[c].version
  <2>1. CASE UpdateDeployment(c)
    <3>1. deployment[c] # None /\ deployment[c] \in DeploymentRecords
      BY <1>1, <2>1 DEF UpdateDeployment, Local, Recorded, Running, StoreTyped
    <3>2. deployment' = [deployment EXCEPT ![c].status = DeploymentOutcome(c)]
      BY <2>1 DEF UpdateDeployment
    <3>3. /\ deployment'[c].target = deployment[c].target
          /\ deployment'[c].version = deployment[c].version
          /\ \A d \in Calls : d # c => deployment'[d] = deployment[d]
      BY <1>1, <3>1, <3>2 DEF StoreTyped, DeploymentRecords
    <3>4. deployment'[c] # None
      <4>1. DeploymentOutcome(c) \in DeploymentStatus
        BY DEF DeploymentOutcome, DeploymentStatus
      <4>2. deployment'[c] \in DeploymentRecords
        BY <1>1, <3>1, <3>2, <4>1 DEF StoreTyped, DeploymentRecords
      <4> QED
        BY <4>2, NoneAssumption
    <3> QED
      BY <3>1, <3>3, <3>4
  <2>2. CASE ~UpdateDeployment(c)
    BY <2>2 DEF Authorize, Deny, Invalid, Reject, Plan, CreateTrackingJob, AuditStart, UpdateJob,
       AuditOutcome, CreateJob, RequestTenant, AuditOverride, CreateTenant,
       RefuseTenant, AuditSuccess, AuditFailure, List, Listed, Show, Report, Fail, store
  <2> QED
    BY <2>1, <2>2
<1>4. /\ \A d \in Calls : d # c => work'[d] = work[d]
      /\ work'[c].command = work[c].command
  <2>1. CASE Authorize(c)
    <3>1. \E role : work' = [work EXCEPT ![c].role = role]
      BY <2>1 DEF Authorize
    <3> QED
      BY <1>1, <3>1 DEF CallsTyped, Parts
  <2>2. CASE List(c)
    BY <1>1, <2>2 DEF List, CallsTyped, Parts
  <2>3. CASE Listed(c)
    BY <1>1, <2>3 DEF Listed, CallsTyped, Parts
  <2>4. CASE Show(c)
    BY <1>1, <2>4 DEF Show, CallsTyped, Parts
  <2>5. CASE Report(c)
    BY <1>1, <2>5 DEF Report, CallsTyped, Parts
  <2>6. CASE ~Authorize(c) /\ ~List(c) /\ ~Listed(c) /\ ~Show(c) /\ ~Report(c)
    BY <2>6 DEF Deny, Invalid, Reject, Plan, CreateTrackingJob, AuditStart, UpdateJob,
       UpdateDeployment, AuditOutcome, CreateJob, RequestTenant, AuditOverride, CreateTenant,
       RefuseTenant, AuditSuccess, AuditFailure, Fail
  <2> QED
    BY <2>1, <2>2, <2>3, <2>4, <2>5, <2>6
<1>5. (\A d \in Calls : d # c => pc'[d] = pc[d]) /\ Moved(pc[c], pc'[c])
  <2>1. ASSUME NEW q, pc' = [pc EXCEPT ![c] = q], Moved(pc[c], q)
        PROVE  (\A d \in Calls : d # c => pc'[d] = pc[d]) /\ Moved(pc[c], pc'[c])
    BY <1>1, <2>1 DEF CallsTyped
  <2>2. CASE Authorize(c)
    <3>1. PICK role :
            pc' = [pc EXCEPT ![c] = IF May(role, Operation(c)) THEN First(c) ELSE "deny"]
      BY <2>2 DEF Authorize, Goto
    <3> DEFINE q == IF May(role, Operation(c)) THEN First(c) ELSE "deny"
    <3>2. Requests /\ (pc[c] = "reload" => Kind(c) \in {"submit", "run"})
      BY <1>1 DEF Requests, CallsTyped, Local, Staged
    <3>3. /\ q \in {"deny", "reject", "plan", "deployment", "create", "invalid", "requested", "report", "list"}
          /\ q = "deployment" => Kind(c) = "deploy" /\ ~Body(c).dry
      BY <3>2, FirstStage
    <3>4. pc[c] \in {"auth", "reload"}
      BY <2>2 DEF Authorize
    <3>5. pc' = [pc EXCEPT ![c] = q]
      BY <3>1
    <3> HIDE DEF q
    <3>6. Moved(pc[c], q)
      BY <3>3, <3>4 DEF Deploys, Running, Executed
    <3> QED
      BY <2>1, <3>5, <3>6
  <2>0. ASSUME NEW l \in Awaits, Proceed(c, l), pc[c] \notin {"idle", "over", "gone", "tenant"}, Moved(pc[c], l)
        PROVE  (\A d \in Calls : d # c => pc'[d] = pc[d]) /\ Moved(pc[c], pc'[c])
    <3>1. (\A d \in Calls : d # c => pc'[d] = pc[d]) /\ pc'[c] \in {l, "over"}
      BY <2>0, Proceeds
    <3>2. Moved(pc[c], "over")
      BY <2>0 DEF Running, Executed
    <3> QED
      BY <2>0, <3>1, <3>2
  <2>3. CASE Deny(c) \/ Invalid(c) \/ Reject(c) \/ Plan(c) \/ AuditOutcome(c) \/ AuditSuccess(c)
             \/ AuditFailure(c) \/ Show(c)
    <3>1. pc' = [pc EXCEPT ![c] = "over"] /\ pc[c] \notin {"idle", "over", "gone"}
      BY <2>3 DEF Deny, Invalid, Reject, Plan, AuditOutcome, AuditSuccess, AuditFailure, Show,
         Conclude, Goto
    <3>2. Moved(pc[c], "over")
      BY <3>1 DEF Running, Executed
    <3> QED
      BY <2>1, <3>1, <3>2
  <2>4. CASE CreateTrackingJob(c) \/ AuditStart(c) \/ UpdateJob(c) \/ UpdateDeployment(c)
    <3>1. PICK q \in Running :
            /\ pc' = [pc EXCEPT ![c] = q] \/ Proceed(c, q)
            /\ pc[c] \in Executed => q \in Executed
      BY <2>4 DEF CreateTrackingJob, AuditStart, UpdateJob, UpdateDeployment, Goto, Running, Executed
    <3>2. pc[c] \in Running
      BY <2>4 DEF CreateTrackingJob, AuditStart, UpdateJob, UpdateDeployment, Running
    <3>3. Moved(pc[c], q) /\ q \in Awaits /\ pc[c] \notin {"idle", "over", "gone", "tenant"}
      BY <3>1, <3>2 DEF Running, Awaits
    <3> QED
      BY <2>0, <2>1, <3>1, <3>3
  <2>5. CASE RequestTenant(c)
    <3>1. AfterRequest(c) \in {"invalid", "tenant", "override", "reject"}
      BY DEF AfterRequest
    <3>2. pc' = [pc EXCEPT ![c] = AfterRequest(c)] /\ pc[c] = "requested"
      BY <2>5 DEF RequestTenant, Goto
    <3>3. Moved(pc[c], AfterRequest(c))
      BY <3>1, <3>2 DEF Running, Executed
    <3> QED
      BY <2>1, <3>2, <3>3
  <2>6. CASE AuditOverride(c) \/ RefuseTenant(c) \/ List(c) \/ Listed(c) \/ Report(c)
    <3>1. PICK q \in {"over", "tenant", "success", "failure", "listed", "answer", "auth"} :
            pc' = [pc EXCEPT ![c] = q]
      BY <2>6 DEF AuditOverride, RefuseTenant, List, Listed, Report, Conclude, Goto
    <3>2. pc[c] \in {"override", "tenant", "list", "listed", "report"}
      BY <2>6 DEF AuditOverride, RefuseTenant, List, Listed, Report
    <3>3. Moved(pc[c], q)
      BY <3>1, <3>2 DEF Running, Executed
    <3> QED
      BY <2>1, <3>1, <3>3
  <2>7. CASE CreateJob(c) \/ CreateTenant(c) \/ Fail(c)
    <3>1. (\A d \in Calls : d # c => pc'[d] = pc[d]) /\ pc'[c] \in {"over", "reload", "success", "failure"}
      <4>1. CASE CreateJob(c)
        <5>1. \/ pc' = [pc EXCEPT ![c] = "over"] \/ Proceed(c, "reload") \/ (Fault /\ Break(c))
          <6>1. Kind(c) = "job" /\ Conclude(c, "ok") => pc' = [pc EXCEPT ![c] = "over"]
            BY DEF Conclude, Goto
          <6> QED
            BY <4>1, <6>1 DEF CreateJob
        <5>2. CASE pc' = [pc EXCEPT ![c] = "over"]
          BY <1>1, <5>2 DEF CallsTyped
        <5>3. CASE Proceed(c, "reload")
          BY <5>3, Proceeds DEF Awaits
        <5>4. CASE Fault /\ Break(c)
          BY <5>4, Breaks
        <5> QED
          BY <5>1, <5>2, <5>3, <5>4
      <4>2. CASE CreateTenant(c)
        BY <4>2, Proceeds DEF CreateTenant, Awaits
      <4>3. CASE Fail(c)
        BY <4>3, Breaks DEF Fail
      <4> QED
        BY <2>7, <4>1, <4>2, <4>3
    <3>2. /\ pc[c] \in Accesses
          /\ pc'[c] \in {"reload", "success", "failure"} => pc[c] \in {"create", "tenant"}
      <4>1. CASE CreateJob(c) \/ CreateTenant(c)
        BY <4>1 DEF CreateJob, CreateTenant, Accesses
      <4>2. CASE Fail(c)
        BY <4>2, Breaks DEF Fail
      <4> QED
        BY <2>7, <4>1, <4>2
    <3>3. Moved(pc[c], pc'[c])
      BY <3>1, <3>2 DEF Running, Executed, Accesses
    <3> QED
      BY <3>1, <3>3
  <2> QED
    BY <2>2, <2>3, <2>4, <2>5, <2>6, <2>7
<1>6. ASSUME NEW d \in Calls
      PROVE  /\ deployment'[d] = deployment[d] \/
                  /\ deployment[d] # None /\ deployment'[d] # None
                  /\ deployment'[d].target = deployment[d].target
                  /\ deployment'[d].version = deployment[d].version
             /\ work'[d].command = work[d].command
             /\ UnderWay(d)' => UnderWay(d)
             /\ pc'[d] \in Running => pc[d] \in Running
             /\ pc[d] \in Executed => pc'[d] \in Executed
             /\ pc'[d] = "deployment" => pc[d] = "deployment" \/ Deploys(d)
  <2>1. CASE d = c
    BY <1>3, <1>4, <1>5, <2>1 DEF UnderWay
  <2>2. CASE d # c
    BY <1>3, <1>4, <1>5, <2>2 DEF UnderWay
  <2> QED
    BY <2>1, <2>2
<1> QED
  BY <1>2, <1>6, Aside

LEMMA InitRuns ==
  Init => Runs
BY DEF Init, Runs, RecordsFit, Alone, Latest, InForce, UnderWay, Running, Idle, Of, Newest

LEMMA StepRuns ==
  Inv /\ Runs /\ [Next]_vars => Runs'
<1> SUFFICES ASSUME Inv, Runs, [Next]_vars PROVE Runs'
  OBVIOUS
<1>1. CASE Crash
  BY <1>1, CrashRuns
<1>2. CASE Tick \/ UNCHANGED vars
  <2>1. /\ UNCHANGED <<deployed, running, req, contended>>
        /\ deployment' = deployment /\ work' = work /\ pc' = pc
    BY <1>2 DEF Tick, vars, store, history
  <2>2. \A c \in Calls : UnderWay(c)' => UnderWay(c)
    BY <2>1 DEF UnderWay
  <2> QED
    BY <2>1, <2>2, Aside
<1>3. ASSUME NEW c \in Calls,
             \/ Begin(c) \/ Authorize(c) \/ Deny(c) \/ Invalid(c) \/ Reject(c)
             \/ Plan(c) \/ CreateDeployment(c) \/ CreateTrackingJob(c) \/ AuditStart(c) \/ Exec(c)
             \/ UpdateJob(c) \/ UpdateDeployment(c) \/ AuditOutcome(c)
             \/ CreateJob(c)
             \/ RequestTenant(c) \/ AuditOverride(c) \/ CreateTenant(c) \/ RefuseTenant(c)
             \/ AuditSuccess(c) \/ AuditFailure(c)
             \/ List(c) \/ Listed(c) \/ Show(c) \/ Report(c) \/ Fail(c)
      PROVE  Runs'
  BY <1>3, BeginRuns, CreateDeploymentRuns, ExecRuns, OtherRuns
<1> QED
  BY <1>1, <1>2, <1>3 DEF Next

(* On a target its deployments were answered on, one after the other and   *)
(* each with a playbook, the newest record tells the version that runs, if *)
(* it is Healthy (app/api/deployments/route.ts).                           *)
THEOREM NewestInForce ==
  Spec => []NewestRuns
<1>1. ASSUME Inv, Runs, NEW t \in Targets \ contended,
             Of(t) # {},
             \A k \in Of(t) : result[deployed[k]] = "ok" /\ work[deployed[k]].command # "skipped",
             deployment[FirstOf(deployed, Of(t))].status = "Healthy"
      PROVE  running[t] = deployment[FirstOf(deployed, Of(t))].version
  <2>1. Of(t) \subseteq Nat
    BY <1>1, DeployedFacts DEF Of
  <2>2. PICK k \in Of(t) : FirstOf(deployed, Of(t)) = deployed[k] /\ \A j \in Of(t) : k <= j
    BY <1>1, <2>1, FirstFacts
  <2> DEFINE n == deployed[k]
  <2>3. n \in Calls /\ deployment[n] # None
    BY <1>1, DeployedFacts DEF Of
  <2>4. Succeeded(n)
    BY <1>1, <2>2, <2>3 DEF Inv, Local, Recorded, Told, DeploymentStatus
  <2>5. work[n].command = "ok"
    BY <1>1, <2>4 DEF Succeeded
  <2> QED
    BY <1>1, <2>2, <2>5 DEF Runs, InForce, Newest
<1>2. Inv /\ Runs => NewestRuns
  BY <1>1 DEF NewestRuns, Of
<1> QED
  BY <1>2, InitInv, StepInv, InitRuns, StepRuns, PTL DEF Spec
=============================================================================
