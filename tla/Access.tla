------------------------------- MODULE Access -------------------------------
(***************************************************************************)
(* Who may call what, as data: the trusted tokens in the environment and   *)
(* how they are parsed and expire (lib/auth-core.ts), the roles of a JWT's *)
(* claims (lib/jwt-oidc.ts), the role each operation asks for              *)
(* (lib/rbac-policy.ts), and the two summaries of expiring tokens          *)
(* (lib/auth-core.ts, lib/token-rotation.ts).                              *)
(*                                                                         *)
(* Time is in days.  Tokens, users and roles have no blanks around them.   *)
(* Signature, issuer and audience of a JWT are checked by the library jose:*)
(* a credential says whether its claims verify.                            *)
(***************************************************************************)
EXTENDS Naturals, Sequences, FiniteSets

CONSTANTS
  Tokens,    \* token values
  NoToken,   \* no bearer token in the request
  Junk,      \* missing, or a value of a type or form the field does not have
  Never      \* a token without an expiry

Roles == {"readonly", "technician", "admin"}
Modes == {"trusted-bearer", "jwt", "vault", "dev-header"}

ASSUME TokensAssumption == {NoToken, Junk} \intersect Tokens = {} /\ NoToken # Junk
ASSUME JunkAssumption == Junk \notin Roles \union Modes \union Nat
ASSUME NeverAssumption == Never \notin {Junk} \union Nat

Rank == [readonly |-> 1, technician |-> 2, admin |-> 3]

HasMinimumRole(role, minimum) == Rank[role] >= Rank[minimum]

\* RBAC_POLICY, for the operations of Records.
RequiredRole ==
  [deploy |-> "technician", job |-> "technician", tenant |-> "technician",
   provision |-> "technician", jobs |-> "readonly",
   health |-> "admin", rotate |-> "admin", simulate |-> "admin"]

Operations == DOMAIN RequiredRole

----------------------------------------------------------------------------
(* Trusted tokens.  A raw entry is what WEBAPP_TRUSTED_TOKENS_JSON lists.  *)

RawEntries ==
  [token : Tokens \union {Junk}, user : BOOLEAN, role : Roles \union {Junk},
   expiresAt : {Never, Junk} \union Nat]

NormalizeRole(r) == IF r \in Roles THEN r ELSE "technician"

\* parseTrustedTokensJson: entries without token or user, or with an expiry
\* that is no time, are dropped.
Parsable(e) == e.token # Junk /\ e.user /\ e.expiresAt # Junk

Parse(raw) ==
  [i \in {i \in DOMAIN raw : Parsable(raw[i])} |-> [raw[i] EXCEPT !.role = NormalizeRole(@)]]

\* Faulty variant, which no specification uses: valid through the day of expiry.
ExpiredLate(expiresAt, now) == expiresAt # Never /\ expiresAt < now

Expired(expiresAt, now) == expiresAt # Never /\ expiresAt <= now

\* Faulty variant, which no specification uses: the last day is left out.
ExpiringSoonShort(expiresAt, days, now) ==
  expiresAt # Never /\ ~Expired(expiresAt, now) /\ expiresAt < now + days

ExpiringSoon(expiresAt, days, now) ==
  expiresAt # Never /\ ~Expired(expiresAt, now) /\ expiresAt <= now + days

WarningDays(raw) == IF raw = Junk THEN 14 ELSE raw

\* The summary of tokens with the expiries es.
Counted(es, days, now) ==
  LET gone == {i \in DOMAIN es : Expired(es[i], now)}
      soon == {i \in DOMAIN es : ExpiringSoon(es[i], days, now)}
  IN  [total |-> Cardinality(DOMAIN es), expired |-> Cardinality(gone),
       active |-> Cardinality(DOMAIN es) - Cardinality(gone),
       expiringSoon |-> Cardinality(soon), warningDays |-> days]

Expiries(entries) == [i \in DOMAIN entries |-> entries[i].expiresAt]

\* getTrustedTokenHealthSummary
HealthSummary(raw, days, now) == Counted(Expiries(Parse(raw)), days, now)

----------------------------------------------------------------------------
(* Rotation: a simulation is sent the metadata of tokens.                  *)

\* parseTokenMetadata: an expiry and a known role are required.
ValidMetadata(m) == m.user /\ m.role # Junk /\ m.expiresAt \notin {Never, Junk}

\* computeRotationImpactSummary
ImpactSummary(metadata, days, now) == Counted(Expiries(metadata), days, now)

----------------------------------------------------------------------------
(* The caller of a request.  A credential is a bearer token, the role the  *)
(* x-user-role header names, and the claims of the token read as a JWT.    *)

Claims ==
  [verified : BOOLEAN, roles : Seq(Roles \union {Junk}), role : Roles \union {Junk},
   groups : Seq(Roles \union {Junk})]

Credentials ==
  [token : Tokens \union {NoToken}, header : Roles \union {Junk}, claims : Claims]

Environments ==
  [mode : Modes \union {Junk}, dev : BOOLEAN, oidc : BOOLEAN,
   tokens : Seq(RawEntries), warning : {Junk} \union Nat]

\* The first element of s whose index is in I.
FirstOf(s, I) == s[CHOOSE i \in I : \A j \in I : i <= j]

\* extractRoleFromClaims: roles, then role, then groups; the first that names a role.
ClaimedRole(claims) ==
  LET listed == claims.roles \o <<claims.role>> \o claims.groups
      named  == {i \in DOMAIN listed : listed[i] \in Roles}
  IN  IF named = {} THEN "readonly" ELSE FirstOf(listed, named)

Nobody == "nobody"

\* getAuthContextFromJwt
JwtRole(env, credential) ==
  IF credential.token # NoToken /\ env.oidc /\ credential.claims.verified
  THEN ClaimedRole(credential.claims) ELSE Nobody

\* getAuthContextFromTrustedBearer: the first entry with the token decides.
TrustedRole(raw, token, now) ==
  LET entries == Parse(raw)
      matches == {i \in DOMAIN entries : entries[i].token = token}
  IN  IF matches = {} \/ Expired(FirstOf(entries, matches).expiresAt, now) THEN Nobody
      ELSE FirstOf(entries, matches).role

\* resolveAuthMode: an unknown mode, or dev-header where it is not enabled, is trusted-bearer.
ResolveMode(env) ==
  IF env.mode \in {"jwt", "vault"} \/ (env.mode = "dev-header" /\ env.dev)
  THEN env.mode ELSE "trusted-bearer"

\* getAuthContextFromRequestAsync
CallerRole(env, credential, now) ==
  CASE ResolveMode(env) = "trusted-bearer" -> TrustedRole(env.tokens, credential.token, now)
    [] ResolveMode(env) = "jwt" -> JwtRole(env, credential)
    [] OTHER -> NormalizeRole(credential.header)

\* requireProtectedOperation
May(role, operation) == role # Nobody /\ HasMinimumRole(role, RequiredRole[operation])
=============================================================================
