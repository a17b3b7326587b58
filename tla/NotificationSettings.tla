------------------------ MODULE NotificationSettings ------------------------
(***************************************************************************)
(* The notification configuration as data (lib/notification-config.ts):    *)
(* its shape and defaults, how input of any type is made to fit, how its   *)
(* two secrets are sealed for storage and masked for answers, and how a    *)
(* patch is merged over the current configuration.                         *)
(*                                                                         *)
(* A secret is a text under zero or more layers of encryption, and one     *)
(* that is typed may have blanks around it.  Host, sender and addresses    *)
(* are names, without blanks around them.  SMTP user and the TLS flag,     *)
(* which nothing here depends on, are left out.                            *)
(***************************************************************************)
EXTENDS Naturals, Sequences

CONSTANTS
  Texts,      \* texts of secrets; "" and the mask are among them
  Padded,     \* texts with blanks around them
  Trimmed,    \* Trimmed[t]: the padded text t without them
  Keys,       \* encryption keys
  NoKey,      \* no usable key in the environment
  Names,      \* host names and senders; "" is among them
  Addresses,  \* mail addresses
  Groups,     \* names of recipient groups
  Junk        \* undefined, or a value of a type the field does not have

MASK == "********"

ASSUME TextsAssumption == {"", MASK} \subseteq Texts
ASSUME PaddedAssumption == Padded \intersect Texts = {} /\ Trimmed \in [Padded -> Texts]
ASSUME KeysAssumption == NoKey \notin Keys
ASSUME NamesAssumption == "" \in Names
ASSUME GroupsAssumption == "" \notin Groups

Severities == {"info", "warning", "critical"}
Reasons == {"authAlerts", "testAlerts"}

Secret == [text : Texts, sealed : Seq(Keys)]
Plain(t) == [text |-> t, sealed |-> <<>>]
Blank == Plain("")
Masked == Plain(MASK)

\* Secrets as they are typed, with blanks around them.
Untrimmed == {Plain(t) : t \in Padded}

Toggles == [Reasons -> BOOLEAN]
Routing == [Severities -> BOOLEAN]

TeamsConfig ==
  [enabled : BOOLEAN, webhookUrl : Secret, routes : Toggles, bySeverity : Routing]

Ports == 1..65535
RecipientLists == SUBSET Addresses
RecipientGroups == UNION {[G -> RecipientLists] : G \in SUBSET Groups}
GroupMaps == UNION {[S -> Groups \union {""}] : S \in SUBSET Severities}

EmailConfig ==
  [enabled : BOOLEAN, smtpHost : Names, smtpPort : Ports, smtpPass : Secret,
   from : Names, to : RecipientLists, routes : Toggles, bySeverity : Routing,
   recipientGroups : RecipientGroups, severityGroupMap : GroupMaps]

Config == [teams : TeamsConfig, email : EmailConfig]

ASSUME JunkAssumption ==
  /\ Junk \notin BOOLEAN /\ Junk \notin Secret \union Untrimmed /\ Junk \notin Ports
  /\ Junk \notin Names /\ Junk \notin Groups /\ \A r \in RecipientLists : r # Junk

AllOn(S) == [x \in S |-> TRUE]

Default ==
  [teams |-> [enabled |-> FALSE, webhookUrl |-> Blank,
              routes |-> AllOn(Reasons), bySeverity |-> AllOn(Severities)],
   email |-> [enabled |-> FALSE, smtpHost |-> "", smtpPort |-> 587, smtpPass |-> Blank,
              from |-> "", to |-> {},
              routes |-> AllOn(Reasons), bySeverity |-> AllOn(Severities),
              recipientGroups |-> <<>>, severityGroupMap |-> <<>>]]

----------------------------------------------------------------------------
(* Input of any type.                                                      *)

\* The fields of patch over those of old: { ...old, ...patch }.
Over(patch, old) ==
  [f \in DOMAIN patch \union DOMAIN old |->
     IF f \in DOMAIN patch THEN patch[f] ELSE old[f]]

Field(r, f) == IF f \in DOMAIN r THEN r[f] ELSE Junk

Fit(v, S, fallback) == IF v # Junk /\ v \in S THEN v ELSE fallback

\* toStringSafe, of a secret: without the blanks around it.
FitSecret(v) ==
  IF v # Junk /\ v \in Untrimmed THEN Plain(Trimmed[v.text]) ELSE Fit(v, Secret, Blank)

ToBools(r, S) == [x \in S |-> Fit(Field(r, x), BOOLEAN, TRUE)]

SanitizeTeams(t) ==
  [enabled    |-> Fit(t.enabled, BOOLEAN, FALSE),
   webhookUrl |-> FitSecret(t.webhookUrl),
   routes     |-> ToBools(t.routes, Reasons),
   bySeverity |-> ToBools(t.bySeverity, Severities)]

SanitizeEmail(e) ==
  [enabled    |-> Fit(e.enabled, BOOLEAN, FALSE),
   smtpHost   |-> Fit(e.smtpHost, Names, ""),
   smtpPort   |-> Fit(e.smtpPort, Ports, 587),
   smtpPass   |-> FitSecret(e.smtpPass),
   from       |-> Fit(e.from, Names, ""),
   to         |-> Fit(e.to, RecipientLists, {}),
   routes     |-> ToBools(e.routes, Reasons),
   bySeverity |-> ToBools(e.bySeverity, Severities),
   recipientGroups |->
     [g \in DOMAIN e.recipientGroups \intersect Groups |->
        Fit(e.recipientGroups[g], RecipientLists, {})],
   severityGroupMap |->
     [s \in Severities |-> Fit(Field(e.severityGroupMap, s), Groups, "")]]

Sanitize(c) == [teams |-> SanitizeTeams(c.teams), email |-> SanitizeEmail(c.email)]

----------------------------------------------------------------------------
(* Secrets.                                                                *)

\* encryptField: an empty value stays empty, and without a key nothing is sealed.
Seal(v, key) ==
  IF v = Blank \/ key = NoKey THEN v ELSE [v EXCEPT !.sealed = <<key>> \o @]

\* decryptField: a value that is not sealed, or not under this key, comes back as it is.
Unseal(v, key) ==
  IF v.sealed = <<>> \/ key = NoKey \/ Head(v.sealed) # key
  THEN v ELSE [v EXCEPT !.sealed = Tail(@)]

\* Faulty variant, which no specification uses: a secret is left out, not masked.
MaskBlank(v) == Blank

Mask(v) == IF v = Blank THEN Blank ELSE Masked

SealConfig(c, key) ==
  [teams |-> [c.teams EXCEPT !.webhookUrl = Seal(@, key)],
   email |-> [c.email EXCEPT !.smtpPass = Seal(@, key)]]

UnsealConfig(c, key) ==
  [teams |-> [c.teams EXCEPT !.webhookUrl = Unseal(@, key)],
   email |-> [c.email EXCEPT !.smtpPass = Unseal(@, key)]]

\* maskNotificationConfig
MaskConfig(c) ==
  [teams |-> [c.teams EXCEPT !.webhookUrl = Mask(@)],
   email |-> [c.email EXCEPT !.smtpPass = Mask(@)]]

----------------------------------------------------------------------------
(* The merge of updateNotificationConfig.  A patch has some of the fields  *)
(* of a channel, and some of the entries of those that hold entries.       *)

Nested(p, f) == IF f \in DOMAIN p THEN p[f] ELSE <<>>

\* Faulty variant, which no specification uses: the mask is taken for a secret.
UnmaskedNever(p, f, old, new) == new

\* A secret sent as the mask is the current one.  What was sent is compared
\* as it is: the mask with a blank beside it is another text.
Unmasked(p, f, old, new) == IF f \in DOMAIN p /\ p[f] = Masked THEN old ELSE new

\* Faulty variant, which no specification uses: the entries a patch leaves
\* out go back to their defaults.
UpdateTeamsFlat(old, p) ==
  LET t == SanitizeTeams(Over(p, old))
  IN  [t EXCEPT !.webhookUrl = Unmasked(p, "webhookUrl", old.webhookUrl, @)]

UpdateTeams(old, p) ==
  LET t == SanitizeTeams(Over(p, old))
  IN  [t EXCEPT !.routes = Over(Nested(p, "routes"), old.routes),
                !.bySeverity = Over(Nested(p, "bySeverity"), old.bySeverity),
                !.webhookUrl = Unmasked(p, "webhookUrl", old.webhookUrl, @)]

UpdateEmail(old, p) ==
  LET e == SanitizeEmail(Over(p, old))
  IN  [e EXCEPT !.routes = Over(Nested(p, "routes"), old.routes),
                !.bySeverity = Over(Nested(p, "bySeverity"), old.bySeverity),
                !.recipientGroups = Over(Nested(p, "recipientGroups"), old.recipientGroups),
                !.severityGroupMap = Over(Nested(p, "severityGroupMap"), old.severityGroupMap),
                !.smtpPass = Unmasked(p, "smtpPass", old.smtpPass, @)]

Update(old, p) ==
  [teams |-> UpdateTeams(old.teams, p.teams), email |-> UpdateEmail(old.email, p.email)]
=============================================================================
