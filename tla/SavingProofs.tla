---------------------------- MODULE SavingProofs ----------------------------
(***************************************************************************)
(* Proofs about saves of the notification configuration that no other save *)
(* overlaps: what is stored afterwards is what was asked for, field by     *)
(* field, and a page that shows what is stored changes only what its user  *)
(* edited.                                                                 *)
(***************************************************************************)
EXTENDS AlertsProofs

----------------------------------------------------------------------------
(* Fields of configurations.                                               *)

Unnamed == ""
Bools == BOOLEAN
On == TRUE
Fields(ch) == DOMAIN Default[ch]
EntryFields == {"routes", "bySeverity", "recipientGroups", "severityGroupMap"}

\* What entries named S are made of r, and the groups made of r.
Entries(r, S, values, fallback) == [x \in S |-> Fit(Field(r, x), values, fallback)]
GroupsIn(r) == [g \in DOMAIN r \intersect Groups |-> Fit(r[g], RecipientLists, {})]

\* What is made of the value v of a field f.
Made(f, v) ==
  CASE f = "enabled" -> Fit(v, BOOLEAN, FALSE)
    [] f \in SecretFields -> FitSecret(v)
    [] f = "smtpHost" -> Fit(v, Names, Unnamed)
    [] f = "from" -> Fit(v, Names, Unnamed)
    [] f = "smtpPort" -> Fit(v, Ports, 587)
    [] f = "to" -> Fit(v, RecipientLists, {})
    [] f = "routes" -> Entries(v, Reasons, Bools, On)
    [] f = "bySeverity" -> Entries(v, Severities, Bools, On)
    [] f = "recipientGroups" -> GroupsIn(v)
    [] f = "severityGroupMap" -> Entries(v, Severities, Groups, Unnamed)

Entire(x) == DOMAIN x = {"teams", "email"} /\ \A ch \in Channels : DOMAIN x[ch] = Fields(ch)

LEMMA FieldNames ==
  /\ Channels = {"teams", "email"}
  /\ Fields("teams") = {"enabled", "webhookUrl", "routes", "bySeverity"}
  /\ Fields("email") = {"enabled", "smtpHost", "smtpPort", "smtpPass", "from", "to", "routes",
                        "bySeverity", "recipientGroups", "severityGroupMap"}
BY DEF Channels, Fields, Default

PlainFields == {"enabled", "smtpHost", "from", "smtpPort", "to"}

LEMMA MadeEnabled ==
  ASSUME NEW v
  PROVE  Made("enabled", v) = Fit(v, BOOLEAN, FALSE)
BY DEF Made, SecretFields

LEMMA MadeName ==
  ASSUME NEW f \in {"smtpHost", "from"}, NEW v
  PROVE  Made(f, v) = Fit(v, Names, Unnamed)
BY DEF Made, SecretFields

LEMMA MadeOther ==
  ASSUME NEW v
  PROVE  /\ Made("smtpPort", v) = Fit(v, Ports, 587)
         /\ Made("to", v) = Fit(v, RecipientLists, {})
BY DEF Made, SecretFields

LEMMA MadeSecret ==
  ASSUME NEW f \in SecretFields, NEW v
  PROVE  Made(f, v) = FitSecret(v)
BY DEF Made, SecretFields

LEMMA MadeEntries ==
  ASSUME NEW v
  PROVE  /\ Made("routes", v) = Entries(v, Reasons, Bools, On)
         /\ Made("bySeverity", v) = Entries(v, Severities, Bools, On)
         /\ Made("severityGroupMap", v) = Entries(v, Severities, Groups, Unnamed)
         /\ Made("recipientGroups", v) = GroupsIn(v)
BY DEF Made, SecretFields

LEMMA FitStays ==
  ASSUME NEW v, NEW S, NEW fallback
  PROVE  Fit(Fit(v, S, fallback), S, fallback) = Fit(v, S, fallback)
BY DEF Fit

LEMMA FitTyped ==
  ASSUME NEW S, NEW v \in S, NEW fallback, v # Junk
  PROVE  Fit(v, S, fallback) = v
BY DEF Fit

LEMMA SecretStays ==
  ASSUME NEW f \in SecretFields, NEW v \in Secret
  PROVE  Made(f, v) = v
BY MadeSecret, SecretTrimmed

LEMMA EntriesStay ==
  ASSUME NEW r, NEW S, NEW values, NEW fallback
  PROVE  Entries(Entries(r, S, values, fallback), S, values, fallback)
           = Entries(r, S, values, fallback)
<1> DEFINE e == Entries(r, S, values, fallback)
<1>1. DOMAIN e = S /\ \A x \in S : e[x] = Fit(Field(r, x), values, fallback)
  BY DEF Entries
<1>2. \A x \in S : Fit(Field(e, x), values, fallback) = Fit(Field(r, x), values, fallback)
  BY <1>1, FitStays DEF Field
<1> HIDE DEF e
<1>3. Entries(e, S, values, fallback) = Entries(r, S, values, fallback)
  BY <1>2 DEF Entries
<1> QED
  BY <1>3 DEF e

LEMMA GroupsStay ==
  ASSUME NEW r
  PROVE  GroupsIn(GroupsIn(r)) = GroupsIn(r)
<1> DEFINE e == GroupsIn(r)
<1>1. DOMAIN e = DOMAIN r \intersect Groups
      /\ \A g \in DOMAIN r \intersect Groups : e[g] = Fit(r[g], RecipientLists, {})
  BY DEF GroupsIn
<1>2. DOMAIN e \intersect Groups = DOMAIN r \intersect Groups
  BY <1>1
<1>3. \A g \in DOMAIN r \intersect Groups :
        Fit(e[g], RecipientLists, {}) = Fit(r[g], RecipientLists, {})
  BY <1>1, FitStays
<1> HIDE DEF e
<1>4. GroupsIn(e) = GroupsIn(r)
  BY <1>2, <1>3 DEF GroupsIn
<1> QED
  BY <1>4 DEF e

\* Making a value fit twice is making it fit once.
LEMMA MadeStays ==
  ASSUME NEW ch \in Channels, NEW f \in Fields(ch), NEW v
  PROVE  Made(f, Made(f, v)) = Made(f, v)
<1>1. f \in PlainFields \union SecretFields \union EntryFields
  BY FieldNames DEF PlainFields, SecretFields, EntryFields
<1> DEFINE w == Made(f, v)
<1>2. CASE f = "enabled"
  <2>1. w = Fit(v, BOOLEAN, FALSE) /\ Made(f, w) = Fit(w, BOOLEAN, FALSE)
    BY <1>2, MadeEnabled
  <2> QED
    BY <2>1, FitStays
<1>3. CASE f = "smtpHost"
  <2>1. w = Fit(v, Names, Unnamed) /\ Made(f, w) = Fit(w, Names, Unnamed)
    BY <1>3, MadeName
  <2> QED
    BY <2>1, FitStays
<1>11. CASE f = "from"
  <2>1. w = Fit(v, Names, Unnamed) /\ Made(f, w) = Fit(w, Names, Unnamed)
    BY <1>11, MadeName
  <2> QED
    BY <2>1, FitStays
<1>4. CASE f = "smtpPort"
  <2>1. w = Fit(v, Ports, 587) /\ Made(f, w) = Fit(w, Ports, 587)
    BY <1>4, MadeOther
  <2> QED
    BY <2>1, FitStays
<1>5. CASE f = "to"
  <2>1. w = Fit(v, RecipientLists, {}) /\ Made(f, w) = Fit(w, RecipientLists, {})
    BY <1>5, MadeOther
  <2> QED
    BY <2>1, FitStays
<1>6. CASE f \in SecretFields
  <2>1. w = FitSecret(v) /\ Made(f, w) = FitSecret(w)
    BY <1>6, MadeSecret
  <2> QED
    BY <2>1, FitSecretType
<1>7. CASE f = "recipientGroups"
  <2>1. w = GroupsIn(v) /\ Made(f, w) = GroupsIn(w)
    BY <1>7, MadeEntries
  <2> QED
    BY <2>1, GroupsStay
<1>8. CASE f = "routes"
  <2>1. w = Entries(v, Reasons, Bools, On) /\ Made(f, w) = Entries(w, Reasons, Bools, On)
    BY <1>8, MadeEntries
  <2>2. Entries(Entries(v, Reasons, Bools, On), Reasons, Bools, On) = Entries(v, Reasons, Bools, On)
    BY EntriesStay
  <2> QED
    BY <2>1, <2>2
<1>9. CASE f = "bySeverity"
  <2>1. w = Entries(v, Severities, Bools, On)
        /\ Made(f, w) = Entries(w, Severities, Bools, On)
    BY <1>9, MadeEntries
  <2>2. Entries(Entries(v, Severities, Bools, On), Severities, Bools, On) = Entries(v, Severities, Bools, On)
    BY EntriesStay
  <2> QED
    BY <2>1, <2>2
<1>10. CASE f = "severityGroupMap"
  <2>1. w = Entries(v, Severities, Groups, Unnamed) /\ Made(f, w) = Entries(w, Severities, Groups, Unnamed)
    BY <1>10, MadeEntries
  <2>2. Entries(Entries(v, Severities, Groups, Unnamed), Severities, Groups, Unnamed) = Entries(v, Severities, Groups, Unnamed)
    BY EntriesStay
  <2> QED
    BY <2>1, <2>2
<1> QED
  BY <1>1, <1>2, <1>3, <1>4, <1>5, <1>6, <1>7, <1>8, <1>9, <1>10, <1>11 DEF PlainFields, EntryFields

\* What is made of a channel, field by field.
LEMMA TeamsMade ==
  ASSUME NEW t
  PROVE  /\ DOMAIN SanitizeTeams(t) = Fields("teams")
         /\ \A f \in Fields("teams") : SanitizeTeams(t)[f] = Made(f, t[f])
<1>1. DOMAIN SanitizeTeams(t) = Fields("teams")
  BY FieldNames DEF SanitizeTeams
<1>2. SanitizeTeams(t)["enabled"] = Made("enabled", t["enabled"])
  <2>1. SanitizeTeams(t)["enabled"] = Fit(t["enabled"], BOOLEAN, FALSE)
    BY DEF SanitizeTeams
  <2> QED
    BY <2>1, MadeEnabled
<1>4. SanitizeTeams(t)["webhookUrl"] = Made("webhookUrl", t["webhookUrl"])
  <2>1. SanitizeTeams(t)["webhookUrl"] = FitSecret(t["webhookUrl"])
    BY DEF SanitizeTeams
  <2> QED
    BY <2>1, MadeSecret DEF SecretFields
<1>3. /\ SanitizeTeams(t)["routes"] = Entries(t["routes"], Reasons, Bools, On)
      /\ SanitizeTeams(t)["bySeverity"] = Entries(t["bySeverity"], Severities, Bools, On)
  BY DEF SanitizeTeams, ToBools, Entries, Bools, On
<1>5. \A f \in {"routes", "bySeverity"} : SanitizeTeams(t)[f] = Made(f, t[f])
  BY <1>3, MadeEntries
<1> QED
  BY <1>1, <1>2, <1>4, <1>5, FieldNames

LEMMA EmailMade ==
  ASSUME NEW e
  PROVE  /\ DOMAIN SanitizeEmail(e) = Fields("email")
         /\ \A f \in Fields("email") : SanitizeEmail(e)[f] = Made(f, e[f])
<1>1. DOMAIN SanitizeEmail(e) = Fields("email")
  BY FieldNames DEF SanitizeEmail
<1>2. SanitizeEmail(e)["enabled"] = Fit(e["enabled"], BOOLEAN, FALSE)
  BY DEF SanitizeEmail
<1>8. /\ SanitizeEmail(e)["smtpHost"] = Fit(e["smtpHost"], Names, Unnamed)
      /\ SanitizeEmail(e)["from"] = Fit(e["from"], Names, Unnamed)
  BY DEF SanitizeEmail, Unnamed
<1>9. /\ SanitizeEmail(e)["smtpPort"] = Fit(e["smtpPort"], Ports, 587)
      /\ SanitizeEmail(e)["to"] = Fit(e["to"], RecipientLists, {})
      /\ SanitizeEmail(e)["smtpPass"] = FitSecret(e["smtpPass"])
  BY DEF SanitizeEmail
<1>3. /\ SanitizeEmail(e)["routes"] = Entries(e["routes"], Reasons, Bools, On)
      /\ SanitizeEmail(e)["bySeverity"] = Entries(e["bySeverity"], Severities, Bools, On)
      /\ SanitizeEmail(e)["recipientGroups"] = GroupsIn(e["recipientGroups"])
      /\ SanitizeEmail(e)["severityGroupMap"]
           = Entries(e["severityGroupMap"], Severities, Groups, Unnamed)
  BY DEF SanitizeEmail, ToBools, Entries, GroupsIn, Bools, On, Unnamed
<1>4. SanitizeEmail(e)["enabled"] = Made("enabled", e["enabled"])
  BY <1>2, MadeEnabled
<1>7. \A f \in {"smtpHost", "from"} : SanitizeEmail(e)[f] = Made(f, e[f])
  BY <1>8, MadeName
<1>10. \A f \in {"smtpPort", "to"} : SanitizeEmail(e)[f] = Made(f, e[f])
  BY <1>9, MadeOther
<1>6. SanitizeEmail(e)["smtpPass"] = Made("smtpPass", e["smtpPass"])
  BY <1>9, MadeSecret DEF SecretFields
<1>5. \A f \in EntryFields : SanitizeEmail(e)[f] = Made(f, e[f])
  BY <1>3, MadeEntries DEF EntryFields
<1> QED
  BY <1>1, <1>4, <1>5, <1>6, <1>7, <1>10, FieldNames DEF EntryFields

\* A sanitized configuration, field by field.
LEMMA SanitizeField ==
  ASSUME NEW c
  PROVE  /\ Entire(Sanitize(c))
         /\ \A ch \in Channels : \A f \in Fields(ch) : Sanitize(c)[ch][f] = Made(f, c[ch][f])
<1>1. DOMAIN Sanitize(c) = {"teams", "email"}
      /\ Sanitize(c).teams = SanitizeTeams(c.teams) /\ Sanitize(c).email = SanitizeEmail(c.email)
  BY DEF Sanitize
<1> QED
  BY <1>1, TeamsMade, EmailMade, FieldNames DEF Entire

\* Sealing, unsealing and masking change the secrets and nothing else.
LEMMA SecretField ==
  ASSUME NEW c, Entire(c), NEW x, DOMAIN x = {"teams", "email"},
         NEW u, x.teams = [c.teams EXCEPT !.webhookUrl = u],
         NEW v, x.email = [c.email EXCEPT !.smtpPass = v]
  PROVE  /\ Entire(x)
         /\ x.teams.webhookUrl = u /\ x.email.smtpPass = v
         /\ \A ch \in Channels : \A f \in Fields(ch) \ SecretFields : x[ch][f] = c[ch][f]
<1>1. DOMAIN c.teams = Fields("teams") /\ DOMAIN c.email = Fields("email")
  BY FieldNames DEF Entire
<1>2. DOMAIN x.teams = Fields("teams") /\ DOMAIN x.email = Fields("email")
  BY <1>1
<1>3. x.teams.webhookUrl = u /\ x.email.smtpPass = v
  BY <1>1, FieldNames
<1>4. \A f \in Fields("teams") \ SecretFields : x.teams[f] = c.teams[f]
  BY <1>1 DEF SecretFields
<1>5. \A f \in Fields("email") \ SecretFields : x.email[f] = c.email[f]
  BY <1>1 DEF SecretFields
<1> QED
  BY <1>2, <1>3, <1>4, <1>5, FieldNames DEF Entire

\* The secrets of the two channels.
LEMMA SecretNames ==
  ASSUME NEW ch \in Channels, NEW f \in Fields(ch), f \in SecretFields
  PROVE  (ch = "teams" /\ f = "webhookUrl") \/ (ch = "email" /\ f = "smtpPass")
BY FieldNames DEF SecretFields

LEMMA SealField ==
  ASSUME NEW c, Entire(c), NEW k, NEW ch \in Channels, NEW f \in Fields(ch)
  PROVE  /\ Entire(SealConfig(c, k))
         /\ SealConfig(c, k)[ch][f] = IF f \in SecretFields THEN Seal(c[ch][f], k) ELSE c[ch][f]
<1> DEFINE x == SealConfig(c, k)
<1>1. /\ DOMAIN x = {"teams", "email"}
      /\ x.teams = [c.teams EXCEPT !.webhookUrl = Seal(c.teams.webhookUrl, k)]
      /\ x.email = [c.email EXCEPT !.smtpPass = Seal(c.email.smtpPass, k)]
  BY DEF SealConfig
<1> HIDE DEF x
<1>2. /\ Entire(x)
      /\ x.teams.webhookUrl = Seal(c.teams.webhookUrl, k) /\ x.email.smtpPass = Seal(c.email.smtpPass, k)
      /\ \A d \in Channels : \A g \in Fields(d) \ SecretFields : x[d][g] = c[d][g]
  BY <1>1, SecretField
<1>3. x[ch][f] = IF f \in SecretFields THEN Seal(c[ch][f], k) ELSE c[ch][f]
  BY <1>2, SecretNames
<1> QED
  BY <1>2, <1>3 DEF x

LEMMA UnsealField ==
  ASSUME NEW c, Entire(c), NEW k, NEW ch \in Channels, NEW f \in Fields(ch)
  PROVE  /\ Entire(UnsealConfig(c, k))
         /\ UnsealConfig(c, k)[ch][f] = IF f \in SecretFields THEN Unseal(c[ch][f], k) ELSE c[ch][f]
<1> DEFINE x == UnsealConfig(c, k)
<1>1. /\ DOMAIN x = {"teams", "email"}
      /\ x.teams = [c.teams EXCEPT !.webhookUrl = Unseal(c.teams.webhookUrl, k)]
      /\ x.email = [c.email EXCEPT !.smtpPass = Unseal(c.email.smtpPass, k)]
  BY DEF UnsealConfig
<1> HIDE DEF x
<1>2. /\ Entire(x)
      /\ x.teams.webhookUrl = Unseal(c.teams.webhookUrl, k) /\ x.email.smtpPass = Unseal(c.email.smtpPass, k)
      /\ \A d \in Channels : \A g \in Fields(d) \ SecretFields : x[d][g] = c[d][g]
  BY <1>1, SecretField
<1>3. x[ch][f] = IF f \in SecretFields THEN Unseal(c[ch][f], k) ELSE c[ch][f]
  BY <1>2, SecretNames
<1> QED
  BY <1>2, <1>3 DEF x

LEMMA MaskField ==
  ASSUME NEW c, Entire(c), NEW ch \in Channels, NEW f \in Fields(ch)
  PROVE  /\ Entire(MaskConfig(c))
         /\ MaskConfig(c)[ch][f] = IF f \in SecretFields THEN Mask(c[ch][f]) ELSE c[ch][f]
<1> DEFINE x == MaskConfig(c)
<1>1. /\ DOMAIN x = {"teams", "email"}
      /\ x.teams = [c.teams EXCEPT !.webhookUrl = Mask(c.teams.webhookUrl)]
      /\ x.email = [c.email EXCEPT !.smtpPass = Mask(c.email.smtpPass)]
  BY DEF MaskConfig
<1> HIDE DEF x
<1>2. /\ Entire(x)
      /\ x.teams.webhookUrl = Mask(c.teams.webhookUrl) /\ x.email.smtpPass = Mask(c.email.smtpPass)
      /\ \A d \in Channels : \A g \in Fields(d) \ SecretFields : x[d][g] = c[d][g]
  BY <1>1, SecretField
<1>3. x[ch][f] = IF f \in SecretFields THEN Mask(c[ch][f]) ELSE c[ch][f]
  BY <1>2, SecretNames
<1> QED
  BY <1>2, <1>3 DEF x

----------------------------------------------------------------------------
(* The merge, field by field.                                              *)

LEMMA OverField ==
  ASSUME NEW p, NEW old, NEW f \in DOMAIN old
  PROVE  Over(p, old)[f] = IF f \in DOMAIN p THEN p[f] ELSE old[f]
BY DEF Over

LEMMA EntriesOver ==
  ASSUME NEW p, NEW old, NEW S, NEW values, NEW fallback,
         Entries(p, S, values, fallback) = Entries(old, S, values, fallback)
  PROVE  Entries(Over(p, old), S, values, fallback) = Entries(old, S, values, fallback)
<1>1. ASSUME NEW x \in S
      PROVE  Fit(Field(Over(p, old), x), values, fallback) = Fit(Field(old, x), values, fallback)
  <2>1. Entries(p, S, values, fallback)[x] = Fit(Field(p, x), values, fallback)
    BY DEF Entries
  <2>2. Entries(old, S, values, fallback)[x] = Fit(Field(old, x), values, fallback)
    BY DEF Entries
  <2>3. Fit(Field(p, x), values, fallback) = Fit(Field(old, x), values, fallback)
    BY <2>1, <2>2
  <2>4. CASE x \in DOMAIN p
    BY <2>3, <2>4 DEF Field, Over
  <2>5. CASE x \notin DOMAIN p
    BY <2>5 DEF Field, Over
  <2> QED
    BY <2>4, <2>5
<1> QED
  BY <1>1 DEF Entries

LEMMA GroupsOver ==
  ASSUME NEW p, NEW old, GroupsIn(p) = GroupsIn(old)
  PROVE  GroupsIn(Over(p, old)) = GroupsIn(old)
<1>1. DOMAIN p \intersect Groups = DOMAIN old \intersect Groups
  <2>1. DOMAIN GroupsIn(p) = DOMAIN p \intersect Groups
        /\ DOMAIN GroupsIn(old) = DOMAIN old \intersect Groups
    BY DEF GroupsIn
  <2> QED
    BY <2>1
<1>2. DOMAIN Over(p, old) \intersect Groups = DOMAIN old \intersect Groups
  BY <1>1 DEF Over
<1>3. ASSUME NEW g \in DOMAIN old \intersect Groups
      PROVE  Fit(Over(p, old)[g], RecipientLists, {}) = Fit(old[g], RecipientLists, {})
  <2>1. GroupsIn(p)[g] = Fit(p[g], RecipientLists, {})
    BY <1>1 DEF GroupsIn
  <2>2. GroupsIn(old)[g] = Fit(old[g], RecipientLists, {})
    BY DEF GroupsIn
  <2>3. Over(p, old)[g] = p[g]
    BY <1>1 DEF Over
  <2> QED
    BY <2>1, <2>2, <2>3
<1> QED
  BY <1>2, <1>3 DEF GroupsIn

\* What a merge makes of a field.
Merge(old, p, f) ==
  IF f \in EntryFields THEN Over(Nested(p, f), old[f])
  ELSE IF f \in SecretFields THEN Unmasked(p, f, old[f], Made(f, Over(p, old)[f]))
  ELSE Made(f, Over(p, old)[f])

LEMMA UpdateField ==
  ASSUME NEW old, NEW p
  PROVE  /\ Entire(Update(old, p))
         /\ \A ch \in Channels : \A f \in Fields(ch) :
              Update(old, p)[ch][f] = Merge(old[ch], p[ch], f)
<1>1. ASSUME NEW o, NEW q
      PROVE  /\ DOMAIN UpdateTeams(o, q) = Fields("teams")
             /\ \A f \in Fields("teams") : UpdateTeams(o, q)[f] = Merge(o, q, f)
  <2> DEFINE t == SanitizeTeams(Over(q, o))
             u == UpdateTeams(o, q)
  <2>1. DOMAIN t = Fields("teams") /\ \A f \in Fields("teams") : t[f] = Made(f, Over(q, o)[f])
    BY TeamsMade
  <2>2. u = [t EXCEPT !.routes = Over(Nested(q, "routes"), o.routes),
                      !.bySeverity = Over(Nested(q, "bySeverity"), o.bySeverity),
                      !.webhookUrl = Unmasked(q, "webhookUrl", o.webhookUrl, t.webhookUrl)]
    BY <2>1, FieldNames DEF UpdateTeams
  <2> HIDE DEF t, u
  <2>3. /\ DOMAIN u = DOMAIN t
        /\ u.routes = Over(Nested(q, "routes"), o.routes)
        /\ u.bySeverity = Over(Nested(q, "bySeverity"), o.bySeverity)
        /\ u.webhookUrl = Unmasked(q, "webhookUrl", o.webhookUrl, t.webhookUrl)
        /\ u.enabled = t.enabled
    BY <2>1, <2>2, FieldNames
  <2>4. /\ Merge(o, q, "routes") = Over(Nested(q, "routes"), o.routes)
        /\ Merge(o, q, "bySeverity") = Over(Nested(q, "bySeverity"), o.bySeverity)
        /\ Merge(o, q, "webhookUrl")
             = Unmasked(q, "webhookUrl", o.webhookUrl, Made("webhookUrl", Over(q, o).webhookUrl))
        /\ Merge(o, q, "enabled") = Made("enabled", Over(q, o).enabled)
    BY DEF Merge, EntryFields, SecretFields
  <2>5. u.enabled = Merge(o, q, "enabled") /\ u.webhookUrl = Merge(o, q, "webhookUrl")
    BY <2>1, <2>3, <2>4, FieldNames
  <2> QED
    BY <2>1, <2>3, <2>4, <2>5, FieldNames DEF u
<1>2. ASSUME NEW o, NEW q
      PROVE  /\ DOMAIN UpdateEmail(o, q) = Fields("email")
             /\ \A f \in Fields("email") : UpdateEmail(o, q)[f] = Merge(o, q, f)
  <2> DEFINE t == SanitizeEmail(Over(q, o))
             u == UpdateEmail(o, q)
  <2>1. DOMAIN t = Fields("email") /\ \A f \in Fields("email") : t[f] = Made(f, Over(q, o)[f])
    BY EmailMade
  <2>2. u = [t EXCEPT !.routes = Over(Nested(q, "routes"), o.routes),
                      !.bySeverity = Over(Nested(q, "bySeverity"), o.bySeverity),
                      !.recipientGroups = Over(Nested(q, "recipientGroups"), o.recipientGroups),
                      !.severityGroupMap = Over(Nested(q, "severityGroupMap"), o.severityGroupMap),
                      !.smtpPass = Unmasked(q, "smtpPass", o.smtpPass, t.smtpPass)]
    BY <2>1, FieldNames DEF UpdateEmail
  <2> HIDE DEF t, u
  <2>3. /\ DOMAIN u = DOMAIN t
        /\ u.routes = Over(Nested(q, "routes"), o.routes)
        /\ u.bySeverity = Over(Nested(q, "bySeverity"), o.bySeverity)
        /\ u.recipientGroups = Over(Nested(q, "recipientGroups"), o.recipientGroups)
        /\ u.severityGroupMap = Over(Nested(q, "severityGroupMap"), o.severityGroupMap)
        /\ u.smtpPass = Unmasked(q, "smtpPass", o.smtpPass, t.smtpPass)
        /\ \A f \in PlainFields : u[f] = t[f]
    BY <2>1, <2>2, FieldNames DEF PlainFields
  <2>4. /\ Merge(o, q, "routes") = Over(Nested(q, "routes"), o.routes)
        /\ Merge(o, q, "bySeverity") = Over(Nested(q, "bySeverity"), o.bySeverity)
        /\ Merge(o, q, "recipientGroups") = Over(Nested(q, "recipientGroups"), o.recipientGroups)
        /\ Merge(o, q, "severityGroupMap")
             = Over(Nested(q, "severityGroupMap"), o.severityGroupMap)
        /\ Merge(o, q, "smtpPass")
             = Unmasked(q, "smtpPass", o.smtpPass, Made("smtpPass", Over(q, o).smtpPass))
    BY DEF Merge, EntryFields, SecretFields
  <2>5. \A f \in PlainFields : Merge(o, q, f) = Made(f, Over(q, o)[f])
    BY DEF Merge, EntryFields, SecretFields, PlainFields
  <2>6. PlainFields \subseteq Fields("email")
    BY FieldNames DEF PlainFields
  <2>7. u.smtpPass = Merge(o, q, "smtpPass") /\ \A f \in PlainFields : u[f] = Merge(o, q, f)
    BY <2>1, <2>3, <2>4, <2>5, <2>6, FieldNames
  <2> QED
    BY <2>1, <2>3, <2>4, <2>7, FieldNames DEF u, PlainFields
<1>3. /\ DOMAIN Update(old, p) = {"teams", "email"}
      /\ Update(old, p).teams = UpdateTeams(old.teams, p.teams)
      /\ Update(old, p).email = UpdateEmail(old.email, p.email)
  BY DEF Update
<1> QED
  BY <1>1, <1>2, <1>3, FieldNames DEF Entire

----------------------------------------------------------------------------
(* What a merge asks for, and what it keeps.                               *)

LEMMA DefaultType == Default \in Config
<1>1. Default.teams \in TeamsConfig
  BY BlankType DEF Default, TeamsConfig, Toggles, Routing, AllOn
<1>2. <<>> \in RecipientGroups
  <2>1. <<>> \in [{} -> RecipientLists]
    OBVIOUS
  <2> QED
    BY <2>1 DEF RecipientGroups
<1>3. <<>> \in GroupMaps
  <2>1. <<>> \in [{} -> Groups \union {""}]
    OBVIOUS
  <2> QED
    BY <2>1 DEF GroupMaps
<1>4. AllOn(Reasons) \in Toggles /\ AllOn(Severities) \in Routing
  BY DEF AllOn, Toggles, Routing
<1>5. 587 \in Ports
  <2>1. 587 \in 1..65535
    OBVIOUS
  <2> QED
    BY <2>1 DEF Ports
<1>6. {} \in RecipientLists
  BY DEF RecipientLists
<1>7. Default.email \in EmailConfig
  <2> DEFINE off == FALSE
             none == ""
             port == 587
             nobody == {}
             routes == AllOn(Reasons)
             routing == AllOn(Severities)
             entries == <<>>
  <2>1. Default.email =
          [enabled |-> off, smtpHost |-> none, smtpPort |-> port, smtpPass |-> Blank,
           from |-> none, to |-> nobody, routes |-> routes, bySeverity |-> routing,
           recipientGroups |-> entries, severityGroupMap |-> entries]
    BY DEF Default
  <2>2. /\ off \in BOOLEAN /\ none \in Names /\ port \in Ports /\ nobody \in RecipientLists
        /\ routes \in Toggles /\ routing \in Routing
        /\ entries \in RecipientGroups /\ entries \in GroupMaps
    BY <1>2, <1>3, <1>4, <1>5, <1>6, NamesAssumption
  <2> HIDE DEF off, none, port, nobody, routes, routing, entries
  <2> QED
    BY <2>1, <2>2, BlankType, EmailFields
<1>8. Default = [teams |-> Default.teams, email |-> Default.email]
  BY DEF Default
<1> QED
  BY <1>1, <1>7, <1>8 DEF Config

\* A field of a configuration fits already.
LEMMA ConfigFields ==
  ASSUME NEW c \in Config
  PROVE  /\ Entire(c)
         /\ \A ch \in Channels : \A f \in Fields(ch) : f \in SecretFields => c[ch][f] \in Secret
         /\ \A ch \in Channels : \A f \in Fields(ch) \ EntryFields : Made(f, c[ch][f]) = c[ch][f]
<1>1. DOMAIN c = {"teams", "email"} /\ c.teams \in TeamsConfig /\ c.email \in EmailConfig
  BY DEF Config
<1>2. DOMAIN c.teams = Fields("teams") /\ DOMAIN c.email = Fields("email")
  BY <1>1, FieldNames DEF TeamsConfig, EmailConfig
<1>3. /\ c.teams.enabled \in BOOLEAN /\ c.teams.webhookUrl \in Secret
      /\ c.email.enabled \in BOOLEAN /\ c.email.smtpPass \in Secret
      /\ c.email.smtpHost \in Names /\ c.email.from \in Names /\ c.email.smtpPort \in Ports
      /\ c.email.to \in RecipientLists
  BY <1>1 DEF TeamsConfig, EmailConfig
<1>4. /\ c.teams.enabled # Junk /\ c.teams.webhookUrl # Junk
      /\ c.email.enabled # Junk /\ c.email.smtpPass # Junk
      /\ c.email.smtpHost # Junk /\ c.email.from # Junk /\ c.email.smtpPort # Junk
      /\ c.email.to # Junk
  BY <1>3, JunkAssumption
<1>5. Made("enabled", c.teams.enabled) = c.teams.enabled
      /\ Made("enabled", c.email.enabled) = c.email.enabled
  <2>1. Fit(c.teams.enabled, BOOLEAN, FALSE) = c.teams.enabled
        /\ Fit(c.email.enabled, BOOLEAN, FALSE) = c.email.enabled
    BY <1>3, <1>4 DEF Fit
  <2> QED
    BY <2>1, MadeEnabled
<1>6. Made("webhookUrl", c.teams.webhookUrl) = c.teams.webhookUrl
      /\ Made("smtpPass", c.email.smtpPass) = c.email.smtpPass
  BY <1>3, SecretStays DEF SecretFields
<1>7. Made("smtpHost", c.email.smtpHost) = c.email.smtpHost
      /\ Made("from", c.email.from) = c.email.from
  BY <1>3, <1>4, MadeName, FitTyped
<1>8. Made("smtpPort", c.email.smtpPort) = c.email.smtpPort /\ Made("to", c.email.to) = c.email.to
  BY <1>3, <1>4, MadeOther, FitTyped
<1>9. Entire(c)
  BY <1>1, <1>2, FieldNames DEF Entire
<1>10. \A ch \in Channels : \A f \in Fields(ch) : f \in SecretFields => c[ch][f] \in Secret
  BY <1>3, SecretNames
<1>11. \A f \in Fields("teams") \ EntryFields : Made(f, c["teams"][f]) = c["teams"][f]
  BY <1>5, <1>6, FieldNames DEF EntryFields
<1>12. \A f \in Fields("email") \ EntryFields : Made(f, c["email"][f]) = c["email"][f]
  BY <1>5, <1>6, <1>7, <1>8, FieldNames DEF EntryFields
<1> QED
  BY <1>9, <1>10, <1>11, <1>12, FieldNames

LEMMA MaskedType == Masked \in Secret /\ Masked # Blank /\ Blank # Junk /\ Masked # Junk
<1>1. <<>> \in Seq(Keys)
  BY EmptySeq
<1>2. Masked \in Secret
  BY <1>1, TextsAssumption DEF Masked, Plain, Secret
<1>3. Masked # Blank
  <2>1. Masked.text = MASK /\ Blank.text = ""
    BY DEF Masked, Blank, Plain
  <2> QED
    BY <2>1 DEF MASK
<1> QED
  BY <1>2, <1>3, BlankType, JunkAssumption

\* A field that is sent as it was shown stays as it was.
LEMMA MergeKeeps ==
  ASSUME NEW ch \in Channels, NEW f \in Fields(ch), NEW old, NEW p,
         f \in DOMAIN p, f \in DOMAIN old, f \in SecretFields => old[f] \in Secret,
         IF f \in SecretFields THEN p[f] = Mask(old[f]) ELSE Made(f, p[f]) = Made(f, old[f])
  PROVE  Made(f, Merge(old, p, f)) = Made(f, old[f])
<1>1. Over(p, old)[f] = p[f]
  BY OverField
<1>2. CASE f \in SecretFields
  <2>1. Merge(old, p, f) = Unmasked(p, f, old[f], Made(f, p[f]))
    BY <1>1, <1>2 DEF Merge, SecretFields, EntryFields
  <2>2. CASE p[f] = Masked
    BY <2>1, <2>2 DEF Unmasked
  <2>3. CASE p[f] # Masked
    <3>1. p[f] = old[f]
      BY <1>2, <2>3 DEF Mask
    <3> QED
      BY <2>1, <2>3, <3>1, MadeStays DEF Unmasked
  <2> QED
    BY <2>2, <2>3
<1>3. CASE f \in EntryFields
  <2>1. Merge(old, p, f) = Over(p[f], old[f]) /\ Made(f, p[f]) = Made(f, old[f])
    BY <1>3 DEF Merge, Nested, SecretFields, EntryFields
  <2>2. CASE f = "recipientGroups"
    <3>1. GroupsIn(p[f]) = GroupsIn(old[f])
      BY <2>1, <2>2, MadeEntries
    <3>2. GroupsIn(Over(p[f], old[f])) = GroupsIn(old[f])
      BY <3>1, GroupsOver
    <3> QED
      BY <2>1, <2>2, <3>2, MadeEntries
  <2>3. CASE f = "routes"
    <3>1. Entries(p[f], Reasons, Bools, On) = Entries(old[f], Reasons, Bools, On)
      BY <2>1, <2>3, MadeEntries
    <3>2. Entries(Over(p[f], old[f]), Reasons, Bools, On) = Entries(old[f], Reasons, Bools, On)
      BY <3>1, EntriesOver
    <3> QED
      BY <2>1, <2>3, <3>2, MadeEntries
  <2>4. CASE f = "bySeverity"
    <3>1. Entries(p[f], Severities, Bools, On) = Entries(old[f], Severities, Bools, On)
      BY <2>1, <2>4, MadeEntries
    <3>2. Entries(Over(p[f], old[f]), Severities, Bools, On) = Entries(old[f], Severities, Bools, On)
      BY <3>1, EntriesOver
    <3> QED
      BY <2>1, <2>4, <3>2, MadeEntries
  <2>5. CASE f = "severityGroupMap"
    <3>1. Entries(p[f], Severities, Groups, Unnamed) = Entries(old[f], Severities, Groups, Unnamed)
      BY <2>1, <2>5, MadeEntries
    <3>2. Entries(Over(p[f], old[f]), Severities, Groups, Unnamed) = Entries(old[f], Severities, Groups, Unnamed)
      BY <3>1, EntriesOver
    <3> QED
      BY <2>1, <2>5, <3>2, MadeEntries
  <2> QED
    BY <1>3, <2>2, <2>3, <2>4, <2>5 DEF EntryFields
<1>4. CASE f \notin SecretFields \union EntryFields
  BY <1>1, <1>4, MadeStays DEF Merge
<1> QED
  BY <1>2, <1>3, <1>4

\* A field of a merge, as it is read again: the one that was asked for.
LEMMA PlainAsked ==
  ASSUME NEW ch \in Channels, NEW f \in Fields(ch) \ (EntryFields \union SecretFields),
         NEW old \in Config, NEW p, NEW S, NEW fallback,
         \A v : Made(f, v) = Fit(v, S, fallback)
  PROVE  Made(f, Merge(old[ch], p[ch], f)) = Chosen(p[ch], f, old[ch], S, fallback)
<1>1. Made(f, Merge(old[ch], p[ch], f)) = Made(f, Over(p[ch], old[ch])[f])
  BY MadeStays DEF Merge
<1>2. f \in DOMAIN old[ch] /\ Made(f, old[ch][f]) = old[ch][f]
  BY ConfigFields DEF Entire
<1>3. Over(p[ch], old[ch])[f] = IF f \in DOMAIN p[ch] THEN p[ch][f] ELSE old[ch][f]
  BY <1>2, OverField
<1> QED
  BY <1>1, <1>2, <1>3 DEF Chosen

LEMMA SecretAsked ==
  ASSUME NEW ch \in Channels, NEW f \in Fields(ch), f \in SecretFields, NEW old \in Config, NEW p
  PROVE  Made(f, Merge(old[ch], p[ch], f)) = ChosenSecret(p[ch], f, old[ch])
<1>1. f \notin EntryFields
  BY DEF SecretFields, EntryFields
<1>2. f \in DOMAIN old[ch] /\ Made(f, old[ch][f]) = old[ch][f]
  BY <1>1, ConfigFields DEF Entire
<1>3. Over(p[ch], old[ch])[f] = IF f \in DOMAIN p[ch] THEN p[ch][f] ELSE old[ch][f]
  BY <1>2, OverField
<1>4. Merge(old[ch], p[ch], f)
        = Unmasked(p[ch], f, old[ch][f], Made(f, Over(p[ch], old[ch])[f]))
  BY <1>1 DEF Merge
<1>5. CASE f \in DOMAIN p[ch] /\ p[ch][f] = Masked
  BY <1>2, <1>4, <1>5 DEF Unmasked, ChosenSecret
<1>6. CASE ~(f \in DOMAIN p[ch] /\ p[ch][f] = Masked)
  <2>1. Made(f, Merge(old[ch], p[ch], f)) = Made(f, Over(p[ch], old[ch])[f])
    BY <1>4, <1>6, MadeStays DEF Unmasked
  <2> QED
    BY <1>2, <1>3, <1>6, <2>1, MadeSecret DEF ChosenSecret, Chosen
<1> QED
  BY <1>5, <1>6

\* Of a field with entries: those of the patch that fit, and the old ones.
LEMMA EntriesAsked ==
  ASSUME NEW named, NEW old, NEW S, NEW values, NEW fallback,
         \A x \in DOMAIN old : x \in S => Fit(old[x], values, fallback) = old[x],
         Fit(Junk, values, fallback) = fallback
  PROVE  LET now == Entries(Over(named, old), S, values, fallback)
         IN  /\ (DOMAIN named \union DOMAIN old) \intersect S \subseteq DOMAIN now
             /\ \A x \in DOMAIN now :
                  now[x] = IF x \in DOMAIN named \union DOMAIN old
                           THEN Chosen(named, x, old, values, fallback) ELSE fallback
<1> DEFINE now == Entries(Over(named, old), S, values, fallback)
<1>1. DOMAIN now = S
      /\ \A x \in S : now[x] = Fit(Field(Over(named, old), x), values, fallback)
  BY DEF Entries
<1> HIDE DEF now
<1>2. ASSUME NEW x \in S
      PROVE  now[x] = IF x \in DOMAIN named \union DOMAIN old
                      THEN Chosen(named, x, old, values, fallback) ELSE fallback
  <2>1. CASE x \in DOMAIN named
    BY <1>1, <2>1 DEF Field, Over, Chosen
  <2>2. CASE x \notin DOMAIN named /\ x \in DOMAIN old
    BY <1>1, <2>2 DEF Field, Over, Chosen
  <2>3. CASE x \notin DOMAIN named /\ x \notin DOMAIN old
    BY <1>1, <2>3 DEF Field, Over
  <2> QED
    BY <2>1, <2>2, <2>3
<1>3. /\ (DOMAIN named \union DOMAIN old) \intersect S \subseteq DOMAIN now
      /\ \A x \in DOMAIN now :
           now[x] = IF x \in DOMAIN named \union DOMAIN old
                    THEN Chosen(named, x, old, values, fallback) ELSE fallback
  BY <1>1, <1>2
<1> QED
  BY <1>3 DEF now

LEMMA GroupsAsked ==
  ASSUME NEW named, NEW old,
         \A x \in DOMAIN old : x \in Groups => Fit(old[x], RecipientLists, {}) = old[x]
  PROVE  LET now == GroupsIn(Over(named, old))
         IN  /\ (DOMAIN named \union DOMAIN old) \intersect Groups \subseteq DOMAIN now
             /\ \A x \in DOMAIN now :
                  now[x] = IF x \in DOMAIN named \union DOMAIN old
                           THEN Chosen(named, x, old, RecipientLists, {}) ELSE {}
<1> DEFINE now == GroupsIn(Over(named, old))
<1>1. DOMAIN now = (DOMAIN named \union DOMAIN old) \intersect Groups
      /\ \A x \in (DOMAIN named \union DOMAIN old) \intersect Groups :
           now[x] = Fit(Over(named, old)[x], RecipientLists, {})
  BY DEF GroupsIn, Over
<1> HIDE DEF now
<1>2. ASSUME NEW x \in DOMAIN now
      PROVE  now[x] = Chosen(named, x, old, RecipientLists, {})
  <2>1. CASE x \in DOMAIN named
    BY <1>1, <2>1 DEF Over, Chosen
  <2>2. CASE x \notin DOMAIN named
    BY <1>1, <2>2 DEF Over, Chosen
  <2> QED
    BY <2>1, <2>2
<1>3. /\ (DOMAIN named \union DOMAIN old) \intersect Groups \subseteq DOMAIN now
      /\ \A x \in DOMAIN now :
           now[x] = IF x \in DOMAIN named \union DOMAIN old
                    THEN Chosen(named, x, old, RecipientLists, {}) ELSE {}
  BY <1>1, <1>2
<1> QED
  BY <1>3 DEF now

\* The entries of a configuration fit already.
LEMMA ConfigEntries ==
  ASSUME NEW c \in Config
  PROVE  /\ \A ch \in Channels : \A x \in DOMAIN c[ch].routes :
              Fit(c[ch].routes[x], Bools, On) = c[ch].routes[x]
         /\ \A ch \in Channels : \A x \in DOMAIN c[ch].bySeverity :
              Fit(c[ch].bySeverity[x], Bools, On) = c[ch].bySeverity[x]
         /\ \A x \in DOMAIN c.email.recipientGroups :
              Fit(c.email.recipientGroups[x], RecipientLists, {}) = c.email.recipientGroups[x]
         /\ \A x \in DOMAIN c.email.severityGroupMap :
              Fit(c.email.severityGroupMap[x], Groups, Unnamed) = c.email.severityGroupMap[x]
<1>1. c.teams \in TeamsConfig /\ c.email \in EmailConfig
  BY DEF Config
<1>2. /\ c.teams.routes \in Toggles /\ c.email.routes \in Toggles
      /\ c.teams.bySeverity \in Routing /\ c.email.bySeverity \in Routing
      /\ c.email.recipientGroups \in RecipientGroups /\ c.email.severityGroupMap \in GroupMaps
  BY <1>1 DEF TeamsConfig, EmailConfig
<1>3. \A v \in Bools : v # Junk /\ Fit(v, Bools, On) = v
  BY JunkAssumption, FitTyped DEF Bools
<1>4. \A ch \in Channels : \A x \in DOMAIN c[ch].routes : c[ch].routes[x] \in Bools
  BY <1>2, FieldNames DEF Toggles, Bools
<1>5. \A ch \in Channels : \A x \in DOMAIN c[ch].bySeverity : c[ch].bySeverity[x] \in Bools
  BY <1>2, FieldNames DEF Routing, Bools
<1>6. ASSUME NEW x \in DOMAIN c.email.recipientGroups
      PROVE  Fit(c.email.recipientGroups[x], RecipientLists, {}) = c.email.recipientGroups[x]
  <2>1. c.email.recipientGroups[x] \in RecipientLists
    BY <1>2 DEF RecipientGroups
  <2> QED
    BY <2>1, JunkAssumption, FitTyped
<1>7. ASSUME NEW x \in DOMAIN c.email.severityGroupMap
      PROVE  Fit(c.email.severityGroupMap[x], Groups, Unnamed) = c.email.severityGroupMap[x]
  <2>1. c.email.severityGroupMap[x] \in Groups \union {Unnamed}
    <3>1. GroupMaps = UNION {[T -> Groups \union {Unnamed}] : T \in SUBSET Severities}
      BY DEF GroupMaps, Unnamed
    <3> QED
      BY <1>2, <3>1
  <2> QED
    BY <2>1, JunkAssumption DEF Fit
<1> QED
  BY <1>3, <1>4, <1>5, <1>6, <1>7

\* A configuration that reads as the merge was made is what was asked for.
LEMMA AskedFor ==
  ASSUME NEW old \in Config, NEW p,
         \A ch \in Channels : \A f \in Fields(ch) :
           Current[ch][f] = Made(f, Merge(old[ch], p[ch], f))
  PROVE  Asked(old, p)
<1>1. ASSUME NEW ch \in Channels
      PROVE  /\ EntriesAsAsked(ch, "routes", Reasons, Bools, On, old[ch], p[ch])
             /\ EntriesAsAsked(ch, "bySeverity", Severities, Bools, On, old[ch], p[ch])
  <2>1. {"routes", "bySeverity"} \subseteq Fields(ch) \intersect EntryFields
    BY FieldNames DEF EntryFields
  <2>2. Fit(Junk, Bools, On) = On
    BY DEF Fit
  <2>3. Current[ch].routes
          = Entries(Over(Nested(p[ch], "routes"), old[ch].routes), Reasons, Bools, On)
    BY <2>1, MadeEntries DEF Merge
  <2>4. Current[ch].bySeverity
          = Entries(Over(Nested(p[ch], "bySeverity"), old[ch].bySeverity), Severities, Bools, On)
    BY <2>1, MadeEntries DEF Merge
  <2>5. EntriesAsAsked(ch, "routes", Reasons, Bools, On, old[ch], p[ch])
    BY <2>2, <2>3, ConfigEntries, EntriesAsked DEF EntriesAsAsked
  <2>6. EntriesAsAsked(ch, "bySeverity", Severities, Bools, On, old[ch], p[ch])
    BY <2>2, <2>4, ConfigEntries, EntriesAsked DEF EntriesAsAsked
  <2> QED
    BY <2>5, <2>6
<1>2. /\ EntriesAsAsked("email", "recipientGroups", Groups, RecipientLists, {}, old.email, p.email)
      /\ EntriesAsAsked("email", "severityGroupMap", Severities, Groups, Unnamed,
                        old.email, p.email)
  <2>1. {"recipientGroups", "severityGroupMap"} \subseteq Fields("email") \intersect EntryFields
    BY FieldNames DEF EntryFields
  <2>2. Fit(Junk, Groups, Unnamed) = Unnamed
    BY DEF Fit
  <2>3. Current["email"].recipientGroups
          = GroupsIn(Over(Nested(p.email, "recipientGroups"), old.email.recipientGroups))
    BY <2>1, MadeEntries, FieldNames DEF Merge
  <2>4. Current["email"].severityGroupMap
          = Entries(Over(Nested(p.email, "severityGroupMap"), old.email.severityGroupMap),
                    Severities, Groups, Unnamed)
    BY <2>1, MadeEntries, FieldNames DEF Merge
  <2>5. EntriesAsAsked("email", "recipientGroups", Groups, RecipientLists, {}, old.email, p.email)
    <3> DEFINE named == Nested(p.email, "recipientGroups")
               groups == old.email.recipientGroups
               now == GroupsIn(Over(named, groups))
    <3>1. \A x \in DOMAIN groups : Fit(groups[x], RecipientLists, {}) = groups[x]
      BY ConfigEntries
    <3>2. /\ (DOMAIN named \union DOMAIN groups) \intersect Groups \subseteq DOMAIN now
          /\ \A x \in DOMAIN now :
               now[x] = IF x \in DOMAIN named \union DOMAIN groups
                        THEN Chosen(named, x, groups, RecipientLists, {}) ELSE {}
      <4> HIDE DEF named, groups
      <4> QED
        BY <3>1, GroupsAsked
    <3>3. Current["email"]["recipientGroups"] = now
      BY <2>3
    <3> HIDE DEF now
    <3> QED
      BY <3>2, <3>3 DEF EntriesAsAsked
  <2>6. EntriesAsAsked("email", "severityGroupMap", Severities, Groups, Unnamed,
                       old.email, p.email)
    BY <2>2, <2>4, ConfigEntries, EntriesAsked DEF EntriesAsAsked
  <2> QED
    BY <2>5, <2>6
<1>3. ASSUME NEW ch \in Channels, NEW f \in Fields(ch) \ (EntryFields \union SecretFields),
             NEW S, NEW fallback, \A v : Made(f, v) = Fit(v, S, fallback)
      PROVE  Current[ch][f] = Chosen(p[ch], f, old[ch], S, fallback)
  <2>1. Made(f, Merge(old[ch], p[ch], f)) = Chosen(p[ch], f, old[ch], S, fallback)
    BY <1>3, PlainAsked
  <2> QED
    BY <2>1
<1>4. \A ch \in Channels :
        Current[ch].enabled = Chosen(p[ch], "enabled", old[ch], BOOLEAN, FALSE)
  <2>1. \A ch \in Channels : "enabled" \in Fields(ch) \ (EntryFields \union SecretFields)
    BY FieldNames DEF EntryFields, SecretFields
  <2> DEFINE off == FALSE
             bools == BOOLEAN
  <2>2. \A v : Made("enabled", v) = Fit(v, bools, off)
    BY MadeEnabled
  <2> HIDE DEF off, bools
  <2>3. \A ch \in Channels : Current[ch].enabled = Chosen(p[ch], "enabled", old[ch], bools, off)
    BY <1>3, <2>1, <2>2
  <2> QED
    BY <2>3 DEF off, bools
<1>5. /\ Current.teams.webhookUrl = ChosenSecret(p.teams, "webhookUrl", old.teams)
      /\ Current.email.smtpPass = ChosenSecret(p.email, "smtpPass", old.email)
  <2>1. /\ "webhookUrl" \in Fields("teams") /\ "smtpPass" \in Fields("email")
        /\ "webhookUrl" \in SecretFields /\ "smtpPass" \in SecretFields
    BY FieldNames DEF SecretFields
  <2> QED
    BY <2>1, SecretAsked, FieldNames
<1>6. /\ Current.email.smtpPort = Chosen(p.email, "smtpPort", old.email, Ports, 587)
      /\ Current.email.to = Chosen(p.email, "to", old.email, RecipientLists, {})
  <2>1. {"smtpPort", "to"} \subseteq Fields("email") \ (EntryFields \union SecretFields)
    BY FieldNames DEF EntryFields, SecretFields
  <2>2. \A v : Made("smtpPort", v) = Fit(v, Ports, 587)
    BY MadeOther
  <2>3. \A v : Made("to", v) = Fit(v, RecipientLists, {})
    BY MadeOther
  <2>4. Current.email.smtpPort = Chosen(p.email, "smtpPort", old.email, Ports, 587)
    BY <1>3, <2>1, <2>2, FieldNames
  <2>5. Current.email.to = Chosen(p.email, "to", old.email, RecipientLists, {})
    BY <1>3, <2>1, <2>3, FieldNames
  <2> QED
    BY <2>4, <2>5
<1>7. ASSUME NEW f \in {"smtpHost", "from"}
      PROVE  Current.email[f] = Chosen(p.email, f, old.email, Names, Unnamed)
  <2>1. f \in Fields("email") \ (EntryFields \union SecretFields)
    BY FieldNames DEF EntryFields, SecretFields
  <2>2. \A v : Made(f, v) = Fit(v, Names, Unnamed)
    BY MadeName
  <2> QED
    BY <1>3, <2>1, <2>2, FieldNames
<1> QED
  BY <1>1, <1>2, <1>4, <1>5, <1>6, <1>7 DEF Asked, Bools, On, Unnamed

----------------------------------------------------------------------------
(* What is read of what was stored.                                        *)

View(s, k) == IF s \notin {Missing, Empty, Torn} THEN UnsealConfig(Sanitize(s), k) ELSE Default

LEMMA CurrentView == Current = View(stored, key)
BY DEF Current, Readable, View

LEMMA ViewType ==
  ASSUME NEW s, NEW k \in Keys \union {NoKey}
  PROVE  View(s, k) \in Config
BY SanitizeType, SealConfigFacts, DefaultType DEF View

LEMMA ViewField ==
  ASSUME NEW s, s \notin {Missing, Empty, Torn}, NEW k,
         NEW ch \in Channels, NEW f \in Fields(ch)
  PROVE  View(s, k)[ch][f] =
           IF f \in SecretFields THEN Unseal(Made(f, s[ch][f]), k) ELSE Made(f, s[ch][f])
<1>1. Entire(Sanitize(s)) /\ Sanitize(s)[ch][f] = Made(f, s[ch][f])
  BY SanitizeField
<1> QED
  BY <1>1, UnsealField DEF View

LEMMA UnsealSealed ==
  ASSUME NEW v \in Secret, NEW k \in Keys \union {NoKey}
  PROVE  Unseal(Seal(v, k), k) = v
<1>1. v.sealed \in Seq(Keys) /\ v = [text |-> v.text, sealed |-> v.sealed]
  BY DEF Secret
<1>2. CASE k = NoKey
  BY <1>2 DEF Seal, Unseal
<1>3. CASE v = Blank
  <2>1. v.sealed = <<>>
    BY <1>3 DEF Blank, Plain
  <2> QED
    BY <1>3, <2>1 DEF Seal, Unseal
<1>4. CASE k # NoKey /\ v # Blank
  <2> DEFINE t == <<k>> \o v.sealed
             w == [v EXCEPT !.sealed = t]
  <2>1. Seal(v, k) = w
    BY <1>4 DEF Seal
  <2>2. k \in Keys
    BY <1>4
  <2>3. t # <<>> /\ Head(t) = k /\ Tail(t) = v.sealed
    BY <1>1, <2>2
  <2> HIDE DEF t
  <2>4. w.sealed = t /\ w = [text |-> v.text, sealed |-> t]
    BY DEF Secret
  <2> HIDE DEF w
  <2>5. Unseal(w, k) = [w EXCEPT !.sealed = v.sealed]
    BY <1>4, <2>3, <2>4 DEF Unseal
  <2>6. [w EXCEPT !.sealed = v.sealed] = v
    BY <1>1, <2>4
  <2> QED
    BY <2>1, <2>5, <2>6
<1> QED
  BY <1>2, <1>3, <1>4

\* Sealed and stored, then read with the same key, a configuration is the
\* one that was sanitized.
LEMMA Returned ==
  ASSUME NEW x, NEW k \in Keys \union {NoKey}, NEW ch \in Channels, NEW f \in Fields(ch)
  PROVE  View(SealConfig(Sanitize(x), k), k)[ch][f] = Made(f, x[ch][f])
<1> DEFINE y == Sanitize(x)
           s == SealConfig(y, k)
<1>1. y \in Config /\ Entire(y) /\ y[ch][f] = Made(f, x[ch][f])
  BY SanitizeType, SanitizeField
<1> HIDE DEF y
<1>2. s \in Config
  BY <1>1, SealConfigFacts
<1>3. s \notin {Missing, Empty, Torn}
  BY <1>2, StoredAssumption
<1>4. s[ch][f] = IF f \in SecretFields THEN Seal(y[ch][f], k) ELSE y[ch][f]
  BY <1>1, SealField
<1> HIDE DEF s
<1>5. View(s, k)[ch][f] =
        IF f \in SecretFields THEN Unseal(Made(f, s[ch][f]), k) ELSE Made(f, s[ch][f])
  BY <1>3, ViewField
<1>6. ASSUME f \notin SecretFields PROVE View(s, k)[ch][f] = Made(f, x[ch][f])
  BY <1>1, <1>4, <1>5, <1>6, MadeStays
<1>7. ASSUME f \in SecretFields PROVE View(s, k)[ch][f] = Made(f, x[ch][f])
  <2>1. y[ch][f] \in Secret
    BY <1>1, <1>7, ConfigFields
  <2>2. Seal(y[ch][f], k) \in Secret
    BY <2>1, SealFacts
  <2>3. Made(f, s[ch][f]) = s[ch][f]
    BY <1>4, <1>7, <2>2, SecretStays
  <2> QED
    BY <1>1, <1>4, <1>5, <1>7, <2>1, <2>3, UnsealSealed
<1> QED
  BY <1>6, <1>7 DEF y, s

----------------------------------------------------------------------------
(* What pages are shown.                                                   *)

\* Two configurations are the same to a reader, apart from dirty fields:
\* their secrets are shown alike, and of the others the same is made.
Shown(f, v) == IF f \in SecretFields THEN v ELSE Made(f, v)

Agree(a, b, dirty) ==
  \A ch \in Channels : \A f \in Fields(ch) :
    <<ch, f>> \notin dirty => Shown(f, a[ch][f]) = Shown(f, b[ch][f])

LEMMA MaskUnsealed ==
  ASSUME NEW v \in Secret, NEW ch, NEW T, Proper(v, ch, T), NEW k \in Keys \union {NoKey}
  PROVE  Mask(Unseal(v, k)) = Mask(v)
<1>1. v = [text |-> v.text, sealed |-> v.sealed]
  BY DEF Secret
<1>2. Blank.text = "" /\ Blank = [text |-> "", sealed |-> <<>>]
  BY DEF Blank, Plain
<1>3. CASE v.text = ""
  <2>1. v.sealed = <<>>
    BY <1>3 DEF Proper
  <2> QED
    BY <2>1 DEF Unseal
<1>4. CASE v.text # ""
  <2>1. Unseal(v, k).text # ""
    BY <1>4, SealFacts
  <2> QED
    BY <1>2, <1>4, <2>1 DEF Mask
<1> QED
  BY <1>3, <1>4

\* The key has no part in what is shown of a configuration.
LEMMA ShownWithAnyKey ==
  ASSUME NEW s, NEW T, s \notin {Missing, Empty, Torn} => Clean(s, T),
         NEW k \in Keys \union {NoKey}, NEW l \in Keys \union {NoKey},
         NEW ch \in Channels, NEW f \in Fields(ch)
  PROVE  MaskConfig(View(s, k))[ch][f] = MaskConfig(View(s, l))[ch][f]
<1>1. CASE s \in {Missing, Empty, Torn}
  BY <1>1 DEF View
<1>2. CASE s \notin {Missing, Empty, Torn}
  <2>1. Entire(View(s, k)) /\ Entire(View(s, l))
    BY ViewType, ConfigFields
  <2>2. /\ MaskConfig(View(s, k))[ch][f]
             = IF f \in SecretFields THEN Mask(View(s, k)[ch][f]) ELSE View(s, k)[ch][f]
        /\ MaskConfig(View(s, l))[ch][f]
             = IF f \in SecretFields THEN Mask(View(s, l)[ch][f]) ELSE View(s, l)[ch][f]
    BY <2>1, MaskField
  <2> DEFINE v == Made(f, s[ch][f])
  <2>3. /\ View(s, k)[ch][f] = IF f \in SecretFields THEN Unseal(v, k) ELSE v
        /\ View(s, l)[ch][f] = IF f \in SecretFields THEN Unseal(v, l) ELSE v
    BY <1>2, ViewField
  <2>4. f \in SecretFields => v \in Secret /\ Proper(v, ch, T)
    <3>1. Sanitize(s) \in Config /\ Clean(Sanitize(s), T) /\ Sanitize(s)[ch][f] = v
      BY <1>2, SanitizeType, SanitizeClean, SanitizeField
    <3> QED
      BY <3>1, ConfigFields, SecretNames DEF Clean
  <2> HIDE DEF v
  <2> QED
    BY <2>2, <2>3, <2>4, MaskUnsealed
<1> QED
  BY <1>1, <1>2

\* A configuration and what is read of it are shown alike.
LEMMA ShownAlike ==
  ASSUME NEW x, Entire(x), NEW z, Entire(z),
         \A ch \in Channels : \A f \in Fields(ch) : z[ch][f] = Made(f, x[ch][f]),
         \A ch \in Channels : \A f \in Fields(ch) : f \in SecretFields => x[ch][f] \in Secret
  PROVE  Agree(MaskConfig(x), MaskConfig(z), {})
<1> SUFFICES ASSUME NEW ch \in Channels, NEW f \in Fields(ch)
             PROVE  Shown(f, MaskConfig(x)[ch][f]) = Shown(f, MaskConfig(z)[ch][f])
  BY DEF Agree
<1>1. /\ MaskConfig(x)[ch][f] = IF f \in SecretFields THEN Mask(x[ch][f]) ELSE x[ch][f]
      /\ MaskConfig(z)[ch][f] = IF f \in SecretFields THEN Mask(z[ch][f]) ELSE z[ch][f]
  BY MaskField
<1>2. CASE f \in SecretFields
  <2>1. Made(f, x[ch][f]) = x[ch][f]
    BY <1>2, SecretStays
  <2> QED
    BY <1>1, <2>1 DEF Shown
<1>3. CASE f \notin SecretFields
  BY <1>1, <1>3, MadeStays DEF Shown
<1> QED
  BY <1>2, <1>3

\* The secrets of a merge are secrets.
LEMMA UpdateSecrets ==
  ASSUME NEW old \in Config, NEW p, NEW ch \in Channels, NEW f \in Fields(ch), f \in SecretFields
  PROVE  Update(old, p)[ch][f] \in Secret
<1>1. f \notin EntryFields /\ old[ch][f] \in Secret
  BY ConfigFields DEF SecretFields, EntryFields
<1>2. \A v : Made(f, v) \in Secret
  BY MadeSecret, FitSecretType
<1> QED
  BY <1>1, <1>2, UpdateField DEF Merge, Unmasked

\* A form that agrees with what was found changes nothing but its edits.
LEMMA UpdateKeeps ==
  ASSUME NEW old \in Config, NEW p, Entire(p), NEW dirty, Agree(p, MaskConfig(old), dirty),
         NEW ch \in Channels, NEW f \in Fields(ch), <<ch, f>> \notin dirty
  PROVE  Made(f, Update(old, p)[ch][f]) = Made(f, old[ch][f])
<1>1. Entire(old) /\ (f \in SecretFields => old[ch][f] \in Secret)
  BY ConfigFields
<1>2. f \in DOMAIN p[ch] /\ f \in DOMAIN old[ch]
  BY <1>1 DEF Entire
<1>3. IF f \in SecretFields THEN p[ch][f] = Mask(old[ch][f])
      ELSE Made(f, p[ch][f]) = Made(f, old[ch][f])
  <2>1. MaskConfig(old)[ch][f] = IF f \in SecretFields THEN Mask(old[ch][f]) ELSE old[ch][f]
    BY <1>1, MaskField
  <2> QED
    BY <2>1 DEF Agree, Shown
<1> QED
  BY <1>1, <1>2, <1>3, MergeKeeps, UpdateField

----------------------------------------------------------------------------
(* Saves, and the pages they come from.                                    *)

\* The stored configuration reads as x was made.
Reads(x) == \A ch \in Channels : \A f \in Fields(ch) : Current[ch][f] = Made(f, x[ch][f])

Writing == {"open", "write", "upsert"}

\* Only a dispatch, a preview or a save is put into the audit log, and a
\* save that is alone is the only one under way.
Places(c) == pc[c] = "audit" => req[c].kind # "load"

Solo(c) == Saving(c) /\ track[c].alone => \A d \in Calls : Saving(d) => d = c

\* What is written is the merge of the patch over what was found; alone, it
\* is written over an empty file, and is what is stored.
Merged(c) ==
  req[c].kind = "save" /\ pc[c] \in Writing \union {"audit"} =>
    track[c].base \in Config /\ config[c] = Update(track[c].base, req[c].patch)

Exact(c) ==
  req[c].kind = "save" /\ track[c].alone =>
    /\ pc[c] = "write" => stored = Empty
    /\ pc[c] = "audit" => Reads(config[c])

\* What was not edited is sent as it was shown.
Sent(c) ==
  req[c].kind = "save" /\ track[c].alone /\ track[c].fresh =>
    /\ Entire(req[c].patch)
    /\ pc[c] = "read" => Agree(req[c].patch, MaskConfig(Current), req[c].dirty)
    /\ pc[c] \in Writing \union {"audit"} =>
         Agree(req[c].patch, MaskConfig(track[c].base), req[c].dirty)

\* A page that is answered shows what is stored, when it is what the call saw.
Answering(c) ==
  (pc[c] = "answer" /\ req[c].kind \in {"load", "save"}) \/ (pc[c] = "audit" /\ req[c].kind = "save")

Seen(c) ==
  /\ track[c].seen \in 0..version
  /\ pc[c] \in {"idle", "read"} => track[c].seen = 0
  /\ Answering(c) /\ track[c].seen = version =>
       Agree(MaskConfig(config[c]), MaskConfig(Current), {})

Tracking(c) ==
  Entire(config[c]) /\ Places(c) /\ Solo(c) /\ Merged(c) /\ Exact(c) /\ Sent(c) /\ Seen(c)

Viewing(p) ==
  /\ DOMAIN view[p] = {"version", "dirty"}
  /\ Entire(page[p].form)
  /\ view[p].version \in 0..version
  /\ view[p].version = version => Agree(page[p].form, MaskConfig(Current), view[p].dirty)

Saves ==
  /\ version \in Nat \ {0}
  /\ DOMAIN view = Pages
  /\ \A p \in Pages : Viewing(p)
  /\ \A c \in Calls : Tracking(c)

LEMMA CurrentEntire ==
  ASSUME key \in Keys \union {NoKey}
  PROVE  Current \in Config /\ Entire(Current) /\ Entire(MaskConfig(Current))
BY CurrentView, ViewType, ConfigFields, MaskField, FieldNames

LEMMA DefaultEntire == Entire(Default)
BY DefaultType, ConfigFields

LEMMA AgreeSelf ==
  ASSUME NEW a, NEW dirty
  PROVE  Agree(a, a, dirty)
BY DEF Agree

LEMMA InitSaves == Init => Saves
<1> SUFFICES ASSUME Init PROVE Saves
  OBVIOUS
<1>1. key \in Keys \union {NoKey} /\ version = 1 /\ DOMAIN view = Pages
  BY DEF Init
<1>2. ASSUME NEW p \in Pages PROVE Viewing(p)
  <2> DEFINE a == [form |-> Default, loaded |-> FALSE]
             b == [form |-> MaskConfig(Current), loaded |-> TRUE]
  <2>1. page[p] \in {a, b}
        /\ view[p] = [version |-> IF page[p].loaded THEN 1 ELSE 0, dirty |-> {}]
    BY DEF Init
  <2>2. CASE page[p] = a
    <3>1. page[p].form = Default /\ view[p].version = 0 /\ DOMAIN view[p] = {"version", "dirty"}
      BY <2>1, <2>2
    <3> QED
      BY <1>1, <3>1, DefaultEntire DEF Viewing
  <2>3. CASE page[p] = b
    <3>1. page[p].form = MaskConfig(Current) /\ view[p].version = 1
          /\ DOMAIN view[p] = {"version", "dirty"}
      BY <2>1, <2>3
    <3> QED
      BY <1>1, <3>1, CurrentEntire, AgreeSelf DEF Viewing
  <2> HIDE DEF a, b
  <2> QED
    BY <2>1, <2>2, <2>3
<1>3. ASSUME NEW c \in Calls PROVE Tracking(c)
  <2>1. pc[c] = "idle" /\ config[c] = Default /\ track[c].seen = 0 /\ req[c].kind = "load"
    BY DEF Init, Fresh, Idle
  <2> QED
    BY <1>1, <2>1, DefaultEntire
    DEF Tracking, Places, Solo, Saving, UnderWay, Merged, Exact, Sent, Seen, Answering, Writing
<1> QED
  BY <1>1, <1>2, <1>3 DEF Saves

\* The store stays as it is, or another version is stored.
Steady == version' = version /\ stored' = stored /\ Current' = Current

LEMMA PagesKept ==
  ASSUME Saves, page' = page, view' = view, Steady \/ version' = version + 1
  PROVE  \A p \in Pages : Viewing(p)'
<1> SUFFICES ASSUME NEW p \in Pages PROVE Viewing(p)'
  OBVIOUS
<1>1. Viewing(p) /\ version \in Nat
  BY DEF Saves
<1>2. CASE Steady
  BY <1>1, <1>2 DEF Viewing, Steady
<1>3. CASE version' = version + 1
  BY <1>1, <1>3 DEF Viewing
<1> QED
  BY <1>2, <1>3

LEMMA StaysSolo ==
  ASSUME NEW d \in Calls, Solo(d), track'[d].alone => track[d].alone,
         \A e \in Calls : Saving(e)' => Saving(e)
  PROVE  Solo(d)'
BY DEF Solo

\* A call that does nothing in a step.
LEMMA OtherKept ==
  ASSUME NEW d \in Calls, Tracking(d), version \in Nat \ {0},
         pc'[d] = pc[d], req'[d] = req[d], config'[d] = config[d],
         track'[d].base = track[d].base, track'[d].fresh = track[d].fresh,
         track'[d].seen = track[d].seen, track'[d].alone => track[d].alone,
         Solo(d)', Steady \/ (version' = version + 1 /\ (Saving(d) => ~track[d].alone))
  PROVE  Tracking(d)'
<1>1. Entire(config'[d]) /\ Places(d)' /\ Merged(d)'
  BY DEF Tracking, Places, Merged
<1>2. Exact(d)'
  <2>1. CASE Steady
    BY <2>1 DEF Tracking, Exact, Reads, Steady
  <2>2. CASE Saving(d) => ~track[d].alone
    BY <2>2 DEF Exact, Saving, UnderWay
  <2> QED
    BY <2>1, <2>2
<1>3. Sent(d)'
  <2>1. CASE Steady
    BY <2>1 DEF Tracking, Sent, Steady
  <2>2. CASE Saving(d) => ~track[d].alone
    BY <2>2 DEF Tracking, Sent, Saving, UnderWay
  <2> QED
    BY <2>1, <2>2
<1>4. Seen(d)'
  <2>1. CASE Steady
    BY <2>1 DEF Tracking, Seen, Steady, Answering
  <2>2. CASE version' = version + 1
    BY <2>2 DEF Tracking, Seen
  <2> QED
    BY <2>1, <2>2
<1> QED
  BY <1>1, <1>2, <1>3, <1>4 DEF Tracking

LEMMA SteadyStore ==
  ASSUME version' = version, stored' = stored, key' = key
  PROVE  Steady
BY DEF Steady, Current, Readable

\* One call goes on: the others are as they were.
LEMMA GoesOnSaves ==
  ASSUME Typed, Tracked, Saves, NEW c \in Calls, NEW l, l \notin {"idle", "done"}, UnderWay(c),
         pc' = [pc EXCEPT ![c] = l], req' = req,
         \A d \in Calls \ {c} : config'[d] = config[d] /\ track'[d] = track[d],
         track'[c].alone => track[c].alone,
         Steady \/ (version' = version + 1 /\ Saving(c))
  PROVE  Solo(c)' /\ \A d \in Calls \ {c} : Tracking(d)'
<1>1. pc'[c] = l /\ \A d \in Calls \ {c} : pc'[d] = pc[d]
  BY DEF Typed, TypeOK
<1>2. \A d \in Calls : Saving(d)' => Saving(d)
  BY <1>1 DEF Saving, UnderWay
<1>3. \A d \in Calls : Tracking(d) /\ Solo(d)
  BY DEF Saves, Tracking
<1>4. Solo(c)'
  BY <1>2, <1>3, StaysSolo
<1>5. ASSUME NEW d \in Calls \ {c} PROVE Tracking(d)'
  <2>1. track'[d] = track[d]
    OBVIOUS
  <2>2. Solo(d)'
    BY <1>2, <1>3, <2>1, StaysSolo
  <2>3. Saving(c) /\ Saving(d) => ~track[d].alone
    BY <1>3 DEF Solo
  <2>4. pc'[d] = pc[d] /\ req'[d] = req[d] /\ config'[d] = config[d]
    BY <1>1
  <2>5. Tracking(d) /\ version \in Nat \ {0}
    BY <1>3 DEF Saves
  <2>6. Steady \/ (version' = version + 1 /\ (Saving(d) => ~track[d].alone))
    BY <2>3
  <2> QED
    BY <2>1, <2>2, <2>4, <2>5, <2>6, OtherKept
<1> QED
  BY <1>4, <1>5

\* A call goes on, and neither the store nor a configuration changes.
LEMMA MovedSaves ==
  ASSUME Typed, Tracked, Saves, NEW c \in Calls, NEW l \in {"email", "audit", "answer"}, UnderWay(c),
         pc' = [pc EXCEPT ![c] = l], UNCHANGED <<key, stored, req, config, page, history>>,
         l = "email" \/ l = "audit" => req[c].kind \in Sends,
         l = "answer" => pc[c] \in {"read", "audit"} \/ req[c].kind \in Sends
  PROVE  Saves'
<1>1. Steady /\ UNCHANGED <<req, config, page, version, track, view>>
  BY SteadyStore DEF history
<1>2. Solo(c)' /\ \A d \in Calls \ {c} : Tracking(d)'
  BY <1>1, GoesOnSaves
<1>3. \A p \in Pages : Viewing(p)'
  BY <1>1, PagesKept
<1>4. Tracking(c) /\ pc'[c] = l
  BY DEF Saves, Typed, TypeOK
<1>5. Entire(config'[c])
  BY <1>1, <1>4 DEF Tracking
<1>6. req[c].kind \in Sends => req[c].kind # "load" /\ req[c].kind # "save"
  BY DEF Sends
<1>7. Places(c)' /\ Merged(c)' /\ Exact(c)' /\ Sent(c)'
  <2>1. req'[c] = req[c] /\ pc'[c] \notin Writing \union {"read"}
        /\ (pc'[c] = "audit" => req[c].kind \in Sends)
    BY <1>1, <1>4 DEF Writing
  <2>2. Places(c)' /\ Merged(c)'
    BY <1>6, <2>1 DEF Places, Merged
  <2>3. Exact(c)'
    BY <1>6, <2>1 DEF Exact, Writing
  <2>4. track'[c] = track[c]
    BY <1>1
  <2>5. (Sent(c) => Entire(req[c].patch) \/ ~(req[c].kind = "save" /\ track[c].alone /\ track[c].fresh))
    BY DEF Sent
  <2>6. Sent(c)'
    BY <1>4, <1>6, <2>1, <2>4, <2>5 DEF Tracking, Sent
  <2> QED
    BY <2>2, <2>3, <2>6
<1>8. Seen(c)'
  <2>1. track[c].seen \in 0..version /\ Seen(c) /\ Places(c)
    BY <1>4 DEF Tracking, Seen
  <2>2. pc[c] = "read" => track[c].seen # version
    BY <2>1 DEF Seen, Saves
  <2>3. Answering(c)' => Answering(c) \/ pc[c] = "read"
    BY <1>1, <1>4, <1>6, <2>1 DEF Answering, Places
  <2>4. Answering(c)' /\ track[c].seen = version =>
          Agree(MaskConfig(config[c]), MaskConfig(Current), {})
    BY <2>1, <2>2, <2>3 DEF Seen
  <2> QED
    BY <1>1, <1>4, <2>1, <2>4 DEF Seen, Steady
<1>9. Tracking(c)'
  BY <1>2, <1>5, <1>7, <1>8 DEF Tracking
<1> QED
  BY <1>1, <1>2, <1>3, <1>9 DEF Saves

\* A request begins, and a save is alone only if no other is under way.
LEMMA BeginSaves ==
  ASSUME Typed, Tracked, Saves, NEW c \in Calls, NEW r, NEW fresh, Begin(c, r, fresh),
         DOMAIN view' = Pages, \A p \in Pages : Viewing(p)',
         r.kind = "save" /\ fresh =>
           Entire(r.patch) /\ Agree(r.patch, MaskConfig(Current), r.dirty)
  PROVE  Saves'
<1> DEFINE meets == r.kind = "save" /\ \E d \in Calls : Saving(d)
<1>1. /\ pc[c] = "idle" /\ pc' = [pc EXCEPT ![c] = "read"] /\ req' = [req EXCEPT ![c] = r]
      /\ UNCHANGED <<key, stored, config, version>>
  BY DEF Begin, Goto
<1>2. track' = [d \in Calls |->
        IF d = c THEN [Fresh EXCEPT !.alone = ~meets, !.fresh = fresh]
        ELSE [track[d] EXCEPT !.alone = (@ /\ ~meets)]]
  BY DEF Begin
<1>3. meets => r.kind = "save" /\ \E d \in Calls : Saving(d)
  OBVIOUS
<1>4. r.kind = "save" /\ ~meets => \A d \in Calls : ~Saving(d)
  OBVIOUS
<1>5. Steady
  BY <1>1, SteadyStore
<1>6. pc'[c] = "read" /\ req'[c] = r
      /\ \A d \in Calls : d # c => pc'[d] = pc[d] /\ req'[d] = req[d]
  BY <1>1 DEF Typed, TypeOK, Shaped
<1>7. ~Saving(c) /\ (Saving(c)' => r.kind = "save")
      /\ \A d \in Calls : d # c => (Saving(d)' <=> Saving(d))
  BY <1>1, <1>6 DEF Saving, UnderWay
<1> HIDE DEF meets
<1>8. DOMAIN Fresh = {"base", "alone", "fresh", "seen"} /\ Fresh.seen = 0
  BY DEF Fresh
<1>9. track'[c].alone = ~meets /\ track'[c].fresh = fresh /\ track'[c].seen = 0
  BY <1>2, <1>8
<1>10. ASSUME NEW d \in Calls, d # c
       PROVE  /\ track'[d].base = track[d].base /\ track'[d].fresh = track[d].fresh
              /\ track'[d].seen = track[d].seen
              /\ track'[d].alone => track[d].alone /\ ~meets
  BY <1>2, <1>8, <1>10 DEF Tracked
<1>11. ASSUME NEW d \in Calls, d # c PROVE Tracking(d)'
  <2>1. Tracking(d) /\ Solo(d) /\ version \in Nat \ {0}
    BY DEF Saves, Tracking
  <2>2. Solo(d)'
    <3> SUFFICES ASSUME Saving(d)', track'[d].alone, NEW e \in Calls, Saving(e)' PROVE e = d
      BY DEF Solo
    <3>1. Saving(d) /\ track[d].alone /\ ~meets
      BY <1>7, <1>10, <1>11
    <3>2. r.kind # "save"
      BY <1>4, <3>1
    <3>3. Saving(e)
      BY <1>7, <3>2
    <3> QED
      BY <2>1, <3>1, <3>3 DEF Solo
  <2>3. config'[d] = config[d] /\ pc'[d] = pc[d] /\ req'[d] = req[d]
    BY <1>1, <1>6, <1>11
  <2>4. track'[d].base = track[d].base /\ track'[d].fresh = track[d].fresh
        /\ track'[d].seen = track[d].seen /\ (track'[d].alone => track[d].alone)
    BY <1>10, <1>11
  <2> QED
    BY <1>5, <2>1, <2>2, <2>3, <2>4, OtherKept
<1>12. Tracking(c)'
  <2>1. Entire(config'[c])
    BY <1>1 DEF Saves, Tracking
  <2>2. Solo(c)'
    <3> SUFFICES ASSUME Saving(c)', track'[c].alone, NEW e \in Calls, Saving(e)' PROVE e = c
      BY DEF Solo
    <3>1. r.kind = "save" /\ ~meets
      BY <1>7, <1>9
    <3> QED
      BY <1>4, <1>7, <3>1
  <2>3. Places(c)' /\ Merged(c)'
    BY <1>6 DEF Places, Merged, Writing
  <2>4. Exact(c)'
    BY <1>6 DEF Exact
  <2>5. Sent(c)'
    <3>1. Agree(r.patch, MaskConfig(Current), r.dirty) =>
            Agree(req'[c].patch, MaskConfig(Current'), req'[c].dirty)
      BY <1>5, <1>6 DEF Steady
    <3>2. track'[c].fresh => fresh
      BY <1>9
    <3> QED
      BY <1>6, <3>1, <3>2 DEF Sent, Writing
  <2>6. Seen(c)'
    BY <1>1, <1>6, <1>9 DEF Seen, Answering, Saves
  <2> QED
    BY <2>1, <2>2, <2>3, <2>4, <2>5, <2>6 DEF Tracking
<1> QED
  BY <1>1, <1>11, <1>12 DEF Saves

\* A form with one field edited is a form still, and agrees as before in
\* all other fields.
LEMMA EditedForm ==
  ASSUME NEW x, Entire(x), NEW e, NEW y, y = [x EXCEPT ![e[1]][e[2]] = e[3]]
  PROVE  /\ Entire(y)
         /\ \A z, dirty : Agree(x, z, dirty) => Agree(y, z, dirty \union {<<e[1], e[2]>>})
<1> DEFINE d == e[1]
           g == e[2]
           v == e[3]
<1>1. y = [x EXCEPT ![d] = [x[d] EXCEPT ![g] = v]] /\ DOMAIN x = Channels
  BY FieldNames DEF Entire
<1> HIDE DEF d, g, v
<1>2. DOMAIN y = DOMAIN x /\ \A ch \in Channels : y[ch] = IF ch = d THEN [x[d] EXCEPT ![g] = v] ELSE x[ch]
  BY <1>1
<1>3. ASSUME NEW ch \in Channels
      PROVE  /\ DOMAIN y[ch] = DOMAIN x[ch]
             /\ \A f \in DOMAIN x[ch] : <<ch, f>> # <<d, g>> => y[ch][f] = x[ch][f]
  <2>1. CASE ch = d
    <3>1. y[ch] = [x[ch] EXCEPT ![g] = v]
      BY <1>2, <2>1
    <3> QED
      BY <2>1, <3>1
  <2>2. CASE ch # d
    BY <1>2, <2>2
  <2> QED
    BY <2>1, <2>2
<1>4. Entire(y)
  BY <1>2, <1>3 DEF Entire
<1>5. ASSUME NEW z, NEW dirty, Agree(x, z, dirty), NEW ch \in Channels, NEW f \in Fields(ch),
             <<ch, f>> \notin dirty \union {<<d, g>>}
      PROVE  Shown(f, y[ch][f]) = Shown(f, z[ch][f])
  <2>1. y[ch][f] = x[ch][f]
    BY <1>3, <1>5 DEF Entire
  <2> QED
    BY <1>5, <2>1 DEF Agree
<1>6. \A z, dirty : Agree(x, z, dirty) => Agree(y, z, dirty \union {<<d, g>>})
  BY <1>5 DEF Agree
<1> QED
  BY <1>4, <1>6 DEF d, g

LEMMA RequestSaves ==
  ASSUME Typed, Tracked, Saves, NEW c \in Calls,
         (\E p \in Pages : Load(c, p) \/ Save(c, p) \/ Act(c, p)) \/ Send(c)
  PROVE  Saves'
<1>1. ASSUME NEW r, Begin(c, r, FALSE), UNCHANGED <<page, view>> PROVE Saves'
  <2>1. Steady
    BY <1>1, SteadyStore DEF Begin
  <2>2. \A p \in Pages : Viewing(p)'
    BY <1>1, <2>1, PagesKept
  <2>3. DOMAIN view' = Pages
    BY <1>1 DEF Saves
  <2> QED
    BY <1>1, <2>2, <2>3, BeginSaves
<1>2. ASSUME NEW p \in Pages, Load(c, p) PROVE Saves'
  BY <1>1, <1>2 DEF Load
<1>3. ASSUME NEW p \in Pages, Act(c, p) PROVE Saves'
  BY <1>1, <1>3 DEF Act
<1>4. ASSUME Send(c) PROVE Saves'
  BY <1>1, <1>4 DEF Send
<1>5. ASSUME NEW p \in Pages, Save(c, p) PROVE Saves'
  <2>1. PICK e \in Edits :
          LET form == [page[p].form EXCEPT ![e[1]][e[2]] = e[3]]
              dirty == view[p].dirty \union {<<e[1], e[2]>>}
          IN  /\ page' = [page EXCEPT ![p].form = form]
              /\ view' = [view EXCEPT ![p].dirty = dirty]
              /\ Begin(c, [Idle EXCEPT !.kind = "save", !.from = p, !.patch = form,
                                       !.dirty = dirty],
                       view[p].version = version)
    BY <1>5 DEF Save
  <2> DEFINE form == [page[p].form EXCEPT ![e[1]][e[2]] = e[3]]
             dirty == view[p].dirty \union {<<e[1], e[2]>>}
             r == [Idle EXCEPT !.kind = "save", !.from = p, !.patch = form, !.dirty = dirty]
  <2>2. Viewing(p) /\ \A q \in Pages : Viewing(q)
    BY DEF Saves
  <2>3. /\ Entire(form)
        /\ view[p].version = version => Agree(form, MaskConfig(Current), dirty)
    BY <2>2, EditedForm DEF Viewing
  <2>4. r.patch = form /\ r.dirty = dirty
    BY DEF Idle
  <2>5. /\ page' = [page EXCEPT ![p].form = form] /\ view' = [view EXCEPT ![p].dirty = dirty]
        /\ Begin(c, r, view[p].version = version)
    BY <2>1
  <2> HIDE DEF form, dirty, r
  <2>6. Steady
    BY <2>5, SteadyStore DEF Begin
  <2>7. DOMAIN view' = Pages /\ DOMAIN view = Pages
    BY <2>5 DEF Saves
  <2>8. ASSUME NEW q \in Pages PROVE Viewing(q)'
    <3>1. CASE q = p
      <4>1. page'[p].form = form
        BY <2>5 DEF Typed, Shaped
      <4>2. DOMAIN view'[p] = {"version", "dirty"} /\ view'[p].version = view[p].version
            /\ view'[p].dirty = dirty
        BY <2>2, <2>5, <2>7 DEF Viewing
      <4> QED
        BY <2>2, <2>3, <2>6, <3>1, <4>1, <4>2 DEF Viewing, Steady
    <3>2. CASE q # p
      <4>1. page'[q] = page[q] /\ view'[q] = view[q]
        BY <2>5, <2>7, <3>2 DEF Typed, Shaped
      <4> QED
        BY <2>2, <2>6, <4>1 DEF Viewing, Steady
    <3> QED
      BY <3>1, <3>2
  <2>9. ASSUME NEW fresh, fresh = (view[p].version = version), Begin(c, r, fresh) PROVE Saves'
    <3>1. fresh => Entire(r.patch) /\ Agree(r.patch, MaskConfig(Current), r.dirty)
      BY <2>3, <2>4, <2>9
    <3> QED
      BY <2>7, <2>8, <2>9, <3>1, BeginSaves
  <2> QED
    BY <2>5, <2>9
<1> QED
  BY <1>2, <1>3, <1>4, <1>5

\* The configuration is read; a save that goes on alone found what is stored.
LEMMA ReadSaves ==
  ASSUME Typed, Tracked, DOMAIN config = Calls, Saves, NEW c \in Calls, Read(c)
  PROVE  Saves'
<1>1. PICK seen \in {Current, Default} :
        /\ config' = [config EXCEPT ![c] = IF req[c].kind = "save" THEN Update(seen, req[c].patch) ELSE seen]
        /\ track' = [track EXCEPT ![c].base = seen, ![c].alone = (@ /\ seen = Current),
             ![c].seen = IF seen = Current THEN version ELSE 0]
  BY DEF Read
<1>2. /\ pc[c] = "read" /\ pc' = [pc EXCEPT ![c] = AfterRead(c)]
      /\ UNCHANGED <<key, stored, req, page, version, view>>
  BY DEF Read, Goto
<1>3. /\ AfterRead(c) \in {"open", "upsert", "audit", "answer", "teams"}
      /\ req[c].kind = "save" => AfterRead(c) \in {"open", "upsert"}
      /\ req[c].kind # "save" => AfterRead(c) \notin {"open", "upsert"}
      /\ AfterRead(c) = "audit" => req[c].kind = "preview"
  BY DEF AfterRead, Typed, TypeOK, Kinds, Sends
<1>4. Steady
  BY <1>2, SteadyStore
<1>5. DOMAIN Fresh = {"base", "alone", "fresh", "seen"}
  BY DEF Fresh
<1>6. /\ track'[c].base = seen /\ track'[c].fresh = track[c].fresh
      /\ track'[c].seen = IF seen = Current THEN version ELSE 0
      /\ track'[c].alone => track[c].alone /\ seen = Current
      /\ \A d \in Calls \ {c} : track'[d] = track[d]
  BY <1>1, <1>5 DEF Tracked
<1>7. /\ config'[c] = IF req[c].kind = "save" THEN Update(seen, req[c].patch) ELSE seen
      /\ \A d \in Calls \ {c} : config'[d] = config[d]
  BY <1>1
<1>8. UnderWay(c) /\ AfterRead(c) \notin {"idle", "done"}
  BY <1>2, <1>3 DEF UnderWay
<1>9. Solo(c)' /\ \A d \in Calls \ {c} : Tracking(d)'
  <2>1. track'[c].alone => track[c].alone
    BY <1>6
  <2>2. \A d \in Calls \ {c} : config'[d] = config[d] /\ track'[d] = track[d]
    BY <1>6, <1>7
  <2> QED
    BY <1>2, <1>4, <1>8, <2>1, <2>2, GoesOnSaves
<1>10. \A p \in Pages : Viewing(p)'
  BY <1>2, <1>4, PagesKept
<1>11. pc'[c] = AfterRead(c) /\ req'[c] = req[c]
  BY <1>2 DEF Typed, TypeOK
<1>12. seen \in Config /\ Entire(seen)
  BY CurrentEntire, DefaultType, DefaultEntire DEF Typed, TypeOK
<1>13. Tracking(c)'
  <2>1. Entire(config'[c])
    BY <1>7, <1>12, UpdateField
  <2>2. Places(c)' /\ Merged(c)'
    BY <1>3, <1>6, <1>7, <1>11, <1>12 DEF Places, Merged
  <2>3. Exact(c)'
    BY <1>3, <1>11 DEF Exact
  <2>4. Sent(c)'
    <3>1. pc'[c] \notin {"read"}
      BY <1>3, <1>11
    <3> SUFFICES ASSUME req'[c].kind = "save", track'[c].alone, track'[c].fresh
                 PROVE  Entire(req[c].patch) /\ Agree(req[c].patch, MaskConfig(seen), req[c].dirty)
      BY <1>6, <1>11, <3>1 DEF Sent
    <3>2. track[c].alone /\ track[c].fresh /\ seen = Current
      BY <1>6
    <3> QED
      BY <1>2, <1>11, <3>2 DEF Saves, Tracking, Sent
  <2>5. Seen(c)'
    <3>1. version \in Nat \ {0} /\ version' = version
      BY <1>2 DEF Saves
    <3>2. track'[c].seen \in 0..version /\ (track'[c].seen = version => seen = Current)
      BY <1>6, <3>1
    <3>3. pc'[c] \notin {"idle", "read"}
      BY <1>3, <1>11
    <3>4. Answering(c)' => req[c].kind # "save"
      BY <1>3, <1>11 DEF Answering
    <3>5. Answering(c)' /\ track'[c].seen = version' =>
            Agree(MaskConfig(config'[c]), MaskConfig(Current'), {})
      BY <1>4, <1>7, <3>1, <3>2, <3>4, AgreeSelf DEF Steady
    <3> QED
      BY <3>1, <3>2, <3>3, <3>5 DEF Seen
  <2> QED
    BY <1>9, <2>1, <2>2, <2>3, <2>4, <2>5 DEF Tracking
<1> QED
  BY <1>2, <1>9, <1>10, <1>13 DEF Saves

\* What a call stores is read as its configuration was made.
LEMMA StoredReads ==
  ASSUME Typed, NEW c \in Calls, stored' = ToStore(c), key' = key
  PROVE  /\ Current' \in Config
         /\ \A ch \in Channels : \A f \in Fields(ch) : Current'[ch][f] = Made(f, config[c][ch][f])
<1>1. key \in Keys \union {NoKey}
  BY DEF Typed, TypeOK
<1>2. Current' = View(stored', key')
  BY DEF Current, Readable, View
<1>3. stored' = SealConfig(Sanitize(config[c]), key)
  BY DEF ToStore
<1>4. Current' = View(SealConfig(Sanitize(config[c]), key), key)
  BY <1>2, <1>3
<1> QED
  BY <1>1, <1>4, Returned, ViewType

\* A step of a save that changes what is stored.
LEMMA StoreSaves ==
  ASSUME Typed, Tracked, Saves, NEW c \in Calls, NEW l \in {"write", "audit", "answer"},
         pc[c] \in Writing, req[c].kind = "save", pc' = [pc EXCEPT ![c] = l],
         UNCHANGED <<req, config, page, view>>, version' = version + 1,
         \A d \in Calls \ {c} : track'[d] = track[d],
         track'[c].base = track[c].base, track'[c].fresh = track[c].fresh,
         track'[c].alone = track[c].alone,
         Exact(c)', Seen(c)'
  PROVE  Saves'
<1>1. UnderWay(c) /\ Saving(c) /\ l \notin {"idle", "done"}
  BY DEF UnderWay, Saving, Writing
<1>2. Solo(c)' /\ \A d \in Calls \ {c} : Tracking(d)'
  BY <1>1, GoesOnSaves
<1>3. \A p \in Pages : Viewing(p)'
  BY PagesKept
<1>4. Tracking(c) /\ pc'[c] = l /\ req'[c] = req[c] /\ config'[c] = config[c]
  BY DEF Saves, Typed, TypeOK
<1>5. Entire(config'[c]) /\ Places(c)'
  BY <1>4 DEF Tracking, Places
<1>6. Merged(c)'
  BY <1>4 DEF Tracking, Merged
<1>7. Sent(c)'
  BY <1>4 DEF Tracking, Sent, Writing
<1>8. Tracking(c)'
  BY <1>2, <1>5, <1>6, <1>7 DEF Tracking
<1> QED
  BY <1>2, <1>3, <1>8 DEF Saves

LEMMA OpenSaves ==
  ASSUME Typed, Alone, Tracked, Saves, NEW c \in Calls, Open(c)
  PROVE  Saves'
<1>1. /\ pc[c] = "open" /\ pc' = [pc EXCEPT ![c] = "write"] /\ stored' = Empty
      /\ version' = version + 1 /\ UNCHANGED <<req, config, page, view, track>>
  BY DEF Open, Goto
<1>2. req[c].kind = "save" /\ pc[c] \in Writing
  BY <1>1 DEF Alone, Writing
<1>3. pc'[c] = "write"
  BY <1>1 DEF Typed, TypeOK
<1>4. Exact(c)'
  BY <1>1, <1>3 DEF Exact
<1>5. Seen(c)'
  BY <1>1, <1>3 DEF Seen, Answering, Saves, Tracking
<1> QED
  BY <1>1, <1>2, <1>4, <1>5, StoreSaves

LEMMA FaultSaves ==
  ASSUME Typed, Alone, Tracked, Saves, NEW c \in Calls, WriteFault(c)
  PROVE  Saves'
<1>1. /\ pc[c] \in Writing /\ pc' = [pc EXCEPT ![c] = "answer"]
      /\ version' = version + 1 /\ UNCHANGED <<req, config, page, view, track>>
  BY DEF WriteFault, Conclude, Goto, Writing
<1>2. req[c].kind = "save"
  BY <1>1 DEF Alone, Writing
<1>3. pc'[c] = "answer"
  BY <1>1 DEF Typed, TypeOK
<1>4. Exact(c)'
  BY <1>3 DEF Exact
<1>5. Seen(c)'
  <2>1. track[c].seen \in 0..version /\ version \in Nat
    BY DEF Seen, Saves, Tracking
  <2>2. track'[c].seen \in 0..version' /\ track'[c].seen # version'
    BY <1>1, <2>1
  <2> QED
    BY <1>3, <2>2 DEF Seen
<1> QED
  BY <1>1, <1>2, <1>4, <1>5, StoreSaves

\* A save that is alone finds the file empty, and what it writes is stored.
LEMMA WrittenSaves ==
  ASSUME Typed, Alone, Tracked, DOMAIN config = Calls, Saves, NEW c \in Calls, Write(c) \/ Upsert(c)
  PROVE  Saves'
<1>1. /\ pc[c] \in {"write", "upsert"} /\ pc' = [pc EXCEPT ![c] = "audit"]
      /\ version' = version + 1 /\ UNCHANGED <<key, req, config, page, view>>
      /\ stored' = ToStore(c) \/ (pc[c] = "write" /\ stored # Empty)
      /\ track' = [track EXCEPT ![c].seen = IF stored' = ToStore(c) THEN version + 1 ELSE 0]
  BY DEF Write, Upsert, Goto
<1>2. req[c].kind = "save" /\ pc[c] \in Writing
  BY <1>1 DEF Alone, Writing
<1>3. pc'[c] = "audit" /\ config'[c] = config[c] /\ req'[c] = req[c]
  BY <1>1 DEF Typed, TypeOK
<1>4. DOMAIN Fresh = {"base", "alone", "fresh", "seen"}
  BY DEF Fresh
<1>5. /\ \A d \in Calls \ {c} : track'[d] = track[d]
      /\ track'[c].base = track[c].base /\ track'[c].fresh = track[c].fresh
      /\ track'[c].alone = track[c].alone
      /\ track'[c].seen = IF stored' = ToStore(c) THEN version + 1 ELSE 0
  BY <1>1, <1>4 DEF Tracked
<1>6. Tracking(c) /\ version \in Nat \ {0}
  BY DEF Saves
<1>7. ASSUME stored' = ToStore(c)
      PROVE  /\ Current' \in Config
             /\ \A ch \in Channels : \A f \in Fields(ch) :
                  Current'[ch][f] = Made(f, config[c][ch][f])
  BY <1>1, <1>7, StoredReads
<1>8. Exact(c)'
  <2> SUFFICES ASSUME track'[c].alone PROVE Reads(config[c])'
    BY <1>3 DEF Exact
  <2>1. pc[c] = "write" => stored = Empty
    BY <1>2, <1>5, <1>6 DEF Tracking, Exact
  <2>2. stored' = ToStore(c)
    BY <1>1, <2>1
  <2>3. \A ch \in Channels : \A f \in Fields(ch) : Current'[ch][f] = Made(f, config'[c][ch][f])
    BY <1>3, <1>7, <2>2
  <2> QED
    BY <2>3 DEF Reads
<1>9. Seen(c)'
  <2>1. track'[c].seen \in 0..version'
    BY <1>1, <1>5, <1>6
  <2>2. ASSUME track'[c].seen = version'
        PROVE  Agree(MaskConfig(config[c]), MaskConfig(Current'), {})
    <3>1. stored' = ToStore(c)
      BY <1>1, <1>5, <1>6, <2>2
    <3>2. Entire(config[c]) /\ Entire(Current')
      BY <1>6, <1>7, <3>1, ConfigFields DEF Tracking
    <3>3. ASSUME NEW ch \in Channels, NEW f \in Fields(ch), f \in SecretFields
          PROVE  config[c][ch][f] \in Secret
      <4>1. track[c].base \in Config /\ config[c] = Update(track[c].base, req[c].patch)
        BY <1>2, <1>6 DEF Tracking, Merged
      <4> QED
        BY <3>3, <4>1, UpdateSecrets
    <3>4. ASSUME NEW z, z = Current' PROVE Agree(MaskConfig(config[c]), MaskConfig(z), {})
      <4>1. \A ch \in Channels : \A f \in Fields(ch) : z[ch][f] = Made(f, config[c][ch][f])
        BY <1>7, <3>1, <3>4
      <4> QED
        BY <3>2, <3>3, <3>4, <4>1, ShownAlike
    <3> QED
      BY <3>4
  <2>3. pc'[c] \notin {"idle", "read"}
    BY <1>3
  <2> QED
    BY <1>3, <2>1, <2>2, <2>3 DEF Seen
<1> QED
  BY <1>1, <1>2, <1>5, <1>8, <1>9, StoreSaves

\* Calls are forgotten; with the key changes only what no call is waiting for.
LEMMA ForgetSaves ==
  ASSUME Typed, Tracked, Saves, NEW C \in SUBSET Calls, Forget(C),
         UNCHANGED <<stored, version>>,
         key' = key \/ \A c \in Calls \ C : ~UnderWay(c),
         DOMAIN view' = Pages, \A p \in Pages : Viewing(p)'
  PROVE  Saves'
<1>1. \A c \in Calls :
        IF c \in C THEN pc'[c] = "done" /\ req'[c] = Idle /\ config'[c] = Default /\ track'[c] = Fresh
        ELSE pc'[c] = pc[c] /\ req'[c] = req[c] /\ config'[c] = config[c] /\ track'[c] = track[c]
  BY DEF Forget
<1>2. ASSUME NEW c \in C PROVE Tracking(c)'
  <2>1. pc'[c] = "done" /\ req'[c].kind = "load" /\ config'[c] = Default /\ track'[c].seen = 0
    BY <1>1, <1>2 DEF Idle, Fresh
  <2>2. Entire(config'[c]) /\ Places(c)' /\ Merged(c)' /\ Exact(c)' /\ Sent(c)' /\ Solo(c)'
    BY <2>1, DefaultEntire DEF Places, Merged, Exact, Sent, Solo, Saving, UnderWay
  <2>3. Seen(c)'
    BY <2>1 DEF Seen, Answering, Saves
  <2> QED
    BY <2>2, <2>3 DEF Tracking
<1>3. ASSUME NEW c \in Calls, c \notin C PROVE Tracking(c)'
  <2>1. pc'[c] = pc[c] /\ req'[c] = req[c] /\ config'[c] = config[c] /\ track'[c] = track[c]
    BY <1>1, <1>3
  <2>2. Tracking(c) /\ Solo(c) /\ version \in Nat \ {0}
    BY DEF Saves, Tracking
  <2>3. \A e \in Calls : Saving(e)' => Saving(e)
    BY <1>1 DEF Saving, UnderWay
  <2>4. Solo(c)'
    BY <2>1, <2>2, <2>3, StaysSolo
  <2>5. CASE key' = key
    <3>1. Steady
      BY <2>5, SteadyStore
    <3> QED
      BY <2>1, <2>2, <2>4, <3>1, OtherKept
  <2>6. CASE ~UnderWay(c)
    <3>1. pc[c] \in {"idle", "done"}
      BY <2>6 DEF UnderWay
    <3>2. Entire(config'[c]) /\ Places(c)' /\ Merged(c)' /\ Exact(c)'
      BY <2>1, <2>2, <3>1 DEF Tracking, Places, Merged, Exact, Writing
    <3>3. Sent(c)'
      BY <2>1, <2>2, <3>1 DEF Tracking, Sent, Writing
    <3>4. Seen(c)'
      BY <2>1, <2>2, <3>1 DEF Tracking, Seen, Answering
    <3> QED
      BY <2>4, <3>2, <3>3, <3>4 DEF Tracking
  <2> QED
    BY <1>3, <2>5, <2>6
<1> QED
  BY <1>2, <1>3 DEF Saves

LEMMA AnswerSaves ==
  ASSUME Typed, Tracked, Saves, NEW c \in Calls, Answer(c)
  PROVE  Saves'
<1> DEFINE p == req[c].from
           form == MaskConfig(config[c])
           shown == [version |-> track[c].seen, dirty |-> {}]
<1>1. /\ pc[c] = "answer" /\ Forget({c}) /\ UNCHANGED <<key, stored, version>>
      /\ \/ /\ p \in Pages /\ req[c].kind \in {"load", "save"}
            /\ page' = [page EXCEPT ![p] = [form |-> form, loaded |-> TRUE]]
            /\ view' = [view EXCEPT ![p] = shown]
         \/ UNCHANGED <<page, view>>
  BY DEF Answer
<1>2. Steady
  BY <1>1, SteadyStore
<1>3. DOMAIN view' = Pages
  BY <1>1 DEF Saves
<1>4. CASE UNCHANGED <<page, view>>
  <2>1. \A q \in Pages : Viewing(q)'
    BY <1>2, <1>4, PagesKept
  <2>2. {c} \in SUBSET Calls
    OBVIOUS
  <2> QED
    BY <1>1, <1>3, <2>1, <2>2, ForgetSaves
<1>5. CASE /\ p \in Pages /\ req[c].kind \in {"load", "save"}
           /\ page' = [page EXCEPT ![p] = [form |-> form, loaded |-> TRUE]]
           /\ view' = [view EXCEPT ![p] = shown]
  <2>1. Entire(config[c]) /\ Seen(c)
    BY DEF Saves, Tracking
  <2>2. Entire(form)
    BY <2>1, MaskField, FieldNames
  <2>3. track[c].seen \in 0..version
        /\ (track[c].seen = version => Agree(form, MaskConfig(Current), {}))
    BY <1>1, <1>5, <2>1 DEF Seen, Answering
  <2>4. DOMAIN shown = {"version", "dirty"} /\ shown.version = track[c].seen /\ shown.dirty = {}
    OBVIOUS
  <2> HIDE DEF form, shown
  <2>5. ASSUME NEW q \in Pages PROVE Viewing(q)'
    <3>1. CASE q = p
      <4>1. page'[q].form = form /\ view'[q] = shown
        BY <1>5, <3>1 DEF Typed, Shaped, Saves
      <4> QED
        BY <1>2, <2>2, <2>3, <2>4, <4>1 DEF Viewing, Steady
    <3>2. CASE q # p
      <4>1. page'[q] = page[q] /\ view'[q] = view[q] /\ Viewing(q)
        BY <1>5, <3>2 DEF Typed, Shaped, Saves
      <4> QED
        BY <1>2, <4>1 DEF Viewing, Steady
    <3> QED
      BY <3>1, <3>2
  <2>6. {c} \in SUBSET Calls
    OBVIOUS
  <2> QED
    BY <1>1, <1>3, <2>5, <2>6, ForgetSaves
<1> QED
  BY <1>1, <1>4, <1>5

\* What pages show does not depend on the key.
LEMMA CrashSaves ==
  ASSUME Typed, Tracked, Masking, Saves, Crash
  PROVE  Saves'
<1> DEFINE C == {c \in Calls : UnderWay(c)}
<1>1. /\ Forget(C) /\ UNCHANGED <<stored, version, page, view>>
      /\ key \in Keys \union {NoKey} /\ key' \in Keys \union {NoKey}
  BY DEF Crash, Typed, TypeOK
<1>2. C \in SUBSET Calls /\ \A c \in Calls \ C : ~UnderWay(c)
  OBVIOUS
<1> HIDE DEF C
<1>3. stored \notin {Missing, Empty, Torn} => Clean(stored, typed)
  BY DEF Masking, Readable
<1>4. Current = View(stored, key) /\ Current' = View(stored, key')
  BY <1>1 DEF Current, Readable, View
<1>5. \A ch \in Channels : \A f \in Fields(ch) :
        MaskConfig(Current)[ch][f] = MaskConfig(Current')[ch][f]
  <2>1. ASSUME NEW k, k = key' PROVE \A ch \in Channels : \A f \in Fields(ch) :
          MaskConfig(View(stored, key))[ch][f] = MaskConfig(View(stored, k))[ch][f]
    BY <1>1, <1>3, <2>1, ShownWithAnyKey
  <2> QED
    BY <1>4, <2>1
<1>6. ASSUME NEW p \in Pages PROVE Viewing(p)'
  BY <1>1, <1>5 DEF Saves, Viewing, Agree
<1>7. DOMAIN view' = Pages
  BY <1>1 DEF Saves
<1> QED
  BY <1>1, <1>2, <1>6, <1>7, ForgetSaves

LEMMA StepSaves ==
  Typed /\ Alone /\ Dispatching /\ Masking /\ Saves /\ [Next]_vars => Saves'
<1> SUFFICES ASSUME Typed, Alone, Dispatching, Masking, Saves, [Next]_vars PROVE Saves'
  OBVIOUS
<1>1. Tracked /\ DOMAIN config = Calls
  BY DEF Dispatching
<1>2. ASSUME NEW c \in Calls, Refuse(c) \/ Audit(c) PROVE Saves'
  <2>1. /\ pc[c] \in {"read", "audit"} /\ pc' = [pc EXCEPT ![c] = "answer"]
        /\ UNCHANGED <<key, stored, req, config, page, history>>
    BY <1>2 DEF Refuse, Audit, Conclude, Goto
  <2>2. UnderWay(c)
    BY <2>1 DEF UnderWay
  <2> QED
    BY <1>1, <2>1, <2>2, MovedSaves
<1>3. ASSUME NEW c \in Calls, NEW ch \in Channels,
             Skip(c, ch) \/ Deliver(c, ch) \/ Throw(c, ch) PROVE Saves'
  <2>1. pc[c] = ch /\ AfterSend(ch) \in {"email", "audit"}
    BY <1>3 DEF Skip, Deliver, Throw, Sendable, AfterSend
  <2>2. PICK l \in {"email", "audit", "answer"} : pc' = [pc EXCEPT ![c] = l]
    BY <1>3, <2>1 DEF Skip, Deliver, Throw, Conclude, Goto
  <2>3. UNCHANGED <<key, stored, req, config, page, history>>
    BY <1>3 DEF Skip, Deliver, Throw
  <2>4. req[c].kind \in Sends /\ UnderWay(c)
    BY <2>1 DEF Dispatching, Honest, Stages, Channels, UnderWay
  <2> QED
    BY <1>1, <2>2, <2>3, <2>4, MovedSaves
<1>4. ASSUME NEW c \in Calls, Answer(c) PROVE Saves'
  BY <1>1, <1>4, AnswerSaves
<1>5. CASE Crash
  BY <1>1, <1>5, CrashSaves
<1>6. CASE UNCHANGED vars
  <2>1. UNCHANGED <<key, stored, req, pc, config, page, version, track, view>>
    BY <1>6 DEF vars, callVars, history
  <2>2. Steady
    BY <2>1, SteadyStore
  <2>3. \A p \in Pages : Viewing(p)'
    BY <2>1, <2>2, PagesKept
  <2>4. ASSUME NEW c \in Calls PROVE Tracking(c)'
    <3>1. Tracking(c) /\ Solo(c) /\ version \in Nat \ {0}
      BY DEF Saves, Tracking
    <3>2. Solo(c)'
      BY <2>1, <3>1 DEF Solo, Saving, UnderWay
    <3> QED
      BY <2>1, <2>2, <3>1, <3>2, OtherKept
  <2> QED
    BY <2>1, <2>3, <2>4 DEF Saves
<1> QED
  BY <1>1, <1>2, <1>3, <1>4, <1>5, <1>6, RequestSaves, ReadSaves, OpenSaves, WrittenSaves, FaultSaves
  DEF Next

LEMMA SavesAlways == Spec => [](Typed /\ Saves)
<1> DEFINE IInv == Typed /\ Alone /\ Dispatching /\ Masking /\ Saves
<1>1. Init => IInv
  BY InitTyped, InitAlone, InitDispatching, InitMasking, InitSaves
<1>2. IInv /\ [Next]_vars => IInv'
  <2> SUFFICES ASSUME Typed, Alone, Dispatching, Masking, Saves, [Next]_vars PROVE IInv'
    OBVIOUS
  <2>1. Typed'
    BY StepTyped
  <2>2. Alone'
    BY StepAlone
  <2>3. Dispatching'
    BY StepDispatching
  <2>4. Masking'
    BY StepMasking
  <2>5. Saves'
    BY StepSaves
  <2> QED
    BY <2>1, <2>2, <2>3, <2>4, <2>5
<1>3. IInv => Typed /\ Saves
  OBVIOUS
<1> QED
  BY <1>1, <1>2, <1>3, PTL DEF Spec

(* A save that no other save overlaps changes exactly what it names: sealed*)
(* and stored, then read again, the configuration is the one it asked for. *)
THEOREM ExactAlone == Spec => []AloneIsExact
<1>1. Typed /\ Saves => AloneIsExact
  <2> SUFFICES ASSUME Saves, NEW c \in Calls, Saving(c), pc[c] = "audit", track[c].alone
               PROVE  Asked(track[c].base, req[c].patch)
    BY DEF AloneIsExact
  <2> DEFINE old == track[c].base
             p == req[c].patch
  <2>1. old \in Config /\ config[c] = Update(old, p) /\ Reads(config[c])
    BY DEF Saves, Tracking, Merged, Exact, Saving
  <2> HIDE DEF old, p
  <2>2. ASSUME NEW ch \in Channels, NEW f \in Fields(ch)
        PROVE  Current[ch][f] = Made(f, Merge(old[ch], p[ch], f))
    <3>1. Current[ch][f] = Made(f, Update(old, p)[ch][f])
      BY <2>1 DEF Reads
    <3> QED
      BY <3>1, UpdateField
  <2>3. Asked(old, p)
    BY <2>1, <2>2, AskedFor
  <2> QED
    BY <2>3 DEF old, p
<1> QED
  BY <1>1, SavesAlways, PTL

(* If nobody else changed the configuration since a form was filled, a save*)
(* of it that is alone changes no field its user left as it was.           *)
THEOREM EditsOnly == Spec => []OnlyEditsChange
<1>1. Typed /\ Saves => OnlyEditsChange
  <2> SUFFICES ASSUME Typed, Saves, NEW c \in Calls, Saving(c), pc[c] = "audit",
                      track[c].alone, track[c].fresh,
                      NEW ch \in Channels, NEW f \in DOMAIN Current[ch],
                      <<ch, f>> \notin req[c].dirty
               PROVE  Current[ch][f] = Sanitize(track[c].base)[ch][f]
    BY DEF OnlyEditsChange
  <2> DEFINE old == track[c].base
             p == req[c].patch
             dirty == req[c].dirty
  <2>1. old \in Config /\ config[c] = Update(old, p) /\ Reads(config[c])
    BY DEF Saves, Tracking, Merged, Exact, Saving
  <2>2. Entire(p) /\ Agree(p, MaskConfig(old), dirty)
    BY DEF Saves, Tracking, Sent, Saving
  <2> HIDE DEF old, p, dirty
  <2>3. f \in Fields(ch)
    BY CurrentEntire DEF Typed, TypeOK, Entire
  <2>4. Current[ch][f] = Made(f, Update(old, p)[ch][f])
    BY <2>1, <2>3 DEF Reads
  <2>5. Made(f, Update(old, p)[ch][f]) = Made(f, old[ch][f])
    BY <2>1, <2>2, <2>3, UpdateKeeps DEF dirty
  <2>6. Sanitize(old)[ch][f] = Made(f, old[ch][f])
    BY <2>3, SanitizeField
  <2> QED
    BY <2>4, <2>5, <2>6 DEF old
<1> QED
  BY <1>1, SavesAlways, PTL
=============================================================================
