---------------------------- MODULE AlertsProofs ----------------------------
(***************************************************************************)
(* Proofs about the notification configuration and the alerts sent by it,  *)
(* for any calls, pages, edits, patches, keys, faults and crashes.         *)
(***************************************************************************)
EXTENDS Alerts, SequenceTheorems, TLAPS

----------------------------------------------------------------------------
(* Lemmas about configurations.                                            *)

\* What is made to fit has its type, whatever it was.
LEMMA FitType ==
  ASSUME NEW v, NEW S, NEW fallback \in S
  PROVE  Fit(v, S, fallback) \in S
BY DEF Fit

LEMMA ToBoolsType ==
  ASSUME NEW r, NEW S
  PROVE  ToBools(r, S) \in [S -> BOOLEAN]
BY FitType DEF ToBools

LEMMA BlankType == Blank \in Secret
<1>1. <<>> \in Seq(Keys)
  BY EmptySeq
<1> QED
  BY <1>1, TextsAssumption DEF Blank, Plain, Secret

LEMMA PlainType ==
  ASSUME NEW t \in Texts
  PROVE  Plain(t) \in Secret
<1>1. <<>> \in Seq(Keys)
  BY EmptySeq
<1> QED
  BY <1>1 DEF Plain, Secret

\* A secret of a configuration has no blanks around it; one that is typed is
\* made to lose them, whatever it was.
LEMMA SecretTrimmed ==
  ASSUME NEW v \in Secret
  PROVE  v \notin Untrimmed /\ v # Junk /\ FitSecret(v) = v
<1>1. v.text \in Texts
  BY DEF Secret
<1>2. v \notin Untrimmed
  <2> SUFFICES ASSUME NEW t \in Padded, v = Plain(t) PROVE FALSE
    BY DEF Untrimmed
  <2>1. v.text = t
    BY DEF Plain
  <2> QED
    BY <1>1, <2>1, PaddedAssumption
<1> QED
  BY <1>2, JunkAssumption DEF FitSecret, Fit

LEMMA TypedSecret ==
  ASSUME NEW t \in Padded
  PROVE  /\ FitSecret(Plain(t)) = Plain(Trimmed[t])
         /\ Trimmed[t] \in Texts
         /\ Plain(t).text = t
<1>1. Plain(t) \in Untrimmed /\ Plain(t) # Junk
  BY JunkAssumption DEF Untrimmed
<1>2. Plain(t).text = t
  BY DEF Plain
<1> QED
  BY <1>1, <1>2, PaddedAssumption DEF FitSecret

LEMMA FitSecretCases ==
  ASSUME NEW v
  PROVE  \/ v \in Secret /\ FitSecret(v) = v
         \/ \E t \in Padded : v = Plain(t) /\ FitSecret(v) = Plain(Trimmed[t])
         \/ FitSecret(v) = Blank
<1>1. CASE v \in Secret
  BY <1>1, SecretTrimmed
<1>2. CASE v \in Untrimmed
  BY <1>2, TypedSecret DEF Untrimmed
<1>3. CASE v \notin Secret /\ v \notin Untrimmed
  BY <1>3 DEF FitSecret, Fit
<1> QED
  BY <1>1, <1>2, <1>3

LEMMA FitSecretType ==
  ASSUME NEW v
  PROVE  FitSecret(v) \in Secret /\ FitSecret(FitSecret(v)) = FitSecret(v)
<1>1. FitSecret(v) \in Secret
  BY FitSecretCases, TypedSecret, PlainType, BlankType
<1> QED
  BY <1>1, SecretTrimmed

LEMMA TeamsType ==
  ASSUME NEW t
  PROVE  SanitizeTeams(t) \in TeamsConfig
BY FitType, FitSecretType, ToBoolsType DEF SanitizeTeams, TeamsConfig, Toggles, Routing

LEMMA EmailFields ==
  ASSUME NEW a \in BOOLEAN, NEW h \in Names, NEW n \in Ports, NEW s \in Secret, NEW f \in Names,
         NEW t \in RecipientLists, NEW r \in Toggles, NEW b \in Routing,
         NEW g \in RecipientGroups, NEW m \in GroupMaps
  PROVE  [enabled |-> a, smtpHost |-> h, smtpPort |-> n, smtpPass |-> s, from |-> f, to |-> t,
          routes |-> r, bySeverity |-> b, recipientGroups |-> g, severityGroupMap |-> m]
           \in EmailConfig
BY DEF EmailConfig

LEMMA EmailType ==
  ASSUME NEW e
  PROVE  SanitizeEmail(e) \in EmailConfig
<1> DEFINE en == Fit(e.enabled, BOOLEAN, FALSE)
           ho == Fit(e.smtpHost, Names, "")
           po == Fit(e.smtpPort, Ports, 587)
           pa == FitSecret(e.smtpPass)
           fr == Fit(e.from, Names, "")
           to == Fit(e.to, RecipientLists, {})
           ro == ToBools(e.routes, Reasons)
           se == ToBools(e.bySeverity, Severities)
           rg == [g \in DOMAIN e.recipientGroups \intersect Groups |->
                    Fit(e.recipientGroups[g], RecipientLists, {})]
           sg == [s \in Severities |-> Fit(Field(e.severityGroupMap, s), Groups, "")]
<1>1. SanitizeEmail(e) =
        [enabled |-> en, smtpHost |-> ho, smtpPort |-> po, smtpPass |-> pa, from |-> fr, to |-> to,
         routes |-> ro, bySeverity |-> se, recipientGroups |-> rg, severityGroupMap |-> sg]
  BY DEF SanitizeEmail
<1>2. {} \in RecipientLists
  BY DEF RecipientLists
<1>3. rg \in RecipientGroups
  <2>1. DOMAIN e.recipientGroups \intersect Groups \in SUBSET Groups
    OBVIOUS
  <2>2. rg \in [DOMAIN e.recipientGroups \intersect Groups -> RecipientLists]
    BY <1>2, FitType
  <2> HIDE DEF rg
  <2> QED
    BY <2>1, <2>2 DEF RecipientGroups
<1>4. sg \in GroupMaps
  <2>1. sg \in [Severities -> Groups \union {""}]
    BY DEF Fit
  <2> HIDE DEF sg
  <2> QED
    BY <2>1 DEF GroupMaps
<1>5. 587 \in Ports
  <2>1. 587 \in 1..65535
    OBVIOUS
  <2> QED
    BY <2>1 DEF Ports
<1>6. ho \in Names /\ fr \in Names /\ po \in Ports /\ to \in RecipientLists
  BY <1>2, <1>5, FitType, NamesAssumption
<1>7. pa \in Secret
  BY FitSecretType
<1>8. en \in BOOLEAN
  BY FitType
<1>9. ro \in Toggles /\ se \in Routing
  BY ToBoolsType DEF Toggles, Routing
<1> HIDE DEF en, ho, po, pa, fr, to, ro, se, rg, sg
<1> QED
  BY <1>1, <1>3, <1>4, <1>6, <1>7, <1>8, <1>9, EmailFields

\* A sanitized configuration is one, whatever it is made from.
LEMMA SanitizeType ==
  ASSUME NEW c
  PROVE  Sanitize(c) \in Config
BY TeamsType, EmailType DEF Sanitize, Config

\* Sealing and unsealing keep the text.
LEMMA SealFacts ==
  ASSUME NEW v \in Secret, NEW k \in Keys \union {NoKey}
  PROVE  /\ Seal(v, k) \in Secret /\ Seal(v, k).text = v.text
         /\ Unseal(v, k) \in Secret /\ Unseal(v, k).text = v.text
<1>1. v.text \in Texts /\ v.sealed \in Seq(Keys) /\ v = [text |-> v.text, sealed |-> v.sealed]
  BY DEF Secret
<1>2. k # NoKey => <<k>> \in Seq(Keys) /\ <<k>> \o v.sealed \in Seq(Keys)
  <2>1. k # NoKey => <<k>> \in Seq(Keys)
    OBVIOUS
  <2> QED
    BY <1>1, <2>1, ConcatProperties
<1>3. v.sealed # <<>> => Tail(v.sealed) \in Seq(Keys)
  BY <1>1, HeadTailProperties
<1>4. Seal(v, k) = v \/ (k # NoKey /\ Seal(v, k) = [v EXCEPT !.sealed = <<k>> \o v.sealed])
  BY DEF Seal
<1>5. Unseal(v, k) = v \/ (v.sealed # <<>> /\ Unseal(v, k) = [v EXCEPT !.sealed = Tail(v.sealed)])
  BY DEF Unseal
<1>6. \A s : s \in Seq(Keys) => /\ [v EXCEPT !.sealed = s] \in Secret
                                /\ [v EXCEPT !.sealed = s].text = v.text
  BY <1>1 DEF Secret
<1> QED
  BY <1>2, <1>3, <1>4, <1>5, <1>6

\* What is sealed or unsealed as a whole.
LEMMA SecretsType ==
  ASSUME NEW c \in Config, NEW u \in Secret, NEW v \in Secret
  PROVE  LET d == [teams |-> [c.teams EXCEPT !.webhookUrl = u],
                   email |-> [c.email EXCEPT !.smtpPass = v]]
         IN  d \in Config /\ d.teams.webhookUrl = u /\ d.email.smtpPass = v
<1> DEFINE t == [c.teams EXCEPT !.webhookUrl = u]
           e == [c.email EXCEPT !.smtpPass = v]
<1>1. c.teams \in TeamsConfig /\ c.email \in EmailConfig
  BY DEF Config
<1>2. t \in TeamsConfig /\ t.webhookUrl = u
  BY <1>1 DEF TeamsConfig
<1>3. e \in EmailConfig /\ e.smtpPass = v
  BY <1>1 DEF EmailConfig
<1> HIDE DEF t, e
<1>4. /\ [teams |-> t, email |-> e] \in Config
      /\ [teams |-> t, email |-> e].teams.webhookUrl = u
      /\ [teams |-> t, email |-> e].email.smtpPass = v
  BY <1>2, <1>3 DEF Config
<1> QED
  BY <1>4 DEF t, e

LEMMA SealConfigFacts ==
  ASSUME NEW c \in Config, NEW k \in Keys \union {NoKey}
  PROVE  /\ c.teams.webhookUrl \in Secret /\ c.email.smtpPass \in Secret
         /\ SealConfig(c, k) \in Config
         /\ SealConfig(c, k).teams.webhookUrl = Seal(c.teams.webhookUrl, k)
         /\ SealConfig(c, k).email.smtpPass = Seal(c.email.smtpPass, k)
         /\ UnsealConfig(c, k) \in Config
         /\ UnsealConfig(c, k).teams.webhookUrl = Unseal(c.teams.webhookUrl, k)
         /\ UnsealConfig(c, k).email.smtpPass = Unseal(c.email.smtpPass, k)
<1> DEFINE u == c.teams.webhookUrl
           v == c.email.smtpPass
<1>1. u \in Secret /\ v \in Secret
  <2>1. c.teams \in TeamsConfig /\ c.email \in EmailConfig
    BY DEF Config
  <2> QED
    BY <2>1 DEF TeamsConfig, EmailConfig
<1>2. SealConfig(c, k) = [teams |-> [c.teams EXCEPT !.webhookUrl = Seal(u, k)],
                          email |-> [c.email EXCEPT !.smtpPass = Seal(v, k)]]
  BY DEF SealConfig
<1>3. UnsealConfig(c, k) = [teams |-> [c.teams EXCEPT !.webhookUrl = Unseal(u, k)],
                            email |-> [c.email EXCEPT !.smtpPass = Unseal(v, k)]]
  BY DEF UnsealConfig
<1>4. /\ Seal(u, k) \in Secret /\ Seal(u, k).text = u.text
      /\ Seal(v, k) \in Secret /\ Seal(v, k).text = v.text
      /\ Unseal(u, k) \in Secret /\ Unseal(u, k).text = u.text
      /\ Unseal(v, k) \in Secret /\ Unseal(v, k).text = v.text
  BY <1>1, SealFacts
<1>5. /\ SealConfig(c, k) \in Config
      /\ SealConfig(c, k).teams.webhookUrl = Seal(u, k)
      /\ SealConfig(c, k).email.smtpPass = Seal(v, k)
  BY <1>2, <1>4, SecretsType
<1>6. /\ UnsealConfig(c, k) \in Config
      /\ UnsealConfig(c, k).teams.webhookUrl = Unseal(u, k)
      /\ UnsealConfig(c, k).email.smtpPass = Unseal(v, k)
  BY <1>3, <1>4, SecretsType
<1> QED
  BY <1>1, <1>5, <1>6

----------------------------------------------------------------------------
(* Types.                                                                  *)

\* Requests and pages are functions to records.
Shaped ==
  /\ DOMAIN req = Calls
  /\ DOMAIN page = Pages
  /\ \A p \in Pages : DOMAIN page[p] = {"form", "loaded"}

Typed == TypeOK /\ Shaped

LEMMA CurrentType ==
  ASSUME key \in Keys \union {NoKey}, Readable
  PROVE  Current \in Config
BY SanitizeType, SealConfigFacts DEF Current

LEMMA ToStoreType ==
  ASSUME key \in Keys \union {NoKey}, NEW c \in Calls
  PROVE  ToStore(c) \in Config
BY SanitizeType, SealConfigFacts DEF ToStore

\* What is stored at first is whole, if there is anything.
LEMMA InitStored ==
  ASSUME Init
  PROVE  stored = Missing \/ stored \in Config
<1>1. key \in Keys \union {NoKey} /\ stored \in {Missing} \union {SealConfig(c, key) : c \in Saved}
  BY DEF Init
<1>2. \A c \in Saved : c \in Config
  BY SavedAssumption
<1>3. ASSUME NEW c \in Saved PROVE SealConfig(c, key) \in Config
  BY <1>1, <1>2, SealConfigFacts
<1> QED
  BY <1>1, <1>3

LEMMA InitTyped == Init => Typed
<1> SUFFICES ASSUME Init PROVE Typed
  OBVIOUS
<1>1. stored \in Config \union {Missing, Empty, Torn}
  BY InitStored
<1>2. req \in [Calls -> {Idle}] /\ Idle.kind \in Kinds /\ Idle.from \in Pages \union {Client}
  BY DEF Init, Idle, Kinds
<1>3. status \in [Calls -> [Channels -> {"none", "skipped", "incomplete", "ok", "refused", "threw"}]]
  BY DEF Init, Quiet
<1>4. faults \in 0..MaxFaults /\ crashes \in 0..MaxCrashes
  BY BoundsAssumption DEF Init
<1>5. /\ DOMAIN page = Pages
      /\ \A p \in Pages : DOMAIN page[p] = {"form", "loaded"} /\ page[p].loaded \in BOOLEAN
  <2> DEFINE a == [form |-> Default, loaded |-> FALSE]
             b == [form |-> MaskConfig(Current), loaded |-> TRUE]
  <2>1. page \in [Pages -> {a, b}]
    BY DEF Init
  <2>2. /\ DOMAIN a = {"form", "loaded"} /\ a.loaded \in BOOLEAN
        /\ DOMAIN b = {"form", "loaded"} /\ b.loaded \in BOOLEAN
    OBVIOUS
  <2> HIDE DEF a, b
  <2> QED
    BY <2>1, <2>2
<1>6. /\ pc \in [Calls -> {"idle", "read", "open", "write", "upsert", "teams", "email",
                          "audit", "answer", "done"}]
      /\ result \in [Calls -> {"none", "ok", "failed", "refused"}]
      /\ backend \in Backends /\ key \in Keys \union {NoKey}
  BY DEF Init
<1>7. typed \subseteq Channels
  BY DEF Init
<1> QED
  BY <1>1, <1>2, <1>3, <1>4, <1>5, <1>6, <1>7 DEF Typed, TypeOK, Shaped

\* A request begins.
LEMMA BeginTyped ==
  ASSUME Typed, NEW c \in Calls, NEW r, NEW fresh, Begin(c, r, fresh),
         r.kind \in Kinds, r.from \in Pages \union {Client},
         DOMAIN page' = Pages,
         \A p \in Pages : DOMAIN page'[p] = {"form", "loaded"} /\ page'[p].loaded \in BOOLEAN
  PROVE  Typed'
<1>1. typed' \subseteq Channels
  BY DEF Typed, TypeOK, Begin, MasksTyped
<1> QED
  BY <1>1 DEF Typed, TypeOK, Shaped, Begin, Goto

LEMMA RequestTyped ==
  ASSUME Typed, NEW c \in Calls, (\E p \in Pages : Load(c, p) \/ Save(c, p) \/ Act(c, p)) \/ Send(c)
  PROVE  Typed'
<1>1. ASSUME NEW p \in Pages, Load(c, p) PROVE Typed'
  <2>1. [Idle EXCEPT !.from = p].kind \in Kinds /\ [Idle EXCEPT !.from = p].from = p
    BY DEF Idle, Kinds
  <2>2. page' = page /\ Begin(c, [Idle EXCEPT !.from = p], FALSE)
    BY <1>1 DEF Load
  <2> QED
    BY <2>1, <2>2, BeginTyped DEF Typed, TypeOK, Shaped
<1>2. ASSUME NEW p \in Pages, Save(c, p) PROVE Typed'
  <2>1. PICK e \in Edits :
          LET form == [page[p].form EXCEPT ![e[1]][e[2]] = e[3]]
              dirty == view[p].dirty \union {<<e[1], e[2]>>}
          IN  /\ page' = [page EXCEPT ![p].form = form]
              /\ Begin(c, [Idle EXCEPT !.kind = "save", !.from = p, !.patch = form,
                                       !.dirty = dirty],
                       view[p].version = version)
    BY <1>2 DEF Save
  <2> DEFINE form == [page[p].form EXCEPT ![e[1]][e[2]] = e[3]]
             dirty == view[p].dirty \union {<<e[1], e[2]>>}
             r == [Idle EXCEPT !.kind = "save", !.from = p, !.patch = form, !.dirty = dirty]
  <2>2. r.kind \in Kinds /\ r.from = p
    BY DEF Idle, Kinds
  <2>3. /\ DOMAIN page' = Pages
        /\ \A q \in Pages : DOMAIN page'[q] = {"form", "loaded"} /\ page'[q].loaded \in BOOLEAN
    BY <2>1 DEF Typed, TypeOK, Shaped
  <2> HIDE DEF r
  <2> QED
    BY <2>1, <2>2, <2>3, BeginTyped DEF r
<1>3. ASSUME NEW p \in Pages, Act(c, p) PROVE Typed'
  <2>1. PICK k \in {"preview"} \union Sends, expired, soon \in 0..1 :
          Begin(c, [Idle EXCEPT !.kind = k, !.from = p,
                      !.alerts = IF k = "test" THEN TestAlerts ELSE AuthAlerts(expired, soon)],
                FALSE)
    BY <1>3 DEF Act
  <2>2. page' = page
    BY <1>3 DEF Act
  <2> DEFINE alerts == IF k = "test" THEN TestAlerts ELSE AuthAlerts(expired, soon)
             r == [Idle EXCEPT !.kind = k, !.from = p, !.alerts = alerts]
  <2>3. r.kind \in Kinds /\ r.from = p
    BY DEF Idle, Kinds, Sends
  <2> HIDE DEF r
  <2> QED
    BY <2>1, <2>2, <2>3, BeginTyped DEF r, Typed, TypeOK, Shaped
<1>4. ASSUME Send(c) PROVE Typed'
  <2>1. PICK p \in Patches : Begin(c, [Idle EXCEPT !.kind = "save", !.patch = p], FALSE)
    BY <1>4 DEF Send
  <2>2. page' = page
    BY <1>4 DEF Send
  <2> DEFINE r == [Idle EXCEPT !.kind = "save", !.patch = p]
  <2>3. r.kind \in Kinds /\ r.from = Client
    BY DEF Idle, Kinds
  <2> HIDE DEF r
  <2> QED
    BY <2>1, <2>2, <2>3, BeginTyped DEF r, Typed, TypeOK, Shaped
<1> QED
  BY <1>1, <1>2, <1>3, <1>4

\* Calls are forgotten.
LEMMA ForgetTyped ==
  ASSUME Typed, NEW C \in SUBSET Calls, Forget(C),
         backend' = backend, stored' = stored, key' \in Keys \union {NoKey},
         typed' = typed, faults' = faults, crashes' \in 0..MaxCrashes,
         DOMAIN page' = Pages,
         \A p \in Pages : DOMAIN page'[p] = {"form", "loaded"} /\ page'[p].loaded \in BOOLEAN
  PROVE  Typed'
<1>1. \A c \in Calls : req'[c].kind \in Kinds /\ req'[c].from \in Pages \union {Client}
  BY DEF Typed, TypeOK, Forget, Idle, Kinds
<1>2. status' \in [Calls -> [Channels -> {"none", "skipped", "incomplete", "ok", "refused", "threw"}]]
  BY DEF Typed, TypeOK, Forget, Quiet
<1>3. /\ pc' \in [Calls -> {"idle", "read", "open", "write", "upsert", "teams", "email",
                           "audit", "answer", "done"}]
      /\ result' \in [Calls -> {"none", "ok", "failed", "refused"}]
      /\ DOMAIN req' = Calls
  BY DEF Typed, TypeOK, Forget
<1> QED
  BY <1>1, <1>2, <1>3 DEF Typed, TypeOK, Shaped

LEMMA StepTyped == Typed /\ [Next]_vars => Typed'
<1> SUFFICES ASSUME Typed, [Next]_vars PROVE Typed'
  OBVIOUS
<1> USE DEF Goto, Conclude, history
<1>1. ASSUME NEW c \in Calls, Refuse(c) PROVE Typed'
  BY <1>1 DEF Typed, TypeOK, Shaped, Refuse
<1>2. ASSUME NEW c \in Calls, Read(c) PROVE Typed'
  <2>1. faults' \in 0..MaxFaults
    BY <1>2, BoundsAssumption DEF Typed, TypeOK, Read, Fault
  <2>2. AfterRead(c) \in {"open", "upsert", "teams", "audit", "answer"}
    BY DEF AfterRead
  <2> QED
    BY <1>2, <2>1, <2>2 DEF Typed, TypeOK, Shaped, Read
<1>3. ASSUME NEW c \in Calls, Open(c) PROVE Typed'
  BY <1>3 DEF Typed, TypeOK, Shaped, Open
<1>4. ASSUME NEW c \in Calls, Write(c) \/ Upsert(c) PROVE Typed'
  <2>1. ToStore(c) \in Config
    BY ToStoreType DEF Typed, TypeOK
  <2> QED
    BY <1>4, <2>1 DEF Typed, TypeOK, Shaped, Write, Upsert
<1>5. ASSUME NEW c \in Calls, WriteFault(c) PROVE Typed'
  <2>1. faults' \in 0..MaxFaults
    BY <1>5, BoundsAssumption DEF Typed, TypeOK, WriteFault, Fault
  <2> QED
    BY <1>5, <2>1 DEF Typed, TypeOK, Shaped, WriteFault
<1>6. ASSUME NEW c \in Calls, NEW ch \in Channels,
             Skip(c, ch) \/ Deliver(c, ch) \/ Throw(c, ch) PROVE Typed'
  <2>1. \A s \in {"skipped", "incomplete", "ok", "refused", "threw"} : Mark(c, ch, s) =>
          status' \in [Calls -> [Channels -> {"none", "skipped", "incomplete", "ok", "refused", "threw"}]]
    BY DEF Mark, Typed, TypeOK
  <2>2. status' \in [Calls -> [Channels -> {"none", "skipped", "incomplete", "ok", "refused", "threw"}]]
    BY <1>6, <2>1 DEF Skip, Deliver, Throw
  <2>3. AfterSend(ch) \in {"email", "audit"}
    BY DEF AfterSend
  <2> QED
    BY <1>6, <2>2, <2>3 DEF Typed, TypeOK, Shaped, Skip, Deliver, Throw
<1>7. ASSUME NEW c \in Calls, Audit(c) PROVE Typed'
  BY <1>7 DEF Typed, TypeOK, Shaped, Audit
<1>8. ASSUME NEW c \in Calls, Answer(c) PROVE Typed'
  <2>1. /\ DOMAIN page' = Pages
        /\ \A p \in Pages : DOMAIN page'[p] = {"form", "loaded"} /\ page'[p].loaded \in BOOLEAN
    <3>1. page' = page \/ \E p \in Pages : \E form : page' = [page EXCEPT ![p] = [form |-> form, loaded |-> TRUE]]
      BY <1>8 DEF Answer
    <3>2. ASSUME NEW p \in Pages, NEW form,
                 page' = [page EXCEPT ![p] = [form |-> form, loaded |-> TRUE]]
          PROVE  /\ DOMAIN page' = Pages
                 /\ \A q \in Pages : DOMAIN page'[q] = {"form", "loaded"} /\ page'[q].loaded \in BOOLEAN
      <4>1. DOMAIN page' = Pages /\ page'[p] = [form |-> form, loaded |-> TRUE]
            /\ \A q \in Pages : q # p => page'[q] = page[q]
        BY <3>2 DEF Typed, Shaped
      <4>2. DOMAIN page'[p] = {"form", "loaded"} /\ page'[p].loaded \in BOOLEAN
        BY <4>1
      <4> QED
        BY <4>1, <4>2 DEF Typed, TypeOK, Shaped
    <3> QED
      BY <3>1, <3>2 DEF Typed, TypeOK, Shaped
  <2>2. Forget({c}) /\ UNCHANGED <<backend, key, stored, typed, faults, crashes>>
    BY <1>8 DEF Answer
  <2> QED
    BY <2>1, <2>2, ForgetTyped DEF Typed, TypeOK
<1>9. ASSUME Crash PROVE Typed'
  <2>1. crashes' \in 0..MaxCrashes
    BY <1>9, BoundsAssumption DEF Crash, Typed, TypeOK
  <2>2. {c \in Calls : UnderWay(c)} \in SUBSET Calls /\ Forget({c \in Calls : UnderWay(c)})
        /\ key' \in Keys \union {NoKey} /\ UNCHANGED <<backend, stored, typed, page, faults>>
    BY <1>9 DEF Crash
  <2> QED
    BY <2>1, <2>2, ForgetTyped DEF Typed, TypeOK, Shaped
<1>10. CASE UNCHANGED vars
  BY <1>10 DEF Typed, TypeOK, Shaped, vars, callVars
<1> QED
  BY <1>1, <1>2, <1>3, <1>4, <1>5, <1>6, <1>7, <1>8, <1>9, <1>10, RequestTyped DEF Next

(* The variables of the configuration and the alerts keep their types, and *)
(* what is stored is well formed whatever the patches contained.           *)
THEOREM Typing == Spec => []TypeOK
<1>1. Spec => []Typed
  BY InitTyped, StepTyped, PTL DEF Spec
<1>2. Typed => TypeOK
  BY DEF Typed
<1> QED
  BY <1>1, <1>2, PTL

----------------------------------------------------------------------------
(* What a file holds while nothing writes it.  Saves do not overlap unless *)
(* overlap says so, and a file being written to by one alone is empty.     *)

Troubled == faults > 0 \/ crashes > 0 \/ overlap

Alone ==
  /\ \A c \in Calls : pc[c] \in {"open", "write", "upsert"} => req[c].kind = "save"
  /\ overlap \/ \A c, d \in Calls : Saving(c) /\ Saving(d) => c = d
  /\ \A c \in Calls : pc[c] = "write" => Troubled \/ stored = Empty
  /\ ReadableAtRest

LEMMA InitAlone == Init => Alone
<1> SUFFICES ASSUME Init PROVE Alone
  OBVIOUS
<1>1. \A c \in Calls : pc[c] = "idle"
  BY DEF Init
<1>2. stored \notin {Empty, Torn}
  BY InitStored, StoredAssumption
<1> QED
  BY <1>1, <1>2 DEF Alone, ReadableAtRest, Saving, UnderWay

\* A request begins.
LEMMA BeginAlone ==
  ASSUME Typed, Alone, NEW c \in Calls, NEW r, NEW fresh, Begin(c, r, fresh)
  PROVE  Alone'
<1>1. /\ pc[c] = "idle" /\ pc' = [pc EXCEPT ![c] = "read"] /\ req' = [req EXCEPT ![c] = r]
      /\ overlap' = (overlap \/ (r.kind = "save" /\ \E d \in Calls : Saving(d)))
      /\ stored' = stored /\ faults' = faults /\ crashes' = crashes
  BY DEF Begin, Goto
<1>2. /\ pc'[c] = "read" /\ req'[c] = r
      /\ \A d \in Calls : d # c => pc'[d] = pc[d] /\ req'[d] = req[d]
  BY <1>1 DEF Typed, TypeOK, Shaped
<1>3. \A d \in Calls : d # c => (Saving(d)' <=> Saving(d))
  BY <1>2 DEF Saving, UnderWay
<1>4. Saving(c)' => r.kind = "save"
  BY <1>2 DEF Saving
<1>5. overlap' \/ \A d, e \in Calls : Saving(d)' /\ Saving(e)' => d = e
  BY <1>1, <1>3, <1>4 DEF Alone
<1>6. \A d \in Calls : pc'[d] \in {"open", "write", "upsert"} => req'[d].kind = "save"
  BY <1>2 DEF Alone
<1>7. \A d \in Calls : pc'[d] = "write" => Troubled' \/ stored' = Empty
  BY <1>1, <1>2 DEF Alone, Troubled
<1>8. ReadableAtRest'
  BY <1>1, <1>2 DEF Alone, ReadableAtRest
<1> QED
  BY <1>5, <1>6, <1>7, <1>8 DEF Alone

\* A call goes on, without writing.
LEMMA GoesOnAlone ==
  ASSUME Typed, Alone, NEW c \in Calls, NEW l,
         UnderWay(c), pc[c] # "write", l \notin {"idle", "write", "done"},
         l \in {"open", "upsert"} => req[c].kind = "save",
         pc' = [pc EXCEPT ![c] = l], stored' = stored, req' = req, overlap' = overlap,
         faults > 0 => faults' > 0, crashes' = crashes
  PROVE  Alone'
<1>1. pc'[c] = l /\ \A d \in Calls : d # c => pc'[d] = pc[d]
  BY DEF Typed, TypeOK
<1>2. \A d \in Calls : Saving(d)' <=> Saving(d)
  BY <1>1 DEF Saving, UnderWay
<1>3. Troubled => Troubled'
  BY DEF Troubled
<1>4. \A d \in Calls : pc'[d] \in {"open", "write", "upsert"} => req'[d].kind = "save"
  BY <1>1 DEF Alone
<1>5. \A d \in Calls : pc'[d] = "write" => Troubled' \/ stored' = Empty
  BY <1>1, <1>3 DEF Alone
<1>6. ReadableAtRest'
  BY <1>1 DEF Alone, ReadableAtRest
<1> QED
  BY <1>2, <1>4, <1>5, <1>6 DEF Alone

\* Calls are forgotten.
LEMMA ForgetAlone ==
  ASSUME Typed, Alone, NEW C \in SUBSET Calls, Forget(C), \A c \in C : pc[c] # "write" \/ crashes' > 0,
         stored' = stored, overlap' = overlap, faults' = faults, crashes > 0 => crashes' > 0
  PROVE  Alone'
<1>1. \A c \in Calls : IF c \in C THEN pc'[c] = "done"
                       ELSE pc'[c] = pc[c] /\ req'[c] = req[c]
  BY DEF Forget
<1>2. \A c \in Calls : Saving(c)' => Saving(c)
  BY <1>1 DEF Saving, UnderWay
<1>3. Troubled => Troubled'
  BY DEF Troubled
<1>4. \A c \in Calls : pc'[c] \in {"open", "write", "upsert"} => req'[c].kind = "save"
  BY <1>1 DEF Alone
<1>5. \A c \in Calls : pc'[c] = "write" => Troubled' \/ stored' = Empty
  BY <1>1, <1>3 DEF Alone
<1>6. ReadableAtRest'
  BY <1>1 DEF Alone, ReadableAtRest
<1> QED
  BY <1>2, <1>4, <1>5, <1>6 DEF Alone

\* A call writes.
LEMMA WritesAlone ==
  ASSUME Typed, Alone, NEW c \in Calls, NEW l \in {"write", "audit", "answer"},
         pc[c] \in {"open", "write", "upsert"}, pc' = [pc EXCEPT ![c] = l],
         req' = req, overlap' = overlap, crashes' = crashes, faults > 0 => faults' > 0,
         l = "write" => stored' = Empty,
         stored' \in {Empty, Torn} => Troubled' \/ l = "write"
  PROVE  Alone'
<1>1. pc'[c] = l /\ \A d \in Calls : d # c => pc'[d] = pc[d]
  BY DEF Typed, TypeOK
<1>2. \A d \in Calls : Saving(d)' <=> Saving(d)
  BY <1>1 DEF Saving, UnderWay
<1>3. Saving(c) /\ \A d \in Calls : d # c /\ pc[d] = "write" => Saving(d)
  BY DEF Alone, Saving, UnderWay
<1>4. \A d \in Calls : d # c /\ pc[d] = "write" => overlap
  BY <1>3 DEF Alone
<1>5. Troubled => Troubled'
  BY DEF Troubled
<1>6. \A d \in Calls : pc'[d] = "write" => Troubled' \/ stored' = Empty
  BY <1>1, <1>4, <1>5 DEF Troubled
<1>7. \A d \in Calls : pc'[d] \in {"open", "write", "upsert"} => req'[d].kind = "save"
  BY <1>1 DEF Alone
<1>8. ReadableAtRest'
  BY <1>1 DEF ReadableAtRest, Troubled
<1> QED
  BY <1>2, <1>6, <1>7, <1>8 DEF Alone

LEMMA StepAlone == Typed /\ Alone /\ [Next]_vars => Alone'
<1> SUFFICES ASSUME Typed, Alone, [Next]_vars PROVE Alone'
  OBVIOUS
<1> USE DEF Goto, Conclude
<1>0. faults \in Nat /\ crashes \in Nat
  BY BoundsAssumption DEF Typed, TypeOK
<1>1. ASSUME NEW c \in Calls, (\E p \in Pages : Load(c, p) \/ Save(c, p) \/ Act(c, p)) \/ Send(c)
      PROVE  Alone'
  <2>1. \E r, fresh : Begin(c, r, fresh)
    BY <1>1 DEF Load, Save, Act, Send
  <2> QED
    BY <2>1, BeginAlone
<1>2. ASSUME NEW c \in Calls, Refuse(c) PROVE Alone'
  BY <1>2, GoesOnAlone DEF Refuse, UnderWay, history
<1>3. ASSUME NEW c \in Calls, Read(c) PROVE Alone'
  <2>1. /\ AfterRead(c) \notin {"idle", "write", "done"}
        /\ AfterRead(c) \in {"open", "upsert"} => req[c].kind = "save"
    BY DEF AfterRead
  <2>2. faults > 0 => faults' > 0
    BY <1>0, <1>3 DEF Read, Fault
  <2>3. pc[c] = "read" /\ pc' = [pc EXCEPT ![c] = AfterRead(c)]
        /\ UNCHANGED <<stored, req, overlap, crashes>>
    BY <1>3 DEF Read
  <2> QED
    BY <2>1, <2>2, <2>3, GoesOnAlone DEF UnderWay
<1>4. ASSUME NEW c \in Calls, Open(c) PROVE Alone'
  BY <1>4, WritesAlone DEF Open
<1>5. ASSUME NEW c \in Calls, Write(c) PROVE Alone'
  <2>1. ToStore(c) \notin {Empty, Torn}
    BY ToStoreType, StoredAssumption DEF Typed, TypeOK
  <2>2. stored' \in {Empty, Torn} => Troubled
    BY <1>5, <2>1 DEF Write, Alone
  <2>3. Troubled => Troubled'
    BY <1>5 DEF Write, Troubled
  <2>4. pc[c] = "write" /\ pc' = [pc EXCEPT ![c] = "audit"]
        /\ UNCHANGED <<req, overlap, crashes, faults>>
    BY <1>5 DEF Write
  <2> QED
    BY <2>2, <2>3, <2>4, WritesAlone
<1>6. ASSUME NEW c \in Calls, Upsert(c) PROVE Alone'
  <2>1. ToStore(c) \notin {Empty, Torn}
    BY ToStoreType, StoredAssumption DEF Typed, TypeOK
  <2>2. pc[c] = "upsert" /\ pc' = [pc EXCEPT ![c] = "audit"] /\ stored' = ToStore(c)
        /\ UNCHANGED <<req, overlap, crashes, faults>>
    BY <1>6 DEF Upsert
  <2> QED
    BY <2>1, <2>2, WritesAlone
<1>7. ASSUME NEW c \in Calls, WriteFault(c) PROVE Alone'
  <2>1. faults' > 0
    BY <1>0, <1>7 DEF WriteFault, Fault
  <2>2. pc[c] \in {"open", "write", "upsert"} /\ pc' = [pc EXCEPT ![c] = "answer"]
        /\ UNCHANGED <<req, overlap, crashes>>
    BY <1>7 DEF WriteFault
  <2> QED
    BY <2>1, <2>2, WritesAlone DEF Troubled
<1>8. ASSUME NEW c \in Calls, NEW ch \in Channels,
             Skip(c, ch) \/ Deliver(c, ch) \/ Throw(c, ch) PROVE Alone'
  <2>1. AfterSend(ch) \in {"email", "audit"}
    BY DEF AfterSend
  <2>2. pc[c] \in {"teams", "email"}
    BY <1>8 DEF Skip, Deliver, Throw, Sendable, Channels
  <2>3. \E l \in {"email", "audit", "answer"} : pc' = [pc EXCEPT ![c] = l]
    BY <1>8, <2>1 DEF Skip, Deliver, Throw
  <2>4. UNCHANGED <<stored, req, overlap, faults, crashes>>
    BY <1>8 DEF Skip, Deliver, Throw, history
  <2> QED
    BY <2>2, <2>3, <2>4, GoesOnAlone DEF UnderWay
<1>9. ASSUME NEW c \in Calls, Audit(c) PROVE Alone'
  BY <1>9, GoesOnAlone DEF Audit, UnderWay, history
<1>10. ASSUME NEW c \in Calls, Answer(c) PROVE Alone'
  BY <1>10, ForgetAlone DEF Answer
<1>11. ASSUME Crash PROVE Alone'
  <2>1. crashes' > 0
    BY <1>0, <1>11 DEF Crash
  <2>2. {c \in Calls : UnderWay(c)} \in SUBSET Calls /\ Forget({c \in Calls : UnderWay(c)})
        /\ UNCHANGED <<stored, overlap, faults>>
    BY <1>11 DEF Crash
  <2> QED
    BY <2>1, <2>2, ForgetAlone
<1>12. CASE UNCHANGED vars
  BY <1>12 DEF Alone, ReadableAtRest, Troubled, Saving, UnderWay, vars, callVars, history
<1> QED
  BY <1>1, <1>2, <1>3, <1>4, <1>5, <1>6, <1>7, <1>8, <1>9, <1>10, <1>11, <1>12 DEF Next

(* A configuration that does not read back was left by a crash, a failing  *)
(* write or two saves at once, or is being written.                        *)
THEOREM Readability == Spec => []ReadableAtRest
<1>1. Spec => [](Typed /\ Alone)
  BY InitTyped, StepTyped, InitAlone, StepAlone, PTL DEF Spec
<1>2. Alone => ReadableAtRest
  BY DEF Alone
<1> QED
  BY <1>1, <1>2, PTL

----------------------------------------------------------------------------
(* What dispatches send and say.                                           *)

\* A message of a call is as its configuration has it; a channel that was
\* served was sent every alert the configuration delivers to it.
AsRouted(c, m) ==
  LET found == track[c].base[m.channel]
  IN  /\ m.alerts # {} /\ m.alerts \subseteq req[c].alerts
      /\ found.enabled /\ found.routes[Reason(c)]
      /\ \A a \in m.alerts : found.bySeverity[a]
      /\ \A r \in m.to : \E a \in m.alerts : r \in Recipients(track[c].base, a)

Served(c, ch, m) ==
  /\ m.channel = ch
  /\ \A a \in req[c].alerts : Delivers(track[c].base, ch, Reason(c), a) => a \in m.alerts

Messages(c) ==
  /\ \A m \in sent[c] : AsRouted(c, m)
  /\ \A ch \in Channels : status[c][ch] = "ok" => \E m \in sent[c] : Served(c, ch, m)

\* How far a dispatch is, and what its answer rests on.
Stages(c) ==
  /\ pc[c] \in {"idle", "read", "teams"} => status[c] = Quiet /\ sent[c] = {}
  /\ pc[c] = "email" => status[c]["email"] = "none"
  /\ pc[c] # "answer" => result[c] = "none"
  /\ pc[c] \in {"teams", "email"} => req[c].kind \in Sends /\ config[c] = track[c].base

Answers(c) ==
  /\ sent[c] # {} => \E ch \in Channels : status[c][ch] \in {"ok", "threw"}
  /\ req[c].kind \in Sends =>
       /\ result[c] = "ok" => sent[c] # {}
       /\ result[c] = "failed" /\ sent[c] # {} =>
            \E ch \in Channels : status[c][ch] = "threw"

Honest(c) == Stages(c) /\ Messages(c) /\ Answers(c)

Tracked == DOMAIN track = Calls /\ \A c \in Calls : DOMAIN track[c] = DOMAIN Fresh

Dispatching == Tracked /\ DOMAIN config = Calls /\ DOMAIN sent = Calls /\ \A c \in Calls : Honest(c)

LEMMA QuietHonest ==
  ASSUME NEW c \in Calls, status[c] = Quiet, sent[c] = {}, result[c] = "none",
         pc[c] \notin {"teams", "email"}
  PROVE  Honest(c)
<1>1. \A ch \in Channels : status[c][ch] = "none"
  BY DEF Quiet
<1>2. Stages(c)
  BY DEF Stages
<1>3. Messages(c)
  BY <1>1 DEF Messages
<1>4. Answers(c)
  BY DEF Answers
<1> QED
  BY <1>2, <1>3, <1>4 DEF Honest

LEMMA InitDispatching == Init => Dispatching
<1> SUFFICES ASSUME Init PROVE Dispatching
  OBVIOUS
<1>1. Tracked /\ DOMAIN config = Calls /\ DOMAIN sent = Calls
  BY DEF Init, Tracked
<1>2. \A c \in Calls : status[c] = Quiet /\ sent[c] = {} /\ result[c] = "none" /\ pc[c] = "idle"
  BY DEF Init
<1>3. \A c \in Calls : Honest(c)
  BY <1>2, QuietHonest
<1> QED
  BY <1>1, <1>3 DEF Dispatching

\* What a step leaves alone stays honest.
LEMMA UntouchedHonest ==
  ASSUME NEW d \in Calls, Honest(d), pc'[d] = pc[d], req'[d] = req[d], config'[d] = config[d],
         status'[d] = status[d], sent'[d] = sent[d], result'[d] = result[d],
         track'[d].base = track[d].base
  PROVE  Honest(d)'
<1>1. Stages(d)'
  BY DEF Honest, Stages
<1>2. Messages(d)'
  BY DEF Honest, Messages, AsRouted, Served, Reason
<1>3. Answers(d)'
  BY DEF Honest, Answers
<1> QED
  BY <1>1, <1>2, <1>3 DEF Honest

\* A call that goes on to what is no channel, its messages as they were.
LEMMA MovedHonest ==
  ASSUME NEW d \in Calls, Honest(d), req'[d] = req[d],
         status'[d] = status[d], sent'[d] = sent[d],
         track'[d].base = track[d].base,
         pc'[d] \notin {"idle", "read", "teams", "email"},
         pc'[d] # "answer" => result'[d] = "none",
         req[d].kind \in Sends =>
           /\ result'[d] = "ok" => sent[d] # {}
           /\ result'[d] = "failed" /\ sent[d] # {} =>
                \E ch \in Channels : status[d][ch] = "threw"
  PROVE  Honest(d)'
<1>1. Stages(d)'
  BY DEF Stages
<1>2. Messages(d)'
  BY DEF Honest, Messages, AsRouted, Served, Reason
<1>3. Answers(d)'
  BY DEF Honest, Answers
<1> QED
  BY <1>1, <1>2, <1>3 DEF Honest

\* A request begins.
LEMMA BeginDispatching ==
  ASSUME Typed, Dispatching, NEW c \in Calls, NEW r, NEW fresh, Begin(c, r, fresh)
  PROVE  Dispatching'
<1>1. /\ pc[c] = "idle" /\ pc' = [pc EXCEPT ![c] = "read"] /\ req' = [req EXCEPT ![c] = r]
      /\ UNCHANGED <<config, status, sent, result, faults>>
  BY DEF Begin, Goto
<1>2. PICK meets \in BOOLEAN : track' = [d \in Calls |->
        IF d = c THEN [Fresh EXCEPT !.alone = ~meets, !.fresh = fresh]
        ELSE [track[d] EXCEPT !.alone = (@ /\ ~meets)]]
  BY DEF Begin
<1>3. Tracked' /\ \A d \in Calls : d # c => track'[d].base = track[d].base
  BY <1>2 DEF Dispatching, Tracked, Fresh
<1>4. Honest(c)'
  <2>1. /\ status'[c] = Quiet /\ sent'[c] = {} /\ result'[c] = "none"
        /\ pc'[c] = "read"
    BY <1>1 DEF Dispatching, Honest, Stages, Typed, TypeOK
  <2>2. \A ch \in Channels : status'[c][ch] = "none"
    BY <2>1 DEF Quiet
  <2>3. Stages(c)'
    BY <2>1 DEF Stages
  <2>4. Messages(c)'
    BY <2>1, <2>2 DEF Messages
  <2>5. Answers(c)'
    BY <2>1 DEF Answers
  <2> QED
    BY <2>3, <2>4, <2>5 DEF Honest
<1>5. \A d \in Calls : d # c => pc'[d] = pc[d] /\ req'[d] = req[d]
  BY <1>1 DEF Typed, TypeOK, Shaped
<1>6. ASSUME NEW d \in Calls, d # c PROVE Honest(d)'
  BY <1>1, <1>3, <1>5, <1>6, UntouchedHonest DEF Dispatching
<1> QED
  BY <1>1, <1>3, <1>4, <1>6 DEF Dispatching

\* Calls are forgotten.
LEMMA ForgetDispatching ==
  ASSUME Typed, Dispatching, NEW C \in SUBSET Calls, Forget(C)
  PROVE  Dispatching'
<1>1. \A c \in Calls :
        IF c \in C THEN /\ pc'[c] = "done" /\ status'[c] = Quiet /\ sent'[c] = {}
                       /\ result'[c] = "none"
        ELSE /\ pc'[c] = pc[c] /\ req'[c] = req[c] /\ config'[c] = config[c]
             /\ status'[c] = status[c] /\ sent'[c] = sent[c] /\ result'[c] = result[c]
             /\ track'[c] = track[c]
  BY DEF Forget
<1>2. Tracked' /\ DOMAIN config' = Calls /\ DOMAIN sent' = Calls
  BY DEF Forget, Dispatching, Tracked
<1>3. ASSUME NEW c \in C PROVE Honest(c)'
  <2>1. \A ch \in Channels : status'[c][ch] = "none"
    BY <1>1, <1>3 DEF Quiet
  <2>2. Stages(c)'
    BY <1>1, <1>3 DEF Stages
  <2>3. Messages(c)'
    BY <1>1, <1>3, <2>1 DEF Messages
  <2>4. Answers(c)'
    BY <1>1, <1>3 DEF Answers
  <2> QED
    BY <2>2, <2>3, <2>4 DEF Honest
<1>4. ASSUME NEW c \in Calls, c \notin C PROVE Honest(c)'
  BY <1>1, <1>4, UntouchedHonest DEF Dispatching
<1> QED
  BY <1>2, <1>3, <1>4 DEF Dispatching

\* The configuration is read.
LEMMA ReadDispatching ==
  ASSUME Typed, Dispatching, NEW c \in Calls, Read(c)
  PROVE  Dispatching'
<1>1. PICK seen \in {Current, Default} :
        /\ config' = [config EXCEPT ![c] = IF req[c].kind = "save" THEN Update(seen, req[c].patch) ELSE seen]
        /\ track' = [track EXCEPT ![c].base = seen, ![c].alone = (@ /\ seen = Current),
             ![c].seen = IF seen = Current THEN version ELSE 0]
  BY DEF Read
<1>2. /\ pc[c] = "read" /\ pc' = [pc EXCEPT ![c] = AfterRead(c)]
      /\ result' = [result EXCEPT ![c] = IF req[c].kind = "load" THEN "ok" ELSE @]
      /\ UNCHANGED <<req, status, sent>>
  BY DEF Read, Goto
<1>4. DOMAIN Fresh = {"base", "alone", "fresh", "seen"}
  BY DEF Fresh
<1>5. /\ DOMAIN track' = Calls /\ DOMAIN track'[c] = DOMAIN Fresh /\ track'[c].base = seen
      /\ \A d \in Calls : d # c => track'[d] = track[d]
  BY <1>1, <1>4 DEF Dispatching, Tracked
<1>6. Tracked' /\ DOMAIN config' = Calls /\ DOMAIN sent' = Calls
  BY <1>1, <1>2, <1>5 DEF Dispatching, Tracked
<1>7. \A d \in Calls : d # c => config'[d] = config[d] /\ pc'[d] = pc[d] /\ result'[d] = result[d]
  BY <1>1, <1>2 DEF Dispatching, Typed, TypeOK
<1>8. Honest(c)'
  <2>1. status'[c] = Quiet /\ sent'[c] = {} /\ result[c] = "none"
    BY <1>2 DEF Dispatching, Honest, Stages
  <2>2. \A ch \in Channels : status'[c][ch] = "none"
    BY <2>1 DEF Quiet
  <2>3. pc'[c] = AfterRead(c) /\ result'[c] = IF req[c].kind = "load" THEN "ok" ELSE result[c]
    BY <1>2 DEF Typed, TypeOK
  <2>4. Stages(c)'
    <3>1. AfterRead(c) = "teams" => req[c].kind \in Sends
      BY DEF AfterRead, Typed, TypeOK, Kinds, Sends
    <3>2. AfterRead(c) \in {"open", "upsert", "audit", "answer", "teams"}
      BY DEF AfterRead
    <3>3. req[c].kind \in Sends => config'[c] = seen
      BY <1>1 DEF Sends, Dispatching
    <3>4. AfterRead(c) # "answer" => req[c].kind # "load"
      BY DEF AfterRead
    <3> QED
      BY <1>2, <1>5, <2>1, <2>3, <3>1, <3>2, <3>3, <3>4 DEF Stages
  <2>5. Messages(c)'
    BY <2>1, <2>2 DEF Messages
  <2>6. Answers(c)'
    <3>1. req[c].kind \in Sends => result'[c] = "none"
      BY <2>1, <2>3 DEF Sends
    <3> QED
      BY <1>2, <2>1, <3>1 DEF Answers
  <2> QED
    BY <2>4, <2>5, <2>6 DEF Honest
<1>9. ASSUME NEW d \in Calls, d # c PROVE Honest(d)'
  BY <1>2, <1>5, <1>7, <1>9, UntouchedHonest DEF Dispatching
<1> QED
  BY <1>6, <1>8, <1>9 DEF Dispatching

\* A step of a call that moves it on without a message.
LEMMA MovedDispatching ==
  ASSUME Typed, Dispatching, NEW c \in Calls, NEW l, NEW r,
         l \notin {"idle", "read", "teams", "email"}, l # "answer" => r = "none",
         pc' = [pc EXCEPT ![c] = l], result' = [result EXCEPT ![c] = r],
         UNCHANGED <<req, config, status, sent>>,
         DOMAIN track' = Calls,
         \A d \in Calls : DOMAIN track'[d] = DOMAIN Fresh /\ track'[d].base = track[d].base,
         req[c].kind \in Sends =>
           /\ r = "ok" => sent[c] # {}
           /\ r = "failed" /\ sent[c] # {} =>
                \E ch \in Channels : status[c][ch] = "threw"
  PROVE  Dispatching'
<1>1. pc'[c] = l /\ result'[c] = r
      /\ \A d \in Calls : d # c => pc'[d] = pc[d] /\ result'[d] = result[d]
  BY DEF Typed, TypeOK
<1>2. Tracked' /\ DOMAIN config' = Calls /\ DOMAIN sent' = Calls
  BY DEF Dispatching, Tracked
<1>3. Honest(c)'
  BY <1>1, MovedHonest DEF Dispatching
<1>4. ASSUME NEW d \in Calls, d # c PROVE Honest(d)'
  BY <1>1, <1>4, UntouchedHonest DEF Dispatching
<1> QED
  BY <1>2, <1>3, <1>4 DEF Dispatching

\* The message of a channel is as the configuration has it.
LEMMA MessageFacts ==
  ASSUME NEW c \in Calls, NEW ch \in Channels, config[c] = track[c].base, Routes(c, ch) # {}
  PROVE  AsRouted(c, Message(c, ch)) /\ Served(c, ch, Message(c, ch))
<1> DEFINE m == Message(c, ch)
<1>1. m.channel = ch /\ m.alerts = Routes(c, ch) /\ m.to = Audience(config[c], ch, Routes(c, ch))
  BY DEF Message
<1>2. Routes(c, ch) = {a \in req[c].alerts : Delivers(track[c].base, ch, Reason(c), a)}
  BY DEF Routes, Routed
<1>3. \A a \in Routes(c, ch) : /\ track[c].base[ch].enabled /\ track[c].base[ch].routes[Reason(c)]
                              /\ track[c].base[ch].bySeverity[a]
  BY <1>2 DEF Delivers, ChannelOn
<1>4. \A r \in m.to : \E a \in m.alerts : r \in Recipients(track[c].base, a)
  BY <1>1 DEF Audience
<1> HIDE DEF m
<1>5. AsRouted(c, m)
  BY <1>1, <1>2, <1>3, <1>4 DEF AsRouted
<1>6. Served(c, ch, m)
  BY <1>1, <1>2 DEF Served
<1> QED
  BY <1>5, <1>6 DEF m
\* A channel has answered, or not been asked.
LEMMA ChannelDispatching ==
  ASSUME Typed, Dispatching, NEW c \in Calls, NEW ch \in Channels, pc[c] = ch,
         NEW s \in {"skipped", "incomplete", "ok", "refused", "threw"}, Mark(c, ch, s),
         NEW l \in {"email", "audit", "answer"}, Goto(c, l), l = "email" => ch = "teams",
         NEW more, DOMAIN sent' = Calls, sent'[c] = sent[c] \union more,
         \A d \in Calls : d # c => sent'[d] = sent[d],
         \A m \in more : AsRouted(c, m), more # {} => s \in {"ok", "threw"},
         s = "ok" => \E m \in more : Served(c, ch, m),
         IF s = "threw" THEN l = "answer" /\ result' = [result EXCEPT ![c] = "failed"]
         ELSE l # "answer" /\ result' = result,
         UNCHANGED <<req, config, track>>
  PROVE  Dispatching'
<1>1. /\ pc'[c] = l /\ sent'[c] = sent[c] \union more /\ status'[c][ch] = s
      /\ DOMAIN sent' = Calls
      /\ \A k \in Channels : k # ch => status'[c][k] = status[c][k]
      /\ \A d \in Calls : d # c => pc'[d] = pc[d] /\ sent'[d] = sent[d] /\ status'[d] = status[d]
                                  /\ result'[d] = result[d]
  BY DEF Mark, Goto, Typed, TypeOK, Dispatching
<1>2. Tracked' /\ DOMAIN config' = Calls /\ DOMAIN sent' = Calls
  BY <1>1 DEF Dispatching, Tracked
<1>3. Honest(c) /\ req[c].kind \in Sends /\ config[c] = track[c].base /\ result[c] = "none"
  BY DEF Dispatching, Honest, Stages, Channels
<1>4. result'[c] = IF s = "threw" THEN "failed" ELSE "none"
  BY <1>3 DEF Typed, TypeOK
<1>5. Stages(c)'
  <2>1. l = "email" => status'[c]["email"] = "none"
    <3>1. l = "email" => ch = "teams" /\ status[c]["email"] = "none"
      BY <1>3 DEF Honest, Stages, Quiet, Channels
    <3> QED
      BY <1>1, <3>1 DEF Channels
  <2> QED
    BY <1>1, <1>3, <1>4, <2>1 DEF Stages
<1>6. Messages(c)'
  <2>1. ASSUME NEW m \in sent'[c] PROVE AsRouted(c, m)'
    <3>1. AsRouted(c, m)
      BY <1>1, <1>3, <2>1 DEF Honest, Messages
    <3> QED
      BY <3>1 DEF AsRouted, Reason
  <2>2. ASSUME NEW k \in Channels, status'[c][k] = "ok" PROVE \E m \in sent'[c] : Served(c, k, m)'
    <3>1. \E m \in sent'[c] : Served(c, k, m)
      <4>1. CASE k = ch
        BY <1>1, <2>2, <4>1
      <4>2. CASE k # ch
        BY <1>1, <1>3, <2>2, <4>2 DEF Honest, Messages
      <4> QED
        BY <4>1, <4>2
    <3> QED
      BY <3>1 DEF Served, Reason
  <2> QED
    BY <2>1, <2>2 DEF Messages
<1>7. Answers(c)'
  <2>1. sent'[c] # {} => \E k \in Channels : status'[c][k] \in {"ok", "threw"}
    <3>1. CASE more # {}
      BY <1>1, <3>1
    <3>2. CASE more = {} /\ sent[c] # {}
      <4>1. ch = "email" /\ \A k \in Channels : k # ch => k = "teams"
        BY <1>3, <3>2 DEF Honest, Stages, Channels
      <4>2. status[c]["email"] = "none"
        BY <1>3, <4>1 DEF Honest, Stages
      <4>3. PICK k \in Channels : status[c][k] \in {"ok", "threw"}
        BY <1>3, <3>2 DEF Honest, Answers
      <4>4. k # ch
        BY <4>1, <4>2, <4>3
      <4> QED
        BY <1>1, <4>3, <4>4
    <3> QED
      BY <1>1, <3>1, <3>2
  <2> QED
    BY <1>1, <1>4, <2>1 DEF Answers
<1>8. Honest(c)'
  BY <1>5, <1>6, <1>7 DEF Honest
<1>9. ASSUME NEW d \in Calls, d # c PROVE Honest(d)'
  BY <1>1, <1>9, UntouchedHonest DEF Dispatching
<1> QED
  BY <1>2, <1>8, <1>9 DEF Dispatching

LEMMA AskedDispatching ==
  ASSUME Typed, Dispatching, NEW c \in Calls, NEW ch \in Channels,
         Skip(c, ch) \/ Deliver(c, ch) \/ Throw(c, ch)
  PROVE  Dispatching'
<1> DEFINE l == AfterSend(ch)
<1>1. l \in {"email", "audit", "answer"} /\ l # "answer" /\ (l = "email" => ch = "teams")
  BY DEF AfterSend
<1> HIDE DEF l
<1>2. DOMAIN sent = Calls
  BY DEF Dispatching
<1>3. pc[c] = ch /\ UNCHANGED <<req, config, track>>
  BY DEF Skip, Deliver, Throw, Sendable, history
<1>4. config[c] = track[c].base
  BY <1>3 DEF Dispatching, Honest, Stages, Channels
<1>5. ASSUME NEW s \in {"skipped", "incomplete", "refused"}, Mark(c, ch, s), Goto(c, l),
             sent' = sent, result' = result
      PROVE  Dispatching'
  <2> DEFINE more == {}
  <2>1. DOMAIN sent' = Calls /\ sent'[c] = sent[c] \union more
        /\ \A d \in Calls : d # c => sent'[d] = sent[d]
    BY <1>2, <1>5
  <2>2. s \in {"skipped", "incomplete", "ok", "refused", "threw"} /\ s # "ok" /\ s # "threw"
    BY <1>5
  <2>3. more = {} /\ \A m \in more : AsRouted(c, m)
    OBVIOUS
  <2> HIDE DEF more
  <2> QED
    BY <1>1, <1>3, <1>5, <2>1, <2>2, <2>3, ChannelDispatching
<1>6. CASE Skip(c, ch)
  BY <1>5, <1>6 DEF Skip, l
<1>7. CASE Deliver(c, ch)
  <2>1. Goto(c, l) /\ result' = result /\ Routes(c, ch) # {}
    BY <1>7 DEF Deliver, Sendable, l
  <2>2. CASE Mark(c, ch, "ok") /\ sent' = [sent EXCEPT ![c] = @ \union {Message(c, ch)}]
    <3> DEFINE more == {Message(c, ch)}
    <3>1. DOMAIN sent' = Calls /\ sent'[c] = sent[c] \union more
          /\ \A d \in Calls : d # c => sent'[d] = sent[d]
      BY <1>2, <2>2
    <3>2. (\A m \in more : AsRouted(c, m)) /\ \E m \in more : Served(c, ch, m)
      BY <1>4, <2>1, MessageFacts
    <3> HIDE DEF more
    <3>3. "ok" \in {"skipped", "incomplete", "ok", "refused", "threw"} /\ "ok" \in {"ok", "threw"}
          /\ "ok" # "threw"
      OBVIOUS
    <3> QED
      BY <1>1, <1>3, <2>1, <2>2, <3>1, <3>2, <3>3, ChannelDispatching
  <2>3. CASE Mark(c, ch, "refused") /\ sent' = sent
    BY <1>5, <2>1, <2>3
  <2> QED
    BY <1>7, <2>2, <2>3 DEF Deliver
<1>8. CASE Throw(c, ch)
  <2>1. /\ Goto(c, "answer") /\ result' = [result EXCEPT ![c] = "failed"] /\ Mark(c, ch, "threw")
        /\ Routes(c, ch) # {}
    BY <1>8 DEF Throw, Conclude, Sendable
  <2>2. PICK more \in {{}, {Message(c, ch)}} :
          /\ DOMAIN sent' = Calls /\ sent'[c] = sent[c] \union more
          /\ \A d \in Calls : d # c => sent'[d] = sent[d]
    <3>1. sent' = sent \/ sent' = [sent EXCEPT ![c] = @ \union {Message(c, ch)}]
      BY <1>8 DEF Throw
    <3>2. CASE sent' = sent
      BY <1>2, <3>2
    <3>3. CASE sent' = [sent EXCEPT ![c] = @ \union {Message(c, ch)}]
      BY <1>2, <3>3
    <3> QED
      BY <3>1, <3>2, <3>3
  <2>3. \A m \in more : AsRouted(c, m)
    BY <1>4, <2>1, <2>2, MessageFacts
  <2>4. /\ "threw" \in {"skipped", "incomplete", "ok", "refused", "threw"}
        /\ "threw" \in {"ok", "threw"} /\ "threw" # "ok"
        /\ "answer" \in {"email", "audit", "answer"} /\ "answer" # "email"
    OBVIOUS
  <2> QED
    BY <1>3, <2>1, <2>2, <2>3, <2>4, ChannelDispatching
<1> QED
  BY <1>6, <1>7, <1>8

LEMMA StepDispatching == Typed /\ Alone /\ Dispatching /\ [Next]_vars => Dispatching'
<1> SUFFICES ASSUME Typed, Alone, Dispatching, [Next]_vars PROVE Dispatching'
  OBVIOUS
<1>1. \A c \in Calls : pc[c] # "answer" => result[c] = "none"
  BY DEF Dispatching, Honest, Stages
<1>2. DOMAIN track = Calls /\ (track' = track =>
        \A d \in Calls : DOMAIN track'[d] = DOMAIN Fresh /\ track'[d].base = track[d].base)
  BY DEF Dispatching, Tracked
<1>3. ASSUME NEW c \in Calls, (\E p \in Pages : Load(c, p) \/ Save(c, p) \/ Act(c, p)) \/ Send(c)
      PROVE  Dispatching'
  <2>1. \E r, fresh : Begin(c, r, fresh)
    BY <1>3 DEF Load, Save, Act, Send
  <2> QED
    BY <2>1, BeginDispatching
<1>4. ASSUME NEW c \in Calls, Refuse(c) PROVE Dispatching'
  BY <1>2, <1>4, MovedDispatching DEF Refuse, Goto, Conclude, history
<1>5. ASSUME NEW c \in Calls, Open(c) PROVE Dispatching'
  <2>1. result' = [result EXCEPT ![c] = "none"]
    BY <1>1, <1>5 DEF Open, Typed, TypeOK
  <2>2. pc' = [pc EXCEPT ![c] = "write"] /\ UNCHANGED <<req, config, status, sent, track>>
    BY <1>5 DEF Open, Goto
  <2> QED
    BY <1>2, <2>1, <2>2, MovedDispatching
<1>6. ASSUME NEW c \in Calls, Write(c) \/ Upsert(c) PROVE Dispatching'
  <2>1. result' = [result EXCEPT ![c] = "none"]
    BY <1>1, <1>6 DEF Write, Upsert, Typed, TypeOK
  <2>2. /\ pc' = [pc EXCEPT ![c] = "audit"] /\ UNCHANGED <<req, config, status, sent>>
        /\ \E n : track' = [track EXCEPT ![c].seen = n]
    BY <1>6 DEF Write, Upsert, Goto
  <2>3. /\ DOMAIN track' = Calls
        /\ \A d \in Calls : DOMAIN track'[d] = DOMAIN Fresh /\ track'[d].base = track[d].base
    BY <2>2 DEF Dispatching, Tracked
  <2> QED
    BY <2>1, <2>2, <2>3, MovedDispatching
<1>7. ASSUME NEW c \in Calls, WriteFault(c) PROVE Dispatching'
  <2>1. req[c].kind \notin Sends
    BY <1>7 DEF WriteFault, Alone, Sends
  <2>2. /\ pc' = [pc EXCEPT ![c] = "answer"] /\ result' = [result EXCEPT ![c] = "failed"]
        /\ UNCHANGED <<req, config, status, sent, track>>
    BY <1>7 DEF WriteFault, Goto, Conclude, history
  <2> QED
    BY <1>2, <2>1, <2>2, MovedDispatching
<1>8. ASSUME NEW c \in Calls, Audit(c) PROVE Dispatching'
  <2> DEFINE r == IF req[c].kind \in Sends /\ ~Succeeded(c) THEN "failed" ELSE "ok"
  <2>1. /\ pc' = [pc EXCEPT ![c] = "answer"] /\ result' = [result EXCEPT ![c] = r]
        /\ UNCHANGED <<req, config, status, sent, track>>
    BY <1>8 DEF Audit, Goto, Conclude, history
  <2>2. req[c].kind \in Sends =>
          /\ r = "ok" => sent[c] # {}
          /\ r = "failed" /\ sent[c] # {} => \E ch \in Channels : status[c][ch] = "threw"
    BY DEF Succeeded, Dispatching, Honest, Messages, Answers
  <2> HIDE DEF r
  <2> QED
    BY <1>2, <2>1, <2>2, MovedDispatching
<1>9. ASSUME NEW c \in Calls, Answer(c) PROVE Dispatching'
  BY <1>9, ForgetDispatching DEF Answer
<1>10. ASSUME Crash PROVE Dispatching'
  <2>1. {c \in Calls : UnderWay(c)} \in SUBSET Calls /\ Forget({c \in Calls : UnderWay(c)})
    BY <1>10 DEF Crash
  <2> QED
    BY <2>1, ForgetDispatching
<1>11. CASE UNCHANGED vars
  <2>1. \A c \in Calls : Honest(c)'
    BY <1>11, UntouchedHonest DEF Dispatching, vars, callVars, history
  <2> QED
    BY <1>11, <2>1 DEF Dispatching, Tracked, vars, callVars, history
<1> QED
  BY <1>3, <1>4, <1>5, <1>6, <1>7, <1>8, <1>9, <1>10, <1>11, ReadDispatching, AskedDispatching DEF Next

(* What a dispatch sent was enabled, for its reason and severity, in the   *)
(* configuration as the call found it, to people responsible for an alert  *)
(* in the message; and a channel said to be served was sent everything.    *)
THEOREM RoutedMessages == Spec => []SentAsRouted
<1>1. Spec => [](Typed /\ Alone /\ Dispatching)
  BY InitTyped, StepTyped, InitAlone, StepAlone, InitDispatching, StepDispatching, PTL DEF Spec
<1>2. Dispatching => SentAsRouted
  BY DEF Dispatching, Honest, Messages, AsRouted, Served, SentAsRouted
<1> QED
  BY <1>1, <1>2, PTL

(* A dispatch that answers success reached somebody; one that answers      *)
(* failure although it reached somebody was cut short by an exception of a *)
(* channel (dispatchAlertsToConfiguredChannels).                           *)
THEOREM Honesty == Spec => []DispatchHonest
<1>1. Spec => [](Typed /\ Alone /\ Dispatching)
  BY InitTyped, StepTyped, InitAlone, StepAlone, InitDispatching, StepDispatching, PTL DEF Spec
<1>2. Dispatching => DispatchHonest
  BY DEF Dispatching, Honest, Answers, DispatchHonest
<1> QED
  BY <1>1, <1>2, PTL

----------------------------------------------------------------------------
(* The mask and the secrets.                                               *)

\* A secret of channel ch has no blanks around it, is not the mask's text
\* unless ch is in T, and an empty one is not sealed.
Proper(v, ch, T) ==
  /\ v \notin Untrimmed
  /\ v.text = MASK => ch \in T
  /\ v.text = "" => v.sealed = <<>>

Clean(c, T) == Proper(c.teams.webhookUrl, "teams", T) /\ Proper(c.email.smtpPass, "email", T)

Whole(c) == "webhookUrl" \in DOMAIN c.teams /\ "smtpPass" \in DOMAIN c.email

\* A field of a patch that says the mask is the mask as pages are shown it.
SafeField(r, f) ==
  f \in DOMAIN r => r[f] \notin Secret \/ Proper(r[f], f, {}) \/ r[f] = Masked

SafePatch(p) == SafeField(p.teams, "webhookUrl") /\ SafeField(p.email, "smtpPass")

Form(x) == DOMAIN x = {"teams", "email"} /\ Whole(x) /\ SafePatch(x)

LEMMA BlankClean ==
  ASSUME NEW ch, NEW T
  PROVE  Proper(Blank, ch, T)
<1>1. Blank.text = "" /\ Blank.sealed = <<>> /\ MASK # ""
  BY DEF Blank, Plain, MASK
<1> QED
  BY <1>1, BlankType, SecretTrimmed DEF Proper

\* Sealing and unsealing leave a proper secret proper.
LEMMA SealProper ==
  ASSUME NEW v \in Secret, NEW k \in Keys \union {NoKey}, NEW ch, NEW T, Proper(v, ch, T)
  PROVE  Proper(Seal(v, k), ch, T) /\ Proper(Unseal(v, k), ch, T)
<1>1. /\ Seal(v, k).text = v.text /\ Unseal(v, k).text = v.text
      /\ Seal(v, k) \in Secret /\ Unseal(v, k) \in Secret
  BY SealFacts
<1>2. v.text = "" => v = Blank
  <2>1. v = [text |-> v.text, sealed |-> v.sealed]
    BY DEF Secret
  <2> QED
    BY <2>1 DEF Proper, Blank, Plain
<1>3. v = Blank => Seal(v, k) = v /\ Unseal(v, k) = v
  <2>1. Blank.sealed = <<>>
    BY DEF Blank, Plain
  <2> QED
    BY <2>1 DEF Seal, Unseal
<1>4. Seal(v, k) \notin Untrimmed /\ Unseal(v, k) \notin Untrimmed
  BY <1>1, SecretTrimmed
<1> QED
  BY <1>1, <1>2, <1>3, <1>4 DEF Proper

LEMMA PlainSafe ==
  ASSUME NEW t \in Texts \union Padded, NEW f
  PROVE  Plain(t) \notin Secret \/ Proper(Plain(t), f, {}) \/ Plain(t) = Masked
<1>1. Plain(t).text = t /\ Plain(t).sealed = <<>>
  BY DEF Plain
<1>2. CASE Plain(t) \in Secret
  <2>1. Plain(t) \notin Untrimmed
    BY <1>2, SecretTrimmed
  <2> QED
    BY <1>1, <2>1 DEF Masked, Proper
<1> QED
  BY <1>2

\* A clean configuration has no blanks to lose.
LEMMA FitProper ==
  ASSUME NEW v, NEW ch, NEW T, Proper(v, ch, T)
  PROVE  Proper(FitSecret(v), ch, T)
<1>1. FitSecret(v) \in {v, Blank}
  BY DEF Proper, FitSecret, Fit
<1> QED
  BY <1>1, BlankClean

LEMMA SanitizeClean ==
  ASSUME NEW c, NEW T, Clean(c, T)
  PROVE  Clean(Sanitize(c), T)
<1>1. Sanitize(c).teams.webhookUrl = FitSecret(c.teams.webhookUrl)
  BY DEF Sanitize, SanitizeTeams
<1>2. Sanitize(c).email.smtpPass = FitSecret(c.email.smtpPass)
  BY DEF Sanitize, SanitizeEmail
<1> QED
  BY <1>1, <1>2, FitProper DEF Clean

LEMMA DefaultFacts ==
  ASSUME NEW T
  PROVE  Clean(Default, T) /\ Whole(Default)
BY BlankClean DEF Default, Clean, Whole

LEMMA ConfigWhole ==
  ASSUME NEW c \in Config
  PROVE  Whole(c)
<1>1. c.teams \in TeamsConfig /\ c.email \in EmailConfig
  BY DEF Config
<1> QED
  BY <1>1 DEF TeamsConfig, EmailConfig, Whole

LEMMA CurrentClean ==
  ASSUME key \in Keys \union {NoKey}, NEW T, Readable => Clean(stored, T)
  PROVE  Clean(Current, T) /\ Whole(Current)
<1>1. CASE Readable
  <2>1. Sanitize(stored) \in Config /\ Clean(Sanitize(stored), T)
    BY <1>1, SanitizeType, SanitizeClean
  <2>2. Current = UnsealConfig(Sanitize(stored), key)
    BY <1>1 DEF Current
  <2> QED
    BY <2>1, <2>2, SealConfigFacts, SealProper, ConfigWhole DEF Clean
<1>2. CASE ~Readable
  BY <1>2, DefaultFacts DEF Current
<1> QED
  BY <1>1, <1>2

LEMMA ToStoreClean ==
  ASSUME key \in Keys \union {NoKey}, NEW c \in Calls, NEW T, Clean(config[c], T)
  PROVE  Clean(ToStore(c), T)
<1>1. Sanitize(config[c]) \in Config /\ Clean(Sanitize(config[c]), T)
  BY SanitizeType, SanitizeClean
<1> QED
  BY <1>1, SealConfigFacts, SealProper DEF ToStore, Clean

\* A field of a merge is the old one, or a new one that is the mask only if
\* it was typed with blanks.
LEMMA UnmaskedClean ==
  ASSUME NEW old, NEW p, NEW f \in DOMAIN old, NEW ch, NEW T,
         SafeField(p, f), Proper(old[f], ch, T),
         \A t \in Padded : f \in DOMAIN p /\ p[f] = Plain(t) /\ Trimmed[t] = MASK => ch \in T
  PROVE  Proper(Unmasked(p, f, old[f], FitSecret(Over(p, old)[f])), ch, T)
<1>1. Over(p, old)[f] = IF f \in DOMAIN p THEN p[f] ELSE old[f]
  BY DEF Over
<1>2. CASE f \in DOMAIN p
  <2>1. CASE p[f] = Masked
    BY <1>2, <2>1 DEF Unmasked
  <2>2. CASE p[f] # Masked
    <3>1. Unmasked(p, f, old[f], FitSecret(Over(p, old)[f])) = FitSecret(p[f])
      BY <1>1, <1>2, <2>2 DEF Unmasked
    <3>2. CASE p[f] \in Secret
      <4>1. Proper(p[f], f, {}) /\ FitSecret(p[f]) = p[f]
        BY <1>2, <2>2, <3>2, SecretTrimmed DEF SafeField
      <4> QED
        BY <3>1, <4>1 DEF Proper
    <3>3. ASSUME NEW t \in Padded, p[f] = Plain(t)
          PROVE  Proper(FitSecret(p[f]), ch, T)
      <4> DEFINE w == Plain(Trimmed[t])
      <4>1. FitSecret(p[f]) = w /\ w \in Secret
        BY <3>3, TypedSecret, PlainType
      <4>2. w.text = Trimmed[t] /\ w.sealed = <<>>
        BY DEF Plain
      <4>3. Trimmed[t] = MASK => ch \in T
        BY <1>2, <3>3
      <4>4. w \notin Untrimmed
        BY <4>1, SecretTrimmed
      <4> HIDE DEF w
      <4> QED
        BY <4>1, <4>2, <4>3, <4>4 DEF Proper
    <3> QED
      BY <3>1, <3>2, <3>3, FitSecretCases, BlankClean
  <2> QED
    BY <2>1, <2>2
<1>3. CASE f \notin DOMAIN p
  BY <1>1, <1>3, FitProper DEF Unmasked
<1> QED
  BY <1>2, <1>3

\* What a patch types for a secret, of the channels of T.
LEMMA TypedIn ==
  ASSUME NEW p, NEW T, MasksTyped(p) \subseteq T, NEW ch \in Channels, NEW f \in SecretFields,
         NEW t \in Padded, f \in DOMAIN p[ch], p[ch][f] = Plain(t), Trimmed[t] = MASK
  PROVE  ch \in T
BY DEF MasksTyped

LEMMA UpdateClean ==
  ASSUME NEW old, NEW p, NEW T, Clean(old, T), Whole(old), SafePatch(p), MasksTyped(p) \subseteq T
  PROVE  Clean(Update(old, p), T) /\ Whole(Update(old, p))
<1>1. Proper(UpdateTeams(old.teams, p.teams).webhookUrl, "teams", T)
      /\ "webhookUrl" \in DOMAIN UpdateTeams(old.teams, p.teams)
  <2> DEFINE t == SanitizeTeams(Over(p.teams, old.teams))
             u == Unmasked(p.teams, "webhookUrl", old.teams.webhookUrl, t.webhookUrl)
             r == Over(Nested(p.teams, "routes"), old.teams.routes)
             b == Over(Nested(p.teams, "bySeverity"), old.teams.bySeverity)
  <2>1. t.webhookUrl = FitSecret(Over(p.teams, old.teams).webhookUrl)
    BY DEF SanitizeTeams
  <2>2. Proper(u, "teams", T)
    <3>1. \A x \in Padded : "webhookUrl" \in DOMAIN p.teams /\ p.teams["webhookUrl"] = Plain(x)
                              /\ Trimmed[x] = MASK => "teams" \in T
      BY TypedIn DEF Channels, SecretFields
    <3>2. /\ SafeField(p.teams, "webhookUrl") /\ "webhookUrl" \in DOMAIN old.teams
          /\ Proper(old.teams["webhookUrl"], "teams", T)
      BY DEF Clean, Whole, SafePatch
    <3>3. Proper(Unmasked(p.teams, "webhookUrl", old.teams["webhookUrl"],
                          FitSecret(Over(p.teams, old.teams)["webhookUrl"])), "teams", T)
      BY <3>1, <3>2, UnmaskedClean
    <3> QED
      BY <2>1, <3>3
  <2>3. DOMAIN t = {"enabled", "webhookUrl", "routes", "bySeverity"}
    BY DEF SanitizeTeams
  <2>4. UpdateTeams(old.teams, p.teams) = [t EXCEPT !.routes = r, !.bySeverity = b, !.webhookUrl = u]
    BY <2>3 DEF UpdateTeams
  <2> HIDE DEF t, u, r, b
  <2> QED
    BY <2>2, <2>3, <2>4
<1>2. Proper(UpdateEmail(old.email, p.email).smtpPass, "email", T)
      /\ "smtpPass" \in DOMAIN UpdateEmail(old.email, p.email)
  <2> DEFINE t == SanitizeEmail(Over(p.email, old.email))
             u == Unmasked(p.email, "smtpPass", old.email.smtpPass, t.smtpPass)
             r == Over(Nested(p.email, "routes"), old.email.routes)
             b == Over(Nested(p.email, "bySeverity"), old.email.bySeverity)
             g == Over(Nested(p.email, "recipientGroups"), old.email.recipientGroups)
             m == Over(Nested(p.email, "severityGroupMap"), old.email.severityGroupMap)
  <2>1. t.smtpPass = FitSecret(Over(p.email, old.email).smtpPass)
    BY DEF SanitizeEmail
  <2>2. Proper(u, "email", T)
    <3>1. \A x \in Padded : "smtpPass" \in DOMAIN p.email /\ p.email["smtpPass"] = Plain(x)
                              /\ Trimmed[x] = MASK => "email" \in T
      BY TypedIn DEF Channels, SecretFields
    <3>2. /\ SafeField(p.email, "smtpPass") /\ "smtpPass" \in DOMAIN old.email
          /\ Proper(old.email["smtpPass"], "email", T)
      BY DEF Clean, Whole, SafePatch
    <3>3. Proper(Unmasked(p.email, "smtpPass", old.email["smtpPass"],
                          FitSecret(Over(p.email, old.email)["smtpPass"])), "email", T)
      BY <3>1, <3>2, UnmaskedClean
    <3> QED
      BY <2>1, <3>3
  <2>3. DOMAIN t = {"enabled", "smtpHost", "smtpPort", "smtpPass", "from", "to", "routes",
                    "bySeverity", "recipientGroups", "severityGroupMap"}
    BY DEF SanitizeEmail
  <2>4. UpdateEmail(old.email, p.email) =
          [t EXCEPT !.routes = r, !.bySeverity = b, !.recipientGroups = g,
                    !.severityGroupMap = m, !.smtpPass = u]
    BY <2>3 DEF UpdateEmail
  <2> HIDE DEF t, u, r, b, g, m
  <2> QED
    BY <2>2, <2>3, <2>4
<1>3. /\ Update(old, p).teams = UpdateTeams(old.teams, p.teams)
      /\ Update(old, p).email = UpdateEmail(old.email, p.email)
  BY DEF Update
<1> QED
  BY <1>1, <1>2, <1>3 DEF Clean, Whole

\* A page that is shown a configuration has a form.
LEMMA MaskForm ==
  ASSUME NEW c, Whole(c)
  PROVE  Form(MaskConfig(c))
<1> DEFINE t == [c.teams EXCEPT !.webhookUrl = Mask(c.teams.webhookUrl)]
           e == [c.email EXCEPT !.smtpPass = Mask(c.email.smtpPass)]
<1>1. MaskConfig(c) = [teams |-> t, email |-> e]
  BY DEF MaskConfig
<1>2. "webhookUrl" \in DOMAIN t /\ t.webhookUrl \in {Blank, Masked}
  BY DEF Whole, Mask
<1>3. "smtpPass" \in DOMAIN e /\ e.smtpPass \in {Blank, Masked}
  BY DEF Whole, Mask
<1> HIDE DEF t, e
<1>4. [teams |-> t, email |-> e].teams = t /\ [teams |-> t, email |-> e].email = e
      /\ DOMAIN [teams |-> t, email |-> e] = {"teams", "email"}
  OBVIOUS
<1> QED
  BY <1>1, <1>2, <1>3, <1>4, BlankClean DEF Form, Whole, SafePatch, SafeField

LEMMA DefaultForm == Form(Default)
<1>1. DOMAIN Default = {"teams", "email"}
  BY DEF Default
<1>2. Default.teams.webhookUrl = Blank /\ Default.email.smtpPass = Blank
  BY DEF Default
<1> QED
  BY <1>1, <1>2, DefaultFacts, BlankClean DEF Form, SafePatch, SafeField

\* An edit leaves a form.
LEMMA EditForm ==
  ASSUME NEW x, Form(x), NEW e \in Edits
  PROVE  Form([x EXCEPT ![e[1]][e[2]] = e[3]])
<1> DEFINE y == [x EXCEPT ![e[1]][e[2]] = e[3]]
<1>1. DOMAIN y = {"teams", "email"}
  BY DEF Form
<1>2. \A ch \in {"teams", "email"} :
        y[ch] = IF ch = e[1] THEN [x[ch] EXCEPT ![e[2]] = e[3]] ELSE x[ch]
  BY DEF Form
<1> HIDE DEF y
<1>3. \A ch \in {"teams", "email"} : \A f \in DOMAIN x[ch] :
        f \in DOMAIN y[ch] /\ (y[ch][f] = x[ch][f] \/ (f = e[2] /\ y[ch][f] = e[3]))
  BY <1>2
<1>4. ASSUME NEW f \in {"webhookUrl", "smtpPass"}, f = e[2]
      PROVE  e[3] \notin Secret \/ Proper(e[3], f, {}) \/ e[3] = Masked
  BY <1>4, EditsAssumption, PlainSafe DEF SecretFields, Typeable
<1>5. Whole(y)
  BY <1>3 DEF Form, Whole
<1>6. SafeField(y.teams, "webhookUrl")
  BY <1>3, <1>4 DEF Form, Whole, SafePatch, SafeField
<1>7. SafeField(y.email, "smtpPass")
  BY <1>3, <1>4 DEF Form, Whole, SafePatch, SafeField
<1> QED
  BY <1>1, <1>5, <1>6, <1>7 DEF Form, SafePatch, y

LEMMA PatchSafe ==
  ASSUME NEW p \in Patches
  PROVE  SafePatch(p)
<1>1. SafeField(p.teams, "webhookUrl")
  BY PatchesAssumption, JunkAssumption, PlainSafe DEF SafeField, Channels, SecretFields, Typeable
<1>2. SafeField(p.email, "smtpPass")
  BY PatchesAssumption, JunkAssumption, PlainSafe DEF SafeField, Channels, SecretFields, Typeable
<1> QED
  BY <1>1, <1>2 DEF SafePatch

SafeHere(p, T) == SafePatch(p) /\ MasksTyped(p) \subseteq T

\* No secret that is stored, or on its way there, is the mask, unless it was
\* typed with blanks; otherwise pages and clients say it only as it is shown.
Masking ==
  /\ Readable => Clean(stored, typed)
  /\ \A p \in Pages : Form(page[p].form)
  /\ \A c \in Calls : req[c].kind = "save" => SafeHere(req[c].patch, typed)
  /\ DOMAIN config = Calls
  /\ \A c \in Calls : Whole(config[c])
  /\ \A c \in Calls : pc[c] \in {"open", "write", "upsert"} => Clean(config[c], typed)

LEMMA InitMasking == Init => Masking
<1> SUFFICES ASSUME Init PROVE Masking
  OBVIOUS
<1>1. key \in Keys \union {NoKey}
  BY DEF Init
<1>2. Readable => Clean(stored, typed)
  <2>1. stored = Missing \/ \E c \in Saved : stored = SealConfig(c, key)
    BY DEF Init
  <2>2. CASE stored = Missing
    BY <2>2 DEF Readable
  <2>3. ASSUME NEW c \in Saved, stored = SealConfig(c, key) PROVE Clean(stored, typed)
    <3>1. c \in Config /\ c.teams.webhookUrl \in Secret /\ c.email.smtpPass \in Secret
      BY SavedAssumption, SealConfigFacts, <1>1
    <3>2. Clean(c, typed)
      BY <3>1, SavedAssumption, SecretTrimmed DEF Proper, Clean
    <3> QED
      BY <1>1, <2>3, <3>1, <3>2, SealConfigFacts, SealProper DEF Clean
  <2> QED
    BY <2>1, <2>2, <2>3
<1>3. ASSUME NEW p \in Pages PROVE Form(page[p].form)
  <2> DEFINE a == [form |-> Default, loaded |-> FALSE]
             b == [form |-> MaskConfig(Current), loaded |-> TRUE]
  <2>1. page[p] \in {a, b}
    BY DEF Init
  <2>2. a.form = Default /\ b.form = MaskConfig(Current)
    OBVIOUS
  <2> HIDE DEF a, b
  <2> QED
    BY <1>1, <1>2, <2>1, <2>2, DefaultForm, CurrentClean, MaskForm
<1>4. \A c \in Calls : req[c].kind # "save" /\ config[c] = Default /\ pc[c] = "idle"
  BY DEF Init, Idle
<1>5. DOMAIN config = Calls
  BY DEF Init
<1> QED
  BY <1>2, <1>3, <1>4, <1>5, DefaultFacts DEF Masking

LEMMA CleanMore ==
  ASSUME NEW c, NEW T, NEW U, Clean(c, T), T \subseteq U
  PROVE  Clean(c, U)
BY DEF Clean, Proper

\* A request begins.
LEMMA BeginMasking ==
  ASSUME Typed, Masking, NEW c \in Calls, NEW r, NEW fresh, Begin(c, r, fresh),
         r.kind = "save" => SafePatch(r.patch), \A p \in Pages : Form(page'[p].form)
  PROVE  Masking'
<1>1. /\ pc' = [pc EXCEPT ![c] = "read"] /\ req' = [req EXCEPT ![c] = r]
      /\ typed' = typed \union MasksTyped(r.patch)
      /\ UNCHANGED <<stored, config>>
  BY DEF Begin, Goto
<1>2. Readable' => Clean(stored', typed')
  BY <1>1, CleanMore DEF Masking, Readable
<1>3. \A d \in Calls : req'[d].kind = "save" => SafeHere(req'[d].patch, typed')
  <2> SUFFICES ASSUME NEW d \in Calls, req'[d].kind = "save"
               PROVE  SafeHere(req'[d].patch, typed')
    OBVIOUS
  <2>1. CASE d = c
    <3>1. req'[d] = r
      BY <1>1, <2>1 DEF Typed, Shaped
    <3> QED
      BY <1>1, <3>1 DEF SafeHere
  <2>2. CASE d # c
    <3>1. req'[d] = req[d]
      BY <1>1, <2>2 DEF Typed, Shaped
    <3>2. SafeHere(req[d].patch, typed)
      BY <3>1 DEF Masking
    <3> QED
      BY <1>1, <3>1, <3>2 DEF SafeHere
  <2> QED
    BY <2>1, <2>2
<1>4. \A d \in Calls : pc'[d] \in {"open", "write", "upsert"} => Clean(config'[d], typed')
  BY <1>1, CleanMore DEF Typed, TypeOK, Masking
<1> QED
  BY <1>1, <1>2, <1>3, <1>4 DEF Masking

LEMMA RequestMasking ==
  ASSUME Typed, Masking, NEW c \in Calls,
         (\E p \in Pages : Load(c, p) \/ Save(c, p) \/ Act(c, p)) \/ Send(c)
  PROVE  Masking'
<1>1. page' = page => \A p \in Pages : Form(page'[p].form)
  BY DEF Masking
<1>2. Idle.kind # "save"
  BY DEF Idle
<1>3. ASSUME NEW p \in Pages, Load(c, p) PROVE Masking'
  <2>1. page' = page /\ Begin(c, [Idle EXCEPT !.from = p], FALSE)
    BY <1>3 DEF Load
  <2>2. [Idle EXCEPT !.from = p].kind # "save"
    BY DEF Idle
  <2> QED
    BY <1>1, <2>1, <2>2, BeginMasking
<1>4. ASSUME NEW p \in Pages, Save(c, p) PROVE Masking'
  <2>1. PICK e \in Edits :
          LET form == [page[p].form EXCEPT ![e[1]][e[2]] = e[3]]
              dirty == view[p].dirty \union {<<e[1], e[2]>>}
          IN  /\ page' = [page EXCEPT ![p].form = form]
              /\ Begin(c, [Idle EXCEPT !.kind = "save", !.from = p, !.patch = form,
                                       !.dirty = dirty],
                       view[p].version = version)
    BY <1>4 DEF Save
  <2> DEFINE form == [page[p].form EXCEPT ![e[1]][e[2]] = e[3]]
             dirty == view[p].dirty \union {<<e[1], e[2]>>}
             r == [Idle EXCEPT !.kind = "save", !.from = p, !.patch = form, !.dirty = dirty]
  <2>2. Form(form)
    BY EditForm DEF Masking
  <2> HIDE DEF form
  <2>3. r.patch = form /\ r.kind = "save"
    BY DEF Idle
  <2> HIDE DEF r
  <2>4. page' = [page EXCEPT ![p].form = form] /\ Begin(c, r, view[p].version = version)
    BY <2>1 DEF form, r
  <2>5. \A q \in Pages : page'[q].form = IF q = p THEN form ELSE page[q].form
    BY <2>4 DEF Typed, Shaped
  <2>6. \A q \in Pages : Form(page'[q].form)
    BY <2>2, <2>5 DEF Masking
  <2> QED
    BY <2>2, <2>3, <2>4, <2>6, BeginMasking DEF Form
<1>5. ASSUME NEW p \in Pages, Act(c, p) PROVE Masking'
  <2>1. PICK k \in {"preview"} \union Sends, expired, soon \in 0..1 :
          Begin(c, [Idle EXCEPT !.kind = k, !.from = p,
                      !.alerts = IF k = "test" THEN TestAlerts ELSE AuthAlerts(expired, soon)],
                FALSE)
    BY <1>5 DEF Act
  <2>2. page' = page
    BY <1>5 DEF Act
  <2> DEFINE alerts == IF k = "test" THEN TestAlerts ELSE AuthAlerts(expired, soon)
             r == [Idle EXCEPT !.kind = k, !.from = p, !.alerts = alerts]
  <2>3. r.kind # "save"
    BY DEF Idle, Sends
  <2> HIDE DEF r
  <2> QED
    BY <1>1, <2>1, <2>2, <2>3, BeginMasking DEF r
<1>6. ASSUME Send(c) PROVE Masking'
  <2>1. PICK p \in Patches : Begin(c, [Idle EXCEPT !.kind = "save", !.patch = p], FALSE)
    BY <1>6 DEF Send
  <2>2. page' = page
    BY <1>6 DEF Send
  <2> DEFINE r == [Idle EXCEPT !.kind = "save", !.patch = p]
  <2>3. r.patch = p /\ SafePatch(p)
    BY PatchSafe DEF Idle
  <2> HIDE DEF r
  <2> QED
    BY <1>1, <2>1, <2>2, <2>3, BeginMasking DEF r
<1> QED
  BY <1>3, <1>4, <1>5, <1>6

\* A call goes on with the configuration it has.
LEMMA GoesOnMasking ==
  ASSUME Typed, Masking, NEW c \in Calls, NEW l, pc' = [pc EXCEPT ![c] = l],
         l \in {"open", "write", "upsert"} => Clean(config[c], typed),
         UNCHANGED <<req, config, page, typed>>, Readable' => Clean(stored', typed')
  PROVE  Masking'
<1>1. \A d \in Calls : pc'[d] \in {"open", "write", "upsert"} => Clean(config'[d], typed')
  BY DEF Typed, TypeOK, Masking
<1> QED
  BY <1>1 DEF Masking

\* Calls are forgotten.
LEMMA ForgetMasking ==
  ASSUME Typed, Masking, NEW C \in SUBSET Calls, Forget(C), UNCHANGED <<stored, typed>>,
         \A p \in Pages : Form(page'[p].form)
  PROVE  Masking'
<1>1. \A c \in Calls :
        IF c \in C THEN pc'[c] = "done" /\ req'[c] = Idle /\ config'[c] = Default
        ELSE pc'[c] = pc[c] /\ req'[c] = req[c] /\ config'[c] = config[c]
  BY DEF Forget
<1>2. Idle.kind # "save"
  BY DEF Idle
<1>3. DOMAIN config' = Calls
  BY DEF Forget
<1>4. \A c \in Calls : Whole(config'[c])
  BY <1>1, DefaultFacts DEF Masking
<1>5. \A c \in Calls : pc'[c] \in {"open", "write", "upsert"} => Clean(config'[c], typed')
  BY <1>1 DEF Masking
<1>6. \A c \in Calls : req'[c].kind = "save" => SafeHere(req'[c].patch, typed')
  BY <1>1, <1>2 DEF Masking
<1>7. Readable' => Clean(stored', typed')
  BY DEF Masking, Readable
<1> QED
  BY <1>3, <1>4, <1>5, <1>6, <1>7 DEF Masking

LEMMA StepMasking == Typed /\ Masking /\ [Next]_vars => Masking'
<1> SUFFICES ASSUME Typed, Masking, [Next]_vars PROVE Masking'
  OBVIOUS
<1> USE DEF Goto, Conclude, history
<1>1. key \in Keys \union {NoKey} /\ (Readable => Clean(stored, typed))
  BY DEF Typed, TypeOK, Masking
<1>2. stored' = stored /\ typed' = typed => (Readable' => Clean(stored', typed'))
  BY <1>1 DEF Readable
<1>3. stored' \in {Empty, Torn} => ~Readable'
  BY DEF Readable
<1>4. ASSUME NEW c \in Calls, Refuse(c) \/ Audit(c) PROVE Masking'
  <2>1. pc' = [pc EXCEPT ![c] = "answer"] /\ UNCHANGED <<req, config, page, stored, typed>>
    BY <1>4 DEF Refuse, Audit
  <2> QED
    BY <1>2, <2>1, GoesOnMasking
<1>5. ASSUME NEW c \in Calls, Read(c) PROVE Masking'
  <2>1. PICK seen \in {Current, Default} : config' = [config EXCEPT ![c] =
          IF req[c].kind = "save" THEN Update(seen, req[c].patch) ELSE seen]
    BY <1>5 DEF Read
  <2>2. Clean(seen, typed) /\ Whole(seen)
    BY <1>1, CurrentClean, DefaultFacts
  <2>3. /\ Whole(config'[c]) /\ Clean(config'[c], typed) /\ DOMAIN config' = Calls
        /\ \A d \in Calls : d # c => config'[d] = config[d]
    BY <2>1, <2>2, UpdateClean DEF Masking, SafeHere
  <2>4. pc' = [pc EXCEPT ![c] = AfterRead(c)] /\ UNCHANGED <<stored, req, page, typed>>
    BY <1>5 DEF Read
  <2>5. \A d \in Calls : pc'[d] \in {"open", "write", "upsert"} => Clean(config'[d], typed')
    BY <2>3, <2>4 DEF Typed, TypeOK, Masking
  <2> QED
    BY <1>2, <2>3, <2>4, <2>5 DEF Masking
<1>6. ASSUME NEW c \in Calls, Open(c) PROVE Masking'
  <2>1. pc' = [pc EXCEPT ![c] = "write"] /\ UNCHANGED <<req, config, page, typed>> /\ stored' = Empty
        /\ pc[c] = "open"
    BY <1>6 DEF Open
  <2> QED
    BY <1>3, <2>1, GoesOnMasking DEF Masking
<1>7. ASSUME NEW c \in Calls, Write(c) \/ Upsert(c) PROVE Masking'
  <2>1. pc' = [pc EXCEPT ![c] = "audit"] /\ UNCHANGED <<req, config, page, typed>>
        /\ stored' \in {ToStore(c), Torn} /\ pc[c] \in {"write", "upsert"}
    BY <1>7 DEF Write, Upsert
  <2>2. Clean(ToStore(c), typed)
    BY <1>1, <2>1, ToStoreClean DEF Masking
  <2> QED
    BY <1>3, <2>1, <2>2, GoesOnMasking
<1>8. ASSUME NEW c \in Calls, WriteFault(c) PROVE Masking'
  <2>1. pc' = [pc EXCEPT ![c] = "answer"] /\ UNCHANGED <<req, config, page, typed>>
        /\ stored' \in {stored, Torn}
    BY <1>8 DEF WriteFault
  <2> QED
    BY <1>2, <1>3, <2>1, GoesOnMasking
<1>9. ASSUME NEW c \in Calls, NEW ch \in Channels,
             Skip(c, ch) \/ Deliver(c, ch) \/ Throw(c, ch) PROVE Masking'
  <2>1. AfterSend(ch) \in {"email", "audit"}
    BY DEF AfterSend
  <2>2. PICK l \in {"email", "audit", "answer"} : pc' = [pc EXCEPT ![c] = l]
    BY <1>9, <2>1 DEF Skip, Deliver, Throw
  <2>3. UNCHANGED <<req, config, page, stored, typed>>
    BY <1>9 DEF Skip, Deliver, Throw
  <2> QED
    BY <1>2, <2>2, <2>3, GoesOnMasking
<1>10. ASSUME NEW c \in Calls, Answer(c) PROVE Masking'
  <2>1. Forget({c}) /\ UNCHANGED <<stored, typed>>
    BY <1>10 DEF Answer
  <2>2. ASSUME NEW q \in Pages PROVE Form(page'[q].form)
    <3>1. page' = page \/ \E p \in Pages :
            page' = [page EXCEPT ![p] = [form |-> MaskConfig(config[c]), loaded |-> TRUE]]
      BY <1>10 DEF Answer
    <3>2. Form(MaskConfig(config[c]))
      BY MaskForm DEF Masking
    <3>3. page'[q].form \in {page[q].form, MaskConfig(config[c])}
      BY <3>1 DEF Typed, Shaped
    <3> QED
      BY <3>2, <3>3 DEF Masking
  <2> QED
    BY <2>1, <2>2, ForgetMasking
<1>11. ASSUME Crash PROVE Masking'
  <2>1. {c \in Calls : UnderWay(c)} \in SUBSET Calls /\ Forget({c \in Calls : UnderWay(c)})
        /\ UNCHANGED <<stored, typed, page>>
    BY <1>11 DEF Crash
  <2>2. \A p \in Pages : Form(page'[p].form)
    BY <2>1 DEF Masking
  <2> QED
    BY <2>1, <2>2, ForgetMasking
<1>12. CASE UNCHANGED vars
  BY <1>2, <1>12 DEF Masking, vars, callVars
<1> QED
  BY <1>4, <1>5, <1>6, <1>7, <1>8, <1>9, <1>10, <1>11, <1>12, RequestMasking DEF Next

(* The mask a page is shown in place of a secret never becomes the secret, *)
(* however its saves interleave with crashes and other calls, unless a     *)
(* client typed the mask with a blank beside it (updateNotificationConfig).*)
THEOREM MaskKeptOut == Spec => []MaskNeverStored
<1>1. Spec => [](Typed /\ Masking)
  BY InitTyped, StepTyped, InitMasking, StepMasking, PTL DEF Spec
<1>2. Masking => MaskNeverStored
  BY DEF Masking, MaskNeverStored, Clean, Proper, SecretOf, Channels
<1> QED
  BY <1>1, <1>2, PTL
=============================================================================
