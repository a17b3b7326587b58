------------------------------- MODULE Alerts -------------------------------
(***************************************************************************)
(* The notification configuration and the alerts sent by it, as one        *)
(* system: the endpoints that read, update, preview and dispatch           *)
(* (app/api/alerts, app/api/auth/alerts/dispatch), the file or row the     *)
(* configuration lives in, and the admin pages that edit a copy of it      *)
(* (app/admin/security/page.tsx).  An update reads the configuration,      *)
(* merges and writes it back in place, without a lock.                     *)
(***************************************************************************)
EXTENDS AlertRouting

CONSTANTS
  Calls,       \* requests; each is made once
  Pages,       \* open admin pages
  Client,      \* the origin of calls that come from no page
  Edits,       \* <<channel, field, value>>: what a user changes before saving
  Patches,     \* what other clients send
  Saved,       \* configurations that may be stored at first
  Backends,    \* "file", "db"
  Missing,     \* there is no file or row yet
  Empty,       \* a file that was opened for writing and holds nothing yet
  Torn,        \* a file that does not parse
  MaxFaults,   \* failing accesses to the store (bound)
  MaxCrashes   \* process crashes (bound)

ASSUME ClientAssumption == Client \notin Pages
ASSUME BackendsAssumption == Backends \subseteq {"file", "db"}
SecretFields == {"webhookUrl", "smtpPass"}
Typeable == {Plain(t) : t \in Texts \union Padded}

\* Only text that was typed is sent: no client seals a secret by itself, no
\* secret is the text of the mask, and encryptField seals no empty text.
ASSUME SavedAssumption ==
  \A c \in Saved : c \in Config /\ \A v \in {c.teams.webhookUrl, c.email.smtpPass} :
    v.text # MASK /\ (v.text = "" => v.sealed = <<>>)
ASSUME EditsAssumption ==
  \A e \in Edits : e[2] \in SecretFields => e[3] \in Typeable
ASSUME PatchesAssumption == \A p \in Patches :
  \A ch \in Channels : \A f \in DOMAIN p[ch] \intersect SecretFields :
    p[ch][f] \in {Junk} \union Typeable
ASSUME StoredAssumption ==
  {Missing, Empty, Torn} \intersect Config = {} /\ Missing \notin {Empty, Torn}
ASSUME BoundsAssumption == MaxFaults \in Nat /\ MaxCrashes \in Nat

VARIABLES
  backend,
  key,      \* the encryption key in the environment of the process
  stored,   \* the configuration as stored
  req,      \* req[c]: what call c asks for
  pc,       \* pc[c]: the await it is at
  config,   \* config[c]: the configuration it works with
  status,   \* status[c][ch]: how far a dispatch got with a channel
  sent,     \* sent[c]: the messages its dispatch delivered
  result,   \* result[c]: what it answers
  page,     \* page[p]: the form of a page, and whether it came from the server
  faults, crashes,
  version,  \* which configuration is stored: each change makes another (history)
  overlap,  \* two saves were under way at once (history)
  typed,    \* channels whose secret a client gave as the mask with blanks (history)
  track,    \* track[c]: what the call found, and how it stands to other saves (history)
  view      \* view[p]: the version the form shows, 0 if none, and its edits (history)

callVars == <<req, pc, config, status, sent, result>>
history == <<version, overlap, typed, track, view>>
vars == <<backend, key, stored, callVars, page, faults, crashes, history>>

Kinds == {"load", "save", "preview", "test", "dispatch"}
Sends == {"test", "dispatch"}

\* readNotificationConfig: what cannot be read or parsed is the default configuration.
Readable == stored \notin {Missing, Empty, Torn}
Current == IF Readable THEN UnsealConfig(Sanitize(stored), key) ELSE Default

Idle == [kind |-> "load", from |-> Client, patch |-> [teams |-> <<>>, email |-> <<>>],
         alerts |-> {}, dirty |-> {}]
Quiet == [ch \in Channels |-> "none"]
Fresh == [base |-> Default, alone |-> FALSE, fresh |-> FALSE, seen |-> 0]

Init ==
  /\ backend \in Backends
  /\ key \in Keys \union {NoKey}
  /\ stored \in {Missing} \union {SealConfig(c, key) : c \in Saved}
  /\ req = [c \in Calls |-> Idle]
  /\ pc = [c \in Calls |-> "idle"]
  /\ config = [c \in Calls |-> Default]
  /\ status = [c \in Calls |-> Quiet]
  /\ sent = [c \in Calls |-> {}]
  /\ result = [c \in Calls |-> "none"]
  /\ page \in [Pages -> {[form |-> Default, loaded |-> FALSE],
                         [form |-> MaskConfig(Current), loaded |-> TRUE]}]
  /\ faults = 0
  /\ crashes = 0
  /\ version = 1
  /\ overlap = FALSE
  /\ typed = {}
  /\ track = [c \in Calls |-> Fresh]
  /\ view = [p \in Pages |-> [version |-> IF page[p].loaded THEN 1 ELSE 0, dirty |-> {}]]

UnderWay(c) == pc[c] \notin {"idle", "done"}
Saving(c) == UnderWay(c) /\ req[c].kind = "save"
Busy(p, kinds) == \E c \in Calls : UnderWay(c) /\ req[c].from = p /\ req[c].kind \in kinds
Reason(c) == IF req[c].kind = "test" THEN "testAlerts" ELSE "authAlerts"

Goto(c, l) == pc' = [pc EXCEPT ![c] = l]

\* The handler is through; its answer is on the way.
Conclude(c, r) ==
  /\ Goto(c, "answer")
  /\ result' = [result EXCEPT ![c] = r]

Fault == faults < MaxFaults /\ faults' = faults + 1

----------------------------------------------------------------------------
(* Requests.                                                               *)

\* The channels whose secret a patch has as the mask with blanks around it.
MasksTyped(p) ==
  {ch \in Channels : \E f \in DOMAIN p[ch] \intersect SecretFields, t \in Padded :
     Trimmed[t] = MASK /\ p[ch][f] = Plain(t)}

\* A save is alone as long as no other is under way with it.
Begin(c, r, fresh) ==
  /\ pc[c] = "idle"
  /\ Goto(c, "read")
  /\ req' = [req EXCEPT ![c] = r]
  /\ LET meets == r.kind = "save" /\ \E d \in Calls : Saving(d)
     IN  /\ overlap' = (overlap \/ meets)
         /\ typed' = typed \union MasksTyped(r.patch)
         /\ track' = [d \in Calls |->
              IF d = c THEN [Fresh EXCEPT !.alone = ~meets, !.fresh = fresh]
              ELSE [track[d] EXCEPT !.alone = (@ /\ ~meets)]]
  /\ UNCHANGED <<backend, key, stored, config, status, sent, result, faults, crashes, version>>

\* The page asks for the configuration when it opens.
Load(c, p) ==
  /\ ~page[p].loaded /\ ~Busy(p, {"load"})
  /\ Begin(c, [Idle EXCEPT !.from = p], FALSE)
  /\ UNCHANGED <<page, view>>

\* saveAlertConfig sends the whole form.
Save(c, p) ==
  /\ ~Busy(p, {"save"})
  /\ \E e \in Edits :
       LET form  == [page[p].form EXCEPT ![e[1]][e[2]] = e[3]]
           dirty == view[p].dirty \union {<<e[1], e[2]>>}
       IN  /\ page' = [page EXCEPT ![p].form = form]
           /\ view' = [view EXCEPT ![p].dirty = dirty]
           /\ Begin(c, [Idle EXCEPT !.kind = "save", !.from = p, !.patch = form,
                                    !.dirty = dirty],
                    view[p].version = version)

\* runAlertPreview and runAlertAction
Act(c, p) ==
  /\ ~Busy(p, {"preview"} \union Sends)
  /\ \E k \in {"preview"} \union Sends, expired, soon \in 0..1 :
       /\ k # "dispatch" => expired = 0 /\ soon = 0
       /\ Begin(c, [Idle EXCEPT !.kind = k, !.from = p,
                      !.alerts = IF k = "test" THEN TestAlerts ELSE AuthAlerts(expired, soon)],
                FALSE)
  /\ UNCHANGED <<page, view>>

\* Another client of POST /api/alerts/config names the fields it changes.
Send(c) ==
  /\ \E p \in Patches : Begin(c, [Idle EXCEPT !.kind = "save", !.patch = p], FALSE)
  /\ UNCHANGED <<page, view>>

\* The caller is refused, or a dispatch limited, before anything is done.
Refuse(c) ==
  /\ pc[c] = "read"
  /\ Conclude(c, "refused")
  /\ UNCHANGED <<backend, key, stored, req, config, status, sent, page, faults, crashes, history>>

----------------------------------------------------------------------------
(* Handlers.                                                               *)

AfterRead(c) ==
  CASE req[c].kind = "load" -> "answer"
    [] req[c].kind = "save" -> IF backend = "file" THEN "open" ELSE "upsert"
    [] req[c].kind = "preview" -> "audit"
    [] OTHER -> "teams"

\* The configuration is read; an update is merged in the same step.  A read
\* that fails gives the default configuration and no error.
Read(c) ==
  /\ pc[c] = "read"
  /\ \E seen \in {Current, Default} :
       /\ IF seen = Current THEN UNCHANGED faults ELSE Fault
       /\ config' = [config EXCEPT ![c] =
            IF req[c].kind = "save" THEN Update(seen, req[c].patch) ELSE seen]
       /\ track' = [track EXCEPT ![c].base = seen, ![c].alone = (@ /\ seen = Current),
            ![c].seen = IF seen = Current THEN version ELSE 0]
  /\ Goto(c, AfterRead(c))
  /\ result' = [result EXCEPT ![c] = IF req[c].kind = "load" THEN "ok" ELSE @]
  /\ UNCHANGED <<backend, key, stored, req, status, sent, page, crashes, version, overlap, typed, view>>

\* Faulty variant, which no specification uses: the file is not emptied.
OpenInPlace(c) ==
  /\ pc[c] = "open"
  /\ Goto(c, "write")
  /\ UNCHANGED <<backend, key, stored, req, config, status, sent, result, page, faults, crashes, history>>

\* writeNotificationConfig: writeFile opens the file, which empties it,
Open(c) ==
  /\ pc[c] = "open"
  /\ stored' = Empty
  /\ version' = version + 1
  /\ Goto(c, "write")
  /\ UNCHANGED <<backend, key, req, config, status, sent, result, page, faults, crashes, overlap, typed, track, view>>

\* Faulty variant, which no specification uses: what was merged is stored as it is.
ToStoreAsIs(c) == SealConfig(config[c], key)

ToStore(c) == SealConfig(Sanitize(config[c]), key)

\* and writes; over what another call has written meanwhile, the rest of
\* that may stick out.
Write(c) ==
  /\ pc[c] = "write"
  /\ stored' \in {ToStore(c)} \union (IF stored = Empty THEN {} ELSE {Torn})
  /\ version' = version + 1
  /\ track' = [track EXCEPT ![c].seen = IF stored' = ToStore(c) THEN version + 1 ELSE 0]
  /\ Goto(c, "audit")
  /\ UNCHANGED <<backend, key, req, config, status, sent, result, page, faults, crashes, overlap, typed, view>>

\* dbWriteNotificationConfig
Upsert(c) ==
  /\ pc[c] = "upsert"
  /\ stored' = ToStore(c)
  /\ version' = version + 1
  /\ track' = [track EXCEPT ![c].seen = version + 1]
  /\ Goto(c, "audit")
  /\ UNCHANGED <<backend, key, req, config, status, sent, result, page, faults, crashes, overlap, typed, view>>

\* A failing write ends in the handler's catch.  A file may have been written in part.
WriteFault(c) ==
  /\ pc[c] \in {"open", "write", "upsert"}
  /\ Fault
  /\ stored' \in {stored} \union (IF pc[c] = "write" THEN {Torn} ELSE {})
  /\ version' = version + 1
  /\ Conclude(c, "failed")
  /\ UNCHANGED <<backend, key, req, config, status, sent, page, crashes, overlap, typed, track, view>>

----------------------------------------------------------------------------
(* dispatchAlertsToConfiguredChannels: one channel after the other.        *)

Routes(c, ch) == Routed(config[c], ch, Reason(c), req[c].alerts)

Message(c, ch) ==
  [channel |-> ch, alerts |-> Routes(c, ch), to |-> Audience(config[c], ch, Routes(c, ch))]

AfterSend(ch) == IF ch = "teams" THEN "email" ELSE "audit"

Mark(c, ch, s) == status' = [status EXCEPT ![c][ch] = s]

\* No alert is routed to the channel, or the channel lacks an address to send to.
Skip(c, ch) ==
  /\ pc[c] = ch
  /\ \/ Routes(c, ch) = {} /\ Mark(c, ch, "skipped")
     \/ Routes(c, ch) # {} /\ ~Complete(config[c], ch) /\ Mark(c, ch, "incomplete")
  /\ Goto(c, AfterSend(ch))
  /\ UNCHANGED <<backend, key, stored, req, config, sent, result, page, faults, crashes, history>>

\* A webhook that is still sealed is no address.
Sendable(c, ch) ==
  /\ pc[c] = ch
  /\ Routes(c, ch) # {} /\ Complete(config[c], ch)

\* The message is accepted, or the webhook answers with an error.
Deliver(c, ch) ==
  /\ Sendable(c, ch)
  /\ ch = "teams" => config[c].teams.webhookUrl.sealed = <<>>
  /\ \/ /\ Mark(c, ch, "ok")
        /\ sent' = [sent EXCEPT ![c] = @ \union {Message(c, ch)}]
     \/ ch = "teams" /\ Mark(c, ch, "refused") /\ UNCHANGED sent
  /\ Goto(c, AfterSend(ch))
  /\ UNCHANGED <<backend, key, stored, req, config, result, page, faults, crashes, history>>

\* fetch or sendMail throws, before or after the message got through: the
\* loop ends, and with it what the channels before had answered.
Throw(c, ch) ==
  /\ Sendable(c, ch)
  /\ Mark(c, ch, "threw")
  /\ sent' \in {sent} \union
       (IF config[c].teams.webhookUrl.sealed # <<>> /\ ch = "teams" THEN {}
        ELSE {[sent EXCEPT ![c] = @ \union {Message(c, ch)}]})
  /\ Conclude(c, "failed")
  /\ UNCHANGED <<backend, key, stored, req, config, page, faults, crashes, history>>

\* Faulty variant, which no specification uses: no channel answered with an error.
SucceededIfQuiet(c) == \A ch \in Channels : status[c][ch] # "refused"

Succeeded(c) == \E ch \in Channels : status[c][ch] = "ok"

\* The outcome is put into the audit log, and answered.  appendAuditEvent
\* throws nothing, and whether the event is stored makes no difference here.
Audit(c) ==
  /\ pc[c] = "audit"
  /\ Conclude(c, IF req[c].kind \in Sends /\ ~Succeeded(c) THEN "failed" ELSE "ok")
  /\ UNCHANGED <<backend, key, stored, req, config, status, sent, page, faults, crashes, history>>

\* What calls worked with is gone when they are over.
Forget(C) ==
  /\ pc' = [c \in Calls |-> IF c \in C THEN "done" ELSE pc[c]]
  /\ req' = [c \in Calls |-> IF c \in C THEN Idle ELSE req[c]]
  /\ config' = [c \in Calls |-> IF c \in C THEN Default ELSE config[c]]
  /\ status' = [c \in Calls |-> IF c \in C THEN Quiet ELSE status[c]]
  /\ sent' = [c \in Calls |-> IF c \in C THEN {} ELSE sent[c]]
  /\ result' = [c \in Calls |-> IF c \in C THEN "none" ELSE result[c]]
  /\ track' = [c \in Calls |-> IF c \in C THEN Fresh ELSE track[c]]

\* The answer arrives.  A page shows the configuration it is sent, unless
\* another of the requests it opened with failed.
Answer(c) ==
  /\ pc[c] = "answer"
  /\ Forget({c})
  /\ LET p == req[c].from
         shows == p \in Pages /\ result[c] = "ok" /\ req[c].kind \in {"load", "save"}
     IN  \/ /\ shows
            /\ page' = [page EXCEPT ![p] = [form |-> MaskConfig(config[c]), loaded |-> TRUE]]
            /\ view' = [view EXCEPT ![p] = [version |-> track[c].seen, dirty |-> {}]]
         \/ /\ ~shows \/ req[c].kind = "load"
            /\ UNCHANGED <<page, view>>
  /\ UNCHANGED <<backend, key, stored, faults, crashes, version, overlap, typed>>

\* The process dies, and starts again, perhaps with another key.
Crash ==
  /\ crashes < MaxCrashes
  /\ crashes' = crashes + 1
  /\ key' \in Keys \union {NoKey}
  /\ Forget({c \in Calls : UnderWay(c)})
  /\ UNCHANGED <<backend, stored, page, faults, version, overlap, typed, view>>

Next ==
  \/ \E c \in Calls :
       \/ \E p \in Pages : Load(c, p) \/ Save(c, p) \/ Act(c, p)
       \/ Send(c) \/ Refuse(c) \/ Read(c) \/ Open(c) \/ Write(c) \/ Upsert(c) \/ WriteFault(c)
       \/ \E ch \in Channels : Skip(c, ch) \/ Deliver(c, ch) \/ Throw(c, ch)
       \/ Audit(c) \/ Answer(c)
  \/ Crash

Spec == Init /\ [][Next]_vars

----------------------------------------------------------------------------
(* Every variable keeps its type; what is stored is well formed whatever   *)
(* the patches contained.                                                  *)
TypeOK ==
  /\ backend \in Backends
  /\ key \in Keys \union {NoKey}
  /\ stored \in Config \union {Missing, Empty, Torn}
  /\ pc \in [Calls -> {"idle", "read", "open", "write", "upsert", "teams", "email",
                       "audit", "answer", "done"}]
  /\ \A c \in Calls : req[c].kind \in Kinds /\ req[c].from \in Pages \union {Client}
  /\ status \in [Calls -> [Channels -> {"none", "skipped", "incomplete", "ok", "refused", "threw"}]]
  /\ result \in [Calls -> {"none", "ok", "failed", "refused"}]
  /\ \A p \in Pages : page[p].loaded \in BOOLEAN
  /\ faults \in 0..MaxFaults
  /\ crashes \in 0..MaxCrashes
  /\ typed \subseteq Channels

\* What a patch asks for: a field it does not name stays, one of the wrong
\* type gets its default, a masked secret stays, a typed one loses its blanks,
Chosen(p, f, old, S, fallback) ==
  IF f \notin DOMAIN p THEN old[f] ELSE Fit(p[f], S, fallback)

ChosenSecret(p, f, old) ==
  IF f \notin DOMAIN p \/ p[f] = Masked THEN old[f] ELSE FitSecret(p[f])

\* and of a field that holds entries each entry is on its own: one that
\* neither names has its default, if it is there at all.
EntriesAsAsked(ch, f, S, values, fallback, old, p) ==
  LET named == Nested(p, f)
      now   == Current[ch][f]
  IN  /\ (DOMAIN named \union DOMAIN old[f]) \intersect S \subseteq DOMAIN now
      /\ \A x \in DOMAIN now :
           now[x] = IF x \in DOMAIN named \union DOMAIN old[f]
                    THEN Chosen(named, x, old[f], values, fallback) ELSE fallback

Asked(old, p) ==
  /\ \A ch \in Channels :
       /\ EntriesAsAsked(ch, "routes", Reasons, BOOLEAN, TRUE, old[ch], p[ch])
       /\ EntriesAsAsked(ch, "bySeverity", Severities, BOOLEAN, TRUE, old[ch], p[ch])
  /\ EntriesAsAsked("email", "recipientGroups", Groups, RecipientLists, {}, old.email, p.email)
  /\ EntriesAsAsked("email", "severityGroupMap", Severities, Groups, "", old.email, p.email)
  /\ \A ch \in Channels :
       Current[ch].enabled = Chosen(p[ch], "enabled", old[ch], BOOLEAN, FALSE)
  /\ Current.teams.webhookUrl = ChosenSecret(p.teams, "webhookUrl", old.teams)
  /\ Current.email.smtpPass = ChosenSecret(p.email, "smtpPass", old.email)
  /\ Current.email.smtpPort = Chosen(p.email, "smtpPort", old.email, Ports, 587)
  /\ \A f \in {"smtpHost", "from"} :
       Current.email[f] = Chosen(p.email, f, old.email, Names, "")
  /\ Current.email.to = Chosen(p.email, "to", old.email, RecipientLists, {})

(* A save that no other save overlaps changes exactly what it names: sealed*)
(* and stored, then read again, the configuration is the one it asked for. *)
AloneIsExact ==
  \A c \in Calls :
    Saving(c) /\ pc[c] = "audit" /\ track[c].alone => Asked(track[c].base, req[c].patch)

(* A page sends its whole form, secrets masked.  If nobody else changed the*)
(* configuration since the form was filled, a save that is alone changes   *)
(* no field its user left as it was.                                       *)
OnlyEditsChange ==
  \A c \in Calls :
    Saving(c) /\ pc[c] = "audit" /\ track[c].alone /\ track[c].fresh =>
      \A ch \in Channels : \A f \in DOMAIN Current[ch] :
        <<ch, f>> \notin req[c].dirty => Current[ch][f] = Sanitize(track[c].base)[ch][f]

SecretOf(c, ch) == IF ch = "teams" THEN c.teams.webhookUrl ELSE c.email.smtpPass

(* The mask a page is shown in place of a secret never becomes the secret, *)
(* however its saves interleave with crashes and other calls, unless a     *)
(* client once typed the mask with a blank beside it for that channel.     *)
MaskNeverStored ==
  Readable => \A ch \in Channels : SecretOf(stored, ch).text = MASK => ch \in typed

(* A file that does not read back was left by a crash, a failing write or  *)
(* two saves at once, or is being written.                                 *)
ReadableAtRest ==
  stored \in {Empty, Torn} =>
    \/ faults > 0 \/ crashes > 0
    \/ \E c \in Calls : pc[c] = "write"
    \/ overlap

(* What was sent was enabled, for its reason and severity, in the          *)
(* configuration as the call found it, to people responsible for an alert  *)
(* in the message; and a channel said to be served was sent everything.    *)
SentAsRouted ==
  \A c \in Calls :
    /\ \A m \in sent[c] :
         LET found == track[c].base[m.channel]
         IN  /\ m.alerts # {} /\ m.alerts \subseteq req[c].alerts
             /\ found.enabled /\ found.routes[Reason(c)]
             /\ \A a \in m.alerts : found.bySeverity[a]
             /\ \A r \in m.to : \E a \in m.alerts : r \in Recipients(track[c].base, a)
    /\ \A ch \in Channels :
         status[c][ch] = "ok" =>
           \E m \in sent[c] :
             /\ m.channel = ch
             /\ \A a \in req[c].alerts : Delivers(track[c].base, ch, Reason(c), a) => a \in m.alerts

(* A dispatch that answers success reached somebody; one that answers      *)
(* failure although it reached somebody was cut short by an exception of a *)
(* channel.                                                                *)
DispatchHonest ==
  \A c \in Calls : req[c].kind \in Sends =>
    /\ result[c] = "ok" => sent[c] # {}
    /\ result[c] = "failed" /\ sent[c] # {} =>
         \E ch \in Channels : status[c][ch] = "threw"
=============================================================================
