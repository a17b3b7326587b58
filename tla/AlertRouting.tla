---------------------------- MODULE AlertRouting ----------------------------
(***************************************************************************)
(* Which alerts there are (lib/auth-alerts.ts) and where a configuration   *)
(* sends them (lib/alert-dispatch.ts).  There is one alert of each         *)
(* severity, so an alert is its severity.                                  *)
(***************************************************************************)
EXTENDS NotificationSettings

Channels == {"teams", "email"}

\* buildAuthAlerts
AuthAlerts(expired, expiringSoon) ==
  LET urgent == (IF expired > 0 THEN {"critical"} ELSE {})
                  \union (IF expiringSoon > 0 THEN {"warning"} ELSE {})
  IN  IF urgent = {} THEN {"info"} ELSE urgent

\* The alert of POST /api/alerts/test.
TestAlerts == {"info"}

\* resolveEmailRecipients: the group of the severity when it has recipients, or everybody.
Recipients(c, severity) ==
  LET map    == c.email.severityGroupMap
      groups == c.email.recipientGroups
  IN  IF severity \in DOMAIN map /\ map[severity] \in DOMAIN groups /\ groups[map[severity]] # {}
      THEN groups[map[severity]] ELSE c.email.to

\* shouldDispatchChannel
ChannelOn(c, ch, reason) == c[ch].enabled /\ c[ch].routes[reason]

\* Faulty variant, which no specification uses: the severity is not looked at.
DeliversAny(c, ch, reason, alert) ==
  /\ ChannelOn(c, ch, reason)
  /\ ch = "email" => Recipients(c, alert) # {}

\* The decision computeRoutingStatus takes for an alert.
Delivers(c, ch, reason, alert) ==
  /\ ChannelOn(c, ch, reason)
  /\ c[ch].bySeverity[alert]
  /\ ch = "email" => Recipients(c, alert) # {}

Routed(c, ch, reason, alerts) == {a \in alerts : Delivers(c, ch, reason, a)}

\* What sendTeamsAlert and sendEmailAlert need before they try.
Complete(c, ch) ==
  IF ch = "teams" THEN c.teams.webhookUrl # Blank
  ELSE c.email.smtpHost # "" /\ c.email.from # ""

\* The one mail has every recipient of every routed alert on its To line.
Audience(c, ch, alerts) ==
  IF ch = "teams" THEN {} ELSE UNION {Recipients(c, a) : a \in alerts}
=============================================================================
