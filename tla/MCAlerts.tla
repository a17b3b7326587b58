------------------------------ MODULE MCAlerts ------------------------------
(***************************************************************************)
(* Alerts on small instances.                                              *)
(***************************************************************************)
EXTENDS Alerts, TLC

CONSTANTS g1, a1, a2

\* Calls, pages and keys are interchangeable, and no property is a liveness property.
Symmetry == Permutations(Calls) \union Permutations(Pages) \union Permutations(Keys)

\* One configuration with everything set: critical alerts go to a group,
\* the others to everybody.
Full ==
  [teams |-> [enabled |-> TRUE, webhookUrl |-> Plain("hook"), routes |-> AllOn(Reasons),
              bySeverity |-> [AllOn(Severities) EXCEPT !["info"] = FALSE]],
   email |-> [enabled |-> TRUE, smtpHost |-> "host", smtpPort |-> 465,
              smtpPass |-> Plain("pass"), from |-> "sender", to |-> {a1},
              routes |-> AllOn(Reasons), bySeverity |-> AllOn(Severities),
              recipientGroups |-> [g \in Groups |-> {a2}],
              severityGroupMap |-> [s \in Severities |-> IF s = "critical" THEN g1 ELSE ""]]]

SmallSaved == {Full}

\* Typed texts with blanks around them, among them the mask.
SmallTrimmed == "hook2 " :> "hook2" @@ "******** " :> MASK @@ "  " :> ""
SmallPadded == DOMAIN SmallTrimmed

\* A user enters a secret, turns a channel off, or empties a group.
SmallEdits ==
  {<<"teams", "webhookUrl", Plain("hook2 ")>>,
   <<"teams", "enabled", FALSE>>,
   <<"email", "recipientGroups", [g \in Groups |-> {}]>>}

\* Another client changes one entry and clears a secret by blanks, sends values
\* that do not fit, or types the mask with a blank.
SmallPatches ==
  {[teams |-> [bySeverity |-> [warning |-> FALSE]], email |-> [smtpPass |-> Plain("  ")]],
   [teams |-> [enabled |-> Junk, routes |-> [authAlerts |-> Junk]],
    email |-> [smtpPort |-> 65536, smtpPass |-> Masked]],
   [teams |-> [webhookUrl |-> Plain("******** ")], email |-> [to |-> {a1, a2}, smtpPort |-> 65535]]}
=============================================================================
