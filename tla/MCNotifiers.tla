------------------------------ MODULE MCNotifiers -----------------------------
(* Notifiers for TLC: every kind with every combination of its options.    *)
EXTENDS Notifiers

Of(kind, opts, secrets, alertOn) ==
  [kind: {kind}, opts: SUBSET opts, secret: secrets, alertOn: alertOn]

Secrets == {"none", "unreadable", "password", "both"}

MCConfigs ==
  UNION {Of(k, {"url"}, {"none"}, {{}, {"change"}}) : k \in {"slack", "discord"}}
  \cup Of("webhook", {"url", "contents", "bad template", "failing template"},
          {"none", "unreadable"}, {{}, {"success", "change"}})
  \cup Of("email", {"host", "from", "to", "ses", "other provider", "line break",
                   "failing template"}, Secrets, {{}})
  \cup Of("valkey", {"url", "tls", "db"}, Secrets, {{}})

MCDashboards == <<"d1", "d2">>
=============================================================================
