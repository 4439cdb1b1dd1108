------------------------------- MODULE MCChecks -------------------------------
(* Monitors for TLC: every driver with every combination of its options.   *)
EXTENDS Checks

Of(driver, opts, secrets) ==
  [driver: {driver}, opts: SUBSET opts, secret: secrets,
   families: {{}, {"ipv6"}, Families}, endpoint: {"host"}]

NoSecret == {"none"}
Secrets == {"none", "username", "password", "both"}

\* What the constructors refuse.
Odd == [driver: {"tcp", "http-json", "redis"}, opts: {{}}, secret: {"unreadable", "none"},
        families: {{"ipx"}, {}}, endpoint: {"url", "empty", "host"}]

MCMonitors ==
  UNION {Of(d, {}, NoSecret) : d \in {"tcp", "ping", "trino", "opensearch"}}
  \cup Of("tls", {"days"}, NoSecret) \cup Of("http", {"https", "days", "body"}, NoSecret)
  \cup Of("http-json", {"check", "status", "assert"}, NoSecret)
  \cup Of("smtp", {"tls", "starttls", "helo", "verify", "from", "to"}, {"none", "both"})
  \cup Of("redis", {"tls"}, Secrets)
  \cup {m \in Of("dns", {"server", "verify", "TXT", "CNAME", "A"}, NoSecret) :
          Cardinality(m.opts \cap {"TXT", "CNAME", "A"}) < 2}
  \cup UNION {Of(d, {"replica"}, {"both"}) : d \in {"mysql", "mariadb", "postgres", "mongodb"}}
  \cup Of("scylladb", {}, {"both"}) \cup Odd
=============================================================================
