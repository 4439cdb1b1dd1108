------------------------------- MODULE Drivers --------------------------------
(***************************************************************************)
(* The drivers of internal/driver and their factory.  A driver is the      *)
(* script of its Check: the monitor's options choose the steps, its secret *)
(* the credentials, its ipFamily the family.  A monitor m has a driver,    *)
(* options, a secret, families and an endpoint.                            *)
(***************************************************************************)
EXTENDS Conversation

CONSTANTS
  MaxBehind,      \* maxSecondsBehindMaster
  DaysToExpire    \* tlsCheck.daysToExpire, where the option is set

ASSUME DriversAssumption == MaxBehind \in Nat /\ DaysToExpire \in Nat \ {0}

Families == {"ipv4", "ipv6"}
Null == -1

-----------------------------------------------------------------------------
(* The constructors: what can be configured, and the secret's credentials. *)

HostDrivers == {"tcp", "ping", "tls", "smtp", "redis", "dns", "mysql", "mariadb",
                "postgres", "mongodb", "scylladb"}
Drivers == HostDrivers \cup {"http", "http-json", "trino", "opensearch"}

\* An endpoint is a host with or without a port, a URL, or empty.
checkHostEndpoint(m) == m.driver \in HostDrivers => m.endpoint = "host"

NewFails(m) ==
  \/ m.endpoint = "empty" \/ ~checkHostEndpoint(m) \/ m.secret = "unreadable"
  \/ m.driver = "http-json" /\ "check" \notin m.opts

CreateFails(m) ==
  ~(m.families \subseteq Families) \/ m.driver \notin Drivers \/ NewFails(m)

\* SMTP authenticates with a user name and a password, REDIS with a password.
SMTPAuth(m) == m.secret = "both"
REDISAuth(m) == m.secret \in {"password", "both"}

FamiliesOf(m) ==
  IF m.families = Families THEN <<"ipv4", "ipv6">>
  ELSE IF m.families = {} THEN <<"">> ELSE <<CHOOSE f \in m.families : TRUE>>

-----------------------------------------------------------------------------
(* The drivers' scripts.                                                   *)

\* tls.go: DialWithDialer, the certificate's last day, DANE.
Days(hours) == hours \div 24
Hours == {23, 24, 49}
Expiry(m) == When("days" \in m.opts,
                  <<Look("cert", Hours, {h \in Hours : Days(h) >= DaysToExpire})>>)
TLSCheck(m) == <<DialTLS>> \o Expiry(m) \o <<DANE>>

TCPCheck == <<Dial>>
PingCheck == <<Dial>>

\* smtp.go.  (Without helo, net/smtp greets with the first command.)
SMTPCheck(m) ==
  (IF "tls" \in m.opts THEN <<DialTLS, DANE>> ELSE <<Dial>>)
  \o <<Limit, Ask("greeting")>>
  \o When("helo" \in m.opts, <<Ask("helo")>>)
  \o When("starttls" \in m.opts /\ "tls" \notin m.opts, <<StartTLS, DANE>>)
  \o When(SMTPAuth(m), <<AuthStart>>)
  \o When("verify" \in m.opts, <<Ask("vrfy")>>)
  \o When("from" \in m.opts, <<Ask("mail")>>)
  \o When("to" \in m.opts, <<Ask("rcpt")>>)

REDISCheck(m) ==
  (IF "tls" \in m.opts THEN <<DialTLS>> ELSE <<Dial>>)
  \o <<Limit>>
  \o When(REDISAuth(m), <<Step("password", "auth", {"ok", "no"}, {"ok"})>>)
  \o <<Ask("ping")>>

\* mysql.go: threads_connected and max_connections, read_only, and on a replica
\* the row of SHOW REPLICA STATUS (or SLAVE, after error 1064).
Loads == [threads: {8, 9, 10}, max: {0, 10}]
Lags == {Null, 0, MaxBehind, MaxBehind + 1}

\* Error 1064, a syntax error: ask the way older servers understand.
ShowSlaveStatus == AskFor("replica status", {"row", "empty", "error"}, {"row"})

checkReplication ==
  <<AskFor("replica status", {"row", "1064", "empty", "error"}, {"row", "1064"}),
    Look("io running", {"Yes", "No"}, {"Yes"}),
    Look("sql running", {"Yes", "No"}, {"Yes"}),
    Look("behind", Lags, {n \in Lags : n # Null /\ n <= MaxBehind})>>

checkMySQL(m) ==
  <<Ask("ping"),
    AskFor("threads", Loads, {n \in Loads : ~(n.max > 0 /\ 10 * n.threads > 9 * n.max)}),
    AskFor("read_only", {"ON", "1", "OFF"},
           IF "replica" \in m.opts THEN {"ON", "1"} ELSE {"OFF"})>>
  \o When("replica" \in m.opts, checkReplication)
MySQLCheck(m) == <<Limit>> \o checkMySQL(m)

\* Addresses by family.  familyLookup keeps those of the family unless there
\* are none; dialing those then fails.
Addresses == (SUBSET Families) \ {{}}
familyLookup(addrs, family) ==
  IF family = "" \/ family \notin addrs THEN addrs ELSE {family}
Dialable(addrs, family) == family = "" \/ family \in addrs
Resolve(family) ==
  AskFor("addresses", Addresses,
         {a \in Addresses : Dialable(familyLookup(a, family), family)})

checkPostgres(m) ==
  IF "replica" \notin m.opts
    THEN <<AskFor("in recovery", {"t", "f"}, {"f"}),
           AskFor("transaction_read_only", {"on", "off"}, {"off"})>>
    ELSE <<AskFor("in recovery", {"t", "f"}, {"t"}),
           AskFor("wal receiver", {"none", "hidden", "stopping", "streaming"}, {"streaming"}),
           AskFor("behind", Lags, {n \in Lags : n # Null /\ n <= MaxBehind})>>
PostgresCheck(m, family) == <<Limit, Resolve(family), Ask("connect")>> \o checkPostgres(m)

\* mongodb.go: hello, and on a secondary the members of replSetGetStatus.
Members == [self: BOOLEAN, primary: BOOLEAN, behind: Lags \ {Null}]
checkMongoDB(m) ==
  <<AskFor("hello", {"primary", "secondary", "other"},
           IF "replica" \in m.opts THEN {"secondary"} ELSE {"primary"})>>
  \o When("replica" \in m.opts,
          <<AskFor("members", Members,
                   {s \in Members : s.self /\ s.primary /\ s.behind <= MaxBehind})>>)
MongoDBCheck(m) == <<Limit>> \o checkMongoDB(m)

\* scylladb.go: resolve, a session of the background goroutine, system.local.
ScyllaDBCheck(family) ==
  <<Limit, Resolve(family), Step("session", "session", {"ok"}, {"ok"}),
    AskFor("bootstrapped", {"COMPLETED", "NEEDS_BOOTSTRAP"}, {"COMPLETED"})>>

\* dns.go.  A record is spelled as verify says, is another spelling of the same
\* name or address, or is something else; only some types compare spellings.
Spellings == {"same", "spelled", "other"}
Records(m) == IF "CNAME" \in m.opts THEN {{s} : s \in Spellings}
              ELSE (SUBSET Spellings) \ {{}}
SameName(m) == m.opts \cap {"CNAME", "PTR", "AAAA", "A"} # {}
Matches(m, spelling) == spelling = "same" \/ (spelling = "spelled" /\ SameName(m))

pickFamily(addrs, family) == family = "" \/ family \in addrs

DNSCheck(m, family) ==
  <<Limit>>
  \o When("server" \in m.opts,
          <<AskFor("addresses", Addresses, {a \in Addresses : pickFamily(a, family)})>>)
  \o <<AskFor("records", Records(m),
              {r \in Records(m) : "verify" \in m.opts => \E s \in r : Matches(m, s)})>>

\* http.go
HTTPCheck(m) ==
  <<Limit, Ask("request")>>
  \o When("https" \in m.opts, Expiry(m))
  \o <<Look("status", {"2xx", "3xx", "5xx"}, {"2xx"})>>
  \o When("body" \in m.opts,
          <<AskFor("body", {"contains", "without", "in first MiB", "beyond first MiB"},
                   {"contains", "in first MiB"})>>)

\* httpjson.go: a value matches by its text, or a number by its exact value.
Values == [found: BOOLEAN, number: BOOLEAN, text: {"1", "1.0", "2"}]
exactNumber(text) == CASE text = "1" -> 10 [] text = "1.0" -> 10 [] text = "2" -> 20
jsonValueMatches(v, expected) ==
  v.text = expected \/ (v.number /\ exactNumber(v.text) = exactNumber(expected))

HTTPJSONCheck(m) ==
  <<Limit, Ask("request"),
    Look("status", {"2xx", "3xx", "5xx"}, IF "status" \in m.opts THEN {"3xx"} ELSE {"2xx"}),
    AskFor("body", {"value", "too large", "invalid", "trailing data"}, {"value"})>>
  \o When("assert" \in m.opts,
          <<Look("first path", Values, {v \in Values : v.found /\ jsonValueMatches(v, "1")}),
            Look("second path", Values, {v \in Values : v.found /\ jsonValueMatches(v, "2")})>>)

JSONBody(ask, all, ok) ==
  <<Limit, Ask("request"), Look("status", {"200", "other"}, {"200"}),
    AskFor("body", {"value", "too large", "invalid"}, {"value"}), Look(ask, all, ok)>>
Infos == [coordinator: BOOLEAN, starting: BOOLEAN]
TrinoCheck == JSONBody("info", Infos, {i \in Infos : i.coordinator /\ ~i.starting})
OpenSearchCheck == JSONBody("health", {"green", "yellow", "red", "other"}, {"green"})

Then(step, answer) ==
  CASE step.kind = "start" -> AfterStart(answer)
    [] step.kind = "ask" /\ step.ask = "replica status" /\ answer = "1064" ->
         <<ShowSlaveStatus>>
    [] OTHER -> << >>

createFamilyDriver(m, family) ==
  CASE m.driver = "http" -> HTTPCheck(m)      [] m.driver = "http-json" -> HTTPJSONCheck(m)
    [] m.driver = "smtp" -> SMTPCheck(m)      [] m.driver = "redis" -> REDISCheck(m)
    [] m.driver = "tls" -> TLSCheck(m)        [] m.driver = "tcp" -> TCPCheck
    [] m.driver = "ping" -> PingCheck         [] m.driver = "dns" -> DNSCheck(m, family)
    [] m.driver = "trino" -> TrinoCheck       [] m.driver = "opensearch" -> OpenSearchCheck
    [] m.driver \in {"mysql", "mariadb"} -> MySQLCheck(m)
    [] m.driver = "postgres" -> PostgresCheck(m, family)
    [] m.driver = "mongodb" -> MongoDBCheck(m)
    [] m.driver = "scylladb" -> ScyllaDBCheck(family)
=============================================================================
