-------------------------------- MODULE Checks --------------------------------
(***************************************************************************)
(* One check of one monitor, from NewDriver to its verdict: the driver's   *)
(* script, run once, or for IPv4 and then IPv6.  Beside it run MongoDB's   *)
(* heartbeats and the goroutine that opens ScyllaDB's session.             *)
(***************************************************************************)
EXTENDS Drivers, Functions

CONSTANT Monitors  \* the monitors to check

\* STARTTLS is an option of smtpCheck, redisCheck has none.
ASSUME ChecksAssumption ==
  \A m \in Monitors : m.driver = "redis" => "starttls" \notin m.opts

VARIABLES
  monitor,        \* the monitor
  phase,          \* "create", "check", "done", or "setup" when there is no driver
  left,           \* the address families still to check, "" for any
  results,        \* the families' results, success or failure
  beat,           \* MongoDB: a heartbeat has succeeded; one has cancelled the check
  sessions        \* ScyllaDB: the session of each family's check

backgroundVars == <<beat, sessions>>
vars == <<talkVars, monitor, phase, left, results, backgroundVars>>

NoBeat == [answered |-> FALSE, failed |-> FALSE]

CreateDriver ==
  /\ phase = "create"
  /\ IF CreateFails(monitor)
       THEN phase' = "setup" /\ UNCHANGED <<left, todo>>
       ELSE /\ phase' = "check" /\ left' = FamiliesOf(monitor)
            /\ todo' = createFamilyDriver(monitor, left'[1])
  /\ UNCHANGED <<conn, told, leaks, monitor, results, backgroundVars>>

\* Check returns: the deferred calls close what is open, and a monitor of both
\* families goes on with the next one.
Report(result) ==
  /\ results' = [f \in DOMAIN results \cup {Head(left)} |->
                   IF f \in DOMAIN results THEN results[f] ELSE result]
  /\ left' = Tail(left) /\ conn' = Closed /\ told' = {} /\ beat' = NoBeat
  /\ IF Len(left) = 1
       THEN phase' = "done" /\ todo' = << >>
       ELSE phase' = phase /\ todo' = createFamilyDriver(monitor, left[2])
  /\ UNCHANGED monitor

\* The session of the running check is closed by the deferred Close.
CloseSession ==
  sessions' = [sessions EXCEPT ![Head(left)] = IF @ = "open" THEN "closed" ELSE @]

\* (mutant) One family's success is enough.
EitherFamily == \E f \in DOMAIN results : results[f] = "success"

\* bothFamiliesDriver: a success only when both families' checks are.
Verdict == \A f \in DOMAIN results : results[f] = "success"

Checking == phase = "check"
Waiting(kind) == Checking /\ todo # << >> /\ Head(todo).kind = kind

\* A MongoDB command needs a server that has answered a heartbeat and a
\* context that no failed heartbeat has cancelled.
Selected ==
  monitor.driver = "mongodb" /\ Head(todo).kind = "ask" => beat.answered /\ ~beat.failed

Answer ==
  /\ Checking /\ todo # << >> /\ Head(todo).kind # "session" /\ Selected
  /\ \E answer \in Head(todo).ok : Proceed(answer, Then(Head(todo), answer))
  /\ UNCHANGED <<monitor, phase, left, results, backgroundVars>>

LoginChallenge ==
  /\ Checking /\ Challenge
  /\ UNCHANGED <<monitor, phase, left, results, backgroundVars>>

Refused ==
  /\ Checking /\ todo # << >> /\ Selected
  /\ \E answer \in Head(todo).all : Refusal(answer)
  /\ Report("failure")
  /\ CloseSession

Broken ==
  /\ Checking /\ Breaks /\ Head(todo).kind # "session"
  /\ Report("failure") /\ CloseSession /\ UNCHANGED leaks

\* The call's own timeout or the check's limit.
Deadline ==
  /\ Checking /\ TimesOut /\ Head(todo).kind # "session" /\ ~beat.failed
  /\ Report("failure") /\ CloseSession /\ UNCHANGED leaks

\* The resolver gives up on the TLSA records.
LookupEnds ==
  /\ Waiting("lookup") /\ Proceed({}, << >>)
  /\ UNCHANGED <<monitor, phase, left, results, backgroundVars>>

Succeeds ==
  /\ Checking /\ todo = << >>
  /\ Report("success") /\ CloseSession /\ UNCHANGED leaks

-----------------------------------------------------------------------------
(* mongodb.go, run: a heartbeat that fails before any has succeeded cancels *)
(* the check and becomes its cause.                                        *)

HeartbeatSucceeds ==
  /\ Waiting("ask") /\ monitor.driver = "mongodb"
  /\ beat' = [beat EXCEPT !.answered = TRUE]
  /\ UNCHANGED <<talkVars, monitor, phase, left, results, sessions>>

HeartbeatFails ==
  /\ Waiting("ask") /\ monitor.driver = "mongodb" /\ ~beat.answered
  /\ beat' = [beat EXCEPT !.failed = TRUE]
  /\ UNCHANGED <<talkVars, monitor, phase, left, results, sessions>>

Cancelled ==
  /\ Waiting("ask") /\ beat.failed
  /\ Report("failure") /\ UNCHANGED <<leaks, sessions>>

-----------------------------------------------------------------------------
(* scylladb.go, run: CreateSession in a goroutine, awaited until the check's *)
(* limit; a goroutine closes the session that comes after it.              *)

SessionIs(f, from, to) ==
  sessions[f] = from /\ sessions' = [sessions EXCEPT ![f] = to]
OnlySessions == UNCHANGED <<talkVars, monitor, phase, left, results, beat>>

OpenSession ==
  /\ Waiting("session") /\ SessionIs(Head(left), "none", "opening")
  /\ OnlySessions

\* CreateSession returns, within gocql's own timeouts.
SessionOpens(f) ==
  /\ SessionIs(f, "opening", "ready") \/ SessionIs(f, "late", "late ready")
  /\ OnlySessions
SessionFails(f) ==
  /\ SessionIs(f, "opening", "failed") \/ SessionIs(f, "late", "closed")
  /\ OnlySessions

TakeSession ==
  /\ Waiting("session")
  /\ \/ SessionIs(Head(left), "ready", "open") /\ Proceed("ok", << >>)
        /\ UNCHANGED <<monitor, phase, left, results, beat>>
     \/ SessionIs(Head(left), "failed", "closed") /\ Report("failure")
        /\ UNCHANGED leaks

\* (mutant) The check gives up and forgets the goroutine.
ForgetSession ==
  /\ Waiting("session") /\ TimesOut
  /\ Report("failure") /\ UNCHANGED <<leaks, sessions>>

\* The limit passes first, or both are ready and select takes it.
GiveUpSession ==
  /\ Waiting("session") /\ TimesOut
  /\ \/ SessionIs(Head(left), "opening", "late")
     \/ SessionIs(Head(left), "ready", "late ready")
     \/ SessionIs(Head(left), "failed", "closed")
  /\ Report("failure") /\ UNCHANGED leaks

CloseLate(f) == SessionIs(f, "late ready", "closed") /\ OnlySessions

Background ==
  \/ HeartbeatSucceeds \/ HeartbeatFails
  \/ \E f \in DOMAIN sessions : SessionOpens(f) \/ SessionFails(f) \/ CloseLate(f)

-----------------------------------------------------------------------------
Init ==
  /\ TalkInit /\ monitor \in Monitors
  /\ phase = "create" /\ left = << >> /\ results = << >> /\ beat = NoBeat
  /\ sessions = [f \in Families \cup {""} |-> "none"]

Next ==
  \/ CreateDriver \/ Answer \/ LoginChallenge \/ Refused \/ Broken \/ Deadline
  \/ LookupEnds \/ Succeeds \/ Cancelled \/ OpenSession \/ TakeSession
  \/ GiveUpSession \/ Background

\* What the code does by itself, and timers that run out.  The server owes
\* nothing: it may never answer, and need not send heartbeats.
Fairness ==
  /\ WF_vars(CreateDriver) /\ WF_vars(Succeeds) /\ WF_vars(Deadline)
  /\ WF_vars(LookupEnds) /\ WF_vars(Cancelled) /\ WF_vars(OpenSession)
  /\ WF_vars(TakeSession) /\ WF_vars(GiveUpSession)
  /\ WF_vars(todo # << >> /\ Local(Head(todo)) /\ (Answer \/ Refused))
  /\ \A f \in Families \cup {""} :
       WF_vars(SessionOpens(f) \/ SessionFails(f)) /\ WF_vars(CloseLate(f))

Spec == Init /\ [][Next]_vars /\ Fairness
-----------------------------------------------------------------------------
(* Correctness.                                                            *)

Said(ask, answers) == \E a \in answers : <<ask, a>> \in told

\* What the monitor expects of its server, in the words of the API types: to
\* which questions one of which answers must have come.
Expect(condition, ask, answers) == IF condition THEN {<<ask, answers>>} ELSE {}
AllOk(asks) == {<<ask, {"ok"}>> : ask \in asks}

Reachable(family) == {a \in Addresses : family = "" \/ family \in a}
InTime == 0..MaxBehind
Unexpired(m) == Expect("days" \in m.opts, "cert", {h \in Hours : h >= 24 * DaysToExpire})

SMTPExpects(m) ==
  AllOk({"dial", "greeting"}) \cup Expect("helo" \in m.opts, "helo", {"ok"})
  \cup Expect(m.secret = "both", "auth", {"ok"}) \cup Expect("verify" \in m.opts, "vrfy", {"ok"})
  \cup Expect("from" \in m.opts, "mail", {"ok"}) \cup Expect("to" \in m.opts, "rcpt", {"ok"})

REDISExpects(m) ==
  AllOk({"dial", "ping"}) \cup Expect(m.secret \in {"password", "both"}, "auth", {"ok"})

\* At most nine in ten of the connections in use, where their number is limited.
Bearable == {n \in Loads : n.max = 0 \/ 10 * n.threads <= 9 * n.max}
ReplicaExpects ==
  {<<"read_only", {"ON", "1"}>>, <<"replica status", {"row"}>>, <<"io running", {"Yes"}>>,
   <<"sql running", {"Yes"}>>, <<"behind", InTime>>}
MySQLExpects(m) ==
  AllOk({"ping"}) \cup {<<"threads", Bearable>>}
  \cup IF "replica" \in m.opts THEN ReplicaExpects ELSE {<<"read_only", {"OFF"}>>}

PostgresExpects(m, family) ==
  {<<"addresses", Reachable(family)>>, <<"connect", {"ok"}>>}
  \cup IF "replica" \in m.opts
         THEN {<<"in recovery", {"t"}>>, <<"wal receiver", {"streaming"}>>, <<"behind", InTime>>}
         ELSE {<<"in recovery", {"f"}>>, <<"transaction_read_only", {"off"}>>}

MongoDBExpects(m) ==
  IF "replica" \in m.opts
    THEN {<<"hello", {"secondary"}>>,
          <<"members", [self: {TRUE}, primary: {TRUE}, behind: InTime]>>}
    ELSE {<<"hello", {"primary"}>>}

ScyllaDBExpects(family) ==
  {<<"addresses", Reachable(family)>>, <<"session", {"ok"}>>, <<"bootstrapped", {"COMPLETED"}>>}

\* A record that verify names; names and addresses in any spelling.
Verified(m) ==
  {r \in SUBSET Spellings :
     "same" \in r \/ ("spelled" \in r /\ m.opts \cap {"CNAME", "PTR", "AAAA", "A"} # {})}
DNSExpects(m, family) ==
  Expect("server" \in m.opts, "addresses", Reachable(family))
  \cup {<<"records", IF "verify" \in m.opts THEN Verified(m) ELSE SUBSET Spellings>>}

HTTPExpects(m) ==
  AllOk({"request"}) \cup (IF "https" \in m.opts THEN Unexpired(m) ELSE {})
  \cup {<<"status", {"2xx"}>>} \cup Expect("body" \in m.opts, "body", {"contains", "in first MiB"})

\* The value asserted, as text, or as a number of the same value.
Value(texts, numbers) ==
  {v \in Values : v.found /\ (v.text \in texts \/ (v.number /\ v.text \in numbers))}
HTTPJSONExpects(m) ==
  {<<"request", {"ok"}>>, <<"body", {"value"}>>,
   <<"status", IF "status" \in m.opts THEN {"3xx"} ELSE {"2xx"}>>}
  \cup Expect("assert" \in m.opts, "first path", Value({"1"}, {"1", "1.0"}))
  \cup Expect("assert" \in m.opts, "second path", Value({"2"}, {"2"}))

BodyExpects(ask, answers) ==
  {<<"request", {"ok"}>>, <<"status", {"200"}>>, <<"body", {"value"}>>, <<ask, answers>>}

Expectations(m, family) ==
  CASE m.driver \in {"tcp", "ping"} -> AllOk({"dial"})
    [] m.driver = "tls"  -> AllOk({"dial"}) \cup Unexpired(m)
    [] m.driver = "smtp" -> SMTPExpects(m)    [] m.driver = "redis" -> REDISExpects(m)
    [] m.driver = "http" -> HTTPExpects(m)    [] m.driver = "http-json" -> HTTPJSONExpects(m)
    [] m.driver = "trino" -> BodyExpects("info", [coordinator: {TRUE}, starting: {FALSE}])
    [] m.driver = "opensearch" -> BodyExpects("health", {"green"})
    [] m.driver \in {"mysql", "mariadb"} -> MySQLExpects(m)
    [] m.driver = "postgres" -> PostgresExpects(m, family)
    [] m.driver = "mongodb" -> MongoDBExpects(m)
    [] m.driver = "scylladb" -> ScyllaDBExpects(family)
    [] m.driver = "dns" -> DNSExpects(m, family)

\* All of it has come: over TLS where that is asked for, from a server whose
\* certificate no TLSA record refutes, and for MongoDB while the check was not
\* cancelled and a heartbeat had succeeded.
Met(m, family) ==
  /\ \A e \in Expectations(m, family) : Said(e[1], e[2])
  /\ m.driver \in {"smtp", "redis"} /\ m.opts \cap {"tls", "starttls"} # {} => conn.tls
  /\ ~Refuted
  /\ m.driver = "mongodb" => beat.answered /\ ~beat.failed

\* A check succeeds only after the server has shown, in this very check, all
\* that the monitor expects of it; and the monitor's verdict is a success only
\* when the check of every family it names has succeeded so.
EarnedSuccess ==
  [][ /\ \A f \in DOMAIN results' \ DOMAIN results : results'[f] = "success" => Met(monitor, f)
      /\ phase' = "done" /\ Verdict' =>
           \A i \in DOMAIN FamiliesOf(monitor) :
              /\ FamiliesOf(monitor)[i] \in DOMAIN results'
              /\ results'[FamiliesOf(monitor)[i]] = "success" ]_vars

\* A password leaves in the clear only where the monitor configures a protocol
\* without TLS, never for SMTP, and never to a server whose certificate the
\* TLSA records have refuted.
PasswordsProtected ==
  \A p \in leaks :
     /\ monitor.driver = "smtp" \/ "tls" \in monitor.opts => p.tls
     /\ ~p.refuted

\* A check ends, even when the server never answers: every wait has a limit.
CheckEnds == phase = "create" ~> phase \in {"done", "setup"}

\* A ScyllaDB session that opens is closed, also when it opens after the check
\* has given up, or while the second family's check is running.
SessionsClosed ==
  \A f \in Families \cup {""} : sessions[f] # "none" ~> sessions[f] = "closed"
=============================================================================
