----------------------------- MODULE ChecksProofs -----------------------------
(***************************************************************************)
(* A check keeps its passwords and earns its success, for every monitor:   *)
(* the scripts of the drivers, ChecksInv, and the proofs.                  *)
(***************************************************************************)
EXTENDS Checks, ConversationProofs

(***************************************************************************)
(* What a running script still guarantees.  No step to come sends a        *)
(* password in the clear where TLS is asked for; a TLSA answer the code    *)
(* goes on with refutes nothing; and what the monitor expects has been     *)
(* shown already or is the answer to a step still to come.                 *)
(***************************************************************************)
NeedsTLS(m) == m.driver = "smtp" \/ "tls" \in m.opts

\* The code goes on only when a TLSA record matches or there is none; only smtpAuth
\* starts; and a hello is a command.
Honest(x) ==
  /\ x.ask = "tlsa" => x.ok = DANE.ok
  /\ x.kind = "start" => x = AuthStart
  /\ x.ask = "hello" => x.kind = "ask"

\* The script s, on a connection with TLS or without it.
Protected(m, tls, s) ==
  NeedsTLS(m) /\ (\E x \in Range(s) : SendsPassword(x)) => tls \/ Head(s).kind = "tlsdial"

ScriptInv ==
  /\ IsScript(todo) /\ \A x \in Range(todo) : Honest(x)
  /\ Protected(monitor, conn.tls, todo) /\ ~Refuted
  /\ conn \in [open: BOOLEAN, tls: BOOLEAN, limit: BOOLEAN]
  /\ phase = "create" => conn = Closed /\ told = {}

\* Whatever step x is answered, that is one of the answers to what is asked, or the
\* answer leads to a step that gets one.
Promises(x, ask, answers) ==
  \A a \in x.ok : \/ x.ask = ask /\ a \in answers
                  \/ \E y \in Range(Then(x, a)) : y.ask = ask /\ y.ok \subseteq answers

\* The script s asks for it, for all of E, or has nothing of it left to ask.
Asks(s, ask, answers) == \E x \in Range(s) : Promises(x, ask, answers)
Covers(s, E) == \A e \in E : Asks(s, e[1], e[2])
Owes(said, s, ask, answers) ==
  (\E a \in answers : <<ask, a>> \in said) \/ Asks(s, ask, answers)

\* Met, with what the script s still has to show.
Expected(m, family, tls, said, s) ==
  /\ m.driver \in {"smtp", "redis"} /\ m.opts \cap {"tls", "starttls"} # {} =>
       tls \/ \E x \in Range(s) : Encrypts(x)
  /\ \A e \in Expectations(m, family) : Owes(said, s, e[1], e[2])

\* A MongoDB server that has answered a command has answered a heartbeat first, and
\* no heartbeat can cancel the check any more.
HeartbeatInv ==
  /\ beat \in [answered: BOOLEAN, failed: BOOLEAN]
  /\ monitor.driver = "mongodb" /\ Said("hello", {"primary", "secondary"}) =>
       beat.answered /\ ~beat.failed

\* The families of the monitor are the checked ones and those left.
FamilyInv ==
  /\ IsScript(left) /\ phase \in {"create", "setup", "check", "done"}
  /\ phase = "check" => left # << >> /\ monitor.driver \in Drivers
  /\ phase \in {"check", "done"} =>
       \A i \in DOMAIN FamiliesOf(monitor) :
          FamiliesOf(monitor)[i] \in DOMAIN results \cup Range(left)
  /\ phase = "done" => left = << >>

ChecksInv ==
  /\ monitor \in Monitors /\ ScriptInv /\ FamilyInv
  /\ phase = "check" => Expected(monitor, Head(left), conn.tls, told, todo)
  /\ PasswordsProtected /\ HeartbeatInv

-----------------------------------------------------------------------------
(* The drivers' scripts.                                                   *)

\* A step that sends no password, and a script of such steps.
Fine(x) == Honest(x) /\ ~SendsPassword(x)
Careful(s) == IsScript(s) /\ \A x \in Range(s) : Fine(x)

\* The steps that the scripts are made of.
LEMMA FineSteps ==
  /\ Fine(Dial) /\ Fine(DialTLS) /\ Fine(StartTLS) /\ Fine(Limit) /\ Fine(DANE)
  /\ Fine(AuthStart) /\ Fine(ShowSlaveStatus)
  /\ \A ask, all, ok : ask # "tlsa" =>
       /\ Fine(Ask(ask)) /\ Fine(AskFor(ask, all, ok))
       /\ ask # "hello" => Fine(Look(ask, all, ok))
  /\ Fine(Step("session", "session", {"ok"}, {"ok"}))
<1> USE DEF Fine, Honest, SendsPassword, Step
<1>1. Fine(Dial) /\ Fine(DialTLS) /\ Fine(StartTLS) /\ Fine(Limit)
  BY DEF Dial, DialTLS, StartTLS, Limit
<1>2. Fine(DANE)
  BY DEF DANE
<1>3. Fine(AuthStart) /\ Fine(ShowSlaveStatus)
  BY DEF AuthStart, ShowSlaveStatus, AskFor
<1>4. \A ask, all, ok : ask # "tlsa" =>
        /\ Fine(Ask(ask)) /\ Fine(AskFor(ask, all, ok))
        /\ ask # "hello" => Fine(Look(ask, all, ok))
  BY DEF Ask, AskFor, Look
<1>5. Fine(Step("session", "session", {"ok"}, {"ok"}))
  OBVIOUS
<1> QED
  BY <1>1, <1>2, <1>3, <1>4, <1>5

\* Careful scripts are made of fine steps and of careful scripts.
LEMMA CarefulScripts ==
  /\ Careful(<< >>) /\ Range(<< >>) = {}
  /\ \A a : Fine(a) => Careful(<<a>>) /\ Range(<<a>>) = {a}
  /\ \A a, b : Fine(a) /\ Fine(b) => Careful(<<a, b>>) /\ Range(<<a, b>>) = {a, b}
  /\ \A a, b, c : Fine(a) /\ Fine(b) /\ Fine(c) =>
       Careful(<<a, b, c>>) /\ Range(<<a, b, c>>) = {a, b, c}
  /\ \A a, b, c, d : Fine(a) /\ Fine(b) /\ Fine(c) /\ Fine(d) =>
       Careful(<<a, b, c, d>>) /\ Range(<<a, b, c, d>>) = {a, b, c, d}
  /\ \A a, b, c, d, e : Fine(a) /\ Fine(b) /\ Fine(c) /\ Fine(d) /\ Fine(e) =>
       Careful(<<a, b, c, d, e>>) /\ Range(<<a, b, c, d, e>>) = {a, b, c, d, e}
BY ShortScripts DEF Careful

LEMMA CarefulJoin ==
  ASSUME NEW s, NEW t, Careful(s), Careful(t)
  PROVE  Careful(s \o t) /\ Range(s \o t) = Range(s) \cup Range(t)
BY Concatenated DEF Careful

LEMMA CarefulWhen ==
  ASSUME NEW c, NEW s, Careful(s)
  PROVE  Careful(When(c, s)) /\ Range(When(c, s)) = IF c THEN Range(s) ELSE {}
BY Optional DEF Careful

\* What the steps of the scripts promise.
LEMMA StepsPromise ==
  /\ \A ask : Promises(Ask(ask), ask, {"ok"})
  /\ \A ask, all, ok, answers : ok \subseteq answers =>
       Promises(AskFor(ask, all, ok), ask, answers) /\ Promises(Look(ask, all, ok), ask, answers)
  /\ Promises(Dial, "dial", {"ok"}) /\ Promises(DialTLS, "dial", {"ok"})
  /\ Promises(Step("session", "session", {"ok"}, {"ok"}), "session", {"ok"})
  /\ Promises(Step("password", "auth", {"ok", "no"}, {"ok"}), "auth", {"ok"})
<1> USE DEF Promises, Step
<1>1. \A ask : Promises(Ask(ask), ask, {"ok"})
  BY DEF Ask
<1>2. \A ask, all, ok, answers : ok \subseteq answers =>
        Promises(AskFor(ask, all, ok), ask, answers) /\ Promises(Look(ask, all, ok), ask, answers)
  BY DEF AskFor, Look
<1>3. Promises(Dial, "dial", {"ok"}) /\ Promises(DialTLS, "dial", {"ok"})
  BY DEF Dial, DialTLS
<1>4. /\ Promises(Step("session", "session", {"ok"}, {"ok"}), "session", {"ok"})
      /\ Promises(Step("password", "auth", {"ok", "no"}, {"ok"}), "auth", {"ok"})
  OBVIOUS
<1> QED
  BY <1>1, <1>2, <1>3, <1>4

\* smtpAuth goes on with a step that ends with the server's approval, and error 1064
\* leads to the statement that older servers understand.
LEMMA FollowersPromise ==
  /\ Promises(AuthStart, "auth", {"ok"})
  /\ \A all : Promises(AskFor("replica status", all, {"row", "1064"}),
                       "replica status", {"row"})
<1>1. Promises(AuthStart, "auth", {"ok"})
  <2>1. \A a : Then(AuthStart, a) = AfterStart(a)
    BY DEF Then, AuthStart, Step
  <2>2. \A a : AfterStart(a) = <<AuthPlain>> \/ AfterStart(a) = <<AuthLogin>>
    BY DEF AfterStart
  <2>3. Range(<<AuthPlain>>) = {AuthPlain} /\ Range(<<AuthLogin>>) = {AuthLogin}
    BY ShortScripts
  <2>4. /\ AuthPlain.ask = "auth" /\ AuthPlain.ok = {"ok"}
        /\ AuthLogin.ask = "auth" /\ AuthLogin.ok = {"ok"}
    BY DEF AuthPlain, AuthLogin, Step
  <2> QED
    BY <2>1, <2>2, <2>3, <2>4 DEF Promises
<1>2. ASSUME NEW all
      PROVE  Promises(AskFor("replica status", all, {"row", "1064"}), "replica status", {"row"})
  <2> DEFINE x == AskFor("replica status", all, {"row", "1064"})
  <2>1. x.kind = "ask" /\ x.ask = "replica status" /\ x.ok = {"row", "1064"}
    BY DEF AskFor, Step
  <2> HIDE DEF x
  <2>2. Then(x, "1064") = <<ShowSlaveStatus>>
    BY <2>1 DEF Then
  <2>3. Range(<<ShowSlaveStatus>>) = {ShowSlaveStatus}
    BY ShortScripts
  <2>4. ShowSlaveStatus.ask = "replica status" /\ ShowSlaveStatus.ok = {"row"}
    BY DEF ShowSlaveStatus, AskFor, Step
  <2>5. Promises(x, "replica status", {"row"})
    BY <2>1, <2>2, <2>3, <2>4 DEF Promises
  <2> QED
    BY <2>5 DEF x
<1> QED
  BY <1>1, <1>2

\* A step that depends on an option.
LEMMA OptionalAsk ==
  ASSUME NEW c, NEW ask, ask # "tlsa"
  PROVE  Careful(When(c, <<Ask(ask)>>)) /\ (c => Ask(ask) \in Range(When(c, <<Ask(ask)>>)))
<1>1. Fine(Ask(ask))
  BY FineSteps
<1>2. Careful(<<Ask(ask)>>) /\ Range(<<Ask(ask)>>) = {Ask(ask)}
  BY <1>1, CarefulScripts
<1> QED
  BY <1>2, CarefulWhen

LEMMA SMTPScript ==
  ASSUME NEW m
  PROVE  /\ Careful(SMTPCheck(m)) /\ Covers(SMTPCheck(m), SMTPExpects(m))
         /\ "tls" \in m.opts => DialTLS \in Range(SMTPCheck(m))
         /\ "starttls" \in m.opts /\ "tls" \notin m.opts => StartTLS \in Range(SMTPCheck(m))
<1> DEFINE
      s == SMTPCheck(m)
      connect == IF "tls" \in m.opts THEN <<DialTLS, DANE>> ELSE <<Dial>>
      greet == <<Limit, Ask("greeting")>>
      helo == When("helo" \in m.opts, <<Ask("helo")>>)
      encrypt == When("starttls" \in m.opts /\ "tls" \notin m.opts, <<StartTLS, DANE>>)
      login == When(SMTPAuth(m), <<AuthStart>>)
      vrfy == When("verify" \in m.opts, <<Ask("vrfy")>>)
      from == When("from" \in m.opts, <<Ask("mail")>>)
      to == When("to" \in m.opts, <<Ask("rcpt")>>)
<1>1. /\ Careful(connect)
      /\ IF "tls" \in m.opts THEN DialTLS \in Range(connect) ELSE Dial \in Range(connect)
  BY FineSteps, CarefulScripts
<1>2. Careful(greet) /\ Ask("greeting") \in Range(greet)
  <2>1. Fine(Limit) /\ Fine(Ask("greeting"))
    BY FineSteps
  <2>2. Careful(greet) /\ Range(greet) = {Limit, Ask("greeting")}
    BY <2>1, CarefulScripts
  <2> QED
    BY <2>2
<1>3. Careful(helo) /\ ("helo" \in m.opts => Ask("helo") \in Range(helo))
  BY OptionalAsk
<1>4. /\ Careful(encrypt)
      /\ "starttls" \in m.opts /\ "tls" \notin m.opts => StartTLS \in Range(encrypt)
  <2>1. Careful(<<StartTLS, DANE>>) /\ Range(<<StartTLS, DANE>>) = {StartTLS, DANE}
    BY FineSteps, CarefulScripts
  <2> QED
    BY <2>1, CarefulWhen
<1>5. Careful(login) /\ (SMTPAuth(m) => AuthStart \in Range(login))
  BY FineSteps, CarefulScripts, CarefulWhen
<1>6. Careful(vrfy) /\ ("verify" \in m.opts => Ask("vrfy") \in Range(vrfy))
  BY OptionalAsk
<1>7. Careful(from) /\ ("from" \in m.opts => Ask("mail") \in Range(from))
  BY OptionalAsk
<1>8. Careful(to) /\ ("to" \in m.opts => Ask("rcpt") \in Range(to))
  BY OptionalAsk
<1>9. s = connect \o greet \o helo \o encrypt \o login \o vrfy \o from \o to
  BY DEF SMTPCheck
<1> HIDE DEF s, connect, greet, helo, encrypt, login, vrfy, from, to
<1> DEFINE
      greeted == connect \o greet \o helo
      secured == greeted \o encrypt \o login
<1>10. /\ Careful(greeted)
       /\ Range(connect) \cup Range(greet) \cup Range(helo) \subseteq Range(greeted)
  BY <1>1, <1>2, <1>3, CarefulJoin
<1> HIDE DEF greeted
<1>11. /\ Careful(secured)
       /\ Range(greeted) \cup Range(encrypt) \cup Range(login) \subseteq Range(secured)
  BY <1>4, <1>5, <1>10, CarefulJoin
<1>12. s = secured \o vrfy \o from \o to
  BY <1>9 DEF greeted
<1> HIDE DEF secured
<1>13. /\ Careful(s)
       /\ Range(secured) \cup Range(vrfy) \cup Range(from) \cup Range(to) \subseteq Range(s)
  BY <1>6, <1>7, <1>8, <1>11, <1>12, CarefulJoin
<1>14. Asks(s, "dial", {"ok"}) /\ Asks(s, "greeting", {"ok"})
  BY <1>1, <1>2, <1>10, <1>11, <1>13, StepsPromise DEF Asks
<1>15. "helo" \in m.opts => Asks(s, "helo", {"ok"})
  BY <1>3, <1>10, <1>11, <1>13, StepsPromise DEF Asks
<1>16. m.secret = "both" => Asks(s, "auth", {"ok"})
  BY <1>5, <1>11, <1>13, FollowersPromise DEF Asks, SMTPAuth
<1>17. /\ "verify" \in m.opts => Asks(s, "vrfy", {"ok"})
       /\ "from" \in m.opts => Asks(s, "mail", {"ok"})
       /\ "to" \in m.opts => Asks(s, "rcpt", {"ok"})
  BY <1>6, <1>7, <1>8, <1>13, StepsPromise DEF Asks
<1>18. Covers(s, SMTPExpects(m))
  BY <1>14, <1>15, <1>16, <1>17 DEF Covers, SMTPExpects, AllOk, Expect
<1>19. /\ "tls" \in m.opts => DialTLS \in Range(s)
       /\ "starttls" \in m.opts /\ "tls" \notin m.opts => StartTLS \in Range(s)
  BY <1>1, <1>4, <1>10, <1>11, <1>13
<1> QED
  BY <1>13, <1>18, <1>19 DEF s

LEMMA REDISSteps ==
  ASSUME NEW m
  PROVE  /\ IsScript(REDISCheck(m)) /\ Covers(REDISCheck(m), REDISExpects(m))
         /\ Range(REDISCheck(m)) =
              (IF "tls" \in m.opts THEN {DialTLS} ELSE {Dial}) \cup {Limit, Ask("ping")}
              \cup (IF REDISAuth(m)
                      THEN {Step("password", "auth", {"ok", "no"}, {"ok"})} ELSE {})
         /\ "tls" \in m.opts => Head(REDISCheck(m)) = DialTLS
<1>1. /\ IsScript(REDISCheck(m))
      /\ Range(REDISCheck(m)) =
           (IF "tls" \in m.opts THEN {DialTLS} ELSE {Dial}) \cup {Limit, Ask("ping")}
           \cup (IF REDISAuth(m)
                   THEN {Step("password", "auth", {"ok", "no"}, {"ok"})} ELSE {})
  BY ShortScripts, Concatenated, Optional DEF REDISCheck
<1>2. ASSUME "tls" \in m.opts PROVE Head(REDISCheck(m)) = DialTLS
  <2> DEFINE rest == When(REDISAuth(m),
                          <<Step("password", "auth", {"ok", "no"}, {"ok"})>>)
             start == <<DialTLS>> \o <<Limit>> \o rest
  <2>1. REDISCheck(m) = start \o <<Ask("ping")>>
    BY <1>2 DEF REDISCheck
  <2>2. IsScript(<<DialTLS>>) /\ IsScript(<<Limit>>) /\ IsScript(rest)
        /\ IsScript(<<Ask("ping")>>)
    BY ShortScripts, Optional
  <2> HIDE DEF rest
  <2>3. IsScript(<<DialTLS>> \o <<Limit>>) /\ IsScript(start)
    BY <2>2, Concatenated
  <2> QED
    BY <2>1, <2>2, <2>3, FirstStays
<1>3. Covers(REDISCheck(m), REDISExpects(m))
  <2> DEFINE s == REDISCheck(m)
             auth == Step("password", "auth", {"ok", "no"}, {"ok"})
  <2>1. (DialTLS \in Range(s) \/ Dial \in Range(s)) /\ Ask("ping") \in Range(s)
    BY <1>1
  <2>2. m.secret \in {"password", "both"} => auth \in Range(s)
    BY <1>1 DEF REDISAuth
  <2> HIDE DEF s
  <2>3. Asks(s, "dial", {"ok"}) /\ Asks(s, "ping", {"ok"})
    BY <2>1, StepsPromise DEF Asks
  <2>4. m.secret \in {"password", "both"} => Asks(s, "auth", {"ok"})
    BY <2>2, StepsPromise DEF Asks
  <2>5. Covers(s, REDISExpects(m))
    BY <2>3, <2>4 DEF Covers, REDISExpects, AllOk, Expect
  <2> QED
    BY <2>5 DEF s
<1> QED
  BY <1>1, <1>2, <1>3

\* The answers that a driver accepts are those the monitor expects.
LEMMA AcceptedAnswers ==
  /\ {n \in Lags : n # Null /\ n <= MaxBehind} \subseteq InTime
  /\ {h \in Hours : Days(h) >= DaysToExpire} \subseteq {h \in Hours : h >= 24 * DaysToExpire}
  /\ \A m : {r \in Records(m) : "verify" \in m.opts => \E s \in r : Matches(m, s)}
              \subseteq IF "verify" \in m.opts THEN Verified(m) ELSE SUBSET Spellings
  /\ \A family :
       /\ {a \in Addresses : Dialable(familyLookup(a, family), family)} \subseteq Reachable(family)
       /\ {a \in Addresses : pickFamily(a, family)} \subseteq Reachable(family)
  /\ {n \in Loads : ~(n.max > 0 /\ 10 * n.threads > 9 * n.max)} \subseteq Bearable
  /\ {s \in Members : s.self /\ s.primary /\ s.behind <= MaxBehind}
       \subseteq [self: {TRUE}, primary: {TRUE}, behind: InTime]
  /\ {v \in Values : v.found /\ jsonValueMatches(v, "1")} \subseteq Value({"1"}, {"1", "1.0"})
  /\ {v \in Values : v.found /\ jsonValueMatches(v, "2")} \subseteq Value({"2"}, {"2"})
  /\ {i \in Infos : i.coordinator /\ ~i.starting} \subseteq [coordinator: {TRUE}, starting: {FALSE}]
<1>1. {n \in Lags : n # Null /\ n <= MaxBehind} \subseteq InTime
  BY DriversAssumption DEF Lags, Null, InTime
<1>2. {h \in Hours : Days(h) >= DaysToExpire} \subseteq {h \in Hours : h >= 24 * DaysToExpire}
  <2>1. 23 \div 24 = 0 /\ 24 \div 24 = 1 /\ 49 \div 24 = 2
    OBVIOUS
  <2> QED
    BY <2>1, DriversAssumption DEF Hours, Days
<1>3. ASSUME NEW m, NEW r \in Records(m), "verify" \in m.opts => \E s \in r : Matches(m, s)
      PROVE  r \in IF "verify" \in m.opts THEN Verified(m) ELSE SUBSET Spellings
  <2>1. r \subseteq Spellings
    BY DEF Records
  <2>2. ASSUME NEW s \in r, Matches(m, s) PROVE r \in Verified(m)
    BY <2>1, <2>2 DEF Matches, SameName, Verified
  <2> QED
    BY <1>3, <2>1, <2>2
<1>4. ASSUME NEW family, NEW a \in Addresses
      PROVE  Dialable(familyLookup(a, family), family) \/ pickFamily(a, family) =>
               a \in Reachable(family)
  BY DEF Dialable, familyLookup, pickFamily, Reachable
<1>5. {n \in Loads : ~(n.max > 0 /\ 10 * n.threads > 9 * n.max)} \subseteq Bearable
  BY DEF Loads, Bearable
<1>6. ASSUME NEW s \in Members, s.self, s.primary, s.behind <= MaxBehind
      PROVE  s \in [self: {TRUE}, primary: {TRUE}, behind: InTime]
  <2>1. s.behind \in InTime
    BY <1>6, DriversAssumption DEF Members, Lags, Null, InTime
  <2> QED
    BY <1>6, <2>1 DEF Members
<1>7. \A v \in Values :
        /\ v.found /\ jsonValueMatches(v, "1") => v \in Value({"1"}, {"1", "1.0"})
        /\ v.found /\ jsonValueMatches(v, "2") => v \in Value({"2"}, {"2"})
  <2>1. exactNumber("1") = 10 /\ exactNumber("1.0") = 10 /\ exactNumber("2") = 20
    BY DEF exactNumber
  <2>2. \A v \in Values : v.text \in {"1", "1.0", "2"}
    BY DEF Values
  <2> QED
    BY <2>1, <2>2 DEF jsonValueMatches, Value
<1>8. {i \in Infos : i.coordinator /\ ~i.starting} \subseteq [coordinator: {TRUE}, starting: {FALSE}]
  BY DEF Infos
<1> QED
  BY <1>1, <1>2, <1>3, <1>4, <1>5, <1>6, <1>7, <1>8

\* What a part asks for is asked for by the whole.
LEMMA StillCovers ==
  ASSUME NEW s, NEW t, Range(s) \subseteq Range(t), NEW E, Covers(s, E)
  PROVE  Covers(t, E)
BY DEF Covers, Asks

\* What is asked for one by one is asked for.
LEMMA CoversAll ==
  ASSUME NEW s
  PROVE  /\ \A a, b : Asks(s, a, b) => Covers(s, {<<a, b>>})
         /\ \A p, q : Covers(s, {p}) /\ Covers(s, {q}) => Covers(s, {p, q})
         /\ \A p, q, r : Covers(s, {p}) /\ Covers(s, {q}) /\ Covers(s, {r}) =>
              Covers(s, {p, q, r})
         /\ \A p, q, r, t, u :
              /\ Covers(s, {p}) /\ Covers(s, {q}) /\ Covers(s, {r}) /\ Covers(s, {t})
              /\ Covers(s, {u})
              => Covers(s, {p, q, r, t, u})
<1>1. \A a, b : Asks(s, a, b) => Covers(s, {<<a, b>>})
  BY DEF Covers
<1> QED
  BY <1>1 DEF Covers

LEMMA CoversOption ==
  ASSUME NEW s, NEW c, NEW a, NEW b, c => Asks(s, a, b)
  PROVE  Covers(s, Expect(c, a, b))
<1>1. CASE c
  BY <1>1, CoversAll DEF Expect
<1>2. CASE ~c
  BY <1>2 DEF Expect, Covers
<1> QED
  BY <1>1, <1>2

LEMMA ResolvePromises ==
  \A family : Fine(Resolve(family)) /\ Promises(Resolve(family), "addresses", Reachable(family))
BY FineSteps, StepsPromise, AcceptedAnswers DEF Resolve

LEMMA MySQLScript ==
  ASSUME NEW m
  PROVE  Careful(MySQLCheck(m)) /\ Covers(MySQLCheck(m), MySQLExpects(m))
<1> DEFINE
      s == MySQLCheck(m)
      ping == Ask("ping")
      load == AskFor("threads", Loads,
                     {n \in Loads : ~(n.max > 0 /\ 10 * n.threads > 9 * n.max)})
      mode == AskFor("read_only", {"ON", "1", "OFF"},
                     IF "replica" \in m.opts THEN {"ON", "1"} ELSE {"OFF"})
      status == AskFor("replica status", {"row", "1064", "empty", "error"}, {"row", "1064"})
      io == Look("io running", {"Yes", "No"}, {"Yes"})
      sql == Look("sql running", {"Yes", "No"}, {"Yes"})
      lag == Look("behind", Lags, {n \in Lags : n # Null /\ n <= MaxBehind})
      first == <<ping, load, mode>>
      then == When("replica" \in m.opts, checkReplication)
<1>1. /\ Promises(ping, "ping", {"ok"}) /\ Promises(load, "threads", Bearable)
      /\ Promises(status, "replica status", {"row"}) /\ Promises(io, "io running", {"Yes"})
      /\ Promises(sql, "sql running", {"Yes"}) /\ Promises(lag, "behind", InTime)
  BY StepsPromise, FollowersPromise, AcceptedAnswers
<1>2. IF "replica" \in m.opts THEN Promises(mode, "read_only", {"ON", "1"})
      ELSE Promises(mode, "read_only", {"OFF"})
  BY StepsPromise
<1>3. /\ Fine(ping) /\ Fine(load) /\ Fine(mode)
      /\ Fine(status) /\ Fine(io) /\ Fine(sql) /\ Fine(lag)
  BY FineSteps
<1>4. checkReplication = <<status, io, sql, lag>>
  BY DEF checkReplication
<1>5. s = <<Limit>> \o (first \o then)
  BY DEF MySQLCheck, checkMySQL
<1> HIDE DEF s, ping, load, mode, status, io, sql, lag
<1>6. Careful(checkReplication) /\ Range(checkReplication) = {status, io, sql, lag}
  BY <1>3, <1>4, CarefulScripts
<1>7. /\ Careful(then)
      /\ "replica" \in m.opts => {status, io, sql, lag} \subseteq Range(then)
  BY <1>6, CarefulWhen
<1>8. Careful(first) /\ Range(first) = {ping, load, mode}
  BY <1>3, CarefulScripts
<1>9. Careful(<<Limit>>)
  BY FineSteps, CarefulScripts
<1> HIDE DEF first, then
<1>10. Careful(s) /\ Range(first) \cup Range(then) \subseteq Range(s)
  BY <1>5, <1>7, <1>8, <1>9, CarefulJoin
<1>11. /\ Asks(s, "ping", {"ok"}) /\ Asks(s, "threads", Bearable)
       /\ IF "replica" \in m.opts THEN Asks(s, "read_only", {"ON", "1"})
          ELSE Asks(s, "read_only", {"OFF"})
  BY <1>1, <1>2, <1>8, <1>10 DEF Asks
<1>12. "replica" \in m.opts =>
         /\ Asks(s, "replica status", {"row"}) /\ Asks(s, "io running", {"Yes"})
         /\ Asks(s, "sql running", {"Yes"}) /\ Asks(s, "behind", InTime)
  BY <1>1, <1>7, <1>10 DEF Asks
<1>13. Covers(s, MySQLExpects(m))
  <2>1. Covers(s, AllOk({"ping"})) /\ Covers(s, {<<"threads", Bearable>>})
    BY <1>11 DEF Covers, AllOk
  <2>2. ASSUME "replica" \in m.opts PROVE Covers(s, ReplicaExpects)
    <3>1. /\ Covers(s, {<<"read_only", {"ON", "1"}>>}) /\ Covers(s, {<<"replica status", {"row"}>>})
          /\ Covers(s, {<<"io running", {"Yes"}>>}) /\ Covers(s, {<<"sql running", {"Yes"}>>})
          /\ Covers(s, {<<"behind", InTime>>})
      BY <1>11, <1>12, <2>2, CoversAll
    <3> QED
      BY <3>1, CoversAll DEF ReplicaExpects
  <2>3. "replica" \notin m.opts => Covers(s, {<<"read_only", {"OFF"}>>})
    BY <1>11, CoversAll
  <2>4. Covers(s, IF "replica" \in m.opts THEN ReplicaExpects ELSE {<<"read_only", {"OFF"}>>})
    BY <2>2, <2>3
  <2> QED
    BY <2>1, <2>4 DEF Covers, MySQLExpects
<1> QED
  BY <1>10, <1>13 DEF s

LEMMA PostgresScript ==
  ASSUME NEW m, NEW family
  PROVE  /\ Careful(PostgresCheck(m, family))
         /\ Covers(PostgresCheck(m, family), PostgresExpects(m, family))
<1> DEFINE
      s == PostgresCheck(m, family)
      resolve == Resolve(family)
      connect == Ask("connect")
      primary == AskFor("in recovery", {"t", "f"}, {"f"})
      standby == AskFor("in recovery", {"t", "f"}, {"t"})
      mode == AskFor("transaction_read_only", {"on", "off"}, {"off"})
      receiver == AskFor("wal receiver", {"none", "hidden", "stopping", "streaming"},
                         {"streaming"})
      lag == AskFor("behind", Lags, {n \in Lags : n # Null /\ n <= MaxBehind})
      first == <<Limit, resolve, connect>>
<1>1. /\ Promises(resolve, "addresses", Reachable(family)) /\ Promises(connect, "connect", {"ok"})
      /\ Promises(primary, "in recovery", {"f"}) /\ Promises(standby, "in recovery", {"t"})
      /\ Promises(mode, "transaction_read_only", {"off"})
      /\ Promises(receiver, "wal receiver", {"streaming"}) /\ Promises(lag, "behind", InTime)
  BY StepsPromise, ResolvePromises, AcceptedAnswers
<1>2. /\ Fine(Limit) /\ Fine(resolve) /\ Fine(connect) /\ Fine(primary) /\ Fine(standby)
      /\ Fine(mode) /\ Fine(receiver) /\ Fine(lag)
  BY FineSteps, ResolvePromises
<1>3. checkPostgres(m) = IF "replica" \notin m.opts THEN <<primary, mode>>
                         ELSE <<standby, receiver, lag>>
  BY DEF checkPostgres
<1>4. s = first \o checkPostgres(m)
  BY DEF PostgresCheck
<1> HIDE DEF s, resolve, connect, primary, standby, mode, receiver, lag
<1>5. /\ Careful(checkPostgres(m))
      /\ Range(checkPostgres(m)) = IF "replica" \notin m.opts THEN {primary, mode}
                                   ELSE {standby, receiver, lag}
  <2>1. CASE "replica" \in m.opts
    <3>1. checkPostgres(m) = <<standby, receiver, lag>>
      BY <1>3, <2>1
    <3>2. /\ Careful(<<standby, receiver, lag>>)
          /\ Range(<<standby, receiver, lag>>) = {standby, receiver, lag}
      BY <1>2, CarefulScripts
    <3> QED
      BY <2>1, <3>1, <3>2
  <2>2. CASE "replica" \notin m.opts
    BY <1>2, <1>3, <2>2, CarefulScripts
  <2> QED
    BY <2>1, <2>2
<1>6. Careful(first) /\ Range(first) = {Limit, resolve, connect}
  BY <1>2, CarefulScripts
<1> HIDE DEF first
<1>7. Careful(s) /\ Range(first) \cup Range(checkPostgres(m)) \subseteq Range(s)
  BY <1>4, <1>5, <1>6, CarefulJoin
<1>8. Asks(s, "addresses", Reachable(family)) /\ Asks(s, "connect", {"ok"})
  BY <1>1, <1>6, <1>7 DEF Asks
<1>9. IF "replica" \in m.opts
        THEN /\ Asks(s, "in recovery", {"t"}) /\ Asks(s, "wal receiver", {"streaming"})
             /\ Asks(s, "behind", InTime)
        ELSE Asks(s, "in recovery", {"f"}) /\ Asks(s, "transaction_read_only", {"off"})
  BY <1>1, <1>5, <1>7 DEF Asks
<1>10. Covers(s, PostgresExpects(m, family))
  <2> DEFINE
        replica == {<<"in recovery", {"t"}>>, <<"wal receiver", {"streaming"}>>, <<"behind", InTime>>}
        main == {<<"in recovery", {"f"}>>, <<"transaction_read_only", {"off"}>>}
  <2>1. Covers(s, {<<"addresses", Reachable(family)>>, <<"connect", {"ok"}>>})
    BY <1>8, CoversAll
  <2>2. "replica" \in m.opts => Covers(s, replica)
    BY <1>9, CoversAll
  <2>3. "replica" \notin m.opts => Covers(s, main)
    BY <1>9, CoversAll
  <2>4. PostgresExpects(m, family) =
          {<<"addresses", Reachable(family)>>, <<"connect", {"ok"}>>}
          \cup IF "replica" \in m.opts THEN replica ELSE main
    BY DEF PostgresExpects
  <2> HIDE DEF replica, main
  <2> QED
    BY <2>1, <2>2, <2>3, <2>4 DEF Covers
<1> QED
  BY <1>7, <1>10 DEF s

LEMMA MongoDBScript ==
  ASSUME NEW m
  PROVE  Careful(MongoDBCheck(m)) /\ Covers(MongoDBCheck(m), MongoDBExpects(m))
<1> DEFINE
      s == MongoDBCheck(m)
      healthy == {i \in Members : i.self /\ i.primary /\ i.behind <= MaxBehind}
      hello == AskFor("hello", {"primary", "secondary", "other"},
                      IF "replica" \in m.opts THEN {"secondary"} ELSE {"primary"})
      members == AskFor("members", Members, healthy)
      limit == <<Limit>>
      first == <<hello>>
      then == When("replica" \in m.opts, <<members>>)
<1>1. /\ IF "replica" \in m.opts THEN Promises(hello, "hello", {"secondary"})
         ELSE Promises(hello, "hello", {"primary"})
      /\ Promises(members, "members", [self: {TRUE}, primary: {TRUE}, behind: InTime])
  BY StepsPromise, AcceptedAnswers
<1>2. Fine(hello) /\ Fine(members)
  BY FineSteps
<1>3. s = limit \o (first \o then)
  BY DEF MongoDBCheck, checkMongoDB
<1> HIDE DEF s, healthy, hello, members
<1>4. /\ Careful(<<members>>) /\ Range(<<members>>) = {members}
      /\ Careful(first) /\ Range(first) = {hello}
  BY <1>2, CarefulScripts
<1>5. Careful(then) /\ ("replica" \in m.opts => members \in Range(then))
  BY <1>4, CarefulWhen
<1>6. Careful(limit)
  BY FineSteps, CarefulScripts
<1> HIDE DEF limit, first, then
<1>7. Careful(s) /\ {hello} \cup Range(then) \subseteq Range(s)
  BY <1>3, <1>4, <1>5, <1>6, CarefulJoin
<1>8. IF "replica" \in m.opts
        THEN /\ Asks(s, "hello", {"secondary"})
             /\ Asks(s, "members", [self: {TRUE}, primary: {TRUE}, behind: InTime])
        ELSE Asks(s, "hello", {"primary"})
  BY <1>1, <1>5, <1>7 DEF Asks
<1>9. Covers(s, MongoDBExpects(m))
  <2>1. "replica" \in m.opts =>
          Covers(s, {<<"hello", {"secondary"}>>,
                     <<"members", [self: {TRUE}, primary: {TRUE}, behind: InTime]>>})
    BY <1>8, CoversAll
  <2>2. "replica" \notin m.opts => Covers(s, {<<"hello", {"primary"}>>})
    BY <1>8, CoversAll
  <2> QED
    BY <2>1, <2>2 DEF MongoDBExpects
<1> QED
  BY <1>7, <1>9 DEF s

LEMMA ScyllaDBScript ==
  ASSUME NEW family
  PROVE  Careful(ScyllaDBCheck(family)) /\ Covers(ScyllaDBCheck(family), ScyllaDBExpects(family))
<1> DEFINE
      s == ScyllaDBCheck(family)
      resolve == Resolve(family)
      session == Step("session", "session", {"ok"}, {"ok"})
      state == AskFor("bootstrapped", {"COMPLETED", "NEEDS_BOOTSTRAP"}, {"COMPLETED"})
<1>1. /\ Promises(resolve, "addresses", Reachable(family))
      /\ Promises(session, "session", {"ok"}) /\ Promises(state, "bootstrapped", {"COMPLETED"})
  BY StepsPromise, ResolvePromises
<1>2. Fine(Limit) /\ Fine(resolve) /\ Fine(session) /\ Fine(state)
  BY FineSteps, ResolvePromises
<1>3. s = <<Limit, resolve, session, state>>
  BY DEF ScyllaDBCheck
<1> HIDE DEF s, resolve, session, state
<1>4. Careful(s) /\ Range(s) = {Limit, resolve, session, state}
  BY <1>2, <1>3, CarefulScripts
<1>5. Covers(s, ScyllaDBExpects(family))
  BY <1>1, <1>4 DEF Asks, Covers, ScyllaDBExpects
<1> QED
  BY <1>4, <1>5 DEF s

LEMMA FineExpiry ==
  ASSUME NEW m
  PROVE  Careful(Expiry(m)) /\ Covers(Expiry(m), Unexpired(m))
<1> DEFINE cert == Look("cert", Hours, {h \in Hours : Days(h) >= DaysToExpire})
           enough == {h \in Hours : h >= 24 * DaysToExpire}
<1>1. Promises(cert, "cert", enough)
  BY StepsPromise, AcceptedAnswers
<1>2. Fine(cert)
  BY FineSteps
<1>3. Expiry(m) = When("days" \in m.opts, <<cert>>)
  BY DEF Expiry
<1> HIDE DEF cert
<1>4. Careful(<<cert>>) /\ Range(<<cert>>) = {cert}
  BY <1>2, CarefulScripts
<1>5. Careful(Expiry(m)) /\ ("days" \in m.opts => cert \in Range(Expiry(m)))
  <2>1. /\ Careful(When("days" \in m.opts, <<cert>>))
        /\ "days" \in m.opts => cert \in Range(When("days" \in m.opts, <<cert>>))
    BY <1>4, CarefulWhen
  <2> QED
    BY <1>3, <2>1
<1>6. "days" \in m.opts => Asks(Expiry(m), "cert", enough)
  BY <1>1, <1>5 DEF Asks
<1>7. Unexpired(m) = IF "days" \in m.opts THEN {<<"cert", enough>>} ELSE {}
  BY DEF Unexpired, Expect
<1> HIDE DEF enough
<1> QED
  BY <1>5, <1>6, <1>7 DEF Covers

LEMMA TLSScript ==
  ASSUME NEW m
  PROVE  Careful(TLSCheck(m)) /\ Covers(TLSCheck(m), AllOk({"dial"}) \cup Unexpired(m))
<1> DEFINE s == TLSCheck(m)
           dial == <<DialTLS>>
           dane == <<DANE>>
<1>1. /\ Careful(dial) /\ Range(dial) = {DialTLS}
      /\ Careful(dane) /\ s = dial \o Expiry(m) \o dane
  BY FineSteps, CarefulScripts DEF TLSCheck
<1>2. Careful(Expiry(m))
  BY FineExpiry
<1> HIDE DEF s, dial, dane
<1>3. Careful(s) /\ {DialTLS} \cup Range(Expiry(m)) \subseteq Range(s)
  BY <1>1, <1>2, CarefulJoin
<1>4. Asks(s, "dial", {"ok"})
  BY <1>3, StepsPromise DEF Asks
<1>5. Covers(s, Unexpired(m))
  BY <1>3, FineExpiry, StillCovers
<1>6. Covers(s, AllOk({"dial"}))
  BY <1>4 DEF Covers, AllOk
<1>7. Covers(s, AllOk({"dial"}) \cup Unexpired(m))
  BY <1>5, <1>6 DEF Covers
<1> QED
  BY <1>3, <1>7 DEF s

LEMMA DNSScript ==
  ASSUME NEW m, NEW family
  PROVE  /\ Careful(DNSCheck(m, family))
         /\ Covers(DNSCheck(m, family), DNSExpects(m, family))
<1> DEFINE
      s == DNSCheck(m, family)
      expected == IF "verify" \in m.opts THEN Verified(m) ELSE SUBSET Spellings
      records == AskFor("records", Records(m),
                        {r \in Records(m) : "verify" \in m.opts => \E x \in r : Matches(m, x)})
      addresses == AskFor("addresses", Addresses, {a \in Addresses : pickFamily(a, family)})
      server == When("server" \in m.opts, <<addresses>>)
<1>1. /\ Promises(records, "records", expected)
      /\ Promises(addresses, "addresses", Reachable(family))
  BY StepsPromise, AcceptedAnswers
<1>2. Fine(records) /\ Fine(addresses)
  BY FineSteps
<1>3. s = <<Limit>> \o server \o <<records>>
  BY DEF DNSCheck
<1>4. DNSExpects(m, family) =
        Expect("server" \in m.opts, "addresses", Reachable(family)) \cup {<<"records", expected>>}
  BY DEF DNSExpects
<1> HIDE DEF s, records, addresses, expected
<1>5. /\ Careful(<<records>>) /\ Range(<<records>>) = {records}
      /\ Careful(<<addresses>>) /\ Range(<<addresses>>) = {addresses}
  BY <1>2, CarefulScripts
<1>6. /\ Careful(server) /\ Careful(<<Limit>>)
      /\ "server" \in m.opts => addresses \in Range(server)
  BY <1>5, FineSteps, CarefulScripts, CarefulWhen
<1> HIDE DEF server
<1>7. Careful(s) /\ {records} \cup Range(server) \subseteq Range(s)
  <2> DEFINE limit == <<Limit>>
             last == <<records>>
  <2>1. s = limit \o server \o last /\ Careful(limit) /\ Careful(last) /\ Range(last) = {records}
    BY <1>3, <1>5, <1>6
  <2> HIDE DEF limit, last
  <2> QED
    BY <1>6, <2>1, CarefulJoin
<1>8. /\ Asks(s, "records", expected)
      /\ "server" \in m.opts => Asks(s, "addresses", Reachable(family))
  BY <1>1, <1>6, <1>7 DEF Asks
<1>9. Covers(s, DNSExpects(m, family))
  BY <1>4, <1>8 DEF Covers, Expect
<1> QED
  BY <1>7, <1>9 DEF s

LEMMA HTTPScript ==
  ASSUME NEW m
  PROVE  Careful(HTTPCheck(m)) /\ Covers(HTTPCheck(m), HTTPExpects(m))
<1> DEFINE
      s == HTTPCheck(m)
      request == Ask("request")
      status == Look("status", {"2xx", "3xx", "5xx"}, {"2xx"})
      body == AskFor("body", {"contains", "without", "in first MiB", "beyond first MiB"},
                     {"contains", "in first MiB"})
      first == <<Limit, request>>
      expiry == When("https" \in m.opts, Expiry(m))
      contains == When("body" \in m.opts, <<body>>)
<1>1. /\ Promises(request, "request", {"ok"}) /\ Promises(status, "status", {"2xx"})
      /\ Promises(body, "body", {"contains", "in first MiB"})
  BY StepsPromise
<1>2. Fine(Limit) /\ Fine(request) /\ Fine(status) /\ Fine(body)
  BY FineSteps
<1>3. s = first \o expiry \o <<status>> \o contains
  BY DEF HTTPCheck
<1>4. /\ Careful(expiry)
      /\ "https" \in m.opts => Range(Expiry(m)) \subseteq Range(expiry)
  BY FineExpiry, CarefulWhen
<1> HIDE DEF s, request, status, body, expiry
<1>5. /\ Careful(first) /\ Range(first) = {Limit, request}
      /\ Careful(<<status>>) /\ Range(<<status>>) = {status}
      /\ Careful(<<body>>) /\ Range(<<body>>) = {body}
  BY <1>2, CarefulScripts
<1>6. Careful(contains) /\ ("body" \in m.opts => body \in Range(contains))
  BY <1>5, CarefulWhen
<1> HIDE DEF first, contains
<1>7. /\ Careful(s)
      /\ {request, status} \cup Range(expiry) \cup Range(contains) \subseteq Range(s)
  <2> DEFINE second == <<status>>
             start == first \o expiry
  <2>1. s = start \o second \o contains /\ Careful(second) /\ Range(second) = {status}
    BY <1>3, <1>5
  <2>2. Careful(start) /\ {request} \cup Range(expiry) \subseteq Range(start)
    BY <1>4, <1>5, CarefulJoin
  <2> HIDE DEF second, start
  <2>3. /\ Careful(start \o second)
        /\ {request, status} \cup Range(expiry) \subseteq Range(start \o second)
    BY <2>1, <2>2, CarefulJoin
  <2> QED
    BY <1>6, <2>1, <2>3, CarefulJoin
<1>8. /\ Asks(s, "request", {"ok"}) /\ Asks(s, "status", {"2xx"})
      /\ "body" \in m.opts => Asks(s, "body", {"contains", "in first MiB"})
  BY <1>1, <1>6, <1>7 DEF Asks
<1>9. "https" \in m.opts => Covers(s, Unexpired(m))
  BY <1>4, <1>7, FineExpiry, StillCovers
<1>10. Covers(s, HTTPExpects(m))
  <2>1. Covers(s, AllOk({"request"})) /\ Covers(s, {<<"status", {"2xx"}>>})
    <3>1. Covers(s, {<<"request", {"ok"}>>}) /\ Covers(s, {<<"status", {"2xx"}>>})
      BY <1>8, CoversAll
    <3> QED
      BY <3>1 DEF AllOk
  <2>2. Covers(s, Expect("body" \in m.opts, "body", {"contains", "in first MiB"}))
    BY <1>8, CoversOption
  <2>3. Covers(s, IF "https" \in m.opts THEN Unexpired(m) ELSE {})
    BY <1>9 DEF Covers
  <2> QED
    BY <2>1, <2>2, <2>3 DEF Covers, HTTPExpects
<1> QED
  BY <1>7, <1>10 DEF s

LEMMA HTTPJSONScript ==
  ASSUME NEW m
  PROVE  Careful(HTTPJSONCheck(m)) /\ Covers(HTTPJSONCheck(m), HTTPJSONExpects(m))
<1> DEFINE
      s == HTTPJSONCheck(m)
      request == Ask("request")
      status == Look("status", {"2xx", "3xx", "5xx"},
                     IF "status" \in m.opts THEN {"3xx"} ELSE {"2xx"})
      body == AskFor("body", {"value", "too large", "invalid", "trailing data"}, {"value"})
      one == Look("first path", Values, {v \in Values : v.found /\ jsonValueMatches(v, "1")})
      two == Look("second path", Values, {v \in Values : v.found /\ jsonValueMatches(v, "2")})
      first == <<Limit, request, status, body>>
      asserts == When("assert" \in m.opts, <<one, two>>)
<1>1. /\ Promises(request, "request", {"ok"}) /\ Promises(body, "body", {"value"})
      /\ Promises(status, "status", IF "status" \in m.opts THEN {"3xx"} ELSE {"2xx"})
      /\ Promises(one, "first path", Value({"1"}, {"1", "1.0"}))
      /\ Promises(two, "second path", Value({"2"}, {"2"}))
  BY StepsPromise, AcceptedAnswers
<1>2. /\ Fine(Limit) /\ Fine(request) /\ Fine(status) /\ Fine(body)
      /\ Fine(one) /\ Fine(two)
  BY FineSteps
<1>3. s = first \o asserts
  BY DEF HTTPJSONCheck
<1> HIDE DEF s, request, status, body, one, two
<1>4. /\ Careful(first) /\ Range(first) = {Limit, request, status, body}
      /\ Careful(<<one, two>>) /\ Range(<<one, two>>) = {one, two}
  BY <1>2, CarefulScripts
<1>5. Careful(asserts) /\ ("assert" \in m.opts => {one, two} \subseteq Range(asserts))
  BY <1>4, CarefulWhen
<1> HIDE DEF first, asserts
<1>6. Careful(s) /\ Range(first) \cup Range(asserts) \subseteq Range(s)
  BY <1>3, <1>4, <1>5, CarefulJoin
<1>7. /\ Asks(s, "request", {"ok"}) /\ Asks(s, "body", {"value"})
      /\ Asks(s, "status", IF "status" \in m.opts THEN {"3xx"} ELSE {"2xx"})
      /\ "assert" \in m.opts => /\ Asks(s, "first path", Value({"1"}, {"1", "1.0"}))
                                /\ Asks(s, "second path", Value({"2"}, {"2"}))
  BY <1>1, <1>4, <1>5, <1>6 DEF Asks
<1>8. Covers(s, HTTPJSONExpects(m))
  <2> DEFINE code == IF "status" \in m.opts THEN {"3xx"} ELSE {"2xx"}
             value1 == Value({"1"}, {"1", "1.0"})
             value2 == Value({"2"}, {"2"})
  <2>1. HTTPJSONExpects(m) =
          {<<"request", {"ok"}>>, <<"body", {"value"}>>, <<"status", code>>}
          \cup Expect("assert" \in m.opts, "first path", value1)
          \cup Expect("assert" \in m.opts, "second path", value2)
    BY DEF HTTPJSONExpects
  <2>2. /\ Asks(s, "status", code)
        /\ "assert" \in m.opts => Asks(s, "first path", value1) /\ Asks(s, "second path", value2)
    BY <1>7
  <2> HIDE DEF code, value1, value2
  <2>3. Covers(s, {<<"request", {"ok"}>>, <<"body", {"value"}>>, <<"status", code>>})
    BY <1>7, <2>2, CoversAll
  <2>4. /\ Covers(s, Expect("assert" \in m.opts, "first path", value1))
        /\ Covers(s, Expect("assert" \in m.opts, "second path", value2))
    BY <2>2, CoversOption
  <2> QED
    BY <2>1, <2>3, <2>4 DEF Covers
<1> QED
  BY <1>6, <1>8 DEF s

LEMMA PlainScripts ==
  /\ Careful(TCPCheck) /\ Covers(TCPCheck, AllOk({"dial"}))
  /\ Careful(PingCheck) /\ Covers(PingCheck, AllOk({"dial"}))
  /\ Careful(TrinoCheck)
  /\ Covers(TrinoCheck, BodyExpects("info", [coordinator: {TRUE}, starting: {FALSE}]))
  /\ Careful(OpenSearchCheck) /\ Covers(OpenSearchCheck, BodyExpects("health", {"green"}))
<1>1. Careful(<<Dial>>) /\ Covers(<<Dial>>, AllOk({"dial"}))
  <2>1. Careful(<<Dial>>) /\ Range(<<Dial>>) = {Dial}
    BY FineSteps, CarefulScripts
  <2> QED
    BY <2>1, StepsPromise DEF Asks, Covers, AllOk
<1>2. ASSUME NEW ask, ask \notin {"tlsa", "hello"}, NEW all, NEW ok, NEW answers, ok \subseteq answers
      PROVE  Careful(JSONBody(ask, all, ok)) /\ Covers(JSONBody(ask, all, ok), BodyExpects(ask, answers))
  <2> DEFINE
        s == JSONBody(ask, all, ok)
        request == Ask("request")
        status == Look("status", {"200", "other"}, {"200"})
        body == AskFor("body", {"value", "too large", "invalid"}, {"value"})
        last == Look(ask, all, ok)
  <2>1. /\ Promises(request, "request", {"ok"}) /\ Promises(status, "status", {"200"})
        /\ Promises(body, "body", {"value"}) /\ Promises(last, ask, answers)
    BY <1>2, StepsPromise
  <2>2. Fine(Limit) /\ Fine(request) /\ Fine(status) /\ Fine(body) /\ Fine(last)
    BY <1>2, FineSteps
  <2>3. s = <<Limit, request, status, body, last>>
    BY DEF JSONBody
  <2> HIDE DEF s, request, status, body, last
  <2>4. Careful(s) /\ Range(s) = {Limit, request, status, body, last}
    BY <2>2, <2>3, CarefulScripts
  <2>5. Covers(s, BodyExpects(ask, answers))
    BY <2>1, <2>4 DEF Asks, Covers, BodyExpects
  <2> QED
    BY <2>4, <2>5 DEF s
<1>3. /\ Careful(TrinoCheck)
      /\ Covers(TrinoCheck, BodyExpects("info", [coordinator: {TRUE}, starting: {FALSE}]))
  BY <1>2, AcceptedAnswers DEF TrinoCheck
<1>4. Careful(OpenSearchCheck) /\ Covers(OpenSearchCheck, BodyExpects("health", {"green"}))
  BY <1>2 DEF OpenSearchCheck
<1> QED
  BY <1>1, <1>3, <1>4 DEF TCPCheck, PingCheck

\* Every driver's script: it tells passwords only over TLS where that is asked
\* for, and asks for all that the monitor expects.
LEMMA NewScript ==
  ASSUME NEW m \in Monitors, NEW family, m.driver \in Drivers
  PROVE  LET s == createFamilyDriver(m, family) IN
         /\ IsScript(s) /\ \A x \in Range(s) : Honest(x)
         /\ Protected(m, FALSE, s) /\ Expected(m, family, FALSE, {}, s)
<1> DEFINE s == createFamilyDriver(m, family)
<1>1. ASSUME NEW E, E = Expectations(m, family), Covers(s, E),
             m.driver \in {"smtp", "redis"} /\ m.opts \cap {"tls", "starttls"} # {} =>
               \E x \in Range(s) : Encrypts(x)
      PROVE  Expected(m, family, FALSE, {}, s)
  BY <1>1 DEF Expected, Owes, Covers
<1>2. CASE m.driver = "smtp"
  <2>1. s = SMTPCheck(m) /\ Expectations(m, family) = SMTPExpects(m)
    BY <1>2 DEF createFamilyDriver, Expectations
  <2>2. Encrypts(DialTLS) /\ Encrypts(StartTLS)
    BY DEF Encrypts, DialTLS, StartTLS, Step
  <2>3. m.opts \cap {"tls", "starttls"} # {} => \E x \in Range(s) : Encrypts(x)
    BY <2>1, <2>2, SMTPScript
  <2>4. Careful(s) /\ Covers(s, Expectations(m, family))
    BY <2>1, SMTPScript
  <2> HIDE DEF s
  <2>5. Expected(m, family, FALSE, {}, s)
    BY <1>1, <2>3, <2>4
  <2> QED
    BY <2>4, <2>5 DEF Careful, Fine, Protected, s
<1>3. CASE m.driver = "redis"
  <2> DEFINE auth == Step("password", "auth", {"ok", "no"}, {"ok"})
  <2>1. s = REDISCheck(m) /\ Expectations(m, family) = REDISExpects(m)
    BY <1>3 DEF createFamilyDriver, Expectations
  <2>2. Honest(auth)
    BY DEF Honest, Step
  <2>3. Encrypts(DialTLS) /\ DialTLS.kind = "tlsdial"
    BY DEF Encrypts, DialTLS, Step
  <2>4. Fine(Ask("ping"))
    BY FineSteps
  <2>5. \A x \in Range(s) : x = auth \/ Fine(x)
    BY <2>1, <2>4, REDISSteps, FineSteps
  <2>6. "tls" \in m.opts => DialTLS \in Range(s) /\ Head(s) = DialTLS
    BY <2>1, REDISSteps
  <2>7. IsScript(s) /\ Covers(s, Expectations(m, family))
    BY <2>1, REDISSteps
  <2> HIDE DEF s, auth
  <2>8. m.opts \cap {"tls", "starttls"} # {} => \E x \in Range(s) : Encrypts(x)
    BY <1>3, <2>3, <2>6, ChecksAssumption
  <2>9. Expected(m, family, FALSE, {}, s)
    BY <1>1, <2>7, <2>8
  <2>10. \A x \in Range(s) : Honest(x)
    BY <2>2, <2>5 DEF Fine
  <2>11. Protected(m, FALSE, s)
    BY <1>3, <2>3, <2>6 DEF Protected, NeedsTLS
  <2> QED
    BY <2>7, <2>9, <2>10, <2>11 DEF s
<1>4. CASE m.driver \notin {"smtp", "redis"}
  <2>1. SUFFICES Careful(s) /\ Covers(s, Expectations(m, family))
    <3>1. ASSUME Careful(s), Covers(s, Expectations(m, family))
          PROVE  /\ IsScript(s) /\ \A x \in Range(s) : Honest(x)
                 /\ Protected(m, FALSE, s) /\ Expected(m, family, FALSE, {}, s)
      <4> HIDE DEF s
      <4>1. Expected(m, family, FALSE, {}, s)
        BY <1>1, <1>4, <3>1
      <4> QED
        BY <3>1, <4>1 DEF Careful, Fine, Protected
    <3> QED
      BY <3>1
  <2>2. CASE m.driver \in {"mysql", "mariadb"}
    <3>1. s = MySQLCheck(m) /\ Expectations(m, family) = MySQLExpects(m)
      BY <2>2 DEF createFamilyDriver, Expectations
    <3> QED
      BY <3>1, MySQLScript
  <2>3. CASE m.driver = "postgres"
    <3>1. s = PostgresCheck(m, family) /\ Expectations(m, family) = PostgresExpects(m, family)
      BY <2>3 DEF createFamilyDriver, Expectations
    <3> QED
      BY <3>1, PostgresScript
  <2>4. CASE m.driver = "mongodb"
    <3>1. s = MongoDBCheck(m) /\ Expectations(m, family) = MongoDBExpects(m)
      BY <2>4 DEF createFamilyDriver, Expectations
    <3> QED
      BY <3>1, MongoDBScript
  <2>5. CASE m.driver = "scylladb"
    <3>1. s = ScyllaDBCheck(family) /\ Expectations(m, family) = ScyllaDBExpects(family)
      BY <2>5 DEF createFamilyDriver, Expectations
    <3> QED
      BY <3>1, ScyllaDBScript
  <2>6. CASE m.driver = "tls"
    <3>1. s = TLSCheck(m) /\ Expectations(m, family) = AllOk({"dial"}) \cup Unexpired(m)
      BY <2>6 DEF createFamilyDriver, Expectations
    <3> QED
      BY <3>1, TLSScript
  <2>7. CASE m.driver = "dns"
    <3>1. s = DNSCheck(m, family) /\ Expectations(m, family) = DNSExpects(m, family)
      BY <2>7 DEF createFamilyDriver, Expectations
    <3> QED
      BY <3>1, DNSScript
  <2>8. CASE m.driver \in {"http", "http-json"}
    <3>1. \/ s = HTTPCheck(m) /\ Expectations(m, family) = HTTPExpects(m)
          \/ s = HTTPJSONCheck(m) /\ Expectations(m, family) = HTTPJSONExpects(m)
      BY <2>8 DEF createFamilyDriver, Expectations
    <3> QED
      BY <3>1, HTTPScript, HTTPJSONScript
  <2>9. CASE m.driver \in {"tcp", "ping"}
    <3>1. (s = TCPCheck \/ s = PingCheck) /\ Expectations(m, family) = AllOk({"dial"})
      BY <2>9 DEF createFamilyDriver, Expectations
    <3> QED
      BY <3>1, PlainScripts
  <2>10. CASE m.driver = "trino"
    <3>1. /\ s = TrinoCheck
          /\ Expectations(m, family) =
               BodyExpects("info", [coordinator: {TRUE}, starting: {FALSE}])
      BY <2>10 DEF createFamilyDriver, Expectations
    <3> QED
      BY <3>1, PlainScripts
  <2>11. CASE m.driver = "opensearch"
    <3>1. s = OpenSearchCheck /\ Expectations(m, family) = BodyExpects("health", {"green"})
      BY <2>11 DEF createFamilyDriver, Expectations
    <3> QED
      BY <3>1, PlainScripts
  <2> QED
    BY <1>4, <2>2, <2>3, <2>4, <2>5, <2>6, <2>7, <2>8, <2>9, <2>10, <2>11
    DEF Drivers, HostDrivers
<1> QED
  BY <1>2, <1>3, <1>4

\* A script that has run to its end has shown all that is expected.
LEMMA NothingOwed ==
  ASSUME NEW m, NEW family, m.driver \in Drivers,
         Expected(m, family, conn.tls, told, << >>), ~Refuted,
         m.driver = "mongodb" /\ Said("hello", {"primary", "secondary"}) =>
           beat.answered /\ ~beat.failed
  PROVE  Met(m, family)
<1>1. \A ask, answers : Owes(told, << >>, ask, answers) => Said(ask, answers)
  BY ShortScripts DEF Owes, Asks, Said
<1>2. \A e \in Expectations(m, family) : Said(e[1], e[2])
  BY <1>1 DEF Expected
<1>3. m.driver \in {"smtp", "redis"} /\ m.opts \cap {"tls", "starttls"} # {} => conn.tls
  BY ShortScripts DEF Expected
<1>4. ASSUME m.driver = "mongodb" PROVE beat.answered /\ ~beat.failed
  <2>1. Expectations(m, family) = MongoDBExpects(m)
    BY <1>4 DEF Expectations
  <2>2. \/ <<"hello", {"primary"}>> \in MongoDBExpects(m)
        \/ <<"hello", {"secondary"}>> \in MongoDBExpects(m)
    BY DEF MongoDBExpects
  <2>3. ASSUME NEW a, <<"hello", a>> \in MongoDBExpects(m) PROVE Said("hello", a)
    <3>1. Said(<<"hello", a>>[1], <<"hello", a>>[2])
      BY <1>2, <2>1, <2>3, Zenon
    <3> QED
      BY <3>1
  <2>4. Said("hello", {"primary"}) \/ Said("hello", {"secondary"})
    BY <2>2, <2>3
  <2> QED
    BY <1>4, <2>4 DEF Said
<1> QED
  BY <1>2, <1>3, <1>4 DEF Met

-----------------------------------------------------------------------------
(* The steps of a check.                                                   *)

\* The steps that may follow an answer.
LEMMA ThenSteps ==
  ASSUME NEW step, NEW answer, Honest(step)
  PROVE  /\ IsScript(Then(step, answer)) /\ \A x \in Range(Then(step, answer)) : Honest(x)
         /\ step.kind # "start" => \A x \in Range(Then(step, answer)) : ~SendsPassword(x)
<1>1. Honest(AuthPlain) /\ Honest(AuthLogin)
  BY DEF AuthPlain, AuthLogin, Step, Honest
<1>2. CASE step.kind = "start"
  <2>1. Then(step, answer) \in {<<AuthPlain>>, <<AuthLogin>>}
    <3>1. Then(step, answer) = AfterStart(answer)
      <4>1. step.ask = "mechanisms"
        BY <1>2 DEF Honest, AuthStart, Step
      <4> QED
        BY <1>2, <4>1 DEF Then
    <3>2. AfterStart(answer) = <<AuthPlain>> \/ AfterStart(answer) = <<AuthLogin>>
      BY DEF AfterStart
    <3> QED
      BY <3>1, <3>2
  <2>2. /\ IsScript(<<AuthPlain>>) /\ Range(<<AuthPlain>>) = {AuthPlain}
        /\ IsScript(<<AuthLogin>>) /\ Range(<<AuthLogin>>) = {AuthLogin}
    BY ShortScripts
  <2> QED
    BY <1>1, <1>2, <2>1, <2>2
<1>3. CASE step.kind # "start"
  <2>1. Then(step, answer) \in {<<ShowSlaveStatus>>, << >>}
    BY <1>3 DEF Then
  <2>2. Careful(<<ShowSlaveStatus>>) /\ Careful(<< >>)
    BY FineSteps, CarefulScripts
  <2> QED
    BY <1>3, <2>1, <2>2 DEF Careful, Fine
<1> QED
  BY <1>2, <1>3

\* A password leaves only from a step that sends one.
LEMMA LeaksProtected ==
  ASSUME ScriptInv, PasswordsProtected, todo # << >>, UNCHANGED monitor,
         \/ leaks' = leaks
         \/ leaks' = leaks \cup {Leak} /\ SendsPassword(Head(todo))
  PROVE  PasswordsProtected'
<1>1. CASE leaks' = leaks
  BY <1>1 DEF PasswordsProtected
<1>2. CASE leaks' = leaks \cup {Leak} /\ SendsPassword(Head(todo))
  <2>1. Head(todo) \in Range(todo)
    BY Remaining DEF ScriptInv
  <2>2. NeedsTLS(monitor) => conn.tls
    BY <1>2, <2>1 DEF ScriptInv, Protected, SendsPassword
  <2>3. Leak.tls = conn.tls /\ Leak.refuted = Refuted
    BY DEF Leak
  <2>4. ~Refuted
    BY DEF ScriptInv
  <2> QED
    BY <1>2, <2>2, <2>3, <2>4 DEF PasswordsProtected, NeedsTLS
<1> QED
  BY <1>1, <1>2

\* An answer the code goes on with keeps the script's guarantees.
LEMMA ProceedKeeps ==
  ASSUME ScriptInv, PasswordsProtected, UNCHANGED monitor, phase' = "check",
         NEW answer, NEW more, Proceed(answer, more),
         IsScript(more), \A x \in Range(more) : Honest(x),
         Head(todo).kind # "start" => \A x \in Range(more) : ~SendsPassword(x)
  PROVE  ScriptInv' /\ PasswordsProtected'
<1>1. /\ IsScript(todo') /\ Range(todo') = Range(more) \cup Range(Tail(todo))
      /\ todo # << >> /\ Head(todo) \in Range(todo)
      /\ Range(todo) = {Head(todo)} \cup Range(Tail(todo))
  BY ProceedScript DEF ScriptInv
<1>2. /\ conn' = Connected(Head(todo)) /\ told' = told \cup {<<Head(todo).ask, answer>>}
      /\ answer \in Head(todo).ok /\ MayStart(Head(todo))
      /\ leaks' = IF Head(todo).kind = "password" THEN leaks \cup {Leak} ELSE leaks
  BY DEF Proceed
<1>3. \A x \in Range(todo') : Honest(x)
  BY <1>1 DEF ScriptInv
<1>4. /\ conn' \in [open: BOOLEAN, tls: BOOLEAN, limit: BOOLEAN]
      /\ conn.tls => conn'.tls
      /\ Encrypts(Head(todo)) => conn'.tls
  BY StaysEncrypted DEF ScriptInv
<1>5. Protected(monitor, conn'.tls, todo')
  <2> SUFFICES ASSUME NeedsTLS(monitor), NEW x \in Range(todo'), SendsPassword(x), ~conn'.tls
               PROVE  FALSE
    BY DEF Protected
  <2>1. ~conn.tls /\ Head(todo).kind # "tlsdial"
    BY <1>4 DEF Encrypts
  <2>2. Head(todo).kind # "start"
    BY <1>2, <2>1 DEF MayStart
  <2>3. x \in Range(todo)
    BY <1>1, <2>2
  <2> QED
    BY <2>1, <2>3 DEF ScriptInv, Protected
<1>6. ~Refuted'
  <2> SUFFICES ASSUME NEW a \in TLSAAnswers, <<"tlsa", a>> \in told',
                      a # {}, ~\E r \in a : VerifyDANE(r)
               PROVE  FALSE
    BY DEF Refuted
  <2>1. <<"tlsa", a>> \notin told
    BY DEF ScriptInv, Refuted
  <2>2. Head(todo).ask = "tlsa" /\ a = answer
    BY <1>2, <2>1
  <2>3. a \in DANE.ok
    BY <1>1, <1>2, <2>2 DEF ScriptInv, Honest
  <2> QED
    BY <2>3 DEF DANE, Step
<1>7. PasswordsProtected'
  BY <1>1, <1>2, LeaksProtected DEF SendsPassword
<1> QED
  BY <1>1, <1>3, <1>4, <1>5, <1>6, <1>7 DEF ScriptInv

\* ... and what it still owes.
LEMMA ProceedOwes ==
  ASSUME ScriptInv, NEW answer, NEW more, Proceed(answer, more), IsScript(more),
         more = Then(Head(todo), answer),
         NEW m, NEW family, Expected(m, family, conn.tls, told, todo)
  PROVE  Expected(m, family, conn'.tls, told', todo')
<1>1. /\ Range(todo') = Range(more) \cup Range(Tail(todo))
      /\ Range(todo) = {Head(todo)} \cup Range(Tail(todo))
  BY ProceedScript DEF ScriptInv
<1>2. /\ conn' = Connected(Head(todo)) /\ told' = told \cup {<<Head(todo).ask, answer>>}
      /\ answer \in Head(todo).ok
  BY DEF Proceed
<1>3. ASSUME NEW ask, NEW answers, Owes(told, todo, ask, answers)
      PROVE  Owes(told', todo', ask, answers)
  <2>1. CASE \E a \in answers : <<ask, a>> \in told
    BY <1>2, <2>1 DEF Owes
  <2>2. ASSUME NEW x \in Range(todo), Promises(x, ask, answers)
        PROVE  Owes(told', todo', ask, answers)
    <3>1. CASE x \in Range(Tail(todo))
      BY <1>1, <2>2, <3>1 DEF Owes, Asks
    <3>2. CASE x = Head(todo) /\ x.ask = ask /\ answer \in answers
      BY <1>2, <3>2 DEF Owes
    <3>3. CASE x = Head(todo) /\ ~(x.ask = ask /\ answer \in answers)
      <4>1. PICK y \in Range(more) : y.ask = ask /\ y.ok \subseteq answers
        BY <1>2, <2>2, <3>3 DEF Promises
      <4>2. Promises(y, ask, answers)
        BY <4>1 DEF Promises
      <4> QED
        BY <1>1, <4>2 DEF Owes, Asks
    <3> QED
      BY <1>1, <3>1, <3>2, <3>3
  <2> QED
    BY <1>3, <2>1, <2>2 DEF Owes, Asks
<1>4. (conn.tls \/ \E x \in Range(todo) : Encrypts(x)) =>
        (conn'.tls \/ \E x \in Range(todo') : Encrypts(x))
  <2>1. /\ conn.tls => conn'.tls
        /\ Encrypts(Head(todo)) => conn'.tls
    BY StaysEncrypted DEF ScriptInv
  <2> QED
    BY <1>1, <2>1
<1> QED
  BY <1>3, <1>4 DEF Expected

\* Check returns: the result is kept, and the next family's script begins.
LEMMA ReportKeeps ==
  ASSUME ChecksInv, phase = "check", NEW result, Report(result), PasswordsProtected'
  PROVE  ChecksInv'
<1>1. /\ IsScript(left) /\ left # << >> /\ monitor.driver \in Drivers /\ monitor' = monitor
      /\ left' = Tail(left) /\ conn' = Closed /\ told' = {} /\ monitor \in Monitors
  BY DEF ChecksInv, FamilyInv, Report
<1>2. /\ IsScript(left') /\ Range(left) = {Head(left)} \cup Range(left')
  BY <1>1, Remaining
<1>3. /\ DOMAIN results' = DOMAIN results \cup {Head(left)}
      /\ \A f \in DOMAIN results : results'[f] = results[f]
      /\ Head(left) \notin DOMAIN results => results'[Head(left)] = result
  BY DEF Report
<1>4. HeartbeatInv'
  BY <1>1 DEF HeartbeatInv, Said, Report, NoBeat
<1>5. \A i \in DOMAIN FamiliesOf(monitor') :
         FamiliesOf(monitor')[i] \in DOMAIN results' \cup Range(left')
  BY <1>1, <1>2, <1>3 DEF ChecksInv, FamilyInv
<1>6. conn' \in [open: BOOLEAN, tls: BOOLEAN, limit: BOOLEAN] /\ conn'.tls = FALSE
  BY <1>1 DEF Closed
<1>7. ~Refuted'
  BY <1>1 DEF Refuted
<1>8. CASE Len(left) = 1
  <2>1. phase' = "done" /\ todo' = << >>
    BY <1>8 DEF Report
  <2>2. left' = << >>
    BY <1>1, <1>8 DEF IsScript
  <2>3. ScriptInv'
    BY <1>6, <1>7, <2>1, ShortScripts DEF ScriptInv, Protected
  <2>4. FamilyInv'
    BY <1>2, <1>5, <2>1, <2>2 DEF FamilyInv
  <2> QED
    BY <1>1, <1>4, <2>1, <2>3, <2>4 DEF ChecksInv
<1>9. CASE Len(left) # 1
  <2>1. phase' = "check" /\ todo' = createFamilyDriver(monitor, left[2])
    BY <1>9 DEF Report
  <2>2. left' # << >> /\ Head(left') = left[2]
    <3>1. Len(left) \in Nat /\ Len(left) # 0
      BY <1>1 DEF IsScript
    <3>2. /\ Len(Tail(left)) = Len(left) - 1
          /\ \A i \in 1..Len(Tail(left)) : Tail(left)[i] = left[i + 1]
      BY <1>1, HeadTailProperties DEF IsScript
    <3>3. Len(left') > 0 /\ left'[1] = left[2]
      BY <1>1, <1>9, <3>1, <3>2
    <3> QED
      BY <1>2, <3>3 DEF IsScript
  <2>3. /\ IsScript(todo') /\ \A x \in Range(todo') : Honest(x)
        /\ Protected(monitor, FALSE, todo')
        /\ Expected(monitor, left[2], FALSE, {}, todo')
    BY <1>1, <2>1, NewScript
  <2>4. ScriptInv'
    BY <1>1, <1>6, <1>7, <2>1, <2>3 DEF ScriptInv
  <2>5. FamilyInv'
    BY <1>1, <1>2, <1>5, <2>1, <2>2 DEF FamilyInv
  <2> QED
    BY <1>1, <1>4, <1>6, <2>1, <2>2, <2>3, <2>4, <2>5 DEF ChecksInv
<1> QED
  BY <1>8, <1>9

\* Every return of Check.
Returns ==
  \/ Refused \/ Broken \/ Deadline \/ Succeeds \/ Cancelled \/ GiveUpSession
  \/ Waiting("session") /\ Report("failure") /\ UNCHANGED leaks

\* A result is a success only after the whole script.
LEMMA ReturnsReport ==
  ASSUME ChecksInv, Returns
  PROVE  /\ phase = "check" /\ PasswordsProtected'
         /\ \E result : /\ Report(result)
                        /\ result = "success" => Met(monitor, Head(left))
<1>1. CASE Refused
  <2>1. /\ Report("failure") /\ UNCHANGED monitor
        /\ \E answer \in Head(todo).all : Refusal(answer)
    BY <1>1 DEF Refused, Report
  <2>2. Head(todo) \in Range(todo) /\ todo # << >> /\ phase = "check"
    BY <1>1, Remaining DEF Refused, Checking, ChecksInv, ScriptInv
  <2>3. PasswordsProtected'
    BY <2>1, <2>2, LeaksProtected DEF Refusal, ChecksInv, SendsPassword
  <2> QED
    BY <2>1, <2>2, <2>3
<1>2. CASE Succeeds
  <2>1. phase = "check" /\ Report("success") /\ UNCHANGED <<leaks, monitor>> /\ todo = << >>
    BY <1>2 DEF Succeeds, Checking, Report
  <2>2. Met(monitor, Head(left))
    BY <2>1, NothingOwed DEF ChecksInv, ScriptInv, FamilyInv, HeartbeatInv
  <2>3. PasswordsProtected'
    BY <2>1 DEF ChecksInv, PasswordsProtected
  <2> QED
    BY <2>1, <2>2, <2>3
<1>3. CASE Returns /\ ~Refused /\ ~Succeeds
  <2>1. phase = "check" /\ UNCHANGED <<leaks, monitor>> /\ Report("failure")
    BY <1>3 DEF Returns, Broken, Deadline, Cancelled, GiveUpSession, Waiting, Checking, Report
  <2>2. PasswordsProtected'
    BY <2>1 DEF ChecksInv, PasswordsProtected
  <2> QED
    BY <2>1, <2>2
<1> QED
  BY <1>1, <1>2, <1>3

\* What a check does between its creation and its result.
GoesOn ==
  \/ Answer \/ LookupEnds
  \/ /\ Waiting("session") /\ Proceed("ok", << >>)
     /\ UNCHANGED <<monitor, phase, left, results, beat>>

LEMMA GoesOnKeeps ==
  ASSUME ChecksInv, GoesOn
  PROVE  ChecksInv' /\ UNCHANGED <<monitor, phase, left, results>>
<1>1. UNCHANGED <<monitor, phase, left, results, beat>> /\ phase = "check" /\ todo # << >>
  BY DEF GoesOn, Answer, LookupEnds, Waiting, Checking, backgroundVars
<1>2. Honest(Head(todo))
  BY <1>1, Remaining DEF ChecksInv, ScriptInv
<1>3. PICK answer : Proceed(answer, Then(Head(todo), answer))
  <2>1. CASE Answer
    BY <2>1 DEF Answer
  <2>2. CASE ~Answer
    <3>1. /\ Head(todo).kind \in {"lookup", "session"}
          /\ Proceed({}, << >>) \/ Proceed("ok", << >>)
      <4>1. CASE LookupEnds
        BY <4>1 DEF LookupEnds, Waiting
      <4>2. CASE Waiting("session") /\ Proceed("ok", << >>)
        BY <4>2 DEF Waiting
      <4> QED
        BY <2>2, <4>1, <4>2 DEF GoesOn
    <3>2. \A a : Then(Head(todo), a) = << >>
      BY <3>1 DEF Then
    <3> QED
      BY <3>1, <3>2
  <2> QED
    BY <2>1, <2>2
<1> DEFINE more == Then(Head(todo), answer)
<1>4. /\ IsScript(more) /\ \A x \in Range(more) : Honest(x)
      /\ Head(todo).kind # "start" => \A x \in Range(more) : ~SendsPassword(x)
  BY <1>2, ThenSteps
<1>5. HeartbeatInv'
  <2> SUFFICES ASSUME monitor.driver = "mongodb", Said("hello", {"primary", "secondary"})'
               PROVE  beat.answered /\ ~beat.failed
    BY <1>1 DEF ChecksInv, HeartbeatInv
  <2>1. told' = told \cup {<<Head(todo).ask, answer>>}
    BY <1>3 DEF Proceed
  <2>2. CASE Said("hello", {"primary", "secondary"})
    BY <2>2 DEF ChecksInv, HeartbeatInv
  <2>3. CASE ~Said("hello", {"primary", "secondary"})
    <3>1. Head(todo).ask = "hello"
      BY <2>1, <2>3 DEF Said
    <3>2. Head(todo).kind = "ask"
      BY <1>2, <3>1 DEF Honest
    <3>3. Answer
      BY <3>2 DEF GoesOn, LookupEnds, Waiting
    <3> QED
      BY <3>2, <3>3 DEF Answer, Selected
  <2> QED
    BY <2>2, <2>3
<1> HIDE DEF more
<1>6. more = Then(Head(todo), answer) /\ Proceed(answer, more)
  BY <1>3 DEF more
<1>7. ScriptInv' /\ PasswordsProtected'
  BY <1>1, <1>4, <1>6, ProceedKeeps DEF ChecksInv
<1>8. Expected(monitor, Head(left), conn'.tls, told', todo')
  BY <1>1, <1>4, <1>6, ProceedOwes DEF ChecksInv
<1>9. FamilyInv'
  BY <1>1 DEF ChecksInv, FamilyInv
<1> QED
  BY <1>1, <1>5, <1>7, <1>8, <1>9 DEF ChecksInv

\* Steps of the server and of the goroutines beside the check.
LEMMA OthersKeep ==
  ASSUME ChecksInv, LoginChallenge \/ OpenSession \/ Background \/ UNCHANGED vars
  PROVE  ChecksInv' /\ UNCHANGED <<monitor, phase, left, results>>
<1>1. UNCHANGED <<monitor, phase, left, results, todo, conn, told>>
  BY DEF LoginChallenge, Challenge, OpenSession, Background, HeartbeatSucceeds, HeartbeatFails,
         SessionOpens, SessionFails, CloseLate, OnlySessions, vars, talkVars
<1>2. PasswordsProtected'
  <2>1. CASE LoginChallenge
    <3>1. todo # << >> /\ SendsPassword(Head(todo)) /\ leaks' \in {leaks, leaks \cup {Leak}}
      BY <2>1 DEF LoginChallenge, Challenge, SendsPassword
    <3> QED
      BY <1>1, <3>1, LeaksProtected DEF ChecksInv
  <2>2. CASE ~LoginChallenge
    <3>1. UNCHANGED leaks
      BY <2>2 DEF OpenSession, Background, HeartbeatSucceeds, HeartbeatFails,
         SessionOpens, SessionFails, CloseLate, OnlySessions, vars, talkVars
    <3> QED
      BY <1>1, <3>1 DEF ChecksInv, PasswordsProtected
  <2> QED
    BY <2>1, <2>2
<1>3. ScriptInv'
  BY <1>1 DEF ChecksInv, ScriptInv, Refuted
<1>4. FamilyInv'
  BY <1>1 DEF ChecksInv, FamilyInv
<1>5. HeartbeatInv'
  <2>1. Said("hello", {"primary", "secondary"})' <=> Said("hello", {"primary", "secondary"})
    BY <1>1 DEF Said
  <2>2. beat' \in {beat, [beat EXCEPT !.answered = TRUE]}
        \/ (~beat.answered /\ beat' = [beat EXCEPT !.failed = TRUE])
    <3>1. CASE LoginChallenge \/ OpenSession \/ UNCHANGED vars
      BY <3>1 DEF LoginChallenge, OpenSession, OnlySessions, vars, backgroundVars
    <3>2. CASE Background
      BY <3>2 DEF Background, HeartbeatSucceeds, HeartbeatFails, SessionOpens, SessionFails,
                  CloseLate, OnlySessions
    <3> QED
      BY <3>1, <3>2
  <2> QED
    BY <1>1, <2>1, <2>2 DEF ChecksInv, HeartbeatInv
<1> QED
  BY <1>1, <1>2, <1>3, <1>4, <1>5 DEF ChecksInv

LEMMA CreateKeeps ==
  ASSUME ChecksInv, CreateDriver
  PROVE  ChecksInv' /\ UNCHANGED results
<1>1. /\ phase = "create" /\ UNCHANGED <<conn, told, leaks, monitor, results>>
      /\ conn = Closed /\ told = {} /\ monitor \in Monitors /\ beat' = beat
  BY DEF CreateDriver, ChecksInv, ScriptInv, backgroundVars
<1>2. PasswordsProtected' /\ HeartbeatInv' /\ ~Refuted'
  BY <1>1 DEF ChecksInv, PasswordsProtected, HeartbeatInv, Said, ScriptInv, Refuted
<1>3. conn' \in [open: BOOLEAN, tls: BOOLEAN, limit: BOOLEAN] /\ conn'.tls = FALSE
  BY <1>1 DEF Closed
<1>4. CASE CreateFails(monitor)
  <2>1. phase' = "setup" /\ UNCHANGED <<left, todo>>
    BY <1>4 DEF CreateDriver
  <2> QED
    BY <1>1, <1>2, <1>3, <2>1 DEF ChecksInv, ScriptInv, FamilyInv
<1>5. CASE ~CreateFails(monitor)
  <2>1. /\ phase' = "check" /\ left' = FamiliesOf(monitor)
        /\ todo' = createFamilyDriver(monitor, left'[1]) /\ monitor.driver \in Drivers
    BY <1>5 DEF CreateDriver, CreateFails
  <2>2. IsScript(left') /\ left' # << >> /\ Head(left') = left'[1]
    <3>1. (\E a : left' = <<a>>) \/ \E a, b : left' = <<a, b>>
      BY <2>1 DEF FamiliesOf
    <3>2. IsScript(left')
      BY <3>1, ShortScripts
    <3> QED
      BY <3>1, <3>2 DEF IsScript
  <2>3. \A i \in DOMAIN FamiliesOf(monitor) : FamiliesOf(monitor)[i] \in Range(left')
    BY <2>1 DEF Range
  <2>4. /\ IsScript(todo') /\ \A x \in Range(todo') : Honest(x)
        /\ Protected(monitor, FALSE, todo')
        /\ Expected(monitor, left'[1], FALSE, {}, todo')
    BY <1>1, <2>1, NewScript
  <2>5. ScriptInv'
    BY <1>1, <1>2, <1>3, <2>1, <2>4 DEF ScriptInv
  <2>6. FamilyInv'
    BY <1>1, <2>1, <2>2, <2>3 DEF FamilyInv
  <2> QED
    BY <1>1, <1>2, <1>3, <2>1, <2>2, <2>4, <2>5, <2>6 DEF ChecksInv
<1> QED
  BY <1>1, <1>4, <1>5

\* What EarnedSuccess says of a step.
Earned ==
  /\ \A f \in DOMAIN results' \ DOMAIN results : results'[f] = "success" => Met(monitor, f)
  /\ phase' = "done" /\ Verdict' =>
       \A i \in DOMAIN FamiliesOf(monitor) :
          /\ FamiliesOf(monitor)[i] \in DOMAIN results'
          /\ results'[FamiliesOf(monitor)[i]] = "success"

\* Every step keeps ChecksInv and earns what it reports.
LEMMA CheckStep == ChecksInv /\ [Next]_vars => ChecksInv' /\ Earned
<1> SUFFICES ASSUME ChecksInv, [Next]_vars PROVE ChecksInv' /\ Earned
  OBVIOUS
<1>1. ASSUME ChecksInv', UNCHANGED monitor
      PROVE  phase' = "done" /\ Verdict' =>
               \A i \in DOMAIN FamiliesOf(monitor) :
                  /\ FamiliesOf(monitor)[i] \in DOMAIN results'
                  /\ results'[FamiliesOf(monitor)[i]] = "success"
  <2>1. phase' = "done" => Range(left') = {}
    BY <1>1, ShortScripts DEF ChecksInv, FamilyInv
  <2>2. Verdict' => \A f \in DOMAIN results' : results'[f] = "success"
    BY DEF Verdict
  <2> QED
    BY <1>1, <2>1, <2>2 DEF ChecksInv, FamilyInv
<1>2. ASSUME Returns PROVE ChecksInv' /\ Earned
  <2>1. PICK result : /\ Report(result)
                      /\ result = "success" => Met(monitor, Head(left))
    BY <1>2, ReturnsReport
  <2>2. ChecksInv'
    BY <1>2, <2>1, ReturnsReport, ReportKeeps
  <2>3. \A f \in DOMAIN results' \ DOMAIN results : f = Head(left) /\ results'[f] = result
    BY <2>1 DEF Report
  <2>4. UNCHANGED monitor
    BY <2>1 DEF Report
  <2> QED
    BY <1>1, <2>1, <2>2, <2>3, <2>4 DEF Earned
<1>3. ASSUME GoesOn PROVE ChecksInv' /\ Earned
  BY <1>1, <1>3, GoesOnKeeps DEF Earned
<1>4. ASSUME LoginChallenge \/ OpenSession \/ Background \/ UNCHANGED vars
      PROVE  ChecksInv' /\ Earned
  BY <1>1, <1>4, OthersKeep DEF Earned
<1>5. ASSUME CreateDriver PROVE ChecksInv' /\ Earned
  <2>1. ChecksInv' /\ UNCHANGED <<results, monitor>>
    BY <1>5, CreateKeeps DEF CreateDriver
  <2> QED
    BY <1>1, <2>1 DEF Earned
<1>6. TakeSession => Returns \/ GoesOn
  BY DEF TakeSession, Returns, GoesOn
<1> QED
  BY <1>2, <1>3, <1>4, <1>5, <1>6 DEF Next, Returns, GoesOn

\* ChecksInv holds of every check that can be reached: of every monitor, with
\* every driver, against every server.
THEOREM ChecksInvariant == Spec => []ChecksInv
<1>1. Init => ChecksInv
  <2> SUFFICES ASSUME Init PROVE ChecksInv
    OBVIOUS
  <2>1. /\ todo = << >> /\ conn = Closed /\ told = {} /\ leaks = {} /\ monitor \in Monitors
        /\ phase = "create" /\ left = << >> /\ results = << >> /\ beat = NoBeat
    BY DEF Init, TalkInit
  <2>2. ScriptInv
    BY <2>1, ShortScripts DEF ScriptInv, Protected, Refuted, Closed
  <2>3. FamilyInv
    BY <2>1, ShortScripts DEF FamilyInv
  <2> QED
    BY <2>1, <2>2, <2>3 DEF ChecksInv, PasswordsProtected, HeartbeatInv, Said, NoBeat
<1> QED
  BY <1>1, CheckStep, PTL DEF Spec

\* A check's password leaves in the clear only where the monitor configures a
\* protocol without TLS, never for SMTP (smtpAuth.Start), and never after a
\* certificate that the TLSA records refute.
THEOREM PasswordsStayProtected == Spec => []PasswordsProtected
BY ChecksInvariant, PTL DEF ChecksInv

\* Check returns success only after the server has given every answer that the
\* monitor expects of it (Expectations), for every driver and option, over TLS where
\* that is asked for and, for MongoDB, with a heartbeat that has succeeded and none
\* that has cancelled the check; and the verdict on a monitor of both families is a
\* success only when the checks of both are (bothFamiliesDriver).
THEOREM SuccessIsEarned == Spec => EarnedSuccess
BY ChecksInvariant, CheckStep, PTL DEF Spec, EarnedSuccess, Earned
=============================================================================
