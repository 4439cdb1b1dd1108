---------------------------- MODULE NotifierProofs ----------------------------
(***************************************************************************)
(* A send delivers what it reports, once, over protected connections, for  *)
(* every notifier: NotifiersInv, and the proofs.                           *)
(***************************************************************************)
EXTENDS Notifiers, ConversationProofs

(***************************************************************************)
(* What a running send still guarantees.  Its script takes the alert once  *)
(* and for good, sends no password in the clear where TLS is asked for,    *)
(* and reaches MAIL only behind a step that ends in AUTH.                  *)
(***************************************************************************)
\* How the steps are made that the invariant tells apart.
WellMade(x) ==
  /\ x.kind = "start" <=> x = AuthStart
  /\ x.ask = "mechanisms" => x = AuthStart
  /\ x.ask = "auth" => x.ok = {"ok"}
  /\ x.ask = "no auth" => x.ok = {}
  /\ x.kind = "deliver" => x.ok = {"2xx"}
  /\ x.kind = "pipeline" => x.ok = {}

Delivers(x) == x.kind = "deliver"
NeedsTLS(n) == n.kind = "email" \/ Has(n, "tls")

\* The script s, on a connection with TLS or without it.
Protected(n, tls, s) ==
  NeedsTLS(n) /\ (\E x \in Range(s) : SendsPassword(x)) => tls \/ Head(s).kind = "tlsdial"

OneDelivery(s) ==
  \A i, j \in DOMAIN s : Delivers(s[i]) /\ Delivers(s[j]) => i = j

\* The steps that end in AUTH or end the send.
LeadsToAuth(x) == x.ask \in {"ehlo", "ehlo over tls", "mechanisms", "auth", "no auth"}
MailGuarded(s) ==
  \A i \in DOMAIN s : s[i].ask = "mail" => \E j \in 1..(i - 1) : LeadsToAuth(s[j])

ScriptInv ==
  /\ IsScript(todo) /\ \A x \in Range(todo) : WellMade(x)
  /\ conn \in [open: BOOLEAN, tls: BOOLEAN, limit: BOOLEAN]
  /\ Protected(notifier, conn.tls, todo)
  /\ IsSMTP(notifier) /\ Authenticated(notifier) =>
       <<"auth", "ok">> \in told \/ MailGuarded(todo)

\* The alert is taken at a step still to come, or has been; what a send has
\* delivered more than the failures before it, it has delivered itself.
DeliveryInv ==
  /\ copies \in Nat /\ failed \in Nat /\ OneDelivery(todo)
  /\ phase \in {"create", "setup", "sent", "send"}
  /\ phase \in {"create", "setup", "send"} => outcome # "ok"
  /\ phase = "send" =>
       IF notifier.kind = "valkey" THEN \E x \in Range(todo) : x.kind = "pipeline"
       ELSE copies >= 1 \/ \E x \in Range(todo) : Delivers(x)
  /\ IF notifier.kind = "valkey" THEN \A x \in Range(todo) : ~Delivers(x)
     ELSE \A x \in Range(todo) : x.kind # "pipeline"
  /\ phase = "send" => ~Skips(notifier, alert)
  /\ ~Replays(notifier) /\ copies > failed =>
       /\ copies = failed + 1
       /\ outcome = "ok" \/ (phase = "send" /\ \A x \in Range(todo) : ~Delivers(x))

\* No reply read so far is an error, and a sample that is reported has all its
\* replies read.
PipeInv ==
  /\ pipe \in [written: Nat, run: Nat, errors: SUBSET Nat, read: Nat]
  /\ pipe.read <= pipe.run /\ pipe.run <= pipe.written /\ pipe.written <= Len(Pipeline)
  /\ \A k \in 1..pipe.read : k \notin pipe.errors
  /\ notifier.kind = "valkey" /\ outcome = "ok" /\ alert # "change" =>
       pipe.read = Len(Pipeline)

NotifiersInv ==
  /\ notifier \in Configs /\ alert \in Statuses
  /\ ScriptInv /\ DeliveryInv /\ PipeInv /\ AcknowledgedIsTaken /\ MailIsAuthenticated

-----------------------------------------------------------------------------
(* The notifiers' scripts.                                                 *)

\* What every send begins with.
GoodScript(n, s) ==
  /\ IsScript(s) /\ \A x \in Range(s) : WellMade(x)
  /\ Protected(n, FALSE, s) /\ OneDelivery(s)
  /\ IF n.kind = "valkey"
       THEN (\E x \in Range(s) : x.kind = "pipeline") /\ \A x \in Range(s) : ~Delivers(x)
       ELSE (\E x \in Range(s) : Delivers(x)) /\ \A x \in Range(s) : x.kind # "pipeline"
  /\ IsSMTP(n) => MailGuarded(s)

LEMMA WellMadeSteps ==
  /\ WellMade(Dial) /\ WellMade(DialTLS) /\ WellMade(StartTLS) /\ WellMade(Limit)
  /\ WellMade(AuthStart) /\ WellMade(AuthPlain) /\ WellMade(AuthLogin)
  /\ WellMade(Ehlo) /\ WellMade(EhloAgain) /\ WellMade(NoAuthOffered)
  /\ \A ask : ask \notin {"mechanisms", "auth", "no auth"} => WellMade(Ask(ask))
  /\ \A ask, all : ask \notin {"mechanisms", "auth", "no auth"} =>
       WellMade(Step("deliver", ask, all, {"2xx"}))
<1> USE DEF WellMade, Step
<1>1. WellMade(Dial) /\ WellMade(DialTLS) /\ WellMade(StartTLS) /\ WellMade(Limit)
  BY DEF Dial, DialTLS, StartTLS, Limit, AuthStart
<1>2. WellMade(AuthStart) /\ WellMade(AuthPlain) /\ WellMade(AuthLogin)
  BY DEF AuthStart, AuthPlain, AuthLogin
<1>3. WellMade(Ehlo) /\ WellMade(EhloAgain) /\ WellMade(NoAuthOffered)
  BY DEF AuthStart, Ehlo, EhloAgain, AskFor, NoAuthOffered, Look
<1>4. \A ask : ask \notin {"mechanisms", "auth", "no auth"} => WellMade(Ask(ask))
  BY DEF Ask, AuthStart
<1>5. \A ask, all : ask \notin {"mechanisms", "auth", "no auth"} =>
        WellMade(Step("deliver", ask, all, {"2xx"}))
  BY DEF AuthStart
<1> QED
  BY <1>1, <1>2, <1>3, <1>4, <1>5

\* An HTTP request and SES: the alert is the last step.
LEMMA RequestScripts ==
  ASSUME NEW n, n.kind # "valkey", ~IsSMTP(n)
  PROVE  GoodScript(n, HTTPSend) /\ GoodScript(n, SendSES)
<1> DEFINE post == Step("deliver", "post", HTTPStatus, {"2xx"})
           config == Ask("config")
           mail == Step("deliver", "send email", {"2xx", "4xx", "5xx"}, {"2xx"})
<1>1. /\ WellMade(Limit) /\ WellMade(post) /\ WellMade(config) /\ WellMade(mail)
  BY WellMadeSteps
<1>2. /\ Delivers(post) /\ Delivers(mail) /\ ~Delivers(Limit) /\ ~Delivers(config)
      /\ ~SendsPassword(post) /\ ~SendsPassword(mail) /\ ~SendsPassword(Limit)
      /\ ~SendsPassword(config)
      /\ \A x \in {post, mail, Limit, config} : x.kind # "pipeline"
  BY DEF Delivers, SendsPassword, Limit, Ask, Step
<1>3. HTTPSend = <<Limit, post>> /\ SendSES = <<Limit, config, mail>>
  BY DEF HTTPSend, SendSES
<1> HIDE DEF post, config, mail
<1>4. /\ IsScript(<<Limit, post>>) /\ Range(<<Limit, post>>) = {Limit, post}
      /\ IsScript(<<Limit, config, mail>>)
      /\ Range(<<Limit, config, mail>>) = {Limit, config, mail}
  BY ShortScripts
<1>5. OneDelivery(<<Limit, post>>) /\ OneDelivery(<<Limit, config, mail>>)
  BY <1>2 DEF OneDelivery
<1> QED
  BY <1>1, <1>2, <1>3, <1>4, <1>5 DEF GoodScript, Protected

\* A script of ten steps, as sendMail's.
LEMMA TenSteps ==
  ASSUME NEW a1, NEW a2, NEW a3, NEW a4, NEW a5, NEW a6, NEW a7, NEW a8, NEW a9, NEW a10,
         NEW s, s = <<a1, a2, a3, a4, a5, a6, a7, a8, a9, a10>>
  PROVE  /\ IsScript(s) /\ DOMAIN s = 1..10
         /\ s[1] = a1 /\ s[2] = a2 /\ s[3] = a3 /\ s[4] = a4 /\ s[5] = a5
         /\ s[6] = a6 /\ s[7] = a7 /\ s[8] = a8 /\ s[9] = a9 /\ s[10] = a10
<1>1. /\ DOMAIN s = 1..10
      /\ s[1] = a1 /\ s[2] = a2 /\ s[3] = a3 /\ s[4] = a4 /\ s[5] = a5
      /\ s[6] = a6 /\ s[7] = a7 /\ s[8] = a8 /\ s[9] = a9 /\ s[10] = a10
  OBVIOUS
<1>2. s \in Seq({a1, a2, a3, a4, a5, a6, a7, a8, a9, a10})
  OBVIOUS
<1>3. {a1, a2, a3, a4, a5, a6, a7, a8, a9, a10} \subseteq Range(s)
  BY <1>1 DEF Range
<1> QED
  BY <1>1, <1>2, <1>3, SeqMonotonic DEF IsScript

LEMMA MailScript ==
  ASSUME NEW n, n.kind # "valkey"
  PROVE  GoodScript(n, sendMail(n))
<1> DEFINE done == Step("deliver", "end of data", {"2xx", "5xx"}, {"2xx"})
           asks == [greeting |-> Ask("greeting"), mail |-> Ask("mail"), rcpt |-> Ask("rcpt"),
                    data |-> Ask("data"), quit |-> Ask("quit")]
<1>1. PICK s : s = <<Dial, Limit, asks.greeting, Ehlo, asks.mail, asks.rcpt, asks.rcpt,
                     asks.data, done, asks.quit>>
  OBVIOUS
<1>2. s = sendMail(n)
  BY <1>1 DEF sendMail
<1>3. /\ asks.greeting.kind = "ask" /\ asks.greeting.ask = "greeting"
      /\ asks.mail.kind = "ask" /\ asks.mail.ask = "mail"
      /\ asks.rcpt.kind = "ask" /\ asks.rcpt.ask = "rcpt"
      /\ asks.data.kind = "ask" /\ asks.data.ask = "data"
      /\ asks.quit.kind = "ask" /\ asks.quit.ask = "quit"
  BY DEF Ask, Step
<1>4. /\ Dial.kind = "dial" /\ Dial.ask = "dial" /\ Limit.kind = "limit" /\ Limit.ask = "limit"
      /\ Ehlo.kind = "ask" /\ Ehlo.ask = "ehlo" /\ done.kind = "deliver"
      /\ done.ask = "end of data"
  BY DEF Dial, Limit, Ehlo, AskFor, Step
<1>5. /\ WellMade(Dial) /\ WellMade(Limit) /\ WellMade(Ehlo) /\ WellMade(done)
      /\ WellMade(asks.greeting) /\ WellMade(asks.mail) /\ WellMade(asks.rcpt)
      /\ WellMade(asks.data) /\ WellMade(asks.quit)
  BY WellMadeSteps
<1> HIDE DEF done, asks
<1>6. /\ IsScript(s) /\ DOMAIN s = 1..10 /\ s[1] = Dial /\ s[2] = Limit
      /\ s[3] = asks.greeting /\ s[4] = Ehlo /\ s[5] = asks.mail /\ s[6] = asks.rcpt
      /\ s[7] = asks.rcpt /\ s[8] = asks.data /\ s[9] = done /\ s[10] = asks.quit
  BY <1>1, TenSteps
<1>7. ASSUME NEW i \in 1..10
      PROVE  /\ WellMade(s[i]) /\ ~SendsPassword(s[i])
             /\ Delivers(s[i]) => i = 9
             /\ s[i].kind # "pipeline"
             /\ s[i].ask = "mail" => i = 5
  <2>1. i = 1 \/ i = 2 \/ i = 3 \/ i = 4 \/ i = 5 \/ i = 6 \/ i = 7 \/ i = 8 \/ i = 9 \/ i = 10
    OBVIOUS
  <2>2. CASE i \in {1, 2, 3, 4, 5}
    BY <1>3, <1>4, <1>5, <1>6, <2>2 DEF Delivers, SendsPassword
  <2>3. CASE i \in {6, 7, 8, 9, 10}
    BY <1>3, <1>4, <1>5, <1>6, <2>3 DEF Delivers, SendsPassword
  <2> QED
    BY <2>1, <2>2, <2>3
<1>8. \A x \in Range(s) : WellMade(x) /\ ~SendsPassword(x) /\ x.kind # "pipeline"
  BY <1>6, <1>7 DEF Range
<1>9. OneDelivery(s)
  BY <1>6, <1>7 DEF OneDelivery
<1>10. \E x \in Range(s) : Delivers(x)
  <2>1. Delivers(done)
    BY <1>4 DEF Delivers
  <2>2. 9 \in DOMAIN s /\ s[9] = done
    BY <1>6
  <2> QED
    BY <2>1, <2>2 DEF Range
<1>11. MailGuarded(s)
  <2>1. LeadsToAuth(s[4])
    BY <1>4, <1>6 DEF LeadsToAuth
  <2> SUFFICES ASSUME NEW i \in DOMAIN s, s[i].ask = "mail"
               PROVE  \E j \in 1..(i - 1) : LeadsToAuth(s[j])
    BY DEF MailGuarded
  <2>2. 4 \in 1..(i - 1)
    BY <1>6, <1>7
  <2> QED
    BY <2>1, <2>2
<1>12. GoodScript(n, s)
  BY <1>6, <1>8, <1>9, <1>10, <1>11 DEF GoodScript, Protected
<1> QED
  BY <1>2, <1>12

LEMMA ValkeyScript ==
  ASSUME NEW n, n.kind = "valkey"
  PROVE  GoodScript(n, ValkeySend(n))
<1> DEFINE
      auth == Step("password", "auth", {"ok", "no"}, {"ok"})
      pipeline == Step("pipeline", "pipeline", {}, {})
      dial == IF Has(n, "tls") THEN <<DialTLS>> ELSE <<Dial>>
      limit == <<Limit>>
      login == When(n.secret \in {"password", "both"}, <<auth>>)
      select == When(Has(n, "db"), <<Ask("select")>>)
      last == <<pipeline>>
<1>1. /\ IsScript(dial) /\ Range(dial) = IF Has(n, "tls") THEN {DialTLS} ELSE {Dial}
      /\ Has(n, "tls") => Head(dial) = DialTLS
      /\ dial # << >>
  <2>1. CASE Has(n, "tls")
    BY <2>1, ShortScripts
  <2>2. CASE ~Has(n, "tls")
    BY <2>2, ShortScripts
  <2> QED
    BY <2>1, <2>2
<1>2. /\ IsScript(limit) /\ Range(limit) = {Limit}
      /\ IsScript(last) /\ Range(last) = {pipeline}
  BY ShortScripts
<1>3. /\ IsScript(login) /\ Range(login) \subseteq {auth}
      /\ IsScript(select) /\ Range(select) \subseteq {Ask("select")}
  BY ShortScripts, Optional
<1>4. /\ WellMade(Dial) /\ WellMade(DialTLS) /\ WellMade(Limit) /\ WellMade(Ask("select"))
      /\ WellMade(auth) /\ WellMade(pipeline)
  <2>1. WellMade(auth) /\ WellMade(pipeline)
    BY DEF WellMade, Step, AuthStart
  <2> QED
    BY <2>1, WellMadeSteps
<1>5. /\ DialTLS.kind = "tlsdial" /\ Dial.kind = "dial" /\ Limit.kind = "limit"
      /\ Ask("select").kind = "ask" /\ auth.kind = "password" /\ pipeline.kind = "pipeline"
  BY DEF DialTLS, Dial, Limit, Ask, Step
<1>6. ValkeySend(n) = dial \o limit \o login \o select \o last
  BY DEF ValkeySend
<1> HIDE DEF auth, pipeline, dial, limit, login, select, last
<1>7. PICK s : s = dial \o limit \o login \o select \o last
  OBVIOUS
<1>8. /\ IsScript(dial \o limit) /\ IsScript(dial \o limit \o login)
      /\ IsScript(dial \o limit \o login \o select) /\ IsScript(s)
      /\ Range(s) = Range(dial) \cup Range(limit) \cup Range(login) \cup Range(select)
                    \cup Range(last)
  <2>1. IsScript(dial \o limit) /\ Range(dial \o limit) = Range(dial) \cup Range(limit)
    BY <1>1, <1>2, Concatenated
  <2>2. /\ IsScript(dial \o limit \o login)
        /\ Range(dial \o limit \o login) = Range(dial \o limit) \cup Range(login)
    BY <1>3, <2>1, Concatenated
  <2>3. /\ IsScript(dial \o limit \o login \o select)
        /\ Range(dial \o limit \o login \o select) =
             Range(dial \o limit \o login) \cup Range(select)
    BY <1>3, <2>2, Concatenated
  <2>4. IsScript(s) /\ Range(s) = Range(dial \o limit \o login \o select) \cup Range(last)
    BY <1>2, <1>7, <2>3, Concatenated
  <2> QED
    BY <2>1, <2>2, <2>3, <2>4
<1>9. Head(s) = Head(dial)
  BY <1>1, <1>2, <1>3, <1>7, <1>8, FirstStays
<1>10. \A x \in Range(s) : x \in {DialTLS, Dial, Limit, auth, Ask("select"), pipeline}
  BY <1>1, <1>2, <1>3, <1>8
<1>11. \A x \in Range(s) : WellMade(x) /\ ~Delivers(x)
  BY <1>4, <1>5, <1>10 DEF Delivers
<1>12. \E x \in Range(s) : x.kind = "pipeline"
  BY <1>2, <1>5, <1>8
<1>13. Protected(n, FALSE, s)
  BY <1>1, <1>5, <1>9 DEF Protected, NeedsTLS
<1>14. OneDelivery(s)
  BY <1>11 DEF OneDelivery, Range
<1>15. GoodScript(n, s)
  BY <1>8, <1>11, <1>12, <1>13, <1>14 DEF GoodScript, IsSMTP
<1> QED
  BY <1>6, <1>7, <1>15

LEMMA NewScript ==
  ASSUME NEW n \in Configs
  PROVE  GoodScript(n, Script(n))
<1>1. n.kind \in Kinds
  BY NotifiersAssumption
<1>2. CASE n.kind \in {"slack", "discord", "webhook"}
  <2>1. Script(n) = HTTPSend
    BY <1>2 DEF Script
  <2> QED
    BY <1>2, <2>1, RequestScripts DEF IsSMTP
<1>3. CASE n.kind = "email"
  <2>1. Script(n) = IF Has(n, "ses") THEN SendSES ELSE sendMail(n)
    BY <1>3 DEF Script
  <2> QED
    BY <1>3, <2>1, RequestScripts, MailScript DEF IsSMTP
<1>4. CASE n.kind = "valkey"
  <2>1. Script(n) = ValkeySend(n)
    BY <1>4 DEF Script
  <2> QED
    BY <1>4, <2>1, ValkeyScript
<1> QED
  BY <1>1, <1>2, <1>3, <1>4 DEF Kinds

-----------------------------------------------------------------------------
(* The steps of a send.                                                    *)

\* The steps that may follow an answer.
LEMMA ThenSteps ==
  ASSUME NEW step, NEW answer, WellMade(step)
  PROVE  LET more == Then(step, answer) IN
         /\ IsScript(more)
         /\ \A x \in Range(more) : WellMade(x) /\ ~Delivers(x) /\ x.kind # "pipeline" /\ x.ask # "mail"
         /\ step.kind # "start" => \A x \in Range(more) : ~SendsPassword(x)
         /\ step.ask \in {"ehlo", "ehlo over tls", "mechanisms"} /\ Authenticated(notifier) =>
              \E x \in Range(more) : LeadsToAuth(x)
<1> DEFINE more == Then(step, answer)
           known == {StartTLS, EhloAgain, AuthStart, NoAuthOffered, AuthPlain, AuthLogin}
<1>1. /\ \A x \in known : WellMade(x)
      /\ \A x \in known : ~Delivers(x) /\ x.kind # "pipeline" /\ x.ask # "mail"
      /\ \A x \in {StartTLS, EhloAgain, AuthStart, NoAuthOffered} : ~SendsPassword(x)
      /\ \A x \in {EhloAgain, AuthStart, NoAuthOffered, AuthPlain, AuthLogin} : LeadsToAuth(x)
  <2>1. \A x \in known : WellMade(x)
    BY WellMadeSteps
  <2>2. /\ StartTLS.kind = "starttls" /\ EhloAgain.kind = "ask" /\ AuthStart.kind = "start"
        /\ NoAuthOffered.kind = "look" /\ AuthPlain.kind = "password" /\ AuthLogin.kind = "login"
        /\ StartTLS.ask = "starttls" /\ EhloAgain.ask = "ehlo over tls"
        /\ AuthStart.ask = "mechanisms" /\ NoAuthOffered.ask = "no auth"
        /\ AuthPlain.ask = "auth" /\ AuthLogin.ask = "auth"
    BY DEF StartTLS, EhloAgain, AskFor, AuthStart, NoAuthOffered, Look, AuthPlain, AuthLogin, Step
  <2> QED
    BY <2>1, <2>2 DEF Delivers, SendsPassword, LeadsToAuth
<1>2. /\ \A a \in known : IsScript(<<a>>) /\ Range(<<a>>) = {a}
      /\ IsScript(<<StartTLS, EhloAgain>>)
      /\ Range(<<StartTLS, EhloAgain>>) = {StartTLS, EhloAgain}
      /\ IsScript(<< >>) /\ Range(<< >>) = {}
  BY ShortScripts
<1>3. AuthStart.ask = "mechanisms" /\ AuthStart.kind = "start"
  BY DEF AuthStart, Step
<1>4. CASE step.kind = "start"
  <2>1. step.ask = "mechanisms"
    BY <1>3, <1>4 DEF WellMade
  <2>2. more = AfterStart(answer)
    BY <1>4, <2>1 DEF Then
  <2>3. AfterStart(answer) = <<AuthPlain>> \/ AfterStart(answer) = <<AuthLogin>>
    BY DEF AfterStart
  <2> QED
    BY <1>1, <1>2, <1>4, <2>2, <2>3
<1>5. ASSUME step.ask \in {"ehlo", "ehlo over tls"}
      PROVE  step.kind # "start"
  BY <1>3, <1>5 DEF WellMade
<1>6. \A extensions :
         Authenticate(notifier, extensions) =
           IF ~Authenticated(notifier) THEN << >>
           ELSE IF "AUTH" \in extensions THEN <<AuthStart>> ELSE <<NoAuthOffered>>
  BY DEF Authenticate, When
<1>7. CASE step.ask \in {"ehlo", "ehlo over tls"}
  <2>1. more = <<StartTLS, EhloAgain>> \/ more = Authenticate(notifier, answer)
    BY <1>5, <1>7 DEF Then
  <2>2. \/ more = <<StartTLS, EhloAgain>> \/ more = <<AuthStart>> \/ more = <<NoAuthOffered>>
        \/ more = << >> /\ ~Authenticated(notifier)
    BY <1>6, <2>1
  <2>3. step.ask # "mechanisms" /\ step.kind # "start"
    BY <1>5, <1>7
  <2> HIDE DEF more
  <2>4. CASE more = <<StartTLS, EhloAgain>>
    BY <1>1, <1>2, <2>4 DEF more
  <2>5. CASE more = <<AuthStart>> \/ more = <<NoAuthOffered>>
    BY <1>1, <1>2, <2>5 DEF more
  <2>6. CASE more = << >> /\ ~Authenticated(notifier)
    BY <1>2, <2>6 DEF more
  <2> QED
    BY <2>2, <2>4, <2>5, <2>6
<1>8. CASE step.kind # "start" /\ step.ask \notin {"ehlo", "ehlo over tls"}
  <2>1. more = << >>
    BY <1>8 DEF Then
  <2>2. step.ask # "mechanisms"
    BY <1>3, <1>8 DEF WellMade
  <2> QED
    BY <1>2, <1>8, <2>1, <2>2
<1> QED
  BY <1>4, <1>7, <1>8

\* A password leaves only from a step that sends one.
LEMMA LeaksProtected ==
  ASSUME ScriptInv, todo # << >>, UNCHANGED notifier,
         \A p \in leaks : NeedsTLS(notifier) => p.tls,
         \/ leaks' = leaks
         \/ leaks' = leaks \cup {Leak} /\ SendsPassword(Head(todo))
  PROVE  \A p \in leaks' : NeedsTLS(notifier) => p.tls
<1>1. CASE leaks' = leaks
  BY <1>1
<1>2. CASE leaks' = leaks \cup {Leak} /\ SendsPassword(Head(todo))
  <2>1. Head(todo) \in Range(todo)
    BY Remaining DEF ScriptInv
  <2>2. NeedsTLS(notifier) => conn.tls
    BY <1>2, <2>1 DEF ScriptInv, Protected, SendsPassword
  <2>3. Leak.tls = conn.tls
    BY DEF Leak
  <2> QED
    BY <1>2, <2>2, <2>3
<1> QED
  BY <1>1, <1>2

\* The answers told keep MAIL behind AUTH.
MailAfterAuth(said) ==
  IsSMTP(notifier) /\ Authenticated(notifier) /\ <<"mail", "ok">> \in said =>
    <<"auth", "ok">> \in said

\* A step moves towards AUTH, and MAIL stays behind it.
LEMMA StaysGuarded ==
  ASSUME ScriptInv, NEW answer, Proceed(answer, Then(Head(todo), answer)),
         Authenticated(notifier), MailGuarded(todo)
  PROVE  <<"auth", "ok">> \in told' \/ MailGuarded(todo')
<1> DEFINE more == Then(Head(todo), answer)
<1>1. IsScript(todo) /\ todo # << >> /\ Head(todo) \in Range(todo) /\ Head(todo) = todo[1]
  BY Remaining DEF ScriptInv, Proceed
<1>2. WellMade(Head(todo))
  BY <1>1 DEF ScriptInv
<1>3. /\ IsScript(more) /\ \A x \in Range(more) : x.ask # "mail"
      /\ Head(todo).ask \in {"ehlo", "ehlo over tls", "mechanisms"} =>
           \E x \in Range(more) : LeadsToAuth(x)
  BY <1>2, ThenSteps
<1>4. Proceed(answer, more)
  OBVIOUS
<1> HIDE DEF more
<1>5. /\ Len(more) \in Nat /\ Len(todo) \in Nat /\ Len(todo) > 0
      /\ DOMAIN todo = 1..Len(todo) /\ DOMAIN more = 1..Len(more)
      /\ DOMAIN todo' = 1..(Len(more) + Len(todo) - 1)
      /\ \A i \in 1..Len(more) : todo'[i] = more[i]
      /\ \A i \in 2..Len(todo) : todo'[Len(more) + i - 1] = todo[i]
  BY <1>1, <1>3, <1>4, ProceedMoves
<1>6. answer \in Head(todo).ok /\ told' = told \cup {<<Head(todo).ask, answer>>}
  BY DEF Proceed
<1>7. CASE Head(todo).ask \in {"auth", "no auth"}
  <2>1. Head(todo).ask = "auth" /\ answer = "ok"
    BY <1>2, <1>6, <1>7 DEF WellMade
  <2> QED
    BY <1>6, <2>1
<1>8. CASE Head(todo).ask \notin {"auth", "no auth"}
  <2> SUFFICES ASSUME NEW i \in DOMAIN todo', todo'[i].ask = "mail"
               PROVE  \E j \in 1..(i - 1) : LeadsToAuth(todo'[j])
    BY DEF MailGuarded
  <2>1. ~(i \in 1..Len(more))
    BY <1>3, <1>5 DEF Range
  <2>2. \E k \in 2..Len(todo) : i = Len(more) + k - 1
    <3>1. i - Len(more) + 1 \in 2..Len(todo) /\ Len(more) + (i - Len(more) + 1) - 1 = i
      BY <1>5, <2>1
    <3> QED
      BY <3>1
  <2>3. PICK k \in 2..Len(todo) : i = Len(more) + k - 1
    BY <2>2
  <2>6. k \in DOMAIN todo /\ todo[k].ask = "mail"
    BY <1>5, <2>3
  <2>4. CASE Head(todo).ask \in {"ehlo", "ehlo over tls", "mechanisms"}
    <3>1. PICK j \in 1..Len(more) : LeadsToAuth(more[j])
      BY <1>3, <1>5, <2>4 DEF Range
    <3>2. j \in 1..(i - 1) /\ todo'[j] = more[j]
      BY <1>5, <2>1
    <3> QED
      BY <3>1, <3>2
  <2>5. CASE Head(todo).ask \notin {"ehlo", "ehlo over tls", "mechanisms"}
    <3>1. PICK j \in 1..(k - 1) : LeadsToAuth(todo[j])
      BY <2>6 DEF MailGuarded
    <3>2. j # 1
      BY <1>1, <1>8, <2>5, <3>1 DEF LeadsToAuth
    <3>3. j \in 2..Len(todo) /\ Len(more) + j - 1 \in 1..(i - 1)
      BY <1>5, <2>3, <3>1, <3>2
    <3>4. todo'[Len(more) + j - 1] = todo[j]
      BY <1>5, <3>3
    <3> QED
      BY <3>1, <3>3, <3>4
  <2> QED
    BY <2>4, <2>5
<1> QED
  BY <1>7, <1>8

\* An answer the code goes on with keeps the script's guarantees.
LEMMA ProceedKeeps ==
  ASSUME ScriptInv, UNCHANGED notifier, NEW answer, Proceed(answer, Then(Head(todo), answer)),
         MailAfterAuth(told)
  PROVE  ScriptInv' /\ MailAfterAuth(told')
<1> DEFINE more == Then(Head(todo), answer)
<1>1. IsScript(todo) /\ todo # << >> /\ Head(todo) \in Range(todo) /\ Head(todo) = todo[1]
      /\ 1 \in DOMAIN todo
  BY Remaining DEF ScriptInv, Proceed, IsScript
<1>2. WellMade(Head(todo))
  BY <1>1 DEF ScriptInv
<1>3. /\ IsScript(more) /\ \A x \in Range(more) : WellMade(x)
      /\ Head(todo).kind # "start" => \A x \in Range(more) : ~SendsPassword(x)
  BY <1>2, ThenSteps
<1>4. Proceed(answer, more)
  OBVIOUS
<1>5. /\ answer \in Head(todo).ok /\ MayStart(Head(todo))
      /\ told' = told \cup {<<Head(todo).ask, answer>>}
  BY DEF Proceed
<1> HIDE DEF more
<1>6. /\ IsScript(todo') /\ Range(todo') = Range(more) \cup Range(Tail(todo))
      /\ Range(todo) = {Head(todo)} \cup Range(Tail(todo))
  BY <1>1, <1>3, <1>4, ProceedScript
<1>7. \A x \in Range(todo') : WellMade(x)
  BY <1>3, <1>6 DEF ScriptInv
<1>8. /\ conn' \in [open: BOOLEAN, tls: BOOLEAN, limit: BOOLEAN]
      /\ conn.tls => conn'.tls
      /\ Encrypts(Head(todo)) => conn'.tls
  BY StaysEncrypted DEF ScriptInv
<1>9. Protected(notifier, conn'.tls, todo')
  <2> SUFFICES ASSUME NeedsTLS(notifier), NEW x \in Range(todo'), SendsPassword(x), ~conn'.tls
               PROVE  FALSE
    BY DEF Protected
  <2>1. ~conn.tls /\ Head(todo).kind # "tlsdial"
    BY <1>8 DEF Encrypts
  <2>2. Head(todo).kind # "start"
    BY <1>5, <2>1 DEF MayStart
  <2>3. x \in Range(todo)
    BY <1>3, <1>6, <2>2
  <2> QED
    BY <2>1, <2>3 DEF ScriptInv, Protected
<1>10. IsSMTP(notifier) /\ Authenticated(notifier) =>
         <<"auth", "ok">> \in told' \/ MailGuarded(todo')
  <2>1. CASE <<"auth", "ok">> \in told
    BY <1>5, <2>1
  <2>2. CASE <<"auth", "ok">> \notin told
    BY <2>2, StaysGuarded DEF ScriptInv
  <2> QED
    BY <2>1, <2>2
<1>11. MailAfterAuth(told')
  <2> SUFFICES ASSUME IsSMTP(notifier), Authenticated(notifier), <<"mail", "ok">> \in told',
                      <<"auth", "ok">> \notin told
               PROVE  FALSE
    BY <1>5 DEF MailAfterAuth
  <2>1. Head(todo).ask = "mail"
    BY <1>5 DEF MailAfterAuth
  <2>2. \E j \in 1..(1 - 1) : LeadsToAuth(todo[j])
    BY <1>1, <2>1 DEF ScriptInv, MailGuarded
  <2> QED
    BY <2>2
<1> QED
  BY <1>6, <1>7, <1>8, <1>9, <1>10, <1>11 DEF ScriptInv

\* Only the one delivery takes the alert, and then there is none to come.
LEMMA ProceedDelivers ==
  ASSUME ScriptInv, OneDelivery(todo), NEW answer, Proceed(answer, Then(Head(todo), answer))
  PROVE  /\ OneDelivery(todo')
         /\ \A x \in Range(todo') : Delivers(x) \/ x.kind = "pipeline" => x \in Range(todo)
         /\ Delivers(Head(todo)) => answer = "2xx" /\ \A x \in Range(todo') : ~Delivers(x)
         /\ \A x \in Range(todo) : x.ok = {} \/ x # Head(todo) => x \in Range(todo')
<1> DEFINE more == Then(Head(todo), answer)
<1>1. IsScript(todo) /\ todo # << >> /\ Head(todo) \in Range(todo) /\ Head(todo) = todo[1]
  BY Remaining DEF ScriptInv, Proceed
<1>2. WellMade(Head(todo))
  BY <1>1 DEF ScriptInv
<1>3. IsScript(more) /\ \A x \in Range(more) : ~Delivers(x) /\ x.kind # "pipeline"
  BY <1>2, ThenSteps
<1>4. Proceed(answer, more) /\ answer \in Head(todo).ok
  BY DEF Proceed
<1> HIDE DEF more
<1>5. /\ Len(more) \in Nat /\ Len(todo) \in Nat /\ Len(todo) > 0
      /\ DOMAIN todo = 1..Len(todo) /\ DOMAIN more = 1..Len(more)
      /\ DOMAIN todo' = 1..(Len(more) + Len(todo) - 1)
      /\ \A i \in 1..Len(more) : todo'[i] = more[i]
      /\ \A i \in 2..Len(todo) : todo'[Len(more) + i - 1] = todo[i]
  BY <1>1, <1>3, <1>4, ProceedMoves
<1>6. /\ Range(todo') = Range(more) \cup Range(Tail(todo))
      /\ Range(todo) = {Head(todo)} \cup Range(Tail(todo))
  BY <1>1, <1>3, <1>4, ProceedScript
<1>7. ASSUME NEW i \in DOMAIN todo', Delivers(todo'[i])
      PROVE  \E k \in 2..Len(todo) : i = Len(more) + k - 1 /\ todo[k] = todo'[i]
  <2>1. ~(i \in 1..Len(more))
    BY <1>3, <1>5, <1>7 DEF Range
  <2>2. i - Len(more) + 1 \in 2..Len(todo) /\ Len(more) + (i - Len(more) + 1) - 1 = i
    BY <1>5, <2>1
  <2> QED
    BY <1>5, <2>2
<1>8. OneDelivery(todo')
  <2> SUFFICES ASSUME NEW i \in DOMAIN todo', NEW j \in DOMAIN todo',
                      Delivers(todo'[i]), Delivers(todo'[j])
               PROVE  i = j
    BY DEF OneDelivery
  <2>1. PICK k \in 2..Len(todo) : i = Len(more) + k - 1 /\ todo[k] = todo'[i]
    BY <1>7
  <2>2. PICK l \in 2..Len(todo) : j = Len(more) + l - 1 /\ todo[l] = todo'[j]
    BY <1>7
  <2>3. k = l
    BY <1>5, <2>1, <2>2 DEF OneDelivery
  <2> QED
    BY <2>1, <2>2, <2>3
<1>9. ASSUME Delivers(Head(todo)), NEW x \in Range(todo'), Delivers(x) PROVE FALSE
  <2>1. PICK i \in DOMAIN todo' : x = todo'[i]
    BY DEF Range
  <2>2. PICK k \in 2..Len(todo) : todo[k] = todo'[i]
    BY <1>7, <1>9, <2>1
  <2>3. k = 1
    BY <1>1, <1>5, <1>9, <2>1, <2>2 DEF OneDelivery
  <2> QED
    BY <2>2, <2>3
<1>10. Delivers(Head(todo)) => answer = "2xx"
  BY <1>2, <1>4 DEF Delivers, WellMade
<1> QED
  BY <1>3, <1>4, <1>6, <1>8, <1>9, <1>10


-----------------------------------------------------------------------------
(* The pipeline.                                                           *)

\* Every command of every dashboard has its place in the pipeline.
LEMMA PipelineCovers ==
  /\ Len(Pipeline) \in Nat /\ Len(Pipeline) > 0
  /\ \A d \in Range(Dashboards), i \in DOMAIN Commands :
       \E k \in 1..Len(Pipeline) : Pipeline[k] = <<d, Commands[i]>>
<1>1. Len(Commands) = 7 /\ DOMAIN Commands = 1..7
  BY DEF Commands
<1>2. /\ Len(Dashboards) \in Nat /\ Len(Dashboards) > 0
      /\ DOMAIN Dashboards = 1..Len(Dashboards)
  BY NotifiersAssumption
<1>3. PICK n : n = Len(Dashboards) * Len(Commands)
  OBVIOUS
<1>4. n \in Nat /\ n = Len(Dashboards) * 7 /\ n > 0
  BY <1>1, <1>2, <1>3
<1>5. /\ DOMAIN Pipeline = 1..n
      /\ \A k \in 1..n : Pipeline[k] = <<Dashboards[1 + ((k - 1) \div 7)],
                                         Commands[1 + ((k - 1) % 7)]>>
  BY <1>1, <1>3 DEF Pipeline
<1>6. Len(Pipeline) = n
  <2>1. Pipeline = [k \in 1..n |-> <<Dashboards[1 + ((k - 1) \div 7)],
                                     Commands[1 + ((k - 1) % 7)]>>]
    BY <1>1, <1>3 DEF Pipeline
  <2> QED
    BY <1>4, <2>1
<1>7. ASSUME NEW d \in Range(Dashboards), NEW i \in DOMAIN Commands
      PROVE  \E k \in 1..n : Pipeline[k] = <<d, Commands[i]>>
  <2>1. PICK p \in 1..Len(Dashboards) : d = Dashboards[p]
    BY <1>2 DEF Range
  <2>2. i \in 1..7
    BY <1>1
  <2>3. PICK k : k = (p - 1) * 7 + i
    OBVIOUS
  <2>4. k \in 1..n /\ (k - 1) \div 7 = p - 1 /\ (k - 1) % 7 = i - 1
    <3>1. PICK q \in Nat : q = p - 1
      BY <1>2
    <3>2. PICK r \in 0..6 : r = i - 1
      BY <2>2
    <3>3. k - 1 = q * 7 + r /\ q + 1 <= Len(Dashboards)
      BY <1>2, <2>3, <3>1, <3>2
    <3>4. (q * 7 + r) \div 7 = q /\ (q * 7 + r) % 7 = r
      OBVIOUS
    <3>5. k \in 1..n
      <4>1. k = q * 7 + r + 1
        BY <1>2, <2>2, <2>3, <3>1, <3>2
      <4> QED
        BY <1>2, <1>4, <3>3, <4>1
    <3> QED
      BY <3>1, <3>2, <3>3, <3>4, <3>5
  <2>5. 1 + ((k - 1) \div 7) = p /\ 1 + ((k - 1) % 7) = i
    BY <2>1, <2>2, <2>4
  <2> QED
    BY <1>5, <2>1, <2>4, <2>5
<1> QED
  BY <1>4, <1>6, <1>7

-----------------------------------------------------------------------------
(* Each action keeps NotifiersInv.                                         *)

\* The receiver takes the alert once in a send, unless the client replays.
LEMMA TakesOnce ==
  ASSUME NotifiersInv, Sending, NEW answer, Takes(answer)
  PROVE  /\ copies' \in Nat /\ copies' >= copies
         /\ ~Delivers(Head(todo)) => copies' = copies
         /\ Delivers(Head(todo)) /\ answer = "2xx" => copies' = copies + 1
         /\ ~Replays(notifier) => copies' <= failed + 1
         /\ ~Replays(notifier) /\ Delivers(Head(todo)) => copies <= failed
<1>1. /\ copies \in Nat /\ failed \in Nat /\ phase = "send" /\ outcome # "ok"
      /\ Head(todo) \in Range(todo)
  BY Remaining DEF NotifiersInv, DeliveryInv, ScriptInv, Sending
<1>2. copies' = copies \/ copies' = copies + 1
  BY DEF Takes
<1>3. Delivering <=> Delivers(Head(todo))
  BY DEF Delivering, Delivers
<1>4. ~Delivers(Head(todo)) => copies' = copies
  BY <1>3 DEF Takes
<1>5. Delivers(Head(todo)) /\ answer = "2xx" => copies' = copies + 1
  BY <1>3 DEF Takes
<1>6. ~Replays(notifier) => copies <= failed + 1
  BY DEF NotifiersInv, AcknowledgedIsTaken
<1>7. ~Replays(notifier) /\ Delivers(Head(todo)) => copies <= failed
  <2>1. ~Replays(notifier) /\ copies > failed => \A x \in Range(todo) : ~Delivers(x)
    BY <1>1 DEF NotifiersInv, DeliveryInv
  <2> QED
    BY <1>1, <2>1
<1> QED
  BY <1>1, <1>2, <1>4, <1>5, <1>6, <1>7

\* A send that ends.
LEMMA ReturnKeeps ==
  ASSUME NotifiersInv, NEW result, Return(result), MailIsAuthenticated', PipeInv',
         copies' \in Nat, ~Replays(notifier) => copies' <= failed + 1,
         result = "ok" /\ ~Skips(notifier, alert) /\ notifier.kind # "valkey" => copies' >= 1
  PROVE  NotifiersInv'
<1>1. /\ notifier' = notifier /\ alert' = alert /\ phase' = "sent" /\ outcome' = result
      /\ todo' = << >> /\ conn' = Closed
      /\ failed' = IF result = "ok" THEN failed ELSE failed + 1
  BY DEF Return
<1>2. IsScript(todo') /\ Range(todo') = {} /\ DOMAIN todo' = {}
  <2>1. DOMAIN todo' = {}
    BY <1>1
  <2> QED
    BY <1>1, <2>1, ShortScripts
<1>3. ScriptInv'
  <2>1. conn' \in [open: BOOLEAN, tls: BOOLEAN, limit: BOOLEAN]
    BY <1>1 DEF Closed
  <2>2. Protected(notifier, conn'.tls, todo')
    BY <1>2 DEF Protected
  <2>3. MailGuarded(todo')
    BY <1>2 DEF MailGuarded
  <2> QED
    BY <1>1, <1>2, <2>1, <2>2, <2>3 DEF ScriptInv
<1>4. failed \in Nat
  BY DEF NotifiersInv, DeliveryInv
<1>5. ~Replays(notifier) /\ copies' > failed' => copies' = failed' + 1 /\ result = "ok"
  BY <1>1, <1>4
<1>6. OneDelivery(todo')
  BY <1>2 DEF OneDelivery
<1>7. DeliveryInv'
  BY <1>1, <1>2, <1>4, <1>5, <1>6 DEF DeliveryInv
<1>8. AcknowledgedIsTaken'
  <2>1. ~Replays(notifier) => copies' <= failed' + 1
    BY <1>1, <1>4
  <2> QED
    BY <1>1, <2>1 DEF AcknowledgedIsTaken
<1> QED
  BY <1>1, <1>3, <1>7, <1>8 DEF NotifiersInv

\* A send that ends otherwise than well.
LEMMA FailureKeeps ==
  ASSUME NotifiersInv, Sending, NEW answer, Takes(answer), Return(Classify(notifier, answer)),
         UNCHANGED <<told, pipe>>,
         \/ leaks' = leaks
         \/ leaks' = leaks \cup {Leak} /\ SendsPassword(Head(todo))
  PROVE  NotifiersInv'
<1>1. Classify(notifier, answer) # "ok"
  BY DEF Classify
<1>2. /\ notifier' = notifier /\ alert' = alert /\ outcome' # "ok" /\ told' = told /\ pipe' = pipe
  BY <1>1 DEF Return
<1>3. MailIsAuthenticated'
  <2>1. \A p \in leaks : NeedsTLS(notifier) => p.tls
    BY DEF NotifiersInv, MailIsAuthenticated, NeedsTLS
  <2>2. \A p \in leaks' : NeedsTLS(notifier) => p.tls
    BY <1>2, <2>1, LeaksProtected DEF NotifiersInv, Sending
  <2> QED
    BY <1>2, <2>2 DEF NotifiersInv, MailIsAuthenticated, NeedsTLS
<1>4. PipeInv'
  BY <1>2 DEF NotifiersInv, PipeInv
<1>5. copies' \in Nat /\ (~Replays(notifier) => copies' <= failed + 1)
  BY TakesOnce
<1> QED
  BY <1>1, <1>3, <1>4, <1>5, ReturnKeeps

LEMMA RefusedKeeps ==
  ASSUME NotifiersInv, Refused \/ Broken \/ Deadline
  PROVE  NotifiersInv'
<1>1. CASE Refused
  <2>1. PICK answer : Refusal(answer) /\ Return(Classify(notifier, answer)) /\ Takes(answer)
    BY <1>1 DEF Refused
  <2>2. \/ leaks' = leaks
        \/ leaks' = leaks \cup {Leak} /\ SendsPassword(Head(todo))
    BY <2>1 DEF Refusal, SendsPassword
  <2> QED
    BY <1>1, <2>1, <2>2, FailureKeeps DEF Refused
<1>2. CASE Broken \/ Deadline
  BY <1>2, FailureKeeps DEF Broken, Deadline
<1> QED
  BY <1>1, <1>2

LEMMA FinishKeeps ==
  ASSUME NotifiersInv, Finish
  PROVE  NotifiersInv'
<1>1. /\ phase = "send" /\ todo = << >> /\ Return("ok") /\ copies' = copies
      /\ told' = told /\ leaks' = leaks /\ pipe' = pipe
  BY DEF Finish
<1>2. Range(todo) = {}
  BY <1>1, ShortScripts
<1>3. notifier.kind # "valkey" /\ copies >= 1
  BY <1>1, <1>2 DEF NotifiersInv, DeliveryInv
<1>4. notifier' = notifier /\ alert' = alert
  BY <1>1 DEF Return
<1>5. MailIsAuthenticated' /\ PipeInv'
  BY <1>1, <1>3, <1>4 DEF NotifiersInv, MailIsAuthenticated, PipeInv
<1>6. copies' \in Nat /\ (~Replays(notifier) => copies' <= failed + 1)
  BY <1>1 DEF NotifiersInv, DeliveryInv, AcknowledgedIsTaken
<1> QED
  BY <1>1, <1>3, <1>5, <1>6, ReturnKeeps

LEMMA AnswerKeeps ==
  ASSUME NotifiersInv, Answer
  PROVE  NotifiersInv'
<1>1. PICK answer : Proceed(answer, Then(Head(todo), answer)) /\ Takes(answer)
  BY DEF Answer
<1>2. /\ Sending /\ notifier' = notifier /\ alert' = alert /\ phase' = phase
      /\ outcome' = outcome /\ failed' = failed /\ pipe' = pipe /\ phase = "send"
  BY DEF Answer, Sending
<1>3. ScriptInv /\ MailAfterAuth(told) /\ OneDelivery(todo) /\ outcome # "ok"
  BY <1>2 DEF NotifiersInv, MailIsAuthenticated, MailAfterAuth, DeliveryInv
<1>4. ScriptInv' /\ MailAfterAuth(told')
  BY <1>1, <1>2, <1>3, ProceedKeeps
<1>5. /\ OneDelivery(todo')
      /\ \A x \in Range(todo') : Delivers(x) \/ x.kind = "pipeline" => x \in Range(todo)
      /\ Delivers(Head(todo)) => answer = "2xx" /\ \A x \in Range(todo') : ~Delivers(x)
      /\ \A x \in Range(todo) : x.ok = {} \/ x # Head(todo) => x \in Range(todo')
  BY <1>1, <1>3, ProceedDelivers
<1>6. /\ copies' \in Nat /\ copies' >= copies
      /\ ~Delivers(Head(todo)) => copies' = copies
      /\ Delivers(Head(todo)) /\ answer = "2xx" => copies' = copies + 1
      /\ ~Replays(notifier) => copies' <= failed + 1
      /\ ~Replays(notifier) /\ Delivers(Head(todo)) => copies <= failed
  BY <1>1, <1>2, TakesOnce
<1>7. MailIsAuthenticated'
  <2>1. \A p \in leaks : NeedsTLS(notifier) => p.tls
    BY DEF NotifiersInv, MailIsAuthenticated, NeedsTLS
  <2>2. \/ leaks' = leaks
        \/ leaks' = leaks \cup {Leak} /\ SendsPassword(Head(todo))
    BY <1>1 DEF Proceed, SendsPassword
  <2>3. \A p \in leaks' : NeedsTLS(notifier) => p.tls
    BY <1>2, <1>3, <2>1, <2>2, LeaksProtected DEF Sending
  <2> QED
    BY <1>2, <1>4, <2>3 DEF MailIsAuthenticated, MailAfterAuth, NeedsTLS
<1>8. DeliveryInv'
  <2>1. failed \in Nat /\ copies \in Nat
    BY DEF NotifiersInv, DeliveryInv
  <2>2. IF notifier.kind = "valkey" THEN \E x \in Range(todo') : x.kind = "pipeline"
        ELSE copies' >= 1 \/ \E x \in Range(todo') : Delivers(x)
    <3>1. CASE notifier.kind = "valkey"
      <4>1. PICK x \in Range(todo) : x.kind = "pipeline"
        BY <1>2, <3>1 DEF NotifiersInv, DeliveryInv
      <4>2. x.ok = {}
        BY <1>3, <4>1 DEF ScriptInv, WellMade
      <4> QED
        BY <1>5, <3>1, <4>1, <4>2
    <3>2. CASE notifier.kind # "valkey" /\ copies >= 1
      BY <1>6, <2>1, <3>2
    <3>3. CASE notifier.kind # "valkey" /\ ~(copies >= 1)
      <4>1. PICK x \in Range(todo) : Delivers(x)
        BY <1>2, <3>3 DEF NotifiersInv, DeliveryInv
      <4>2. CASE x = Head(todo)
        BY <1>5, <1>6, <2>1, <3>3, <4>1, <4>2
      <4>3. CASE x # Head(todo)
        BY <1>5, <3>3, <4>1, <4>3
      <4> QED
        BY <4>2, <4>3
    <3> QED
      BY <3>1, <3>2, <3>3
  <2>3. IF notifier.kind = "valkey" THEN \A x \in Range(todo') : ~Delivers(x)
        ELSE \A x \in Range(todo') : x.kind # "pipeline"
    BY <1>5 DEF NotifiersInv, DeliveryInv
  <2>4. ASSUME ~Replays(notifier), copies' > failed
        PROVE  copies' = failed + 1 /\ \A x \in Range(todo') : ~Delivers(x)
    <3>1. copies' = failed + 1
      BY <1>6, <2>1, <2>4
    <3>2. CASE Delivers(Head(todo))
      BY <1>5, <3>1, <3>2
    <3>3. CASE ~Delivers(Head(todo))
      <4>1. copies > failed
        BY <1>6, <2>4, <3>3
      <4>2. \A x \in Range(todo) : ~Delivers(x)
        BY <1>3, <2>4, <4>1 DEF NotifiersInv, DeliveryInv
      <4> QED
        BY <1>5, <3>1, <4>2
    <3> QED
      BY <3>2, <3>3
  <2>5. ~Skips(notifier, alert)
    BY <1>2 DEF NotifiersInv, DeliveryInv
  <2> QED
    BY <1>2, <1>3, <1>5, <1>6, <2>1, <2>2, <2>3, <2>4, <2>5 DEF DeliveryInv
<1>9. PipeInv' /\ AcknowledgedIsTaken'
  BY <1>2, <1>3, <1>6 DEF NotifiersInv, PipeInv, AcknowledgedIsTaken
<1> QED
  BY <1>2, <1>4, <1>7, <1>8, <1>9 DEF NotifiersInv

LEMMA ReplayKeeps ==
  ASSUME NotifiersInv, Replay
  PROVE  NotifiersInv'
<1>1. /\ Sending /\ Delivers(Head(todo)) /\ Replays(notifier) /\ Takes("error")
      /\ told' = told \cup {<<"post", "replayed">>}
      /\ todo' = todo /\ conn' = conn /\ leaks' = leaks /\ notifier' = notifier
      /\ alert' = alert /\ phase' = phase /\ outcome' = outcome /\ failed' = failed
      /\ pipe' = pipe
  BY DEF Replay, Delivering, Delivers
<1>2. copies' \in Nat /\ copies' >= copies /\ copies \in Nat
  BY <1>1, TakesOnce DEF NotifiersInv, DeliveryInv
<1>3. ScriptInv'
  BY <1>1 DEF NotifiersInv, ScriptInv
<1>4. <<"mail", "ok">> # <<"post", "replayed">>
  OBVIOUS
<1>5. MailIsAuthenticated'
  BY <1>1, <1>4 DEF NotifiersInv, MailIsAuthenticated
<1>6. copies >= 1 => copies' >= 1
  BY <1>2
<1>7. DeliveryInv'
  BY <1>1, <1>2, <1>6 DEF NotifiersInv, DeliveryInv
<1>8. PipeInv' /\ AcknowledgedIsTaken'
  BY <1>1, <1>2, <1>6 DEF NotifiersInv, PipeInv, AcknowledgedIsTaken
<1> QED
  BY <1>1, <1>3, <1>5, <1>7, <1>8 DEF NotifiersInv

LEMMA LoginKeeps ==
  ASSUME NotifiersInv, LoginChallenge
  PROVE  NotifiersInv'
<1>1. /\ todo # << >> /\ todo' = todo /\ conn' = conn /\ told' = told /\ notifier' = notifier
      /\ alert' = alert /\ phase' = phase /\ outcome' = outcome /\ copies' = copies
      /\ failed' = failed /\ pipe' = pipe
      /\ Head(todo).kind = "login"
      /\ leaks' = leaks \/ leaks' = leaks \cup {Leak}
  BY DEF LoginChallenge, Challenge
<1>2. MailIsAuthenticated'
  <2>1. \A p \in leaks : NeedsTLS(notifier) => p.tls
    BY DEF NotifiersInv, MailIsAuthenticated, NeedsTLS
  <2>2. SendsPassword(Head(todo))
    BY <1>1 DEF SendsPassword
  <2>3. \A p \in leaks' : NeedsTLS(notifier) => p.tls
    BY <1>1, <2>1, <2>2, LeaksProtected DEF NotifiersInv
  <2> QED
    BY <1>1, <2>3 DEF NotifiersInv, MailIsAuthenticated, NeedsTLS
<1>3. ScriptInv' /\ DeliveryInv' /\ PipeInv' /\ AcknowledgedIsTaken'
  BY <1>1 DEF NotifiersInv, ScriptInv, DeliveryInv, PipeInv, AcknowledgedIsTaken
<1> QED
  BY <1>1, <1>2, <1>3 DEF NotifiersInv

LEMMA CreateKeeps ==
  ASSUME NotifiersInv, CreateNotifier
  PROVE  NotifiersInv'
<1>1. /\ phase = "create" /\ phase' \in {"setup", "sent"} /\ outcome # "ok"
      /\ todo' = todo /\ conn' = conn /\ told' = told /\ leaks' = leaks
      /\ notifier' = notifier /\ alert' = alert /\ outcome' = outcome
      /\ copies' = copies /\ failed' = failed /\ pipe' = pipe
  BY DEF CreateNotifier, talkVars, NotifiersInv, DeliveryInv
<1>2. DeliveryInv'
  BY <1>1 DEF NotifiersInv, DeliveryInv
<1>3. ScriptInv' /\ PipeInv' /\ AcknowledgedIsTaken' /\ MailIsAuthenticated'
  BY <1>1 DEF NotifiersInv, ScriptInv, PipeInv, AcknowledgedIsTaken, MailIsAuthenticated
<1> QED
  BY <1>1, <1>2, <1>3 DEF NotifiersInv

LEMMA SendKeeps ==
  ASSUME NotifiersInv, SendAlert
  PROVE  NotifiersInv'
<1>1. /\ phase = "sent" /\ outcome # "ok" /\ told' = {} /\ pipe' = NoPipe
      /\ leaks' = leaks /\ copies' = copies /\ notifier' = notifier /\ alert' = alert
  BY DEF SendAlert, Return
<1>2. MailIsAuthenticated'
  BY <1>1 DEF NotifiersInv, MailIsAuthenticated
<1>3. NoPipe \in [written: Nat, run: Nat, errors: SUBSET Nat, read: Nat]
  BY DEF NoPipe
<1>4. /\ notifier.kind = "valkey" /\ Skips(notifier, alert) => alert = "change"
      /\ copies \in Nat /\ failed \in Nat
  BY DEF Skips, NotifiersInv, DeliveryInv
<1>5. ASSUME outcome' = "ok" => Skips(notifier, alert)
      PROVE  PipeInv'
  <2>1. NoPipe.read = 0 /\ NoPipe.run = 0 /\ NoPipe.written = 0
    BY DEF NoPipe
  <2>2. \A k \in 1..NoPipe.read : k \notin NoPipe.errors
    BY <2>1
  <2>3. NoPipe.read <= NoPipe.run /\ NoPipe.run <= NoPipe.written
        /\ NoPipe.written <= Len(Pipeline)
    BY <2>1, PipelineCovers
  <2> QED
    BY <1>1, <1>3, <1>4, <1>5, <2>2, <2>3 DEF PipeInv
<1>6. ~Replays(notifier) => copies <= failed
  BY <1>1, <1>4 DEF NotifiersInv, DeliveryInv
<1>7. ASSUME NEW result, Return(result), result = "ok" => Skips(notifier, alert)
      PROVE  NotifiersInv'
  <2>1. outcome' = result
    BY <1>7 DEF Return
  <2>2. PipeInv'
    BY <1>5, <1>7, <2>1
  <2>3. copies' \in Nat /\ (~Replays(notifier) => copies' <= failed + 1)
    BY <1>1, <1>4, <1>6
  <2> QED
    BY <1>2, <1>7, <2>2, <2>3, ReturnKeeps
<1>8. ASSUME ~Skips(notifier, alert), phase' = "send", todo' = Script(notifier),
             UNCHANGED <<conn, notifier, alert, outcome, failed>>
      PROVE  NotifiersInv'
  <2>1. GoodScript(notifier, todo')
    BY <1>8, NewScript DEF NotifiersInv
  <2>2. ScriptInv'
    <3>1. conn' \in [open: BOOLEAN, tls: BOOLEAN, limit: BOOLEAN]
      BY <1>8 DEF NotifiersInv, ScriptInv
    <3>2. Protected(notifier, conn'.tls, todo')
      BY <2>1 DEF GoodScript, Protected
    <3> QED
      BY <1>1, <2>1, <3>1, <3>2 DEF ScriptInv, GoodScript
  <2>3. DeliveryInv'
    <3>1. /\ OneDelivery(todo')
          /\ IF notifier.kind = "valkey"
               THEN (\E x \in Range(todo') : x.kind = "pipeline")
                    /\ \A x \in Range(todo') : ~Delivers(x)
               ELSE (\E x \in Range(todo') : Delivers(x))
                    /\ \A x \in Range(todo') : x.kind # "pipeline"
      BY <2>1 DEF GoodScript
    <3>2. ~(~Replays(notifier) /\ copies' > failed')
      BY <1>1, <1>4, <1>6, <1>8
    <3> QED
      BY <1>1, <1>4, <1>8, <3>1, <3>2 DEF DeliveryInv
  <2>4. PipeInv'
    BY <1>1, <1>5, <1>8
  <2>5. AcknowledgedIsTaken'
    BY <1>1, <1>8 DEF NotifiersInv, AcknowledgedIsTaken
  <2> QED
    BY <1>1, <1>2, <2>2, <2>3, <2>4, <2>5 DEF NotifiersInv
<1> QED
  BY <1>7, <1>8 DEF SendAlert

\* The valkey client writes and reads, the server runs.
LEMMA PipeKeeps ==
  ASSUME NotifiersInv, UNCHANGED <<talkVars, notifier, alert, phase, outcome, copies, failed>>,
         PipeInv'
  PROVE  NotifiersInv'
<1>1. /\ todo' = todo /\ conn' = conn /\ told' = told /\ leaks' = leaks
      /\ notifier' = notifier /\ alert' = alert /\ phase' = phase /\ outcome' = outcome
      /\ copies' = copies /\ failed' = failed
  BY DEF talkVars
<1>2. ScriptInv' /\ DeliveryInv' /\ AcknowledgedIsTaken' /\ MailIsAuthenticated'
  BY <1>1 DEF NotifiersInv, ScriptInv, DeliveryInv, AcknowledgedIsTaken, MailIsAuthenticated
<1> QED
  BY <1>1, <1>2 DEF NotifiersInv

LEMMA WriteKeeps ==
  ASSUME NotifiersInv, WriteCommands \/ WriteBreaks
  PROVE  NotifiersInv'
<1>1. /\ pipe \in [written: Nat, run: Nat, errors: SUBSET Nat, read: Nat]
      /\ pipe.read <= pipe.run /\ pipe.run <= pipe.written /\ pipe.written = 0
      /\ \A k \in 1..pipe.read : k \notin pipe.errors
      /\ notifier' = notifier /\ alert' = alert
  BY DEF NotifiersInv, PipeInv, WriteCommands, WriteBreaks, Return
<1>2. ASSUME NEW n \in 0..Len(Pipeline), pipe' = [pipe EXCEPT !.written = n],
             outcome' # "ok"
      PROVE  PipeInv'
  BY <1>1, <1>2, PipelineCovers DEF PipeInv
<1>3. CASE WriteCommands
  <2>1. outcome # "ok" /\ outcome' = outcome
    BY <1>3 DEF WriteCommands, Piping, Sending, NotifiersInv, DeliveryInv
  <2>2. Len(Pipeline) \in 0..Len(Pipeline)
    BY PipelineCovers
  <2>3. PipeInv'
    BY <1>2, <1>3, <2>1, <2>2 DEF WriteCommands
  <2> QED
    BY <1>3, <2>3, PipeKeeps DEF WriteCommands
<1>4. CASE WriteBreaks
  <2>1. PICK n \in 1..(Len(Pipeline) - 1) : pipe' = [pipe EXCEPT !.written = n]
    BY <1>4 DEF WriteBreaks
  <2>2. Return("permanent") /\ told' = told /\ leaks' = leaks /\ copies' = copies
    BY <1>4 DEF WriteBreaks
  <2>3. PipeInv'
    <3>1. n \in 0..Len(Pipeline)
      BY <2>1, PipelineCovers
    <3>2. outcome' # "ok"
      BY <2>2 DEF Return
    <3> QED
      BY <1>2, <2>1, <3>1, <3>2
  <2>4. MailIsAuthenticated'
    BY <1>1, <2>2 DEF NotifiersInv, MailIsAuthenticated
  <2>5. copies' \in Nat /\ (~Replays(notifier) => copies' <= failed + 1)
    BY <2>2 DEF NotifiersInv, DeliveryInv, AcknowledgedIsTaken
  <2> QED
    BY <2>2, <2>3, <2>4, <2>5, ReturnKeeps
<1> QED
  BY <1>3, <1>4

LEMMA ExecuteKeeps ==
  ASSUME NotifiersInv, Execute
  PROVE  NotifiersInv'
<1>1. /\ pipe \in [written: Nat, run: Nat, errors: SUBSET Nat, read: Nat]
      /\ pipe.read <= pipe.run /\ pipe.run < pipe.written /\ pipe.written <= Len(Pipeline)
      /\ \A k \in 1..pipe.read : k \notin pipe.errors
      /\ notifier' = notifier /\ alert' = alert /\ outcome' = outcome
  BY DEF NotifiersInv, PipeInv, Execute
<1>2. /\ pipe' \in [written: Nat, run: Nat, errors: SUBSET Nat, read: Nat]
      /\ pipe'.read = pipe.read /\ pipe'.run = pipe.run + 1 /\ pipe'.written = pipe.written
      /\ pipe'.errors \subseteq pipe.errors \cup {pipe.run + 1}
  <2>1. CASE pipe' = [pipe EXCEPT !.run = @ + 1]
    BY <1>1, <2>1
  <2>2. CASE pipe' = [pipe EXCEPT !.run = @ + 1, !.errors = @ \cup {pipe.run + 1}]
    <3>1. pipe.errors \cup {pipe.run + 1} \in SUBSET Nat
      BY <1>1
    <3> QED
      BY <1>1, <2>2, <3>1
  <2> QED
    BY <2>1, <2>2 DEF Execute
<1>3. \A k \in 1..pipe'.read : k \notin pipe'.errors
  BY <1>1, <1>2
<1>4. /\ pipe'.read <= pipe'.run /\ pipe'.run <= pipe'.written
      /\ pipe'.written <= Len(Pipeline)
  BY <1>1, <1>2, PipelineCovers
<1>5. PipeInv'
  BY <1>1, <1>2, <1>3, <1>4 DEF NotifiersInv, PipeInv
<1> QED
  BY <1>5, PipeKeeps DEF Execute

LEMMA ReadKeeps ==
  ASSUME NotifiersInv, ReadReply
  PROVE  NotifiersInv'
<1>1. /\ pipe \in [written: Nat, run: Nat, errors: SUBSET Nat, read: Nat]
      /\ pipe.read < pipe.run /\ pipe.run <= pipe.written /\ pipe.written <= Len(Pipeline)
      /\ \A k \in 1..pipe.read : k \notin pipe.errors
      /\ phase = "send" /\ outcome # "ok"
  BY DEF NotifiersInv, PipeInv, DeliveryInv, ReadReply, Piping, Sending
<1>2. CASE pipe.read + 1 \notin pipe.errors
  <2>1. /\ pipe' = [pipe EXCEPT !.read = @ + 1]
        /\ UNCHANGED <<talkVars, notifier, alert, phase, outcome, copies, failed>>
    BY <1>2 DEF ReadReply, NextReply
  <2>2. /\ pipe' \in [written: Nat, run: Nat, errors: SUBSET Nat, read: Nat]
        /\ pipe'.read = pipe.read + 1 /\ pipe'.run = pipe.run /\ pipe'.written = pipe.written
        /\ pipe'.errors = pipe.errors
    BY <1>1, <2>1
  <2>3. \A k \in 1..pipe'.read : k \notin pipe'.errors
    BY <1>1, <1>2, <2>2
  <2>4. /\ pipe'.read <= pipe'.run /\ pipe'.run <= pipe'.written
        /\ pipe'.written <= Len(Pipeline)
    BY <1>1, <2>2
  <2>5. PipeInv'
    BY <1>1, <2>1, <2>2, <2>3, <2>4 DEF PipeInv
  <2> QED
    BY <2>1, <2>5, PipeKeeps
<1>3. CASE pipe.read + 1 \in pipe.errors
  <2>1. /\ Return("permanent") /\ told' = told /\ leaks' = leaks /\ copies' = copies
        /\ pipe' = pipe
    BY <1>3 DEF ReadReply, NextReply
  <2>2. notifier' = notifier /\ alert' = alert /\ outcome' = "permanent"
    BY <2>1 DEF Return
  <2>3. PipeInv' /\ MailIsAuthenticated'
    BY <2>1, <2>2 DEF NotifiersInv, PipeInv, MailIsAuthenticated
  <2>4. copies' \in Nat /\ (~Replays(notifier) => copies' <= failed + 1)
    BY <2>1 DEF NotifiersInv, DeliveryInv, AcknowledgedIsTaken
  <2> QED
    BY <2>1, <2>3, <2>4, ReturnKeeps
<1> QED
  BY <1>2, <1>3

LEMMA PipelineKeeps ==
  ASSUME NotifiersInv, PipelineEnds
  PROVE  NotifiersInv'
<1>1. /\ Piping /\ pipe.read = Len(Pipeline) /\ Return("ok")
      /\ told' = told /\ leaks' = leaks /\ copies' = copies /\ pipe' = pipe
  BY DEF PipelineEnds
<1>2. notifier' = notifier /\ alert' = alert
  BY <1>1 DEF Return
<1>3. notifier.kind = "valkey"
  <2>1. Head(todo) \in Range(todo) /\ Head(todo).kind = "pipeline"
    BY <1>1, Remaining DEF Piping, Sending, NotifiersInv, ScriptInv
  <2> QED
    BY <2>1 DEF NotifiersInv, DeliveryInv
<1>4. PipeInv' /\ MailIsAuthenticated'
  BY <1>1, <1>2 DEF NotifiersInv, PipeInv, MailIsAuthenticated
<1>5. copies' \in Nat /\ (~Replays(notifier) => copies' <= failed + 1)
  BY <1>1 DEF NotifiersInv, DeliveryInv, AcknowledgedIsTaken
<1> QED
  BY <1>1, <1>3, <1>4, <1>5, ReturnKeeps

-----------------------------------------------------------------------------
\* The invariant of a notifier: every send of every configuration, with any
\* number of dashboards and of sends, keeps its script, its deliveries and its
\* pipeline in order, whatever the receiver answers and wherever it breaks.
THEOREM NotifiersInvariant == Spec => []NotifiersInv
<1>1. Init => NotifiersInv
  <2> SUFFICES ASSUME Init PROVE NotifiersInv
    OBVIOUS
  <2>1. /\ todo = << >> /\ conn = Closed /\ told = {} /\ leaks = {} /\ notifier \in Configs
        /\ alert \in Statuses /\ phase = "create" /\ outcome = "none" /\ copies = 0
        /\ failed = 0 /\ pipe = NoPipe
    BY DEF Init, TalkInit
  <2>2. IsScript(todo) /\ Range(todo) = {} /\ DOMAIN todo = {}
    <3>1. DOMAIN todo = {}
      BY <2>1
    <3> QED
      BY <2>1, <3>1, ShortScripts
  <2>3. ScriptInv
    <3>1. conn \in [open: BOOLEAN, tls: BOOLEAN, limit: BOOLEAN]
      BY <2>1 DEF Closed
    <3> QED
      BY <2>2, <3>1 DEF ScriptInv, Protected, MailGuarded
  <2>4. DeliveryInv
    BY <2>1, <2>2 DEF DeliveryInv, OneDelivery
  <2>5. PipeInv
    <3>1. /\ NoPipe \in [written: Nat, run: Nat, errors: SUBSET Nat, read: Nat]
          /\ NoPipe.read = 0 /\ NoPipe.run = 0 /\ NoPipe.written = 0
      BY DEF NoPipe
    <3>2. \A k \in 1..NoPipe.read : k \notin NoPipe.errors
      BY <3>1
    <3> QED
      BY <2>1, <3>1, <3>2, PipelineCovers DEF PipeInv
  <2>6. AcknowledgedIsTaken /\ MailIsAuthenticated
    BY <2>1 DEF AcknowledgedIsTaken, MailIsAuthenticated
  <2> QED
    BY <2>1, <2>3, <2>4, <2>5, <2>6 DEF NotifiersInv
<1>2. NotifiersInv /\ [Next]_vars => NotifiersInv'
  <2> SUFFICES ASSUME NotifiersInv, [Next]_vars PROVE NotifiersInv'
    OBVIOUS
  <2>1. CASE CreateNotifier
    BY <2>1, CreateKeeps
  <2>2. CASE SendAlert
    BY <2>2, SendKeeps
  <2>3. CASE Answer
    BY <2>3, AnswerKeeps
  <2>4. CASE Replay
    BY <2>4, ReplayKeeps
  <2>5. CASE LoginChallenge
    BY <2>5, LoginKeeps
  <2>6. CASE Refused \/ Broken \/ Deadline
    BY <2>6, RefusedKeeps
  <2>7. CASE Finish
    BY <2>7, FinishKeeps
  <2>8. CASE WriteCommands \/ WriteBreaks
    BY <2>8, WriteKeeps
  <2>9. CASE Execute
    BY <2>9, ExecuteKeeps
  <2>10. CASE ReadReply
    BY <2>10, ReadKeeps
  <2>11. CASE PipelineEnds
    BY <2>11, PipelineKeeps
  <2>12. CASE UNCHANGED vars
    <3>1. /\ UNCHANGED <<talkVars, notifier, alert, phase, outcome, copies, failed>>
          /\ pipe' = pipe /\ notifier' = notifier /\ outcome' = outcome /\ alert' = alert
      BY <2>12 DEF vars
    <3>2. PipeInv'
      BY <3>1 DEF NotifiersInv, PipeInv
    <3> QED
      BY <3>1, <3>2, PipeKeeps
  <2> QED
    BY <2>1, <2>2, <2>3, <2>4, <2>5, <2>6, <2>7, <2>8, <2>9, <2>10, <2>11, <2>12 DEF Next
<1> QED
  BY <1>1, <1>2, PTL DEF Spec

\* A send of any notifier that returns no error has been taken by the receiver,
\* and is taken twice only after a reported failure or through a replay.
THEOREM DeliveredAsReported == Spec => []AcknowledgedIsTaken
<1>1. NotifiersInv => AcknowledgedIsTaken
  BY DEF NotifiersInv
<1> QED
  BY <1>1, NotifiersInvariant, PTL

\* sendMail reaches MAIL only behind AUTH where the secret has credentials, and
\* no notifier sends a password in the clear where TLS is asked for.
THEOREM MailStaysAuthenticated == Spec => []MailIsAuthenticated
<1>1. NotifiersInv => MailIsAuthenticated
  BY DEF NotifiersInv
<1> QED
  BY <1>1, NotifiersInvariant, PTL

\* A sample that the valkey notifier reports as written has had every command
\* executed on every dashboard of its list, however long the list is.
THEOREM ReportedSamplesComplete == Spec => []SampleIsComplete
<1>1. NotifiersInv => SampleIsComplete
  <2> SUFFICES ASSUME NotifiersInv, notifier.kind = "valkey", outcome = "ok",
                      alert # "change", NEW d \in Range(Dashboards),
                      NEW i \in DOMAIN Commands
               PROVE  Executed(d, Commands[i])
    BY DEF SampleIsComplete
  <2>1. PICK k \in 1..Len(Pipeline) : Pipeline[k] = <<d, Commands[i]>>
    BY PipelineCovers
  <2>2. /\ pipe.read = Len(Pipeline) /\ pipe.read <= pipe.run /\ pipe.run \in Nat
        /\ Len(Pipeline) \in Nat /\ \A n \in 1..pipe.read : n \notin pipe.errors
    BY PipelineCovers DEF NotifiersInv, PipeInv
  <2>3. k \in (1..pipe.run) \ pipe.errors
    BY <2>1, <2>2
  <2> QED
    BY <2>1, <2>3 DEF Executed
<1> QED
  BY <1>1, NotifiersInvariant, PTL
=============================================================================
