------------------------------- MODULE Notifiers ------------------------------
(***************************************************************************)
(* One alert sent by one notifier: slack, discord, webhook, email and      *)
(* valkey of internal/notifier.  A send is a conversation with a receiver  *)
(* that takes the alert at one of its steps, maybe without being able to   *)
(* say so; a send that reports failure may be repeated, by a retry or by   *)
(* the next check.                                                         *)
(***************************************************************************)
EXTENDS Conversation, Functions

CONSTANTS
  Configs,        \* notifiers: kind, options, secret, alertOn
  Dashboards,     \* the valkey notifier's list of dashboards
  MaxSends,       \* sends of the one alert
  MaxErrors       \* error replies of one pipeline

Kinds == {"slack", "discord", "webhook", "email", "valkey"}

ASSUME NotifiersAssumption ==
  /\ \A n \in Configs : n.kind \in Kinds
  /\ Dashboards # << >> /\ Dashboards \in Seq(Range(Dashboards))
  /\ MaxSends \in Nat /\ MaxErrors \in Nat

VARIABLES
  notifier, alert,  \* the notifier's configuration and the alert's status
  phase,            \* "create", "send", "sent", or "setup" when there is none
  outcome,          \* what the last send returned: "ok", "permanent", "temporary"
  copies,           \* how often the receiver has taken the alert
  failed,           \* sends that reported failure
  pipe              \* valkey: commands written, run, run in error; replies read

vars == <<talkVars, notifier, alert, phase, outcome, copies, failed, pipe>>

Statuses == {"success", "failure", "change"}
Has(n, option) == option \in n.opts
IsSMTP(n) == n.kind = "email" /\ ~Has(n, "ses")
Authenticated(n) == n.secret = "both"

-----------------------------------------------------------------------------
(* The constructors and what ends a send before it dials.                  *)

NewEmailFails(n) ==
  \/ Has(n, "other provider")
  \/ Has(n, "ses") /\ ~Has(n, "from")
  \/ ~Has(n, "ses") /\ n.secret = "none" /\ ~(Has(n, "host") /\ Has(n, "from"))
  \/ ~Has(n, "to")

\* The webhook's, slack's and discord's URL, the valkey endpoint and dashboards.
NewFails(n) ==
  \/ IF n.kind = "email" THEN NewEmailFails(n) ELSE ~Has(n, "url")
  \/ Has(n, "bad template")

ShouldAlert(n, status) ==
  IF n.alertOn = {} THEN status = "failure" ELSE status \in n.alertOn
Skips(n, status) ==
  IF n.kind = "valkey" THEN status = "change" ELSE ~ShouldAlert(n, status)

\* A template that does not execute, an unreadable secret, no host with a port
\* or no sender, a line break in an address.
PrepareFails(n) ==
  \/ Has(n, "failing template")
  \/ n.secret = "unreadable" /\ ~Has(n, "ses")
  \/ IsSMTP(n) /\ (~(Has(n, "host") /\ Has(n, "from")) \/ Has(n, "line break"))

-----------------------------------------------------------------------------
(* The scripts.                                                            *)

\* An HTTP request: a status of 200 to 299, 429, 500 and above, or another.
HTTPStatus == {"2xx", "429", "4xx", "5xx"}
\* (mutant) Any response will do.
PostAnyStatus == <<Limit, Step("deliver", "post", HTTPStatus, HTTPStatus)>>
HTTPSend == <<Limit, Step("deliver", "post", HTTPStatus, {"2xx"})>>
SendSES == <<Limit, Ask("config"), Step("deliver", "send email", {"2xx", "4xx", "5xx"}, {"2xx"})>>

\* sendMail.  The server's extensions decide about STARTTLS and AUTH.
Extensions == SUBSET {"STARTTLS", "AUTH"}
Ehlo == AskFor("ehlo", Extensions, Extensions)
EhloAgain == AskFor("ehlo over tls", Extensions, Extensions)
NoAuthOffered == Look("no auth", {"no"}, {})

\* (mutant) Without AUTH the mail goes out all the same.
IfOffered(n, extensions) ==
  When(Authenticated(n) /\ "AUTH" \in extensions, <<AuthStart>>)

Authenticate(n, extensions) ==
  When(Authenticated(n),
       IF "AUTH" \in extensions THEN <<AuthStart>> ELSE <<NoAuthOffered>>)

sendMail(n) ==
  <<Dial, Limit, Ask("greeting"), Ehlo, Ask("mail"), Ask("rcpt"), Ask("rcpt"),
    Ask("data"), Step("deliver", "end of data", {"2xx", "5xx"}, {"2xx"}), Ask("quit")>>

\* valkey's Dial, and the pipeline as one step.
ValkeySend(n) ==
  (IF Has(n, "tls") THEN <<DialTLS>> ELSE <<Dial>>) \o <<Limit>>
  \o When(n.secret \in {"password", "both"},
          <<Step("password", "auth", {"ok", "no"}, {"ok"})>>)
  \o When(Has(n, "db"), <<Ask("select")>>)
  \o <<Step("pipeline", "pipeline", {}, {})>>

Script(n) ==
  CASE n.kind \in {"slack", "discord", "webhook"} -> HTTPSend
    [] n.kind = "email" -> IF Has(n, "ses") THEN SendSES ELSE sendMail(n)
    [] n.kind = "valkey" -> ValkeySend(n)

Then(step, answer) ==
  CASE step.kind = "start" -> AfterStart(answer)
    [] step.ask = "ehlo" -> IF "STARTTLS" \in answer THEN <<StartTLS, EhloAgain>>
                            ELSE Authenticate(notifier, answer)
    [] step.ask = "ehlo over tls" -> Authenticate(notifier, answer)
    [] OTHER -> << >>

\* Only the webhook says that a failure may not last.
Classify(n, answer) ==
  IF n.kind = "webhook" /\ answer \in {"429", "5xx", "error"} THEN "temporary" ELSE "permanent"

-----------------------------------------------------------------------------
NoPipe == [written |-> 0, run |-> 0, errors |-> {}, read |-> 0]

Return(result) ==
  /\ phase' = "sent" /\ outcome' = result
  /\ failed' = IF result = "ok" THEN failed ELSE failed + 1
  /\ todo' = << >> /\ conn' = Closed
  /\ UNCHANGED <<notifier, alert>>

CreateNotifier ==
  /\ phase = "create"
  /\ phase' = IF NewFails(notifier) THEN "setup" ELSE "sent"
  /\ UNCHANGED <<talkVars, notifier, alert, outcome, copies, failed, pipe>>

\* The first send, or another one after a failure.
SendAlert ==
  /\ phase = "sent" /\ outcome # "ok" /\ failed < MaxSends
  /\ told' = {} /\ pipe' = NoPipe
  /\ \/ Skips(notifier, alert) /\ Return("ok")
     \/ ~Skips(notifier, alert) /\ PrepareFails(notifier) /\ Return("permanent")
     \/ /\ ~Skips(notifier, alert) /\ ~PrepareFails(notifier)
        /\ phase' = "send" /\ todo' = Script(notifier)
        /\ UNCHANGED <<conn, notifier, alert, outcome, failed>>
  /\ UNCHANGED <<leaks, copies>>

Sending == phase = "send" /\ todo # << >>
Delivering == Sending /\ Head(todo).kind = "deliver"

\* Taking the alert and saying so are two things: a server that fails, or a
\* connection that breaks, may do so afterwards.
Takes(answer) ==
  copies' \in IF ~Delivering THEN {copies}
              ELSE IF answer = "2xx" THEN {copies + 1}
              ELSE IF answer \in {"5xx", "error"} THEN {copies, copies + 1} ELSE {copies}

\* net/http replays a GET whose connection has failed, and the SES client a
\* request that has: another attempt within the send (here, one).
Replays(n) == (n.kind = "webhook" /\ ~Has(n, "contents")) \/ Has(n, "ses")
Replay ==
  /\ Delivering /\ Replays(notifier) /\ <<"post", "replayed">> \notin told
  /\ told' = told \cup {<<"post", "replayed">>} /\ Takes("error")
  /\ UNCHANGED <<todo, conn, leaks, notifier, alert, phase, outcome, failed, pipe>>

Answer ==
  /\ Sending
  /\ \E answer \in Head(todo).ok :
       Proceed(answer, Then(Head(todo), answer)) /\ Takes(answer)
  /\ UNCHANGED <<notifier, alert, phase, outcome, failed, pipe>>

LoginChallenge ==
  /\ Sending /\ Challenge
  /\ UNCHANGED <<notifier, alert, phase, outcome, copies, failed, pipe>>

Refused ==
  /\ Sending
  /\ \E answer \in Head(todo).all :
       Refusal(answer) /\ Return(Classify(notifier, answer)) /\ Takes(answer)
  /\ UNCHANGED <<told, pipe>>

\* The request or the answer is lost.
Broken ==
  /\ Sending /\ Breaks
  /\ Return(Classify(notifier, "error"))
  /\ Takes("error")
  /\ UNCHANGED <<told, leaks, pipe>>

Deadline ==
  /\ Sending /\ TimesOut
  /\ Return(Classify(notifier, "error"))
  /\ Takes("error")
  /\ UNCHANGED <<told, leaks, pipe>>

Finish ==
  /\ phase = "send" /\ todo = << >>
  /\ Return("ok") /\ UNCHANGED <<told, leaks, copies, pipe>>

-----------------------------------------------------------------------------
(***************************************************************************)
(* Client.Pipeline: every command is written before the first reply is     *)
(* read, and the first error reply ends it; the server runs what reaches   *)
(* it, also after the client has gone.                                     *)
(***************************************************************************)
Commands == <<"HSET s", "HEXPIRE s", "HSET d", "HEXPIRE d",
              "SADD dashboards", "SADD svcs", "HSET meta">>
\* The commands of one dashboard after those of the other.
Pipeline == [k \in 1..(Len(Dashboards) * Len(Commands)) |->
               <<Dashboards[1 + ((k - 1) \div Len(Commands))],
                 Commands[1 + ((k - 1) % Len(Commands))]>>]

Piping == Sending /\ Head(todo).kind = "pipeline"

WriteCommands ==
  /\ Piping /\ pipe.written = 0
  /\ pipe' = [pipe EXCEPT !.written = Len(Pipeline)]
  /\ UNCHANGED <<talkVars, notifier, alert, phase, outcome, copies, failed>>

\* A write fails after some of the commands have gone.
WriteBreaks ==
  /\ Piping /\ pipe.written = 0
  /\ \E n \in 1..(Len(Pipeline) - 1) : pipe' = [pipe EXCEPT !.written = n]
  /\ Return("permanent") /\ UNCHANGED <<told, leaks, copies>>

\* The server runs the next command, or answers it with an error.
Execute ==
  /\ pipe.run < pipe.written
  /\ \/ pipe' = [pipe EXCEPT !.run = @ + 1]
     \/ /\ Cardinality(pipe.errors) < MaxErrors
        /\ pipe' = [pipe EXCEPT !.run = @ + 1, !.errors = @ \cup {pipe.run + 1}]
  /\ UNCHANGED <<talkVars, notifier, alert, phase, outcome, copies, failed>>

\* (mutant) An error reply is read like any other.
AnyReply ==
  /\ pipe' = [pipe EXCEPT !.read = @ + 1]
  /\ UNCHANGED <<talkVars, notifier, alert, phase, outcome, copies, failed>>

NextReply ==
  IF pipe.read + 1 \notin pipe.errors
    THEN /\ pipe' = [pipe EXCEPT !.read = @ + 1]
         /\ UNCHANGED <<talkVars, notifier, alert, phase, outcome, copies, failed>>
    ELSE Return("permanent") /\ UNCHANGED <<told, leaks, copies, pipe>>

ReadReply == Piping /\ pipe.read < pipe.run /\ NextReply

PipelineEnds ==
  /\ Piping /\ pipe.written = Len(Pipeline) /\ pipe.read = Len(Pipeline)
  /\ Return("ok") /\ UNCHANGED <<told, leaks, copies, pipe>>

-----------------------------------------------------------------------------
Init ==
  /\ TalkInit /\ notifier \in Configs /\ alert \in Statuses
  /\ phase = "create" /\ outcome = "none" /\ copies = 0 /\ failed = 0 /\ pipe = NoPipe

Next ==
  \/ CreateNotifier \/ SendAlert \/ Answer \/ Replay \/ LoginChallenge \/ Refused \/ Broken
  \/ Deadline \/ Finish \/ WriteCommands \/ WriteBreaks \/ Execute \/ ReadReply
  \/ PipelineEnds

\* What the notifier does by itself and the limits it has set; nothing of the
\* receiver.
Fairness ==
  /\ WF_vars(CreateNotifier) /\ WF_vars(Finish) /\ WF_vars(Deadline)
  /\ WF_vars(WriteCommands) /\ WF_vars(PipelineEnds)
  /\ WF_vars(Sending /\ Local(Head(todo)) /\ (Answer \/ Refused))

Spec == Init /\ [][Next]_vars /\ Fairness
-----------------------------------------------------------------------------
(* Correctness.                                                            *)

Executed(d, command) ==
  \E i \in (1..pipe.run) \ pipe.errors : Pipeline[i] = <<d, command>>

\* A send that returns no error has been taken by the receiver.  It is taken
\* twice only when a send in between reported failure (a timeout, a 5xx, a QUIT
\* that fails after the mail was accepted), or when the HTTP client replays.
AcknowledgedIsTaken ==
  /\ outcome = "ok" /\ ~Skips(notifier, alert) /\ notifier.kind # "valkey" => copies >= 1
  /\ ~Replays(notifier) => copies <= failed + 1

\* Mail goes out only after AUTH where the secret has credentials, and a
\* password leaves only over TLS (valkey's where the configuration asks for it).
MailIsAuthenticated ==
  /\ \A p \in leaks : notifier.kind = "email" \/ Has(notifier, "tls") => p.tls
  /\ IsSMTP(notifier) /\ Authenticated(notifier) /\ <<"mail", "ok">> \in told
       => <<"auth", "ok">> \in told

\* A sample the valkey notifier reports as written has its status and its
\* detail on every dashboard, both with an expiry, and the dashboard can find
\* the service.
SampleIsComplete ==
  notifier.kind = "valkey" /\ outcome = "ok" /\ alert # "change" =>
    \A d \in Range(Dashboards), i \in DOMAIN Commands : Executed(d, Commands[i])

\* A send ends, even when the receiver never answers.
SendEnds == phase = "send" ~> phase = "sent"
=============================================================================
