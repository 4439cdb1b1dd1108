----------------------------- MODULE Conversation -----------------------------
(***************************************************************************)
(* A conversation with a server, as the drivers' checks and the notifiers' *)
(* sends have it: the steps still to do, the connection they use and what  *)
(* the server has answered.  A driver or a notifier is the sequence of     *)
(* steps its code goes through; every step is one call that waits for the  *)
(* other side, or a local one.  The server may answer, answer wrongly,     *)
(* break the connection or say nothing at all; a wait ends by itself only  *)
(* where the code has set a limit for it.                                  *)
(***************************************************************************)
EXTENDS Integers, Sequences, FiniteSets

VARIABLES
  todo,           \* the steps the running call still has to do
  conn,           \* the connection: open, encrypted, with a deadline
  told,           \* <<question, answer>> pairs of the running call
  leaks           \* how passwords left: encrypted, after a refuted certificate

talkVars == <<todo, conn, told, leaks>>

\* The calls of a script: what is asked, which answers there are and which
\* ones the code goes on with.
Step(kind, ask, all, ok) == [kind |-> kind, ask |-> ask, all |-> all, ok |-> ok]
Ask(ask) == Step("ask", ask, {"ok", "no"}, {"ok"})
AskFor(ask, all, ok) == Step("ask", ask, all, ok)
Look(ask, all, ok) == Step("look", ask, all, ok)   \* at an answer it has
When(condition, steps) == IF condition THEN steps ELSE << >>

Closed == [open |-> FALSE, tls |-> FALSE, limit |-> FALSE]

\* net.DialTimeout and tls.DialWithDialer: the dialer has its own timeout.
Dial == Step("dial", "dial", {"ok", "no"}, {"ok"})
DialTLS == Step("tlsdial", "dial", {"ok", "no"}, {"ok"})
StartTLS == Step("starttls", "starttls", {"ok", "no"}, {"ok"})

\* conn.SetDeadline, context.WithTimeout or http.Client.Timeout.
\* (mutant) Nobody sets it.
NoLimit == Look("limit", {"ok"}, {"ok"})

Limit == Step("limit", "limit", {"ok"}, {"ok"})

-----------------------------------------------------------------------------
(***************************************************************************)
(* common.ResolveAndVerifyDANE.  A TLSA record has a usage and the digest  *)
(* of a certificate of the chain, of = 0 when it digests none of them, has *)
(* an unknown selector or matching type, or is no hexadecimal text.  No    *)
(* answer, an error code and an answer without TLSA records are all {}.    *)
(***************************************************************************)
TLSARecord == [usage: {1, 2, 4}, of: 0..2]

VerifyDANE(r) ==
  \/ r.usage \in {1, 3} /\ r.of = 1
  \/ r.usage \in {0, 2} /\ r.of # 0

TLSAAnswers ==
  {{}} \cup {{r} : r \in TLSARecord}
       \cup {{[usage |-> 1, of |-> 0], [usage |-> 2, of |-> 2]}}

DANE == Step("lookup", "tlsa", TLSAAnswers,
             {a \in TLSAAnswers : a = {} \/ \E r \in a : VerifyDANE(r)})

Refuted == \E a \in TLSAAnswers : <<"tlsa", a>> \in told
                                   /\ a # {} /\ ~\E r \in a : VerifyDANE(r)

-----------------------------------------------------------------------------
(***************************************************************************)
(* smtpAuth.  Start refuses a connection without TLS, sends the password   *)
(* with PLAIN where the server offers it, and else begins LOGIN; Next      *)
(* answers LOGIN's two challenges, as often as the server repeats them.    *)
(***************************************************************************)
AuthPlain == Step("password", "auth", {"ok", "no", "challenge"}, {"ok"})
AuthLogin == Step("login", "auth", {"ok", "no", "challenge"}, {"ok"})
AuthStart == Step("start", "mechanisms", {"PLAIN", "LOGIN"}, {"PLAIN", "LOGIN"})

\* (mutant) It starts on any connection.
AnyConnection(step) == TRUE
MayStart(step) == step.kind = "start" => conn.tls

\* The steps that follow Start, before the rest of the script.
AfterStart(mechanism) == IF mechanism = "PLAIN" THEN <<AuthPlain>> ELSE <<AuthLogin>>

-----------------------------------------------------------------------------
Leak == [tls |-> conn.tls, refuted |-> Refuted]

Connected(step) ==
  CASE step.kind = "dial"     -> [conn EXCEPT !.open = TRUE]
    [] step.kind = "tlsdial"  -> [conn EXCEPT !.open = TRUE, !.tls = TRUE]
    [] step.kind = "starttls" -> [conn EXCEPT !.tls = TRUE]
    [] step.kind = "limit"    -> [conn EXCEPT !.limit = TRUE]
    [] OTHER                  -> conn

\* The code gets an answer it goes on with, first with the steps in more.
Proceed(answer, more) ==
  LET step == Head(todo) IN
  /\ todo # << >> /\ answer \in step.ok /\ MayStart(step)
  /\ todo' = more \o Tail(todo)
  /\ told' = told \cup {<<step.ask, answer>>}
  /\ conn' = Connected(step)
  /\ leaks' = IF step.kind = "password" THEN leaks \cup {Leak} ELSE leaks

\* LOGIN: the server asks for the user name or for the password.
Challenge ==
  /\ todo # << >> /\ Head(todo).kind = "login"
  /\ leaks' \in {leaks, leaks \cup {Leak}}
  /\ UNCHANGED <<todo, conn, told>>

\* The answer is one the code does not accept, or smtpAuth refuses to start.
\* The password is on its way all the same.
Refusal(answer) ==
  LET step == Head(todo) IN
  /\ todo # << >> /\ answer \in step.all
  /\ answer \notin step.ok \/ ~MayStart(step)
  /\ leaks' = IF step.kind = "password" THEN leaks \cup {Leak} ELSE leaks

\* Steps that do not wait for the other side.
Local(step) == step.kind \in {"limit", "look", "start"}

\* The connection breaks under a call, a dial or a write fails, or the server
\* answers with an error.
Breaks == todo # << >> /\ ~Local(Head(todo)) /\ Head(todo).kind # "lookup"

\* A wait ends by itself: the dialer's own timeout, and elsewhere the limit the
\* code has set.  (A TLSA lookup that ends so counts as no record.)
TimesOut == Breaks /\ (Head(todo).kind \in {"dial", "tlsdial"} \/ conn.limit)

TalkInit == todo = << >> /\ conn = Closed /\ told = {} /\ leaks = {}
=============================================================================
