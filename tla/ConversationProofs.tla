-------------------------- MODULE ConversationProofs --------------------------
(***************************************************************************)
(* Lemmas about scripts, the sequences of steps of Conversation, and about *)
(* what one answer does to the script that is running.                     *)
(***************************************************************************)
EXTENDS Conversation, Functions, SequenceTheorems, TLAPS

\* A script is a sequence of its own steps: Range(s) is the set of them.
IsScript(s) == s \in Seq(Range(s))

\* The scripts of no step and of up to five steps.
LEMMA ShortScripts ==
  /\ IsScript(<< >>) /\ Range(<< >>) = {}
  /\ \A a : IsScript(<<a>>) /\ Range(<<a>>) = {a}
  /\ \A a, b : IsScript(<<a, b>>) /\ Range(<<a, b>>) = {a, b}
  /\ \A a, b, c : IsScript(<<a, b, c>>) /\ Range(<<a, b, c>>) = {a, b, c}
  /\ \A a, b, c, d : IsScript(<<a, b, c, d>>) /\ Range(<<a, b, c, d>>) = {a, b, c, d}
  /\ \A a, b, c, d, e : /\ IsScript(<<a, b, c, d, e>>)
                         /\ Range(<<a, b, c, d, e>>) = {a, b, c, d, e}
<1>1. Range(<< >>) = {} /\ \A a : Range(<<a>>) = {a}
  BY DEF Range
<1>2. \A a, b : Range(<<a, b>>) = {a, b}
  BY DEF Range
<1>3. \A a, b, c : Range(<<a, b, c>>) = {a, b, c}
  BY DEF Range
<1>4. \A a, b, c, d : Range(<<a, b, c, d>>) = {a, b, c, d}
  BY DEF Range
<1>5. \A a, b, c, d, e : Range(<<a, b, c, d, e>>) = {a, b, c, d, e}
  BY DEF Range
<1> QED
  BY <1>1, <1>2, <1>3, <1>4, <1>5 DEF IsScript

\* One script after another has the steps of both.
LEMMA Concatenated ==
  ASSUME NEW s, NEW t, IsScript(s), IsScript(t)
  PROVE  IsScript(s \o t) /\ Range(s \o t) = Range(s) \cup Range(t)
<1> DEFINE S == Range(s) \cup Range(t)
<1>1. s \in Seq(S) /\ t \in Seq(S)
  BY DEF IsScript
<1>2. /\ s \o t \in Seq(S) /\ DOMAIN (s \o t) = 1..(Len(s) + Len(t))
      /\ \A i \in 1..Len(s) : (s \o t)[i] = s[i]
      /\ \A i \in 1..Len(t) : (s \o t)[Len(s) + i] = t[i]
      /\ Len(s) \in Nat /\ Len(t) \in Nat
      /\ DOMAIN s = 1..Len(s) /\ DOMAIN t = 1..Len(t)
  BY <1>1
<1>3. Range(s \o t) \subseteq S
  BY <1>2 DEF Range
<1>4. ASSUME NEW x \in S PROVE x \in Range(s \o t)
  <2>1. CASE x \in Range(s)
    <3>1. PICK i \in 1..Len(s) : x = s[i]
      BY <1>2, <2>1 DEF Range
    <3>2. i \in DOMAIN (s \o t) /\ (s \o t)[i] = x
      BY <1>2, <3>1
    <3> QED
      BY <3>2 DEF Range
  <2>2. CASE x \in Range(t)
    <3>1. PICK i \in 1..Len(t) : x = t[i]
      BY <1>2, <2>2 DEF Range
    <3>2. Len(s) + i \in DOMAIN (s \o t) /\ (s \o t)[Len(s) + i] = x
      BY <1>2, <3>1
    <3> QED
      BY <3>2 DEF Range
  <2> QED
    BY <2>1, <2>2
<1> QED
  BY <1>2, <1>3, <1>4 DEF IsScript

\* What follows a step does not change that it is the first.
LEMMA FirstStays ==
  ASSUME NEW s, NEW t, IsScript(s), IsScript(t), s # << >>
  PROVE  s \o t # << >> /\ Head(s \o t) = Head(s)
<1> DEFINE S == Range(s) \cup Range(t)
<1>1. s \in Seq(S) /\ t \in Seq(S)
  BY DEF IsScript
<1> QED
  BY <1>1

\* Steps that depend on an option.
LEMMA Optional ==
  ASSUME NEW c, NEW s, IsScript(s)
  PROVE  IsScript(When(c, s)) /\ Range(When(c, s)) = IF c THEN Range(s) ELSE {}
BY ShortScripts DEF When

\* What remains of a script after its first step.
LEMMA Remaining ==
  ASSUME NEW s, IsScript(s), s # << >>
  PROVE  /\ IsScript(Tail(s)) /\ Head(s) \in Range(s)
         /\ Range(s) = {Head(s)} \cup Range(Tail(s))
<1>1. /\ Len(s) \in Nat /\ Len(s) > 0 /\ DOMAIN s = 1..Len(s) /\ Head(s) = s[1]
      /\ Tail(s) \in Seq(Range(s)) /\ DOMAIN Tail(s) = 1..(Len(s) - 1)
      /\ \A i \in 1..(Len(s) - 1) : Tail(s)[i] = s[i + 1]
  BY DEF IsScript
<1>2. Range(Tail(s)) \subseteq Range(s) /\ Head(s) \in Range(s)
  BY <1>1 DEF Range
<1>3. ASSUME NEW x \in Range(s), x # Head(s) PROVE x \in Range(Tail(s))
  <2>1. PICK i \in 1..Len(s) : x = s[i]
    BY <1>1, <1>3 DEF Range
  <2>2. i - 1 \in DOMAIN Tail(s) /\ Tail(s)[i - 1] = x
    BY <1>1, <1>3, <2>1
  <2> QED
    BY <2>2 DEF Range
<1>4. \A i \in DOMAIN Tail(s) : Tail(s)[i] \in Range(Tail(s))
  BY DEF Range
<1>5. Tail(s) \in Seq(Range(Tail(s)))
  <2>1. ASSUME NEW i \in 2..Len(s) PROVE s[i] \in Range(Tail(s))
    <3>1. i - 1 \in 1..(Len(s) - 1) /\ Tail(s)[i - 1] = s[i]
      BY <1>1
    <3> QED
      BY <1>1, <1>4, <3>1
  <2>2. 2 \in Int /\ Len(s) \in Int
    BY <1>1
  <2>3. SubSeq(s, 2, Len(s)) \in Seq(Range(Tail(s)))
    BY <2>1, <2>2, SubSeqProperties, Zenon
  <2>4. Tail(s) = SubSeq(s, 2, Len(s))
    BY TailIsSubSeq DEF IsScript
  <2> QED
    BY <2>3, <2>4
<1> QED
  BY <1>2, <1>3, <1>5 DEF IsScript

\* An answer replaces the first step by those that follow from it.
LEMMA ProceedScript ==
  ASSUME NEW answer, NEW more, IsScript(todo), IsScript(more), Proceed(answer, more)
  PROVE  /\ IsScript(todo') /\ Range(todo') = Range(more) \cup Range(Tail(todo))
         /\ todo # << >> /\ Head(todo) \in Range(todo)
         /\ Range(todo) = {Head(todo)} \cup Range(Tail(todo))
BY Concatenated, Remaining DEF Proceed

\* ... and moves the others by as many places.
LEMMA ProceedMoves ==
  ASSUME NEW answer, NEW more, IsScript(todo), IsScript(more), Proceed(answer, more)
  PROVE  /\ Len(more) \in Nat /\ Len(todo) \in Nat /\ Len(todo) > 0
         /\ DOMAIN todo = 1..Len(todo) /\ DOMAIN more = 1..Len(more)
         /\ DOMAIN todo' = 1..(Len(more) + Len(todo) - 1)
         /\ \A i \in 1..Len(more) : todo'[i] = more[i]
         /\ \A i \in 2..Len(todo) : todo'[Len(more) + i - 1] = todo[i]
<1>1. /\ IsScript(Tail(todo)) /\ todo # << >> /\ todo' = more \o Tail(todo)
  BY Remaining DEF Proceed
<1>2. /\ Len(more) \in Nat /\ Len(todo) \in Nat /\ Len(todo) > 0
      /\ DOMAIN todo = 1..Len(todo) /\ DOMAIN more = 1..Len(more)
  BY <1>1 DEF IsScript
<1>3. /\ Len(Tail(todo)) = Len(todo) - 1
      /\ \A i \in 1..Len(Tail(todo)) : Tail(todo)[i] = todo[i + 1]
  BY <1>1, HeadTailProperties DEF IsScript
<1> DEFINE S == Range(more) \cup Range(Tail(todo))
<1>4. more \in Seq(S) /\ Tail(todo) \in Seq(S)
  BY <1>1 DEF IsScript
<1>5. /\ DOMAIN todo' = 1..(Len(more) + Len(Tail(todo)))
      /\ \A i \in 1..Len(more) : todo'[i] = more[i]
      /\ \A i \in 1..Len(Tail(todo)) : todo'[Len(more) + i] = Tail(todo)[i]
  BY <1>1, <1>4
<1>6. ASSUME NEW i \in 2..Len(todo) PROVE todo'[Len(more) + i - 1] = todo[i]
  <2>1. i - 1 \in 1..Len(Tail(todo)) /\ (i - 1) + 1 = i /\ Len(more) + (i - 1) = Len(more) + i - 1
    BY <1>2, <1>3
  <2> QED
    BY <1>3, <1>5, <2>1
<1> QED
  BY <1>2, <1>3, <1>5, <1>6

SendsPassword(x) == x.kind \in {"password", "login"}
Encrypts(x) == x.kind \in {"tlsdial", "starttls"}

\* A connection that is encrypted stays so.
LEMMA StaysEncrypted ==
  ASSUME NEW answer, NEW more, Proceed(answer, more),
         conn \in [open: BOOLEAN, tls: BOOLEAN, limit: BOOLEAN]
  PROVE  /\ conn' \in [open: BOOLEAN, tls: BOOLEAN, limit: BOOLEAN]
         /\ conn.tls => conn'.tls
         /\ Encrypts(Head(todo)) => conn'.tls
<1>1. conn' = Connected(Head(todo))
  BY DEF Proceed
<1> QED
  BY <1>1 DEF Connected, Encrypts
=============================================================================
