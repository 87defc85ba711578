-------------------------- MODULE AgentRuntimeProofs --------------------------
(* Theorems of AgentRuntime and their proofs.                              *)
EXTENDS AgentRuntime, TLAPS, SequenceTheorems

-----------------------------------------------------------------------------
(* Sequences.                                                              *)

LEMMA AppendToEmpty == \A x : Append(<< >>, x) = <<x>>
  OBVIOUS

LEMMA SingletonSeq ==
  ASSUME NEW S, NEW x \in S
  PROVE  <<x>> \in Seq(S)
  BY EmptySeq, AppendProperties, AppendToEmpty

LEMMA AppendInside ==
  ASSUME NEW n \in Nat \ {0}, NEW q \in Seq(1..n)
  PROVE  Append(q, n) \in Seq(1..n) /\ Append(q, n) # << >>
  <1> DEFINE S == 1..n
  <1>1. n \in S /\ q \in Seq(S)
    OBVIOUS
  <1> HIDE DEF S
  <1>2. Append(q, n) \in Seq(S) /\ Append(q, n) # << >>
    BY <1>1, AppendProperties
  <1> QED
    BY <1>2 DEF S

\* In order, and one sequence before another.
Rising(s) == \A i, j \in DOMAIN s : i < j => s[i] < s[j]
Before(s, t) == \A i \in DOMAIN s, j \in DOMAIN t : s[i] < t[j]

\* The same of the first k values of a function, and of one that has those
\* of two others one after the other.
Rises(s, k) == \A i, j \in 1..k : i < j => s[i] < s[j]
Comes(s, k, t, n) == \A i \in 1..k, j \in 1..n : s[i] < t[j]
Joins(u, s, k, t, n) ==
    \A i \in 1..(k + n) : u[i] = IF i <= k THEN s[i] ELSE t[i - k]

LEMMA JoinRises ==
  ASSUME NEW k \in Nat, NEW n \in Nat, NEW s, NEW t, NEW u,
         Rises(s, k), Rises(t, n), Comes(s, k, t, n), Joins(u, s, k, t, n)
  PROVE  Rises(u, k + n)
  <1> USE DEF Rises, Comes, Joins
  <1> SUFFICES ASSUME NEW i \in 1..(k + n), NEW j \in 1..(k + n), i < j
               PROVE  u[i] < u[j]
    OBVIOUS
  <1>1. CASE j <= k
    BY <1>1
  <1>2. CASE i <= k /\ k < j
    <2>1. i \in 1..k /\ j - k \in 1..n /\ u[i] = s[i] /\ u[j] = t[j - k]
      BY <1>2
    <2> QED
      BY <2>1
  <1>3. CASE k < i
    <2>1. /\ i - k \in 1..n /\ j - k \in 1..n /\ i - k < j - k
          /\ u[i] = t[i - k] /\ u[j] = t[j - k]
      BY <1>3
    <2> QED
      BY <2>1
  <1> QED
    BY <1>1, <1>2, <1>3

LEMMA JoinComes ==
  ASSUME NEW k \in Nat, NEW n \in Nat, NEW m \in Nat,
         NEW s, NEW t, NEW u, NEW v,
         Comes(s, k, v, m), Comes(t, n, v, m), Joins(u, s, k, t, n)
  PROVE  Comes(u, k + n, v, m)
  <1> USE DEF Comes, Joins
  <1> SUFFICES ASSUME NEW i \in 1..(k + n), NEW j \in 1..m
               PROVE  u[i] < v[j]
    OBVIOUS
  <1>1. CASE i <= k
    BY <1>1
  <1>2. CASE k < i
    <2>1. i - k \in 1..n /\ u[i] = t[i - k]
      BY <1>2
    <2> QED
      BY <2>1
  <1> QED
    BY <1>1, <1>2

LEMMA RisingConcat ==
  ASSUME NEW s \in Seq(Nat), NEW t \in Seq(Nat),
         Rising(s), Rising(t), Before(s, t)
  PROVE  s \o t \in Seq(Nat) /\ Rising(s \o t)
  <1>1. /\ Len(s) \in Nat /\ Len(t) \in Nat
        /\ DOMAIN s = 1..Len(s) /\ DOMAIN t = 1..Len(t)
        /\ s \o t \in Seq(Nat) /\ Len(s \o t) = Len(s) + Len(t)
    BY LenProperties, ConcatProperties
  <1>2. DOMAIN (s \o t) = 1..(Len(s) + Len(t))
    BY <1>1, LenProperties
  <1>3. Joins(s \o t, s, Len(s), t, Len(t))
    BY ConcatProperties DEF Joins
  <1>4. /\ Rises(s, Len(s)) /\ Rises(t, Len(t))
        /\ Comes(s, Len(s), t, Len(t))
    BY <1>1 DEF Rising, Before, Rises, Comes
  <1>5. Rises(s \o t, Len(s) + Len(t))
    BY <1>1, <1>3, <1>4, JoinRises
  <1> QED
    BY <1>1, <1>2, <1>5 DEF Rising, Rises

LEMMA BeforeConcat ==
  ASSUME NEW s \in Seq(Nat), NEW t \in Seq(Nat), NEW v \in Seq(Nat),
         Before(s, v), Before(t, v)
  PROVE  Before(s \o t, v)
  <1>1. /\ Len(s) \in Nat /\ Len(t) \in Nat /\ Len(v) \in Nat
        /\ DOMAIN s = 1..Len(s) /\ DOMAIN t = 1..Len(t)
        /\ DOMAIN v = 1..Len(v)
        /\ s \o t \in Seq(Nat) /\ Len(s \o t) = Len(s) + Len(t)
    BY LenProperties, ConcatProperties
  <1>2. DOMAIN (s \o t) = 1..(Len(s) + Len(t))
    BY <1>1, LenProperties
  <1>3. Joins(s \o t, s, Len(s), t, Len(t))
    BY ConcatProperties DEF Joins
  <1>4. Comes(s, Len(s), v, Len(v)) /\ Comes(t, Len(t), v, Len(v))
    BY <1>1 DEF Before, Comes
  <1>5. Comes(s \o t, Len(s) + Len(t), v, Len(v))
    BY <1>1, <1>3, <1>4, JoinComes
  <1> QED
    BY <1>1, <1>2, <1>5 DEF Before, Comes

\* One more at the end, greater than all there is.
LEMMA AppendRises ==
  ASSUME NEW s \in Seq(Nat), NEW x \in Nat, Rising(s),
         \A i \in 1..Len(s) : s[i] < x
  PROVE  Append(s, x) \in Seq(Nat) /\ Rising(Append(s, x))
  <1>1. <<x>> \in Seq(Nat) /\ DOMAIN <<x>> = {1} /\ <<x>>[1] = x
    OBVIOUS
  <1>2. Rising(<<x>>) /\ Before(s, <<x>>)
    BY <1>1, LenProperties DEF Rising, Before
  <1>3. s \o <<x>> \in Seq(Nat) /\ Rising(s \o <<x>>)
    BY <1>1, <1>2, RisingConcat
  <1>4. Append(s, x) = s \o <<x>>
    BY AppendIsConcat
  <1> QED
    BY <1>3, <1>4

\* What comes before a rising sequence comes before its head and its tail,
\* and they come one after the other.
LEMMA SplitRises ==
  ASSUME NEW s \in Seq(Nat), s # << >>, Rising(s)
  PROVE  /\ <<Head(s)>> \in Seq(Nat) /\ Tail(s) \in Seq(Nat)
         /\ Len(<<Head(s)>>) = 1 /\ Len(s) \in Nat /\ Len(Tail(s)) = Len(s) - 1
         /\ Rising(Tail(s)) /\ Before(<<Head(s)>>, Tail(s))
         /\ \A r \in Seq(Nat) :
               Before(r, s) => Before(r, <<Head(s)>>) /\ Before(r, Tail(s))
  <1>1. /\ Head(s) \in Nat /\ Head(s) = s[1] /\ Tail(s) \in Seq(Nat)
        /\ Len(s) \in Nat \ {0} /\ Len(Tail(s)) = Len(s) - 1
        /\ \A i \in 1..Len(Tail(s)) : Tail(s)[i] = s[i + 1]
    BY HeadTailProperties, EmptySeq
  <1>2. DOMAIN s = 1..Len(s) /\ DOMAIN Tail(s) = 1..(Len(s) - 1)
    BY <1>1, LenProperties
  <1>3. /\ <<Head(s)>> \in Seq(Nat) /\ Len(<<Head(s)>>) = 1
        /\ DOMAIN <<Head(s)>> = {1} /\ <<Head(s)>>[1] = s[1]
    BY <1>1
  <1> DEFINE h == <<Head(s)>>
             t == Tail(s)
             n == Len(s)
  <1>4. /\ n \in Nat \ {0} /\ DOMAIN s = 1..n /\ DOMAIN t = 1..(n - 1)
        /\ DOMAIN h = {1} /\ h[1] = s[1]
        /\ \A i \in 1..(n - 1) : t[i] = s[i + 1]
    BY <1>1, <1>2, <1>3
  <1> HIDE DEF h, t, n
  <1>5. \A i \in 1..(n - 1) : i + 1 \in DOMAIN s /\ 1 \in DOMAIN s /\ 1 < i + 1
    BY <1>4
  <1>6. Rising(t)
    <2> SUFFICES ASSUME NEW i \in 1..(n - 1), NEW j \in 1..(n - 1), i < j
                 PROVE  t[i] < t[j]
      BY <1>4 DEF Rising
    <2>1. i + 1 \in DOMAIN s /\ j + 1 \in DOMAIN s /\ i + 1 < j + 1
      BY <1>4, <1>5
    <2> QED
      BY <1>4, <2>1 DEF Rising
  <1>7. Before(h, t)
    BY <1>4, <1>5 DEF Rising, Before
  <1>8. ASSUME NEW r \in Seq(Nat), Before(r, s)
        PROVE  Before(r, h) /\ Before(r, t)
    <2>1. 1 \in DOMAIN s
      BY <1>4
    <2>2. Before(r, h)
      BY <1>4, <1>8, <2>1 DEF Before
    <2>3. Before(r, t)
      BY <1>4, <1>5, <1>8 DEF Before
    <2> QED
      BY <2>2, <2>3
  <1> QED
    BY <1>1, <1>3, <1>6, <1>7, <1>8 DEF h, t

-----------------------------------------------------------------------------
(* Types, with what they rest on: notifications arrive numbered in order,  *)
(* and a task does not wait for one while there is one in the queue.       *)

Numbered ==
    /\ \A i \in DOMAIN inbox :
          inbox[i][1] = "notify" => inbox[i][2] \in (heard + 1)..notes
    /\ \A i, j \in DOMAIN inbox :
          i < j /\ inbox[i][1] = "notify" /\ inbox[j][1] = "notify"
             => inbox[i][2] < inbox[j][2]
    /\ \A n \in (heard + 1)..notes :
          \E i \in DOMAIN inbox : inbox[i] = <<"notify", n>>

\* TypeOK in three parts, for the steps that change much at once.
TaskTypes ==
    /\ tpc \in {"db", "mcp", "unwind", "body", "stop", "close", "over", "gone"}
               \cup Waits
    /\ thrown \in {"none", "cancel", "fault"}
    /\ outcomes \in Seq({"completed", "failed", "cancelled"})
    /\ {completed, due, cancelling, cancelled, swallowed} \subseteq BOOLEAN
    /\ {conn, db} \subseteq BOOLEAN
    /\ commands \in Seq({"command", "input"})
    /\ tried \subseteq Servers /\ open \subseteq tried /\ errors \subseteq tried

WireTypes ==
    /\ lpc \in {"on", "off", "broken"} /\ inbox \in Seq(Frames)
    /\ sent \in 0..MaxFrames /\ made \in 0..MaxRequests
    /\ cur \in 0..made /\ answer \in 0..made /\ asked \in Seq(1..made)
    /\ (cur # 0) = (tpc = "request")
    /\ notes \in 0..sent /\ heard \in 0..notes /\ leaked \in Nat
    /\ expired \in 0..MaxTimeouts

NoteTypes ==
    /\ nq \in Seq(1..heard) /\ box \in Seq(1..heard) /\ given \in Seq(1..heard)
    /\ (box # << >> => tpc = "notify") /\ (nq # << >> => leaked = 0)

LEMMA TypeParts == TypeOK <=> TaskTypes /\ WireTypes /\ NoteTypes
  BY DEF TypeOK, TaskTypes, WireTypes, NoteTypes

WaitsOnEmpty == tpc = "notify" /\ box = << >> => nq = << >>

TypeInv == TypeOK /\ Numbered /\ WaitsOnEmpty

\* A frame that is no notification does not disturb the numbers, at either
\* end of the wire.
LEMMA NumberedSend ==
  ASSUME TypeOK, Numbered, NEW f \in Frames,
         inbox' = Append(inbox, f), heard' = heard,
         \/ f[1] # "notify" /\ notes' = notes
         \/ f = <<"notify", notes + 1>> /\ notes' = notes + 1
  PROVE  Numbered' /\ inbox' \in Seq(Frames)
  <1>1. inbox \in Seq(Frames) /\ notes \in Nat /\ heard \in 0..notes
    BY RuntimeAssumption DEF TypeOK
  <1>2. /\ inbox' \in Seq(Frames) /\ Len(inbox') = Len(inbox) + 1
        /\ \A i \in 1..Len(inbox) : inbox'[i] = inbox[i]
        /\ inbox'[Len(inbox) + 1] = f
    BY <1>1, AppendProperties
  <1>3. /\ DOMAIN inbox = 1..Len(inbox) /\ Len(inbox) \in Nat
        /\ DOMAIN inbox' = 1..(Len(inbox) + 1)
    BY <1>1, <1>2, LenProperties
  <1>4. \A i \in DOMAIN inbox' : inbox'[i][1] = "notify"
           => inbox'[i][2] \in (heard' + 1)..notes'
    BY <1>1, <1>2, <1>3 DEF Numbered
  <1>5. \A i, j \in DOMAIN inbox' :
           i < j /\ inbox'[i][1] = "notify" /\ inbox'[j][1] = "notify"
              => inbox'[i][2] < inbox'[j][2]
    BY <1>1, <1>2, <1>3 DEF Numbered
  <1>6. ASSUME NEW n \in (heard' + 1)..notes'
        PROVE  \E i \in DOMAIN inbox' : inbox'[i] = <<"notify", n>>
    <2>1. CASE n \in (heard + 1)..notes
      <3>1. PICK i \in DOMAIN inbox : inbox[i] = <<"notify", n>>
        BY <2>1 DEF Numbered
      <3>2. i \in DOMAIN inbox' /\ inbox'[i] = inbox[i]
        BY <1>2, <1>3
      <3> QED
        BY <3>1, <3>2
    <2>2. CASE n \notin (heard + 1)..notes
      <3>1. f = <<"notify", n>>
        BY <1>1, <2>2
      <3>2. Len(inbox) + 1 \in DOMAIN inbox'
        BY <1>3
      <3> QED
        BY <1>2, <3>1, <3>2
    <2> QED
      BY <2>1, <2>2
  <1> QED
    BY <1>2, <1>4, <1>5, <1>6 DEF Numbered

\* What taking the first frame leaves.
LEMMA TailFrames ==
  ASSUME inbox \in Seq(Frames), inbox # << >>, inbox' = Tail(inbox)
  PROVE  /\ inbox' \in Seq(Frames)
         /\ DOMAIN inbox = 1..Len(inbox) /\ Len(inbox) \in Nat \ {0}
         /\ DOMAIN inbox' = 1..(Len(inbox) - 1)
         /\ \A i \in 1..(Len(inbox) - 1) : inbox'[i] = inbox[i + 1]
         /\ Head(inbox) = inbox[1]
  <1>1. /\ inbox' \in Seq(Frames) /\ Len(inbox') = Len(inbox) - 1
        /\ \A i \in 1..Len(inbox') : inbox'[i] = inbox[i + 1]
    BY HeadTailProperties
  <1>2. Len(inbox) \in Nat \ {0}
    BY EmptySeq
  <1> QED
    BY <1>1, <1>2, LenProperties

LEMMA NumberedHear ==
  ASSUME TypeOK, Numbered, inbox # << >>, inbox' = Tail(inbox),
         Head(inbox)[1] # "notify", UNCHANGED <<heard, notes>>
  PROVE  Numbered' /\ inbox' \in Seq(Frames)
  <1>1. inbox \in Seq(Frames) /\ notes \in Nat /\ heard \in 0..notes
    BY RuntimeAssumption DEF TypeOK
  <1>2. /\ inbox' \in Seq(Frames)
        /\ DOMAIN inbox = 1..Len(inbox) /\ Len(inbox) \in Nat \ {0}
        /\ DOMAIN inbox' = 1..(Len(inbox) - 1)
        /\ \A i \in 1..(Len(inbox) - 1) : inbox'[i] = inbox[i + 1]
        /\ Head(inbox) = inbox[1]
    BY <1>1, TailFrames
  <1>3. \A i \in DOMAIN inbox' : inbox'[i][1] = "notify"
           => inbox'[i][2] \in (heard' + 1)..notes'
    BY <1>1, <1>2 DEF Numbered
  <1>4. \A i, j \in DOMAIN inbox' :
           i < j /\ inbox'[i][1] = "notify" /\ inbox'[j][1] = "notify"
              => inbox'[i][2] < inbox'[j][2]
    BY <1>1, <1>2 DEF Numbered
  <1>5. ASSUME NEW n \in (heard' + 1)..notes'
        PROVE  \E i \in DOMAIN inbox' : inbox'[i] = <<"notify", n>>
    <2>1. PICK i \in DOMAIN inbox : inbox[i] = <<"notify", n>>
      BY DEF Numbered
    <2>2. i # 1
      BY <1>2, <2>1
    <2>3. i - 1 \in DOMAIN inbox' /\ inbox'[i - 1] = inbox[i]
      BY <1>2, <2>2
    <2> QED
      BY <2>1, <2>3
  <1> QED
    BY <1>2, <1>3, <1>4, <1>5 DEF Numbered

\* The next notification is the one after the last that was read.
LEMMA NumberedNotify ==
  ASSUME TypeOK, Numbered, inbox # << >>, inbox' = Tail(inbox),
         Head(inbox)[1] = "notify", heard' = Number, notes' = notes
  PROVE  /\ Numbered' /\ inbox' \in Seq(Frames)
         /\ heard' = heard + 1 /\ heard' \in 0..notes
  <1>1. inbox \in Seq(Frames) /\ notes \in Nat /\ heard \in 0..notes
    BY RuntimeAssumption DEF TypeOK
  <1>2. /\ inbox' \in Seq(Frames)
        /\ DOMAIN inbox = 1..Len(inbox) /\ Len(inbox) \in Nat \ {0}
        /\ DOMAIN inbox' = 1..(Len(inbox) - 1)
        /\ \A i \in 1..(Len(inbox) - 1) : inbox'[i] = inbox[i + 1]
        /\ Head(inbox) = inbox[1]
    BY <1>1, TailFrames
  <1>3. 1 \in DOMAIN inbox /\ inbox[1][1] = "notify" /\ heard' = inbox[1][2]
    BY <1>2 DEF Number
  <1>4. heard' \in (heard + 1)..notes
    BY <1>3 DEF Numbered
  <1>5. heard + 1 \in (heard + 1)..notes
    BY <1>1, <1>4
  <1>6. PICK i \in DOMAIN inbox : inbox[i] = <<"notify", heard + 1>>
    BY <1>5 DEF Numbered
  <1>7. heard' = heard + 1
    <2>1. CASE i = 1
      BY <1>3, <1>6, <2>1
    <2>2. CASE i # 1
      <3>1. 1 < i /\ inbox[i][1] = "notify" /\ inbox[i][2] = heard + 1
        BY <1>2, <1>6, <2>2
      <3>2. inbox[1][2] < heard + 1
        BY <1>3, <1>6, <3>1 DEF Numbered
      <3> QED
        BY <1>1, <1>3, <1>4, <3>2
    <2> QED
      BY <2>1, <2>2
  <1>8. \A k \in DOMAIN inbox' : inbox'[k][1] = "notify"
           => inbox'[k][2] \in (heard' + 1)..notes'
    <2> SUFFICES ASSUME NEW k \in DOMAIN inbox', inbox'[k][1] = "notify"
                 PROVE  inbox'[k][2] \in (heard' + 1)..notes'
      OBVIOUS
    <2>1. k + 1 \in DOMAIN inbox /\ 1 < k + 1 /\ inbox'[k] = inbox[k + 1]
      BY <1>2
    <2>2. inbox[1][2] < inbox[k + 1][2]
      BY <1>3, <2>1 DEF Numbered
    <2>3. inbox[k + 1][2] \in (heard + 1)..notes
      BY <2>1 DEF Numbered
    <2> QED
      BY <1>1, <1>3, <1>4, <2>1, <2>2, <2>3
  <1>9. \A k, j \in DOMAIN inbox' :
           k < j /\ inbox'[k][1] = "notify" /\ inbox'[j][1] = "notify"
              => inbox'[k][2] < inbox'[j][2]
    BY <1>1, <1>2 DEF Numbered
  <1>10. ASSUME NEW n \in (heard' + 1)..notes'
         PROVE  \E k \in DOMAIN inbox' : inbox'[k] = <<"notify", n>>
    <2>1. n \in (heard + 1)..notes /\ n # heard'
      BY <1>1, <1>7
    <2>2. PICK k \in DOMAIN inbox : inbox[k] = <<"notify", n>>
      BY <2>1 DEF Numbered
    <2>3. k # 1
      BY <1>3, <2>1, <2>2
    <2>4. k - 1 \in DOMAIN inbox' /\ inbox'[k - 1] = inbox[k]
      BY <1>2, <2>3
    <2> QED
      BY <2>2, <2>4
  <1>11. Numbered'
    BY <1>8, <1>9, <1>10 DEF Numbered
  <1> QED
    BY <1>1, <1>2, <1>4, <1>7, <1>11

LEMMA NumberedSame ==
  ASSUME Numbered, UNCHANGED <<inbox, heard, notes>>
  PROVE  Numbered'
  BY DEF Numbered

\* What a step does to the wire towards the agent.
LEMMA WireNext ==
  ASSUME TypeInv, [Next]_vars
  PROVE  /\ Numbered' /\ inbox' \in Seq(Frames)
         /\ sent' \in 0..MaxFrames /\ notes' \in 0..sent'
         /\ heard' \in heard..notes'
  <1> USE DEF TypeInv
  <1> DEFINE Goal == /\ Numbered' /\ inbox' \in Seq(Frames)
                     /\ sent' \in 0..MaxFrames /\ notes' \in 0..sent'
                     /\ heard' \in heard..notes'
  <1> SUFFICES Goal
    OBVIOUS
  <1>a. /\ inbox \in Seq(Frames) /\ sent \in 0..MaxFrames
        /\ notes \in 0..sent /\ heard \in 0..notes
        /\ asked \in Seq(1..made) /\ made \in Nat
    BY RuntimeAssumption DEF TypeOK
  <1>b. ASSUME UNCHANGED <<inbox, heard, notes, sent>>
        PROVE  Goal
    BY <1>a, <1>b, NumberedSame
  <1>c. ASSUME NEW kind \in Kinds \cup {"response"}, kind # "notify",
               Hears(kind), UNCHANGED <<heard, notes>>
        PROVE  Goal
    BY <1>a, <1>c, NumberedHear DEF Hears
  <1> HIDE DEF Goal, TypeInv
  <1>1. ASSUME NEW kind \in Kinds, Send(kind)
        PROVE  Goal
    <2> DEFINE f == <<kind, IF kind = "notify" THEN notes + 1 ELSE 0>>
    <2>1. /\ f \in Frames /\ inbox' = Append(inbox, f)
          /\ \/ f[1] # "notify" /\ notes' = notes
             \/ f = <<"notify", notes + 1>> /\ notes' = notes + 1
      <3>1. notes' \in Nat
        BY <1>a, <1>1 DEF Send
      <3>2. CASE kind = "notify"
        BY <1>a, <1>1, <3>1, <3>2 DEF Send, Frames
      <3>3. CASE kind # "notify"
        BY <1>a, <1>1, <3>3 DEF Send, Frames
      <3> QED
        BY <3>2, <3>3
    <2>2. heard' = heard /\ sent' = sent + 1 /\ sent < MaxFrames
      BY <1>1 DEF Send
    <2>3. Numbered' /\ inbox' \in Seq(Frames)
      BY <2>1, <2>2, NumberedSend DEF TypeInv
    <2> QED
      BY RuntimeAssumption, <1>a, <2>1, <2>2, <2>3 DEF Goal
  <1>2. CASE Answer
    <2>1. <<"response", Head(asked)>> \in Frames
      BY <1>a, <1>2, HeadTailProperties DEF Answer, Frames
    <2>2. /\ inbox' = Append(inbox, <<"response", Head(asked)>>)
          /\ UNCHANGED <<heard, notes, sent>>
      BY <1>2 DEF Answer, noteVars
    <2>3. Numbered' /\ inbox' \in Seq(Frames)
      BY <2>1, <2>2, NumberedSend DEF TypeInv
    <2> QED
      BY <1>a, <2>2, <2>3 DEF Goal
  <1>3. CASE Disconnect
    BY <1>b, <1>3 DEF Disconnect, noteVars
  <1>4. CASE HearResponse
    BY <1>c, <1>4 DEF HearResponse, noteVars, Kinds
  <1>5. CASE HearCancel
    BY <1>c, <1>5 DEF HearCancel, noteVars, Kinds
  <1>6. CASE HearCommand
    BY <1>c, <1>6 DEF HearCommand, noteVars, Kinds
  <1>7. CASE HearNotify
    <2>1. /\ inbox # << >> /\ inbox' = Tail(inbox) /\ sent' = sent
          /\ Head(inbox)[1] = "notify" /\ heard' = Number /\ notes' = notes
      BY <1>7 DEF HearNotify, Hears
    <2>2. /\ Numbered' /\ inbox' \in Seq(Frames)
          /\ heard' = heard + 1 /\ heard' \in 0..notes
      BY <2>1, NumberedNotify DEF TypeInv
    <2> QED
      BY <1>a, <2>1, <2>2 DEF Goal
  <1>8. CASE HearJunk
    BY <1>c, <1>8 DEF HearJunk, noteVars, Kinds
  <1>8a. CASE HearTorn
    BY <1>c, <1>8a DEF HearTorn, noteVars, Kinds
  <1>9. CASE HearEof
    BY <1>b, <1>9 DEF HearEof, noteVars
  <1>10. CASE DbStart
    BY <1>b, <1>10 DEF DbStart, wireVars, noteVars
  <1>11. ASSUME NEW s \in Servers, StartServer(s)
        PROVE  Goal
    BY <1>b, <1>11 DEF StartServer, wireVars, noteVars
  <1>12. ASSUME NEW s \in Servers, CancelServer(s)
        PROVE  Goal
    BY <1>b, <1>12 DEF CancelServer, wireVars, noteVars
  <1>13. CASE McpStarted
    BY <1>b, <1>13 DEF McpStarted, McpReady, wireVars, noteVars
  <1>14. CASE McpUnwind
    BY <1>b, <1>14 DEF McpUnwind, wireVars, noteVars
  <1>15. CASE McpStop
    BY <1>b, <1>15 DEF McpStop, wireVars, noteVars
  <1>16. CASE DbClose
    BY <1>b, <1>16 DEF DbClose, wireVars, noteVars
  <1>17. CASE Interrupt
    BY <1>b, <1>17 DEF Interrupt, wireVars
  <1>18. CASE Request
    BY <1>b, <1>18 DEF Request, wireVars, noteVars
  <1>19. CASE RequestDone
    BY <1>b, <1>19 DEF RequestDone, wireVars, noteVars
  <1>20. CASE RequestTimeout
    BY <1>b, <1>20 DEF RequestTimeout, wireVars, noteVars
  <1>21. CASE Wait
    BY <1>b, <1>21 DEF Wait, wireVars
  <1>22. CASE WaitDone
    BY <1>b, <1>22 DEF WaitDone, wireVars
  <1>23. CASE WaitTimeout
    BY <1>b, <1>23 DEF WaitTimeout, wireVars
  <1>24. CASE AskInput
    BY <1>b, <1>24 DEF AskInput, wireVars, noteVars
  <1>25. CASE GetInput
    BY <1>b, <1>25 DEF GetInput, TakeCommand, wireVars, noteVars
  <1>26. CASE Dispatch
    BY <1>b, <1>26 DEF Dispatch, TakeCommand, wireVars, noteVars
  <1>27. ASSUME NEW kind \in {"completed", "failed"}, Conclude(kind)
        PROVE  Goal
    BY <1>b, <1>27 DEF Conclude, wireVars, noteVars
  <1>28. ASSUME NEW exc \in {"none", "cancel", "fault"}, End(exc)
        PROVE  Goal
    BY <1>b, <1>28 DEF End, wireVars, noteVars
  <1>29. CASE Report
    BY <1>b, <1>29 DEF Report, ReportAs, noteVars
  <1>30. CASE UNCHANGED vars
    BY <1>b, <1>30 DEF vars, wireVars, noteVars
  <1> QED
    BY <1>1, <1>2, <1>3, <1>4, <1>5, <1>6, <1>7, <1>8, <1>8a, <1>9, <1>10,
       <1>11, <1>12, <1>13, <1>14, <1>15, <1>16, <1>17, <1>18, <1>19, <1>20, <1>21,
       <1>22, <1>23, <1>24, <1>25, <1>26, <1>27, <1>28, <1>29, <1>30 DEF Next,
       Hear, Runtime, Code

LEMMA Grow ==
  ASSUME NEW m \in Nat, NEW n \in Nat, m <= n, NEW q \in Seq(1..m)
  PROVE  q \in Seq(1..n)
  <1>1. 1..m \subseteq 1..n
    OBVIOUS
  <1> QED
    BY <1>1, SeqMonotonic

LEMMA TypeInvInit == Init => TypeInv
  <1> SUFFICES ASSUME Init PROVE TypeInv
    OBVIOUS
  <1>1. TypeOK
    <2>1. TaskTypes
      BY EmptySeq DEF Init, TaskTypes
    <2>2. WireTypes
      BY EmptySeq, RuntimeAssumption DEF Init, WireTypes
    <2>3. NoteTypes
      BY EmptySeq DEF Init, NoteTypes
    <2> QED
      BY <2>1, <2>2, <2>3, TypeParts
  <1>2. DOMAIN inbox = {} /\ (heard + 1)..notes = {}
    BY DEF Init
  <1> QED
    BY <1>1, <1>2 DEF Init, TypeInv, Numbered, WaitsOnEmpty

LEMMA TypeInvNext == TypeInv /\ [Next]_vars => TypeInv'
  <1> SUFFICES ASSUME TypeInv, [Next]_vars
               PROVE  TypeInv'
    OBVIOUS
  <1> DEFINE Rest == TypeOK' /\ WaitsOnEmpty'
  <1>a. TypeOK /\ WaitsOnEmpty
    BY DEF TypeInv
  <1>b. /\ Numbered' /\ inbox' \in Seq(Frames)
        /\ sent' \in 0..MaxFrames /\ notes' \in 0..sent'
        /\ heard' \in heard..notes'
    BY WireNext
  <1> SUFFICES Rest
    BY <1>b DEF TypeInv
  <1>c. ASSUME TaskTypes', WireTypes', NoteTypes', WaitsOnEmpty'
        PROVE  Rest
    BY <1>c DEF TypeOK, TaskTypes, WireTypes, NoteTypes
  <1>d. TaskTypes /\ WireTypes /\ NoteTypes /\ WaitsOnEmpty
    BY <1>a, TypeParts
  <1>1. ASSUME NEW kind \in Kinds, Send(kind)
        PROVE  Rest
    BY <1>1, <1>a, <1>b, RuntimeAssumption DEF Send, taskVars, cancelVars,
       reqVars, mcpVars, TypeOK, WaitsOnEmpty, Waits
  <1>2. CASE Answer
    <2>1. asked \in Seq(1..made) /\ asked' \in Seq(1..made)
      BY <1>a, <1>2, HeadTailProperties DEF Answer, TypeOK
    <2> QED
      BY <2>1, <1>2, <1>a, <1>b, RuntimeAssumption DEF Answer, taskVars,
         cancelVars, noteVars, mcpVars, TypeOK, WaitsOnEmpty, Waits
  <1>3. CASE Disconnect
    BY <1>3, <1>a, <1>b, RuntimeAssumption DEF Disconnect, taskVars,
       cancelVars, reqVars, noteVars, mcpVars, TypeOK, WaitsOnEmpty, Waits
  <1>4. CASE HearResponse
    BY <1>4, <1>a, <1>b, RuntimeAssumption DEF HearResponse, Hears, Number,
       cancelVars, noteVars, taskVars, mcpVars, TypeOK, WaitsOnEmpty, Waits
  <1>5. CASE HearCancel
    BY <1>5, <1>a, <1>b, RuntimeAssumption DEF HearCancel, Hears, reqVars,
       noteVars, taskVars, mcpVars, TypeOK, WaitsOnEmpty, Waits
  <1>6. CASE HearCommand
    BY <1>6, <1>a, <1>b, RuntimeAssumption DEF HearCommand, Hears, cancelVars,
       reqVars, noteVars, taskVars, mcpVars, TypeOK, WaitsOnEmpty, Waits
  <1>7. CASE HearNotify
    <2>0. heard \in Nat /\ heard' = Number /\ heard' = heard + 1
      <3>1. /\ inbox # << >> /\ inbox' = Tail(inbox)
            /\ Head(inbox)[1] = "notify" /\ heard' = Number /\ notes' = notes
        BY <1>7 DEF HearNotify, Hears
      <3>2. heard \in Nat
        BY <1>a, RuntimeAssumption DEF TypeOK
      <3> QED
        BY <3>1, <3>2, NumberedNotify DEF TypeInv
    <2>1. /\ heard' \in Nat \ {0} /\ heard' \in 1..heard'
          /\ nq \in Seq(1..heard') /\ box \in Seq(1..heard')
          /\ given \in Seq(1..heard')
      <3>1. heard' \in Nat \ {0} /\ heard' \in 1..heard' /\ heard <= heard'
        BY <2>0
      <3>2. /\ nq \in Seq(1..heard)
            /\ box \in Seq(1..heard)
            /\ given \in Seq(1..heard)
        BY <1>a DEF TypeOK
      <3> QED
        BY <2>0, <3>1, <3>2, Grow
    <2>2. Append(nq, heard') \in Seq(1..heard') /\ Append(nq, heard') # << >>
      BY <2>1, AppendInside
    <2>3. <<heard'>> \in Seq(1..heard')
      BY <2>1, SingletonSeq
    <2>4. CASE leaked > 0 /\ leaked' = leaked - 1 /\ UNCHANGED <<nq, box>>
      <3>1. TaskTypes'
        BY <2>0, <2>1, <2>4, <1>7, <1>b, <1>d, RuntimeAssumption DEF HearNotify,
           Hears, Number, cancelVars, reqVars, taskVars, mcpVars, TaskTypes,
           Waits, WaitsOnEmpty
      <3>2. WireTypes'
        BY <2>0, <2>1, <2>4, <1>7, <1>b, <1>d, RuntimeAssumption DEF HearNotify,
           Hears, Number, cancelVars, reqVars, taskVars, mcpVars, WireTypes,
           Waits, WaitsOnEmpty
      <3>3. NoteTypes' /\ WaitsOnEmpty'
        BY <2>0, <2>1, <2>4, <1>7, <1>b, <1>d, RuntimeAssumption DEF HearNotify,
           Hears, Number, cancelVars, reqVars, taskVars, mcpVars, NoteTypes,
           WaitsOnEmpty, Waits, WaitsOnEmpty
      <3> QED
        BY <3>1, <3>2, <3>3, <1>c
    <2>5. CASE leaked = 0 /\ UNCHANGED <<nq, leaked>> /\ tpc = "notify"
               /\ box = << >> /\ box' = <<Number>>
      BY <2>0, <2>1, <2>3, <2>5, <1>7, <1>a, <1>b, RuntimeAssumption DEF
         HearNotify, Hears, Number, cancelVars, reqVars, taskVars, mcpVars,
         TypeOK, WaitsOnEmpty, Waits
    <2>6. CASE leaked = 0 /\ UNCHANGED <<box, leaked>>
               /\ nq' = Append(nq, Number) /\ ~(tpc = "notify" /\ box = << >>)
      <3>1. TaskTypes'
        BY <2>0, <2>1, <2>2, <2>6, <1>7, <1>b, <1>d, RuntimeAssumption DEF
           HearNotify, Hears, Number, cancelVars, reqVars, taskVars, mcpVars,
           TaskTypes, Waits, WaitsOnEmpty
      <3>2. WireTypes'
        BY <2>0, <2>1, <2>2, <2>6, <1>7, <1>b, <1>d, RuntimeAssumption DEF
           HearNotify, Hears, Number, cancelVars, reqVars, taskVars, mcpVars,
           WireTypes, Waits, WaitsOnEmpty
      <3>3. NoteTypes' /\ WaitsOnEmpty'
        BY <2>0, <2>1, <2>2, <2>6, <1>7, <1>b, <1>d, RuntimeAssumption DEF
           HearNotify, Hears, Number, cancelVars, reqVars, taskVars, mcpVars,
           NoteTypes, WaitsOnEmpty, Waits, WaitsOnEmpty
      <3> QED
        BY <3>1, <3>2, <3>3, <1>c
    <2> QED
      BY <1>7, <2>4, <2>5, <2>6 DEF HearNotify
  <1>8. CASE HearJunk
    BY <1>8, <1>a, <1>b, RuntimeAssumption DEF HearJunk, Hears, cancelVars,
       reqVars, noteVars, taskVars, mcpVars, TypeOK, WaitsOnEmpty, Waits
  <1>8a. CASE HearTorn
    BY <1>8a, <1>a, <1>b, RuntimeAssumption DEF HearTorn, Hears, cancelVars,
       reqVars, noteVars, taskVars, mcpVars, TypeOK, WaitsOnEmpty, Waits
  <1>9. CASE HearEof
    BY <1>9, <1>a, <1>b, RuntimeAssumption DEF HearEof, taskVars, cancelVars,
       reqVars, noteVars, mcpVars, TypeOK, WaitsOnEmpty, Waits
  <1>10. CASE DbStart
    BY <1>10, <1>a, <1>b, RuntimeAssumption DEF DbStart, cancelVars, wireVars,
       reqVars, noteVars, mcpVars, TypeOK, WaitsOnEmpty, Waits
  <1>11. ASSUME NEW s \in Servers, StartServer(s)
        PROVE  Rest
    BY <1>11, <1>a, <1>b, RuntimeAssumption DEF StartServer, taskVars,
       cancelVars, wireVars, reqVars, noteVars, TypeOK, WaitsOnEmpty, Waits
  <1>12. ASSUME NEW s \in Servers, CancelServer(s)
        PROVE  Rest
    BY <1>12, <1>a, <1>b, RuntimeAssumption DEF CancelServer, taskVars,
       wireVars, reqVars, noteVars, TypeOK, WaitsOnEmpty, Waits
  <1>13. CASE McpStarted
    BY <1>13, <1>a, <1>b, RuntimeAssumption DEF McpStarted, McpReady, Leave,
       cancelVars, wireVars, reqVars, noteVars, Exits, TypeOK, WaitsOnEmpty,
       Waits
  <1>14. CASE McpUnwind
    BY <1>14, <1>a, <1>b, RuntimeAssumption DEF McpUnwind, cancelVars,
       wireVars, reqVars, noteVars, TypeOK, WaitsOnEmpty, Waits
  <1>15. CASE McpStop
    BY <1>15, <1>a, <1>b, RuntimeAssumption DEF McpStop, cancelVars, wireVars,
       reqVars, noteVars, TypeOK, WaitsOnEmpty, Waits
  <1>16. CASE DbClose
    BY <1>16, <1>a, <1>b, RuntimeAssumption DEF DbClose, cancelVars, wireVars,
       reqVars, noteVars, mcpVars, TypeOK, WaitsOnEmpty, Waits
  <1>17. CASE Interrupt
    <2>1. CASE tpc = "notify"
      <3>1. TaskTypes'
        BY <2>1, <1>17, <1>b, <1>d, RuntimeAssumption DEF Interrupt, Leave,
           wireVars, Exits, TaskTypes, Waits, WaitsOnEmpty
      <3>2. WireTypes'
        BY <2>1, <1>17, <1>b, <1>d, RuntimeAssumption DEF Interrupt, Leave,
           wireVars, Exits, WireTypes, Waits, WaitsOnEmpty
      <3>3. NoteTypes' /\ WaitsOnEmpty'
        BY <2>1, <1>17, <1>b, <1>d, RuntimeAssumption DEF Interrupt, Leave,
           wireVars, Exits, NoteTypes, WaitsOnEmpty, Waits, WaitsOnEmpty
      <3> QED
        BY <3>1, <3>2, <3>3, <1>c
    <2>2. CASE tpc \in {"body", "request", "input"}
      <3>1. TaskTypes'
        BY <2>2, <1>17, <1>b, <1>d, RuntimeAssumption DEF Interrupt, Leave,
           wireVars, Exits, TaskTypes, Waits, WaitsOnEmpty
      <3>2. WireTypes'
        BY <2>2, <1>17, <1>b, <1>d, RuntimeAssumption DEF Interrupt, Leave,
           wireVars, Exits, WireTypes, Waits, WaitsOnEmpty
      <3>3. NoteTypes' /\ WaitsOnEmpty'
        BY <2>2, <1>17, <1>b, <1>d, RuntimeAssumption DEF Interrupt, Leave,
           wireVars, Exits, NoteTypes, WaitsOnEmpty, Waits, WaitsOnEmpty
      <3> QED
        BY <3>1, <3>2, <3>3, <1>c
    <2>3. CASE tpc \in {"unwind", "stop"}
      BY <2>3, <1>17, <1>a, <1>b, RuntimeAssumption DEF Interrupt, Leave,
         wireVars, Exits, TypeOK, WaitsOnEmpty, Waits
    <2>4. CASE tpc \in {"db", "close"}
      BY <2>4, <1>17, <1>a, <1>b, RuntimeAssumption DEF Interrupt, Leave,
         wireVars, Exits, TypeOK, WaitsOnEmpty, Waits
    <2> QED
      BY <1>17, <2>1, <2>2, <2>3, <2>4 DEF Interrupt
  <1>18. CASE Request
    <2>1. CASE conn
      <3>1. /\ made \in Nat /\ asked \in Seq(1..made) /\ made' = made + 1
            /\ asked' = Append(asked, made')
        BY <1>18, <2>1, <1>a, RuntimeAssumption DEF Request, TypeOK
      <3>2. asked' \in Seq(1..made')
        BY <3>1, Grow, AppendProperties
      <3> QED
        <4>1. TaskTypes'
          BY <2>1, <3>1, <3>2, <1>18, <1>b, <1>d, RuntimeAssumption DEF Request,
             Leave, Acts, cancelVars, wireVars, noteVars, mcpVars, Exits,
             TaskTypes, Waits, WaitsOnEmpty
        <4>2. WireTypes'
          BY <2>1, <3>1, <3>2, <1>18, <1>b, <1>d, RuntimeAssumption DEF Request,
             Leave, Acts, cancelVars, wireVars, noteVars, mcpVars, Exits,
             WireTypes, Waits, WaitsOnEmpty
        <4>3. NoteTypes' /\ WaitsOnEmpty'
          BY <2>1, <3>1, <3>2, <1>18, <1>b, <1>d, RuntimeAssumption DEF Request,
             Leave, Acts, cancelVars, wireVars, noteVars, mcpVars, Exits,
             NoteTypes, WaitsOnEmpty, Waits, WaitsOnEmpty
        <4> QED
          BY <4>1, <4>2, <4>3, <1>c
    <2>2. CASE ~conn
      BY <2>2, <1>18, <1>a, <1>b, RuntimeAssumption DEF Request, Leave, Acts,
         cancelVars, wireVars, noteVars, mcpVars, Exits, TypeOK, WaitsOnEmpty,
         Waits
    <2> QED
      BY <2>1, <2>2
  <1>19. CASE RequestDone
    BY <1>19, <1>a, <1>b, RuntimeAssumption DEF RequestDone, Leave,
       cancelVars, wireVars, noteVars, mcpVars, Exits, TypeOK, WaitsOnEmpty,
       Waits
  <1>20. CASE RequestTimeout
    <2>1. TaskTypes'
      BY <1>20, <1>b, <1>d, RuntimeAssumption DEF RequestTimeout, cancelVars,
         wireVars, noteVars, mcpVars, TaskTypes, Waits, WaitsOnEmpty
    <2>2. WireTypes'
      BY <1>20, <1>b, <1>d, RuntimeAssumption DEF RequestTimeout, cancelVars,
         wireVars, noteVars, mcpVars, WireTypes, Waits, WaitsOnEmpty
    <2>3. NoteTypes' /\ WaitsOnEmpty'
      BY <1>20, <1>b, <1>d, RuntimeAssumption DEF RequestTimeout, cancelVars,
         wireVars, noteVars, mcpVars, NoteTypes, WaitsOnEmpty, Waits,
         WaitsOnEmpty
    <2> QED
      BY <2>1, <2>2, <2>3, <1>c
  <1>21. CASE Wait
    <2>1. CASE nq # << >>
      <3>1. /\ <<Head(nq)>> \in Seq(1..heard) /\ <<Head(nq)>> # << >>
            /\ Tail(nq) \in Seq(1..heard)
        BY <2>1, <1>a, HeadTailProperties, SingletonSeq DEF TypeOK
      <3>2. /\ box' = <<Head(nq)>> /\ nq' = Tail(nq) /\ tpc' = "notify"
            /\ UNCHANGED <<heard, given, leaked>> /\ leaked = 0
        BY <2>1, <1>a, <1>21 DEF Wait, Acts, TypeOK
      <3>3. NoteTypes' /\ WaitsOnEmpty'
        BY <3>1, <3>2, <1>a DEF NoteTypes, WaitsOnEmpty, TypeOK
      <3>4. TaskTypes' /\ WireTypes'
        BY <2>1, <1>21, <1>a, <1>b, RuntimeAssumption DEF Wait, Acts,
           cancelVars,
           wireVars, reqVars, mcpVars, TypeOK, TaskTypes, WireTypes,
           WaitsOnEmpty, Waits
      <3> QED
        BY <3>3, <3>4, <1>c
    <2>2. CASE nq = << >>
      BY <2>2, <1>21, <1>a, <1>b, RuntimeAssumption DEF Wait, Acts, cancelVars,
         wireVars, reqVars, mcpVars, TypeOK, WaitsOnEmpty, Waits
    <2> QED
      BY <2>1, <2>2
  <1>22. CASE WaitDone
    BY <1>22, <1>a, <1>b, RuntimeAssumption DEF WaitDone, cancelVars,
       wireVars, reqVars, mcpVars, TypeOK, WaitsOnEmpty, Waits
  <1>23. CASE WaitTimeout
    BY <1>23, <1>a, <1>b, RuntimeAssumption DEF WaitTimeout, cancelVars,
       wireVars, reqVars, mcpVars, TypeOK, WaitsOnEmpty, Waits
  <1>24. CASE AskInput
    <2>1. CASE db /\ conn
      BY <2>1, <1>24, <1>a, <1>b, RuntimeAssumption DEF AskInput, Leave, Acts,
         cancelVars, wireVars, reqVars, noteVars, mcpVars, Exits, TypeOK,
         WaitsOnEmpty, Waits
    <2>2. CASE ~(db /\ conn)
      BY <2>2, <1>24, <1>a, <1>b, RuntimeAssumption DEF AskInput, Leave, Acts,
         cancelVars, wireVars, reqVars, noteVars, mcpVars, Exits, TypeOK,
         WaitsOnEmpty, Waits
    <2> QED
      BY <2>1, <2>2
  <1>25. CASE GetInput
    BY <1>25, <1>a, <1>b, RuntimeAssumption DEF GetInput, TakeCommand, Leave,
       cancelVars, wireVars, reqVars, noteVars, mcpVars, Exits, TypeOK,
       WaitsOnEmpty, Waits
  <1>26. CASE Dispatch
    <2>1. commands # << >> /\ commands' = Tail(commands)
      BY <1>26 DEF Dispatch, TakeCommand
    <2>2. commands' \in Seq({"command", "input"})
      BY <1>a, <2>1, HeadTailProperties DEF TypeOK
    <2> QED
      BY <2>2, <1>26, <1>a, <1>b, RuntimeAssumption DEF Dispatch, Acts,
         TakeCommand, taskVars, cancelVars, wireVars, reqVars, noteVars,
         mcpVars, Leave, Exits, TypeOK, WaitsOnEmpty, Waits
  <1>27. ASSUME NEW kind \in {"completed", "failed"}, Conclude(kind)
        PROVE  Rest
    <2>1. Append(outcomes, kind) \in Seq({"completed", "failed", "cancelled"})
      BY <1>a, AppendProperties DEF TypeOK
    <2> QED
      BY <2>1, <1>27, <1>a, <1>b, RuntimeAssumption DEF Conclude, Leave, Acts,
         cancelVars, wireVars, reqVars, noteVars, mcpVars, Exits, TypeOK,
         WaitsOnEmpty, Waits
  <1>28. ASSUME NEW exc \in {"none", "cancel", "fault"}, End(exc)
        PROVE  Rest
    BY <1>28, <1>a, <1>b, RuntimeAssumption DEF End, Leave, Acts, cancelVars,
       wireVars, reqVars, noteVars, mcpVars, Exits, TypeOK, WaitsOnEmpty,
       Waits
  <1>29. CASE Report
    BY <1>29, <1>a, <1>b, RuntimeAssumption DEF Report, ReportAs, Verdict,
       cancelVars, reqVars, noteVars, mcpVars, TypeOK, WaitsOnEmpty, Waits
  <1>30. CASE UNCHANGED vars
    BY <1>30, <1>a, <1>b, RuntimeAssumption DEF vars, taskVars, cancelVars,
       wireVars, reqVars, noteVars, mcpVars, TypeOK, WaitsOnEmpty, Waits
  <1> QED
    BY <1>1, <1>2, <1>3, <1>4, <1>5, <1>6, <1>7, <1>8, <1>8a, <1>9, <1>10,
       <1>11, <1>12, <1>13, <1>14, <1>15, <1>16, <1>17, <1>18, <1>19, <1>20, <1>21,
       <1>22, <1>23, <1>24, <1>25, <1>26, <1>27, <1>28, <1>29, <1>30 DEF Next,
       Hear, Runtime, Code

\* Every variable keeps to its type, whatever task, servers and control plane
\* do.
THEOREM TypeCorrect == Spec => []TypeOK
  <1>1. TypeInv => TypeOK
    BY DEF TypeInv
  <1> QED
    BY <1>1, TypeInvInit, TypeInvNext, PTL DEF Spec

-----------------------------------------------------------------------------
(* Outcomes.  An outcome is sent only with _completed set or by the        *)
(* boundary, and a cancellation ends the listener, so that the flag and    *)
(* task_handle.cancelling() agree once it has begun.                       *)

OneAtMost == outcomes \in {<< >>} \cup
                          {<<e>> : e \in {"completed", "failed", "cancelled"}}
SentIsKnown == outcomes # << >> => completed \/ tpc = "gone"
CancelIsLast ==
    /\ cancelling => cancelled /\ lpc = "off"
    /\ due => cancelling
    /\ tpc = "gone" => lpc = "off"
CancelledIsRight ==
    /\ outcomes = <<"cancelled">> => cancelling
    /\ tpc = "gone" /\ cancelling /\ thrown # "none" /\ ~completed /\ conn
          => outcomes = <<"cancelled">>

RunInv == OneAtMost /\ SentIsKnown /\ CancelIsLast /\ CancelledIsRight

LEMMA RunInvInit == Init => RunInv
  BY DEF Init, RunInv, OneAtMost, SentIsKnown, CancelIsLast, CancelledIsRight

LEMMA RunInvNext == RunInv /\ [Next]_vars => RunInv'
  <1> SUFFICES ASSUME RunInv, [Next]_vars
               PROVE  RunInv'
    OBVIOUS
  <1>1. ASSUME NEW kind \in Kinds, Send(kind)
        PROVE  RunInv'
    BY <1>1, AppendToEmpty DEF Send, taskVars, cancelVars, reqVars, mcpVars,
       RunInv, OneAtMost, SentIsKnown, CancelIsLast, CancelledIsRight
  <1>2. CASE Answer
    BY <1>2, AppendToEmpty DEF Answer, taskVars, cancelVars, noteVars,
       mcpVars, RunInv, OneAtMost, SentIsKnown, CancelIsLast, CancelledIsRight
  <1>3. CASE Disconnect
    BY <1>3, AppendToEmpty DEF Disconnect, taskVars, cancelVars, reqVars,
       noteVars, mcpVars, RunInv, OneAtMost, SentIsKnown, CancelIsLast,
       CancelledIsRight
  <1>4. CASE HearResponse
    BY <1>4, AppendToEmpty DEF HearResponse, Hears, Number, cancelVars,
       noteVars, taskVars, mcpVars, RunInv, OneAtMost, SentIsKnown,
       CancelIsLast, CancelledIsRight
  <1>5. CASE HearCancel
    BY <1>5, AppendToEmpty DEF HearCancel, Hears, reqVars, noteVars, taskVars,
       mcpVars, RunInv, OneAtMost, SentIsKnown, CancelIsLast, CancelledIsRight
  <1>6. CASE HearCommand
    BY <1>6, AppendToEmpty DEF HearCommand, Hears, cancelVars, reqVars,
       noteVars, taskVars, mcpVars, RunInv, OneAtMost, SentIsKnown,
       CancelIsLast, CancelledIsRight
  <1>7. CASE HearNotify
    BY <1>7, AppendToEmpty DEF HearNotify, Hears, Number, cancelVars, reqVars,
       taskVars, mcpVars, RunInv, OneAtMost, SentIsKnown, CancelIsLast,
       CancelledIsRight
  <1>8. CASE HearJunk
    BY <1>8, AppendToEmpty DEF HearJunk, Hears, cancelVars, reqVars, noteVars,
       taskVars, mcpVars, RunInv, OneAtMost, SentIsKnown, CancelIsLast,
       CancelledIsRight
  <1>8a. CASE HearTorn
    BY <1>8a, AppendToEmpty DEF HearTorn, Hears, cancelVars, reqVars, noteVars,
       taskVars, mcpVars, RunInv, OneAtMost, SentIsKnown, CancelIsLast,
       CancelledIsRight
  <1>9. CASE HearEof
    BY <1>9, AppendToEmpty DEF HearEof, taskVars, cancelVars, reqVars,
       noteVars, mcpVars, RunInv, OneAtMost, SentIsKnown, CancelIsLast,
       CancelledIsRight
  <1>10. CASE DbStart
    BY <1>10, AppendToEmpty DEF DbStart, cancelVars, wireVars, reqVars,
       noteVars, mcpVars, RunInv, OneAtMost, SentIsKnown, CancelIsLast,
       CancelledIsRight
  <1>11. ASSUME NEW s \in Servers, StartServer(s)
        PROVE  RunInv'
    BY <1>11, AppendToEmpty DEF StartServer, taskVars, cancelVars, wireVars,
       reqVars, noteVars, RunInv, OneAtMost, SentIsKnown, CancelIsLast,
       CancelledIsRight
  <1>12. ASSUME NEW s \in Servers, CancelServer(s)
        PROVE  RunInv'
    BY <1>12, AppendToEmpty DEF CancelServer, taskVars, wireVars, reqVars,
       noteVars, RunInv, OneAtMost, SentIsKnown, CancelIsLast,
       CancelledIsRight
  <1>13. CASE McpStarted
    BY <1>13, AppendToEmpty DEF McpStarted, McpReady, Leave, cancelVars,
       wireVars, reqVars, noteVars, Exits, RunInv, OneAtMost, SentIsKnown,
       CancelIsLast, CancelledIsRight
  <1>14. CASE McpUnwind
    BY <1>14, AppendToEmpty DEF McpUnwind, cancelVars, wireVars, reqVars,
       noteVars, RunInv, OneAtMost, SentIsKnown, CancelIsLast,
       CancelledIsRight
  <1>15. CASE McpStop
    BY <1>15, AppendToEmpty DEF McpStop, cancelVars, wireVars, reqVars,
       noteVars, RunInv, OneAtMost, SentIsKnown, CancelIsLast,
       CancelledIsRight
  <1>16. CASE DbClose
    BY <1>16, AppendToEmpty DEF DbClose, cancelVars, wireVars, reqVars,
       noteVars, mcpVars, RunInv, OneAtMost, SentIsKnown, CancelIsLast,
       CancelledIsRight
  <1>17. CASE Interrupt
    BY <1>17, AppendToEmpty DEF Interrupt, Leave, wireVars, Exits, RunInv,
       OneAtMost, SentIsKnown, CancelIsLast, CancelledIsRight
  <1>18. CASE Request
    BY <1>18, AppendToEmpty DEF Request, Leave, Acts, cancelVars, wireVars,
       noteVars, mcpVars, Exits, RunInv, OneAtMost, SentIsKnown, CancelIsLast,
       CancelledIsRight
  <1>19. CASE RequestDone
    BY <1>19, AppendToEmpty DEF RequestDone, Leave, cancelVars, wireVars,
       noteVars, mcpVars, Exits, RunInv, OneAtMost, SentIsKnown, CancelIsLast,
       CancelledIsRight
  <1>20. CASE RequestTimeout
    BY <1>20, AppendToEmpty DEF RequestTimeout, cancelVars, wireVars,
       noteVars, mcpVars, RunInv, OneAtMost, SentIsKnown, CancelIsLast,
       CancelledIsRight
  <1>21. CASE Wait
    BY <1>21, AppendToEmpty DEF Wait, Acts, cancelVars, wireVars, reqVars,
       mcpVars, RunInv, OneAtMost, SentIsKnown, CancelIsLast, CancelledIsRight
  <1>22. CASE WaitDone
    BY <1>22, AppendToEmpty DEF WaitDone, cancelVars, wireVars, reqVars,
       mcpVars, RunInv, OneAtMost, SentIsKnown, CancelIsLast, CancelledIsRight
  <1>23. CASE WaitTimeout
    BY <1>23, AppendToEmpty DEF WaitTimeout, cancelVars, wireVars, reqVars,
       mcpVars, RunInv, OneAtMost, SentIsKnown, CancelIsLast, CancelledIsRight
  <1>24. CASE AskInput
    BY <1>24, AppendToEmpty DEF AskInput, Leave, Acts, cancelVars, wireVars,
       reqVars, noteVars, mcpVars, Exits, RunInv, OneAtMost, SentIsKnown,
       CancelIsLast, CancelledIsRight
  <1>25. CASE GetInput
    BY <1>25, AppendToEmpty DEF GetInput, TakeCommand, Leave, cancelVars,
       wireVars, reqVars, noteVars, mcpVars, Exits, RunInv, OneAtMost,
       SentIsKnown, CancelIsLast, CancelledIsRight
  <1>26. CASE Dispatch
    BY <1>26, AppendToEmpty DEF Dispatch, Acts, TakeCommand, taskVars,
       cancelVars, wireVars, reqVars, noteVars, mcpVars, Leave, Exits, RunInv,
       OneAtMost, SentIsKnown, CancelIsLast, CancelledIsRight
  <1>27. ASSUME NEW kind \in {"completed", "failed"}, Conclude(kind)
        PROVE  RunInv'
    <2>1. outcomes = << >> /\ completed' = TRUE /\ tpc = "body" /\ tpc' # "gone"
      BY <1>27 DEF Conclude, Acts, Leave, Exits, RunInv, SentIsKnown
    <2>2. CASE outcomes' = Append(outcomes, kind)
      <3>1. outcomes' = <<kind>> /\ outcomes' # <<"cancelled">>
        BY <2>1, <2>2, AppendToEmpty
      <3>2. OneAtMost' /\ SentIsKnown' /\ CancelledIsRight'
        BY <2>1, <3>1 DEF OneAtMost, SentIsKnown, CancelledIsRight
      <3>3. CancelIsLast'
        BY <2>1, <1>27 DEF Conclude, cancelVars, wireVars, RunInv, CancelIsLast
      <3> QED
        BY <3>2, <3>3 DEF RunInv
    <2>3. CASE UNCHANGED outcomes
      BY <2>1, <2>3, <1>27 DEF Conclude, cancelVars, wireVars, RunInv,
         OneAtMost,
         SentIsKnown, CancelIsLast, CancelledIsRight
    <2> QED
      BY <1>27, <2>2, <2>3 DEF Conclude
  <1>28. ASSUME NEW exc \in {"none", "cancel", "fault"}, End(exc)
        PROVE  RunInv'
    BY <1>28, AppendToEmpty DEF End, Leave, Acts, cancelVars, wireVars,
       reqVars, noteVars, mcpVars, Exits, RunInv, OneAtMost, SentIsKnown,
       CancelIsLast, CancelledIsRight
  <1>29. CASE Report
    <2> DEFINE e == Verdict(completed, cancelled /\ cancelling)
    <2>1. /\ tpc = "over" /\ tpc' = "gone" /\ lpc' = "off"
          /\ outcomes' = IF e = "none" \/ ~conn THEN outcomes
                                                ELSE Append(outcomes, e)
          /\ UNCHANGED <<thrown, completed, conn, due, cancelling, cancelled>>
      BY <1>29 DEF Report, ReportAs, cancelVars
    <2>2. e \in {"none", "cancelled", "failed"}
      BY DEF Verdict
    <2>3. CancelIsLast'
      BY <2>1 DEF RunInv, CancelIsLast
    <2>4. CASE e = "none" \/ ~conn
      <3>1. thrown = "none" \/ completed \/ ~conn
        BY <2>4 DEF Verdict
      <3> QED
        BY <2>1, <2>3, <2>4, <3>1 DEF RunInv, OneAtMost, SentIsKnown,
           CancelledIsRight
    <2>5. CASE e # "none" /\ conn
      <3>1. ~completed /\ outcomes = << >>
        BY <2>1, <2>5 DEF Verdict, RunInv, SentIsKnown
      <3>2. outcomes' = <<e>> /\ e \in {"cancelled", "failed"}
        BY <2>1, <2>2, <2>5, <3>1, AppendToEmpty
      <3>3. e = "cancelled" <=> cancelled /\ cancelling
        BY <2>5 DEF Verdict
      <3>4. cancelling => cancelled
        BY DEF RunInv, CancelIsLast
      <3>5. e = "cancelled" <=> cancelling'
        BY <2>1, <3>3, <3>4
      <3> HIDE DEF e
      <3>6. OneAtMost' /\ SentIsKnown'
        BY <2>1, <3>2 DEF OneAtMost, SentIsKnown
      <3>7. outcomes' = <<"cancelled">> <=> e = "cancelled"
        BY <3>2
      <3>8. CancelledIsRight'
        BY <3>5, <3>7 DEF CancelledIsRight
      <3> QED
        BY <2>3, <3>6, <3>8 DEF RunInv
    <2> QED
      BY <2>4, <2>5
  <1>30. CASE UNCHANGED vars
    BY <1>30, AppendToEmpty DEF vars, taskVars, cancelVars, wireVars, reqVars,
       noteVars, mcpVars, RunInv, OneAtMost, SentIsKnown, CancelIsLast,
       CancelledIsRight
  <1> QED
    BY <1>1, <1>2, <1>3, <1>4, <1>5, <1>6, <1>7, <1>8, <1>8a, <1>9, <1>10,
       <1>11, <1>12, <1>13, <1>14, <1>15, <1>16, <1>17, <1>18, <1>19, <1>20, <1>21,
       <1>22, <1>23, <1>24, <1>25, <1>26, <1>27, <1>28, <1>29, <1>30 DEF Next,
       Hear, Runtime, Code

LEMMA RunInvUse == RunInv => OneOutcome /\ CancelDecides
  <1> SUFFICES ASSUME RunInv
               PROVE  OneOutcome /\ CancelDecides
    OBVIOUS
  <1>1. CASE outcomes = << >>
    BY <1>1 DEF RunInv, CancelledIsRight, OneOutcome, CancelDecides
  <1>2. ASSUME NEW e \in {"completed", "failed", "cancelled"},
               outcomes = <<e>>
        PROVE  OneOutcome /\ CancelDecides
    BY <1>2 DEF RunInv, CancelledIsRight, OneOutcome, CancelDecides
  <1> QED
    BY <1>1, <1>2 DEF RunInv, OneAtMost

\* An agent reports at most one outcome.
THEOREM OneOutcomeHolds == Spec => []OneOutcome
  BY RunInvInit, RunInvNext, RunInvUse, PTL DEF Spec

\* It reports cancelled if it was interrupted before it had reported anything,
\* and only if it was interrupted.
THEOREM CancelDecidesHolds == Spec => []CancelDecides
  BY RunInvInit, RunInvNext, RunInvUse, PTL DEF Spec

-----------------------------------------------------------------------------
(* Answers and sessions.                                                   *)

LEMMA AnswersNext == TypeInv /\ AnswersMatch /\ [Next]_vars => AnswersMatch'
  <1> SUFFICES ASSUME TypeInv, AnswersMatch, [Next]_vars
               PROVE  AnswersMatch'
    OBVIOUS
  <1>a. (cur # 0) = (tpc = "request")
    BY DEF TypeInv, TypeOK
  <1>1. ASSUME NEW kind \in Kinds, Send(kind)
        PROVE  AnswersMatch'
    BY <1>1, <1>a DEF Send, taskVars, cancelVars, reqVars, mcpVars,
       AnswersMatch
  <1>2. CASE Answer
    BY <1>2, <1>a DEF Answer, taskVars, cancelVars, noteVars, mcpVars,
       AnswersMatch
  <1>3. CASE Disconnect
    BY <1>3, <1>a DEF Disconnect, taskVars, cancelVars, reqVars, noteVars,
       mcpVars, AnswersMatch
  <1>4. CASE HearResponse
    BY <1>4, <1>a DEF HearResponse, Hears, Number, cancelVars, noteVars,
       taskVars, mcpVars, AnswersMatch
  <1>5. CASE HearCancel
    BY <1>5, <1>a DEF HearCancel, Hears, reqVars, noteVars, taskVars, mcpVars,
       AnswersMatch
  <1>6. CASE HearCommand
    BY <1>6, <1>a DEF HearCommand, Hears, cancelVars, reqVars, noteVars,
       taskVars, mcpVars, AnswersMatch
  <1>7. CASE HearNotify
    BY <1>7, <1>a DEF HearNotify, Hears, Number, cancelVars, reqVars,
       taskVars, mcpVars, AnswersMatch
  <1>8. CASE HearJunk
    BY <1>8, <1>a DEF HearJunk, Hears, cancelVars, reqVars, noteVars,
       taskVars, mcpVars, AnswersMatch
  <1>8a. CASE HearTorn
    BY <1>8a, <1>a DEF HearTorn, Hears, cancelVars, reqVars, noteVars,
       taskVars, mcpVars, AnswersMatch
  <1>9. CASE HearEof
    BY <1>9, <1>a DEF HearEof, taskVars, cancelVars, reqVars, noteVars,
       mcpVars, AnswersMatch
  <1>10. CASE DbStart
    BY <1>10, <1>a DEF DbStart, cancelVars, wireVars, reqVars, noteVars,
       mcpVars, AnswersMatch
  <1>11. ASSUME NEW s \in Servers, StartServer(s)
        PROVE  AnswersMatch'
    BY <1>11, <1>a DEF StartServer, taskVars, cancelVars, wireVars, reqVars,
       noteVars, AnswersMatch
  <1>12. ASSUME NEW s \in Servers, CancelServer(s)
        PROVE  AnswersMatch'
    BY <1>12, <1>a DEF CancelServer, taskVars, wireVars, reqVars, noteVars,
       AnswersMatch
  <1>13. CASE McpStarted
    BY <1>13, <1>a DEF McpStarted, McpReady, Leave, cancelVars, wireVars,
       reqVars, noteVars, Exits, AnswersMatch
  <1>14. CASE McpUnwind
    BY <1>14, <1>a DEF McpUnwind, cancelVars, wireVars, reqVars, noteVars,
       AnswersMatch
  <1>15. CASE McpStop
    BY <1>15, <1>a DEF McpStop, cancelVars, wireVars, reqVars, noteVars,
       AnswersMatch
  <1>16. CASE DbClose
    BY <1>16, <1>a DEF DbClose, cancelVars, wireVars, reqVars, noteVars,
       mcpVars, AnswersMatch
  <1>17. CASE Interrupt
    BY <1>17, <1>a DEF Interrupt, Leave, wireVars, Exits, AnswersMatch
  <1>18. CASE Request
    BY <1>18, <1>a DEF Request, Leave, Acts, cancelVars, wireVars, noteVars,
       mcpVars, Exits, AnswersMatch
  <1>19. CASE RequestDone
    BY <1>19, <1>a DEF RequestDone, Leave, cancelVars, wireVars, noteVars,
       mcpVars, Exits, AnswersMatch
  <1>20. CASE RequestTimeout
    BY <1>20, <1>a DEF RequestTimeout, cancelVars, wireVars, noteVars,
       mcpVars, AnswersMatch
  <1>21. CASE Wait
    BY <1>21, <1>a DEF Wait, Acts, cancelVars, wireVars, reqVars, mcpVars,
       AnswersMatch
  <1>22. CASE WaitDone
    BY <1>22, <1>a DEF WaitDone, cancelVars, wireVars, reqVars, mcpVars,
       AnswersMatch
  <1>23. CASE WaitTimeout
    BY <1>23, <1>a DEF WaitTimeout, cancelVars, wireVars, reqVars, mcpVars,
       AnswersMatch
  <1>24. CASE AskInput
    BY <1>24, <1>a DEF AskInput, Leave, Acts, cancelVars, wireVars, reqVars,
       noteVars, mcpVars, Exits, AnswersMatch
  <1>25. CASE GetInput
    BY <1>25, <1>a DEF GetInput, TakeCommand, Leave, cancelVars, wireVars,
       reqVars, noteVars, mcpVars, Exits, AnswersMatch
  <1>26. CASE Dispatch
    BY <1>26, <1>a DEF Dispatch, Acts, TakeCommand, taskVars, cancelVars,
       wireVars, reqVars, noteVars, mcpVars, Leave, Exits, AnswersMatch
  <1>27. ASSUME NEW kind \in {"completed", "failed"}, Conclude(kind)
        PROVE  AnswersMatch'
    BY <1>27, <1>a DEF Conclude, Leave, Acts, cancelVars, wireVars, reqVars,
       noteVars, mcpVars, Exits, AnswersMatch
  <1>28. ASSUME NEW exc \in {"none", "cancel", "fault"}, End(exc)
        PROVE  AnswersMatch'
    BY <1>28, <1>a DEF End, Leave, Acts, cancelVars, wireVars, reqVars,
       noteVars, mcpVars, Exits, AnswersMatch
  <1>29. CASE Report
    BY <1>29, <1>a DEF Report, ReportAs, Verdict, cancelVars, reqVars,
       noteVars, mcpVars, AnswersMatch
  <1>30. CASE UNCHANGED vars
    BY <1>30, <1>a DEF vars, taskVars, cancelVars, wireVars, reqVars,
       noteVars, mcpVars, AnswersMatch
  <1> QED
    BY <1>1, <1>2, <1>3, <1>4, <1>5, <1>6, <1>7, <1>8, <1>8a, <1>9, <1>10,
       <1>11, <1>12, <1>13, <1>14, <1>15, <1>16, <1>17, <1>18, <1>19, <1>20, <1>21,
       <1>22, <1>23, <1>24, <1>25, <1>26, <1>27, <1>28, <1>29, <1>30 DEF Next,
       Hear, Runtime, Code

\* Nothing is on the exit stack before the servers are started, and nothing is
\* without servers.
SessionInv == SessionsClosed /\ (tpc = "db" => open = {})

LEMMA SessionInvNext == TypeInv /\ SessionInv /\ [Next]_vars => SessionInv'
  <1> SUFFICES ASSUME TypeInv, SessionInv, [Next]_vars
               PROVE  SessionInv'
    OBVIOUS
  <1>a. open \subseteq Servers
    BY DEF TypeInv, TypeOK
  <1>1. ASSUME NEW kind \in Kinds, Send(kind)
        PROVE  SessionInv'
    BY <1>1, <1>a DEF Send, taskVars, cancelVars, reqVars, mcpVars,
       SessionInv, SessionsClosed
  <1>2. CASE Answer
    BY <1>2, <1>a DEF Answer, taskVars, cancelVars, noteVars, mcpVars,
       SessionInv, SessionsClosed
  <1>3. CASE Disconnect
    BY <1>3, <1>a DEF Disconnect, taskVars, cancelVars, reqVars, noteVars,
       mcpVars, SessionInv, SessionsClosed
  <1>4. CASE HearResponse
    BY <1>4, <1>a DEF HearResponse, Hears, Number, cancelVars, noteVars,
       taskVars, mcpVars, SessionInv, SessionsClosed
  <1>5. CASE HearCancel
    BY <1>5, <1>a DEF HearCancel, Hears, reqVars, noteVars, taskVars, mcpVars,
       SessionInv, SessionsClosed
  <1>6. CASE HearCommand
    BY <1>6, <1>a DEF HearCommand, Hears, cancelVars, reqVars, noteVars,
       taskVars, mcpVars, SessionInv, SessionsClosed
  <1>7. CASE HearNotify
    BY <1>7, <1>a DEF HearNotify, Hears, Number, cancelVars, reqVars,
       taskVars, mcpVars, SessionInv, SessionsClosed
  <1>8. CASE HearJunk
    BY <1>8, <1>a DEF HearJunk, Hears, cancelVars, reqVars, noteVars,
       taskVars, mcpVars, SessionInv, SessionsClosed
  <1>8a. CASE HearTorn
    BY <1>8a, <1>a DEF HearTorn, Hears, cancelVars, reqVars, noteVars,
       taskVars, mcpVars, SessionInv, SessionsClosed
  <1>9. CASE HearEof
    BY <1>9, <1>a DEF HearEof, taskVars, cancelVars, reqVars, noteVars,
       mcpVars, SessionInv, SessionsClosed
  <1>10. CASE DbStart
    BY <1>10, <1>a DEF DbStart, cancelVars, wireVars, reqVars, noteVars,
       mcpVars, SessionInv, SessionsClosed
  <1>11. ASSUME NEW s \in Servers, StartServer(s)
        PROVE  SessionInv'
    BY <1>11, <1>a DEF StartServer, taskVars, cancelVars, wireVars, reqVars,
       noteVars, SessionInv, SessionsClosed
  <1>12. ASSUME NEW s \in Servers, CancelServer(s)
        PROVE  SessionInv'
    BY <1>12, <1>a DEF CancelServer, taskVars, wireVars, reqVars, noteVars,
       SessionInv, SessionsClosed
  <1>13. CASE McpStarted
    BY <1>13, <1>a DEF McpStarted, McpReady, Leave, cancelVars, wireVars,
       reqVars, noteVars, Exits, SessionInv, SessionsClosed
  <1>14. CASE McpUnwind
    BY <1>14, <1>a DEF McpUnwind, cancelVars, wireVars, reqVars, noteVars,
       SessionInv, SessionsClosed
  <1>15. CASE McpStop
    BY <1>15, <1>a DEF McpStop, cancelVars, wireVars, reqVars, noteVars,
       SessionInv, SessionsClosed
  <1>16. CASE DbClose
    BY <1>16, <1>a DEF DbClose, cancelVars, wireVars, reqVars, noteVars,
       mcpVars, SessionInv, SessionsClosed
  <1>17. CASE Interrupt
    BY <1>17, <1>a DEF Interrupt, Leave, wireVars, Exits, SessionInv,
       SessionsClosed
  <1>18. CASE Request
    BY <1>18, <1>a DEF Request, Leave, Acts, cancelVars, wireVars, noteVars,
       mcpVars, Exits, SessionInv, SessionsClosed
  <1>19. CASE RequestDone
    BY <1>19, <1>a DEF RequestDone, Leave, cancelVars, wireVars, noteVars,
       mcpVars, Exits, SessionInv, SessionsClosed
  <1>20. CASE RequestTimeout
    BY <1>20, <1>a DEF RequestTimeout, cancelVars, wireVars, noteVars,
       mcpVars, SessionInv, SessionsClosed
  <1>21. CASE Wait
    BY <1>21, <1>a DEF Wait, Acts, cancelVars, wireVars, reqVars, mcpVars,
       SessionInv, SessionsClosed
  <1>22. CASE WaitDone
    BY <1>22, <1>a DEF WaitDone, cancelVars, wireVars, reqVars, mcpVars,
       SessionInv, SessionsClosed
  <1>23. CASE WaitTimeout
    BY <1>23, <1>a DEF WaitTimeout, cancelVars, wireVars, reqVars, mcpVars,
       SessionInv, SessionsClosed
  <1>24. CASE AskInput
    BY <1>24, <1>a DEF AskInput, Leave, Acts, cancelVars, wireVars, reqVars,
       noteVars, mcpVars, Exits, SessionInv, SessionsClosed
  <1>25. CASE GetInput
    BY <1>25, <1>a DEF GetInput, TakeCommand, Leave, cancelVars, wireVars,
       reqVars, noteVars, mcpVars, Exits, SessionInv, SessionsClosed
  <1>26. CASE Dispatch
    BY <1>26, <1>a DEF Dispatch, Acts, TakeCommand, taskVars, cancelVars,
       wireVars, reqVars, noteVars, mcpVars, Leave, Exits, SessionInv,
       SessionsClosed
  <1>27. ASSUME NEW kind \in {"completed", "failed"}, Conclude(kind)
        PROVE  SessionInv'
    BY <1>27, <1>a DEF Conclude, Leave, Acts, cancelVars, wireVars, reqVars,
       noteVars, mcpVars, Exits, SessionInv, SessionsClosed
  <1>28. ASSUME NEW exc \in {"none", "cancel", "fault"}, End(exc)
        PROVE  SessionInv'
    BY <1>28, <1>a DEF End, Leave, Acts, cancelVars, wireVars, reqVars,
       noteVars, mcpVars, Exits, SessionInv, SessionsClosed
  <1>29. CASE Report
    BY <1>29, <1>a DEF Report, ReportAs, Verdict, cancelVars, reqVars,
       noteVars, mcpVars, SessionInv, SessionsClosed
  <1>30. CASE UNCHANGED vars
    BY <1>30, <1>a DEF vars, taskVars, cancelVars, wireVars, reqVars,
       noteVars, mcpVars, SessionInv, SessionsClosed
  <1> QED
    BY <1>1, <1>2, <1>3, <1>4, <1>5, <1>6, <1>7, <1>8, <1>8a, <1>9, <1>10,
       <1>11, <1>12, <1>13, <1>14, <1>15, <1>16, <1>17, <1>18, <1>19, <1>20, <1>21,
       <1>22, <1>23, <1>24, <1>25, <1>26, <1>27, <1>28, <1>29, <1>30 DEF Next,
       Hear, Runtime, Code

\* Sessions are closed before the resource scope is left, however it is left.
THEOREM SessionsHold == Spec => []SessionsClosed
  <1> DEFINE Inv == TypeInv /\ SessionInv
  <1>1. Init => Inv
    BY TypeInvInit DEF Init, SessionInv, SessionsClosed
  <1>2. Inv /\ [Next]_vars => Inv'
    BY TypeInvNext, SessionInvNext
  <1>3. Inv => SessionsClosed
    BY DEF SessionInv
  <1> QED
    BY <1>1, <1>2, <1>3, PTL DEF Spec

\* A response is taken only for the request in hand.
THEOREM AnswersHold == Spec => []AnswersMatch
  <1> DEFINE Inv == TypeInv /\ AnswersMatch
  <1>1. Init => Inv
    BY TypeInvInit DEF Init, AnswersMatch
  <1>2. Inv /\ [Next]_vars => Inv'
    BY TypeInvNext, AnswersNext
  <1> QED
    BY <1>1, <1>2, PTL DEF Spec

-----------------------------------------------------------------------------
(* Notifications.  Every one that was read is with the task, in the queue, *)
(* or was taken by the getter of a wait that timed out, and those the task *)
(* has are older than those it will get.                                   *)

Counted == heard + leaked = Len(given) + Len(box) + Len(nq) + expired

InOrder == /\ Rising(given) /\ Rising(nq) /\ Len(box) <= 1
           /\ Before(given, box) /\ Before(given, nq) /\ Before(box, nq)

NoteInv == cancelled \/ (Counted /\ InOrder)

Held(s) == /\ s \in Seq(Nat) /\ Len(s) \in Nat /\ DOMAIN s = 1..Len(s)
           /\ \A i \in 1..Len(s) : s[i] \in 1..heard

\* What the type invariant says of the places a notification can be in.
LEMMA Places ==
  ASSUME TypeInv
  PROVE  /\ heard \in Nat /\ expired \in Nat /\ leaked \in Nat
         /\ Held(given) /\ Held(box) /\ Held(nq)
  <1>1. /\ heard \in Nat /\ expired \in Nat /\ leaked \in Nat
        /\ \A s \in {given, box, nq} : s \in Seq(1..heard)
    BY RuntimeAssumption DEF TypeInv, TypeOK
  <1>2. ASSUME NEW s \in Seq(1..heard)
        PROVE  Held(s)
    <2>1. 1..heard \subseteq Nat
      OBVIOUS
    <2>2. s \in Seq(Nat)
      BY <2>1, SeqMonotonic
    <2> QED
      BY <2>2, LenProperties DEF Held
  <1> QED
    BY <1>1, <1>2

LEMMA NoteInvInit == Init => NoteInv
  <1> SUFFICES ASSUME Init
               PROVE  Counted /\ InOrder
    BY DEF NoteInv
  <1>1. Len(given) = 0 /\ Len(box) = 0 /\ Len(nq) = 0
    BY EmptySeq DEF Init
  <1>2. DOMAIN given = {} /\ DOMAIN box = {} /\ DOMAIN nq = {}
    BY DEF Init
  <1> QED
    BY <1>1, <1>2 DEF Init, Counted, InOrder, Rising, Before

LEMMA NoteInvNext == TypeInv /\ RunInv /\ NoteInv /\ [Next]_vars => NoteInv'
  <1> SUFFICES ASSUME TypeInv, RunInv, NoteInv, [Next]_vars
               PROVE  NoteInv'
    OBVIOUS
  <1>a. /\ heard \in Nat /\ expired \in Nat /\ leaked \in Nat
        /\ Held(given) /\ Held(box) /\ Held(nq)
    BY Places
  <1> USE DEF Held
  <1>b. ASSUME UNCHANGED <<heard, nq, box, leaked, expired, given>>,
               cancelled => cancelled'
        PROVE  NoteInv'
    BY <1>b DEF NoteInv, Counted, InOrder, Rising, Before
  <1>1. ASSUME NEW kind \in Kinds, Send(kind)
        PROVE  NoteInv'
    BY <1>b, <1>1 DEF Send, cancelVars
  <1>2. CASE Answer
    BY <1>b, <1>2 DEF Answer, cancelVars, noteVars
  <1>3. CASE Disconnect
    BY <1>b, <1>3 DEF Disconnect, cancelVars, noteVars
  <1>4. CASE HearResponse
    BY <1>b, <1>4 DEF HearResponse, Hears, cancelVars, noteVars
  <1>5. CASE HearCancel
    BY <1>5 DEF HearCancel, NoteInv
  <1>6. CASE HearCommand
    BY <1>b, <1>6 DEF HearCommand, Hears, cancelVars, noteVars
  <1>7. CASE HearNotify
    <2> SUFFICES ASSUME ~cancelled
                 PROVE  Counted' /\ InOrder'
      BY <1>7 DEF NoteInv, HearNotify, cancelVars
    <2>a. Counted /\ InOrder
      BY DEF NoteInv
    <2>b. heard' = heard + 1 /\ Number = heard + 1
      <3>1. /\ inbox # << >> /\ inbox' = Tail(inbox)
            /\ Head(inbox)[1] = "notify" /\ heard' = Number /\ notes' = notes
        BY <1>7 DEF HearNotify, Hears
      <3> QED
        BY <3>1, NumberedNotify DEF TypeInv
    <2>c. UNCHANGED <<given, expired>>
      BY <1>7 DEF HearNotify
    <2>1. CASE leaked > 0 /\ leaked' = leaked - 1 /\ UNCHANGED <<nq, box>>
      BY <1>a, <2>a, <2>b, <2>c, <2>1 DEF Counted, InOrder, Rising, Before
    <2>2. CASE /\ leaked = 0 /\ tpc = "notify" /\ box = << >>
               /\ box' = <<Number>> /\ UNCHANGED <<nq, leaked>>
      <3>1. nq = << >>
        BY <2>2 DEF TypeInv, WaitsOnEmpty
      <3>2. /\ Len(box) = 0 /\ Len(nq) = 0 /\ Len(box') = 1
            /\ DOMAIN box' = {1} /\ box'[1] = heard + 1
        BY <2>b, <2>2, <3>1
      <3> QED
        BY <1>a, <2>a, <2>b, <2>c, <2>2, <3>2
           DEF Counted, InOrder, Rising, Before
    <2>3. CASE /\ leaked = 0 /\ nq' = Append(nq, Number)
               /\ UNCHANGED <<box, leaked>>
      <3>1. /\ Len(nq') = Len(nq) + 1 /\ DOMAIN nq' = 1..(Len(nq) + 1)
            /\ \A i \in 1..Len(nq) : nq'[i] = nq[i]
            /\ nq'[Len(nq) + 1] = heard + 1
        BY <1>a, <2>b, <2>3, AppendProperties, LenProperties
      <3>2. Counted'
        BY <1>a, <2>a, <2>b, <2>c, <2>3, <3>1 DEF Counted
      <3>3. Rising(nq)'
        <4>1. \A i \in 1..Len(nq) : nq[i] < heard + 1
          BY <1>a
        <4>2. Rising(Append(nq, heard + 1))
          BY <1>a, <2>a, <4>1, AppendRises DEF InOrder
        <4> QED
          BY <2>b, <2>3, <4>2
      <3>4. Before(given, nq)' /\ Before(box, nq)'
        BY <1>a, <2>a, <2>c, <2>3, <3>1 DEF InOrder, Before
      <3> QED
        BY <2>a, <2>c, <2>3, <3>2, <3>3, <3>4 DEF InOrder, Rising, Before
    <2> QED
      BY <1>7, <2>1, <2>2, <2>3 DEF HearNotify
  <1>8. CASE HearJunk
    BY <1>b, <1>8 DEF HearJunk, Hears, cancelVars, noteVars
  <1>8a. CASE HearTorn
    BY <1>b, <1>8a DEF HearTorn, Hears, cancelVars, noteVars
  <1>9. CASE HearEof
    BY <1>b, <1>9 DEF HearEof, cancelVars, noteVars
  <1>10. CASE DbStart
    BY <1>b, <1>10 DEF DbStart, cancelVars, noteVars
  <1>11. ASSUME NEW s \in Servers, StartServer(s)
        PROVE  NoteInv'
    BY <1>b, <1>11 DEF StartServer, cancelVars, noteVars
  <1>12. ASSUME NEW s \in Servers, CancelServer(s)
        PROVE  NoteInv'
    BY <1>b, <1>12 DEF CancelServer, noteVars
  <1>13. CASE McpStarted
    BY <1>b, <1>13 DEF McpStarted, McpReady, cancelVars, noteVars
  <1>14. CASE McpUnwind
    BY <1>b, <1>14 DEF McpUnwind, cancelVars, noteVars
  <1>15. CASE McpStop
    BY <1>b, <1>15 DEF McpStop, cancelVars, noteVars
  <1>16. CASE DbClose
    BY <1>b, <1>16 DEF DbClose, cancelVars, noteVars
  <1>17. CASE Interrupt
    BY <1>17 DEF Interrupt, RunInv, CancelIsLast, NoteInv
  <1>18. CASE Request
    BY <1>b, <1>18 DEF Request, cancelVars, noteVars
  <1>19. CASE RequestDone
    BY <1>b, <1>19 DEF RequestDone, cancelVars, noteVars
  <1>20. CASE RequestTimeout
    BY <1>b, <1>20 DEF RequestTimeout, cancelVars, noteVars
  <1>21. CASE Wait
    <2> SUFFICES ASSUME ~cancelled
                 PROVE  Counted' /\ InOrder'
      BY <1>21 DEF NoteInv, Wait, cancelVars
    <2>a. Counted /\ InOrder
      BY DEF NoteInv
    <2>b. UNCHANGED <<heard, leaked, expired, given>> /\ box = << >>
      BY <1>21 DEF Wait, Acts, TypeInv, TypeOK
    <2>1. CASE nq # << >>
      <3>1. /\ box' = <<Head(nq)>> /\ nq' = Tail(nq) /\ given' = given
            /\ Len(box) = 0
        BY <1>21, <2>1, <2>b DEF Wait
      <3>2. /\ Len(<<Head(nq)>>) = 1 /\ Len(nq) \in Nat
            /\ Len(Tail(nq)) = Len(nq) - 1
            /\ Rising(Tail(nq)) /\ Before(<<Head(nq)>>, Tail(nq))
            /\ Before(given, <<Head(nq)>>) /\ Before(given, Tail(nq))
        BY <1>a, <2>1, <2>a, SplitRises DEF InOrder
      <3>3. Len(box') = 1 /\ Len(nq') = Len(nq) - 1 /\ Rising(given)
        BY <2>a, <3>1, <3>2 DEF InOrder
      <3>4. InOrder'
        BY <3>1, <3>2, <3>3 DEF InOrder
      <3>5. Counted'
        <4>1. /\ Len(given) \in Nat
              /\ Len(given') = Len(given)
              /\ Len(nq) \in Nat
              /\ Len(box) = 0 /\ Len(box') = 1 /\ Len(nq') = Len(nq) - 1
              /\ UNCHANGED <<heard, leaked, expired>>
          BY <1>a, <2>b, <3>1, <3>3
        <4> HIDE DEF Held
        <4> QED
          BY <1>a, <2>a, <4>1 DEF Counted
      <3> QED
        BY <3>4, <3>5
    <2>2. CASE nq = << >>
      BY <1>21, <2>2, <2>a, <2>b DEF Wait, Counted, InOrder, Rising, Before
    <2> QED
      BY <2>1, <2>2
  <1>22. CASE WaitDone
    <2> SUFFICES ASSUME ~cancelled
                 PROVE  Counted' /\ InOrder'
      BY <1>22 DEF NoteInv, WaitDone, cancelVars
    <2>a. Counted /\ InOrder
      BY DEF NoteInv
    <2>b. /\ UNCHANGED <<heard, nq, leaked, expired>> /\ box # << >>
          /\ given' = given \o box /\ box' = << >>
      BY <1>22 DEF WaitDone
    <2>1. Len(box) = 1
      BY <1>a, <2>a, <2>b, EmptySeq DEF InOrder
    <2>2. Rising(box)
      BY <1>a, <2>1 DEF Rising
    <2>3. Rising(given \o box) /\ Before(given \o box, nq)
      BY <1>a, <2>a, <2>2, RisingConcat, BeforeConcat DEF InOrder
    <2>4. Len(given \o box) = Len(given) + Len(box)
      BY <1>a, ConcatProperties
    <2>5. Len(box') = 0 /\ DOMAIN box' = {}
      BY <2>b
    <2>6. Counted'
      <3>1. /\ Len(given') = Len(given) + 1
            /\ Len(given) \in Nat
            /\ Len(nq) \in Nat
        BY <1>a, <2>b, <2>1, <2>4
      <3> HIDE DEF Held
      <3> QED
        BY <1>a, <2>a, <2>b, <2>1, <2>5, <3>1 DEF Counted
    <2>7. Rising(given)' /\ Before(given, nq)'
      BY <2>b, <2>3
    <2>8. /\ Rising(nq)'
          /\ Before(given, box)'
          /\ Before(box, nq)'
          /\ Len(box') <= 1
      BY <2>a, <2>b, <2>5 DEF InOrder, Before
    <2> QED
      BY <2>6, <2>7, <2>8 DEF InOrder
  <1>23. CASE WaitTimeout
    <2> SUFFICES ASSUME ~cancelled
                 PROVE  Counted' /\ InOrder'
      BY <1>23 DEF NoteInv, WaitTimeout, cancelVars
    <2>a. Counted /\ InOrder
      BY DEF NoteInv
    <2>b. /\ UNCHANGED <<heard, nq, given>> /\ box' = << >>
          /\ expired' = expired + 1
          /\ leaked' = IF box = << >> THEN leaked + 1 ELSE leaked
      BY <1>23 DEF WaitTimeout
    <2>1. Len(box) = IF box = << >> THEN 0 ELSE 1
      BY <1>a, <2>a, EmptySeq DEF InOrder
    <2>2. Len(box') = 0 /\ DOMAIN box' = {}
      BY <2>b
    <2>3. Counted'
      <3>1. Len(given) \in Nat /\ Len(nq) \in Nat
        BY <1>a
      <3> HIDE DEF Held
      <3>2. CASE box = << >>
        BY <1>a, <2>a, <2>b, <2>1, <2>2, <3>1, <3>2 DEF Counted
      <3>3. CASE box # << >>
        BY <1>a, <2>a, <2>b, <2>1, <2>2, <3>1, <3>3 DEF Counted
      <3> QED
        BY <3>2, <3>3
    <2> QED
      BY <2>a, <2>b, <2>2, <2>3 DEF InOrder, Rising, Before
  <1>24. CASE AskInput
    BY <1>b, <1>24 DEF AskInput, cancelVars, noteVars
  <1>25. CASE GetInput
    BY <1>b, <1>25 DEF GetInput, TakeCommand, cancelVars, noteVars
  <1>26. CASE Dispatch
    BY <1>b, <1>26 DEF Dispatch, TakeCommand, cancelVars, noteVars
  <1>27. ASSUME NEW kind \in {"completed", "failed"}, Conclude(kind)
        PROVE  NoteInv'
    BY <1>b, <1>27 DEF Conclude, cancelVars, noteVars
  <1>28. ASSUME NEW exc \in {"none", "cancel", "fault"}, End(exc)
        PROVE  NoteInv'
    BY <1>b, <1>28 DEF End, cancelVars, noteVars
  <1>29. CASE Report
    BY <1>b, <1>29 DEF Report, ReportAs, cancelVars, noteVars
  <1>30. CASE UNCHANGED vars
    BY <1>b, <1>30 DEF vars, cancelVars, noteVars
  <1> QED
    BY <1>1, <1>2, <1>3, <1>4, <1>5, <1>6, <1>7, <1>8, <1>8a, <1>9, <1>10,
       <1>11, <1>12, <1>13, <1>14, <1>15, <1>16, <1>17, <1>18, <1>19, <1>20, <1>21,
       <1>22, <1>23, <1>24, <1>25, <1>26, <1>27, <1>28, <1>29, <1>30 DEF Next,
       Hear, Runtime, Code

LEMMA NoteInvUse == TypeInv /\ NoteInv => NothingLost
  <1> SUFFICES ASSUME TypeInv, Counted, InOrder
               PROVE  /\ \A i, j \in DOMAIN Received :
                            i < j => Received[i] < Received[j]
                      /\ heard - Len(Received) <= expired
    BY DEF NoteInv, NothingLost
  <1>1. /\ heard \in Nat /\ expired \in Nat /\ leaked \in Nat
        /\ Held(given) /\ Held(box) /\ Held(nq)
    BY Places
  <1> USE DEF Held
  <1>2. Rising(box)
    BY <1>1 DEF InOrder, Rising
  <1>3. given \o box \in Seq(Nat) /\ Rising(given \o box)
    BY <1>1, <1>2, RisingConcat DEF InOrder
  <1>4. Before(given \o box, nq)
    BY <1>1, BeforeConcat DEF InOrder
  <1>5. Rising(Received)
    BY <1>1, <1>3, <1>4, RisingConcat DEF Received, InOrder
  <1>6. Len(given \o box) = Len(given) + Len(box)
    BY <1>1, ConcatProperties
  <1>7. Len(Received) = Len(given) + Len(box) + Len(nq)
    BY <1>1, <1>3, <1>6, ConcatProperties DEF Received
  <1> QED
    BY <1>1, <1>5, <1>7 DEF Counted, Rising

\* A notification that was read reaches the task, in order and once, unless
\* the task was cancelled or the getter of an expired wait took it.
THEOREM NotificationsHold == Spec => []NothingLost
  <1> DEFINE Inv == TypeInv /\ RunInv /\ NoteInv
  <1>1. Init => Inv
    BY TypeInvInit, RunInvInit, NoteInvInit
  <1>2. Inv /\ [Next]_vars => Inv'
    BY TypeInvNext, RunInvNext, NoteInvNext
  <1>3. Inv => NothingLost
    BY NoteInvUse
  <1> QED
    BY <1>1, <1>2, <1>3, PTL DEF Spec
=============================================================================
