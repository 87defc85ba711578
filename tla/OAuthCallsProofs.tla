-------------------------- MODULE OAuthCallsProofs --------------------------
(* Theorems of OAuthCalls and their proofs.                                *)
EXTENDS OAuthCalls, TLAPS

-----------------------------------------------------------------------------
(* The invariant.                                                          *)

\* A call that is at the provider, and one whose refresh was granted.
AtRefresh(c) == call[c].at \in {"proactive", "renew"}
Granted(c) == call[c].reply = "granted"

\* The tokens somebody holds were issued.
Known(pair) == pair.access \in 0..issued /\ pair.refresh \in 0..issued
Bounded ==
    /\ Known(file) /\ Known(gift)
    /\ \A p \in Proc : Known(mem[p])
    /\ \A c \in Call : Known(call[c].got)

\* Where a reply may be waiting, what a call under way holds, and that no
\* header is the rejected one.
Flow(c) ==
    /\ call[c].reply \in {"granted", "refused"} => AtRefresh(c)
    /\ call[c].reply \in {"ok", "rejected", "throttled"} => call[c].at = "send"
    /\ call[c].execs = IF call[c].reply = "ok" THEN 1 ELSE 0
    /\ call[c].at \in Waiting =>
         /\ call[c].by \in Proc /\ loaded[call[c].by]
         /\ mem[call[c].by].access # 0
    /\ call[c].at \in Waiting \ {"header"} => call[c].token # 0
    /\ call[c].at \in {"proactive", "header"} => call[c].bad = 0
    /\ call[c].at = "send" => call[c].token # call[c].bad
    /\ Granted(c) => call[c].got.access \notin {0, call[c].bad}
    /\ Granted(c) /\ Rotates => call[c].token \in spent

\* A refresh token nobody can have spent: it is on its way to its holder.
Used == {file.refresh} \cup {mem[p].refresh : p \in Proc}
        \cup {call[c].token : c \in {d \in Call : AtRefresh(d)}}
New(r) == r # 0 => r \notin spent \cup Used
Apart ==
    /\ \A c \in Call : Granted(c) => New(call[c].got.refresh)
    /\ New(gift.refresh)
    /\ \A c, d \in Call : c # d /\ Granted(c) /\ Granted(d) =>
         call[c].got.refresh = 0 \/ call[c].got.refresh # call[d].got.refresh
    /\ \A c \in Call : Granted(c) =>
         call[c].got.refresh = 0 \/ call[c].got.refresh # gift.refresh

FlowInv == TypeOK /\ Bounded /\ \A c \in Call : Flow(c)

-----------------------------------------------------------------------------
(* Types, and the course of a call.                                        *)

LEMMA FlowInit == Init => FlowInv
  <1> SUFFICES ASSUME Init PROVE FlowInv
    OBVIOUS
  <1>1. TypeOK
    BY OAuthAssumption DEF Init, TypeOK, Fresh, Results, Waiting
  <1>2. Bounded
    BY OAuthAssumption DEF Init, Bounded, Known, Fresh, NoPair
  <1>3. ASSUME NEW c \in Call PROVE Flow(c)
    BY DEF Init, Flow, Fresh, AtRefresh, Granted, Waiting, NoPair
  <1> QED
    BY <1>1, <1>2, <1>3 DEF FlowInv

Record(n) == [at : Waiting \cup Results \cup {"idle"}, by : Proc \cup {None},
              token : 0..n, attempt : 0..MaxRetries, bad : 0..n,
              reply : {"none", "ok", "rejected", "throttled", "granted",
                       "refused"},
              got : Pair \cup {NoPair}, execs : 0..2]

Others(c) == \A d \in Call \ {c} : call'[d] = call[d]

LEMMA TypeOfCall == TypeOK => call \in [Call -> Record(issued)]
  BY DEF TypeOK, Record

\* What the ways to change a call do to it.
LEMMA OneCall ==
  ASSUME NEW R, call \in [Call -> R], NEW c \in Call, NEW k \in R,
         call' = [call EXCEPT ![c] = k]
  PROVE  call' \in [Call -> R] /\ call'[c] = k /\ Others(c)
  BY DEF Others

LEMMA GoIs ==
  ASSUME TypeOK, NEW c \in Call, NEW place \in Waiting, NEW n \in 0..issued,
         Go(c, place, n)
  PROVE  /\ call' \in [Call -> Record(issued)] /\ Others(c)
         /\ call'[c].at = place /\ call'[c].token = n
         /\ call'[c].reply = "none" /\ call'[c].got = NoPair
         /\ call'[c].by = call[c].by /\ call'[c].bad = call[c].bad
         /\ call'[c].execs = call[c].execs
  <1> DEFINE i == [call[c] EXCEPT !.at = place, !.token = n]
             j == [i EXCEPT !.attempt = 0, !.reply = "none"]
             k == [j EXCEPT !.got = NoPair]
  <1>1. call \in [Call -> Record(issued)]
    BY TypeOfCall
  <1>2. call[c] \in Record(issued)
    BY <1>1
  <1>3. /\ i \in Record(issued) /\ i.at = place /\ i.token = n
        /\ i.by = call[c].by /\ i.bad = call[c].bad
        /\ i.execs = call[c].execs
    BY <1>2 DEF Record, Waiting
  <1>0. 0 \in 0..MaxRetries
    BY OAuthAssumption
  <1> HIDE DEF i
  <1>4. /\ j \in Record(issued) /\ j.at = place /\ j.token = n
        /\ j.by = call[c].by /\ j.bad = call[c].bad
        /\ j.execs = call[c].execs /\ j.reply = "none"
    BY <1>3, <1>0 DEF Record
  <1> HIDE DEF j
  <1>5. /\ k \in Record(issued) /\ k.at = place /\ k.token = n
        /\ k.by = call[c].by /\ k.bad = call[c].bad
        /\ k.execs = call[c].execs /\ k.reply = "none" /\ k.got = NoPair
    BY <1>4 DEF Record
  <1>6. call' = [call EXCEPT ![c] = k]
    BY <1>1 DEF Go, i, j
  <1> QED
    BY <1>1, <1>5, <1>6, OneCall

LEMMA FreshIs ==
  ASSUME NEW n \in Nat
  PROVE  /\ Fresh \in Record(n) /\ Fresh.bad = 0
         /\ Fresh.reply = "none" /\ Fresh.got = NoPair /\ Fresh.execs = 0
  BY OAuthAssumption DEF Fresh, Record

LEMMA ReturnIs ==
  ASSUME TypeOK, NEW c \in Call, NEW result \in Results, Return(c, result)
  PROVE  /\ call' \in [Call -> Record(issued)] /\ Others(c)
         /\ call'[c].at = result /\ call'[c].reply = "none"
         /\ call'[c].got = NoPair /\ call'[c].execs = 0
  <1> DEFINE k == [Fresh EXCEPT !.at = result, !.by = call[c].by]
  <1>1. call \in [Call -> Record(issued)] /\ issued \in Nat
    BY TypeOfCall, OAuthAssumption DEF TypeOK
  <1>2. call[c].by \in Proc \cup {None}
    BY <1>1 DEF Record
  <1>3. call' = [call EXCEPT ![c] = k]
    BY DEF Return
  <1>4. k \in Record(issued) /\ k.at = result
        /\ k.reply = "none" /\ k.got = NoPair /\ k.execs = 0
    BY <1>1, <1>2, FreshIs DEF Record
  <1> HIDE DEF k
  <1> QED
    BY <1>1, <1>3, <1>4, OneCall

Repeat(c, e) == call' = [Again(c) EXCEPT ![c].execs = e]

LEMMA AgainIs ==
  ASSUME TypeOK, NEW c \in Call, call[c].attempt < MaxRetries,
         NEW e \in 0..2, Repeat(c, e)
  PROVE  /\ call' \in [Call -> Record(issued)] /\ Others(c)
         /\ call'[c].at = call[c].at /\ call'[c].token = call[c].token
         /\ call'[c].reply = "none" /\ call'[c].got = call[c].got
         /\ call'[c].by = call[c].by /\ call'[c].bad = call[c].bad
         /\ call'[c].execs = e
  <1> DEFINE k == [call[c] EXCEPT !.attempt = @ + 1, !.reply = "none",
                                  !.execs = e]
  <1>1. call \in [Call -> Record(issued)]
    BY TypeOfCall
  <1>2. call[c] \in Record(issued)
    BY <1>1
  <1>3. call[c].attempt + 1 \in 0..MaxRetries
    BY <1>2, OAuthAssumption DEF Record
  <1>4. k \in Record(issued)
    BY <1>2, <1>3 DEF Record
  <1>5. call' = [call EXCEPT ![c] = k]
    BY <1>1 DEF Again, Repeat
  <1>6. /\ k.at = call[c].at /\ k.token = call[c].token
        /\ k.reply = "none" /\ k.got = call[c].got
        /\ k.by = call[c].by /\ k.bad = call[c].bad /\ k.execs = e
    BY <1>2 DEF Record
  <1> HIDE DEF k
  <1> QED
    BY <1>1, <1>4, <1>5, <1>6, OneCall

\* The calls a step leaves alone, and one that ends.
LEMMA FlowOthers ==
  ASSUME FlowInv, NEW c \in Call, Others(c), mem' = mem, loaded' = loaded,
         spent \subseteq spent'
  PROVE  \A d \in Call \ {c} : Flow(d)'
  BY DEF FlowInv, Others, Flow, AtRefresh, Granted

LEMMA FlowReturn ==
  ASSUME FlowInv, NEW c \in Call, NEW result \in Results, Return(c, result),
         file' = file, mem' = mem, loaded' = loaded, issued' = issued,
         gift' = gift, spent' = spent
  PROVE  /\ call' \in [Call -> Record(issued)] /\ Bounded'
         /\ \A d \in Call : Flow(d)'
  <1>1. TypeOK
    BY DEF FlowInv
  <1>2. /\ call' \in [Call -> Record(issued)] /\ Others(c)
        /\ call'[c].at = result /\ call'[c].reply = "none"
        /\ call'[c].got = NoPair /\ call'[c].execs = 0
    BY <1>1, ReturnIs
  <1>3. \A d \in Call \ {c} : Flow(d)'
    BY <1>2, FlowOthers
  <1>4. Flow(c)'
    BY <1>2 DEF Flow, AtRefresh, Granted, Results, Waiting
  <1>5. Bounded'
    BY <1>1, <1>2, OAuthAssumption
       DEF FlowInv, Bounded, Known, Others, NoPair, TypeOK
  <1> QED
    BY <1>2, <1>3, <1>4, <1>5

LEMMA FlowNext == FlowInv /\ [Next]_vars => FlowInv'
  <1> SUFFICES ASSUME FlowInv, [Next]_vars
               PROVE  FlowInv'
    OBVIOUS
  <1> USE OAuthAssumption DEF FlowInv
  <1>1. ASSUME NEW n \in Token, Lapse(n) PROVE FlowInv'
    <2>1. TypeOK'
      BY <1>1 DEF Lapse, tokens, commands, TypeOK
    <2>2. Bounded'
      BY <1>1 DEF Lapse, tokens, commands, TypeOK, Bounded, Known
    <2>3. \A d \in Call : Flow(d)'
      BY <1>1 DEF Lapse, tokens, commands, TypeOK, Flow, AtRefresh, Granted
    <2> QED
      BY <2>1, <2>2, <2>3
  <1>2. ASSUME NEW n \in Token, Expire(n) PROVE FlowInv'
    <2>1. TypeOK'
      BY <1>2 DEF Expire, tokens, commands, TypeOK
    <2>2. Bounded'
      BY <1>2 DEF Expire, tokens, commands, TypeOK, Bounded, Known
    <2>3. \A d \in Call : Flow(d)'
      BY <1>2 DEF Expire, tokens, commands, TypeOK, Flow, AtRefresh, Granted
    <2> QED
      BY <2>1, <2>2, <2>3
  <1>3. ASSUME NEW c \in Call, Grant(c) PROVE FlowInv'
    <2>0. PICK pair \in Pair :
            /\ Issue(pair)
            /\ call' = [call EXCEPT ![c].reply = "granted", ![c].got = pair]
      BY <1>3 DEF Grant
    <2>n. /\ issued \in Nat /\ issued' = issued + 1
          /\ pair.access = issued' /\ pair.refresh \in 0..issued'
      BY <2>0 DEF Issue, TypeOK
    <2>r. call \in [Call -> Record(issued)] /\ call[c] \in Record(issued)
      BY TypeOfCall
    <2>m. call \in [Call -> Record(issued')]
      BY <2>n, <2>r DEF Record
    <2> DEFINE k == [call[c] EXCEPT !.reply = "granted", !.got = pair]
    <2>k. /\ k \in Record(issued') /\ k.reply = "granted" /\ k.got = pair
          /\ k.at = call[c].at /\ k.by = call[c].by
          /\ k.token = call[c].token /\ k.bad = call[c].bad
          /\ k.execs = call[c].execs
      BY <2>m DEF Record
    <2>o. call' = [call EXCEPT ![c] = k]
      BY <2>0, <2>m
    <2> HIDE DEF k
    <2>c. /\ call' \in [Call -> Record(issued')] /\ Others(c)
          /\ call'[c].reply = "granted" /\ call'[c].got = pair
          /\ call'[c].at = call[c].at /\ call'[c].by = call[c].by
          /\ call'[c].token = call[c].token /\ call'[c].bad = call[c].bad
          /\ call'[c].execs = call[c].execs
      BY <2>m, <2>k, <2>o, OneCall
    <2>1. TypeOK'
      <3>1. spent' \subseteq 1..issued'
        BY <1>3, <2>n, <2>r
           DEF Grant, TypeOK, Flow, AtProvider, Waiting, Record
      <3>2. /\ issued' \in 0..MaxTokens /\ lapsed' \subseteq 1..issued'
            /\ dead' \subseteq 1..issued' /\ wasted' \subseteq spent'
        BY <1>3, <2>0, <2>n DEF Grant, Issue, TypeOK
      <3> QED
        BY <1>3, <2>c, <3>1, <3>2 DEF Grant, tokens, commands, TypeOK, Record
    <2>2. Bounded'
      BY <1>3, <2>n, <2>c DEF Grant, tokens, commands, Bounded, Known, Others
    <2>3. \A d \in Call : Flow(d)'
      <3>1. \A d \in Call \ {c} : Flow(d)'
        BY <1>3, <2>c, FlowOthers DEF Grant, tokens
      <3>2. call[c].bad \in 0..issued
        BY <2>r DEF Record
      <3>3. Flow(c)'
        BY <1>3, <2>n, <2>c, <3>2
           DEF Grant, tokens, AtProvider, Flow, AtRefresh, Granted
      <3> QED
        BY <3>1, <3>3
    <2> QED
      BY <2>1, <2>2, <2>3
  <1>4. ASSUME NEW c \in Call, Refuse(c) PROVE FlowInv'
    <2>1. TypeOK'
      BY <1>4 DEF Refuse, AtProvider, tokens, provider, commands, TypeOK
    <2>2. Bounded'
      BY <1>4
         DEF Refuse, AtProvider, tokens, provider, commands, TypeOK, Bounded,
             Known
    <2>3. \A d \in Call : Flow(d)'
      BY <1>4
         DEF Refuse, AtProvider, tokens, provider, commands, TypeOK, Flow,
             AtRefresh, Granted
    <2> QED
      BY <2>1, <2>2, <2>3
  <1>5. ASSUME NEW c \in Call, Refreshed(c) PROVE FlowInv'
    <2>0. /\ AfterRefresh(c) /\ file' = call[c].got
          /\ mem' = [mem EXCEPT ![call[c].by] = call[c].got]
          /\ UNCHANGED <<loaded, provider, commands>>
      BY <1>5 DEF Refreshed
    <2>b. /\ AtRefresh(c) /\ call[c].by \in Proc /\ Known(call[c].got)
          /\ call[c].got.access \notin {0, call[c].bad} /\ call[c].execs = 0
          /\ call[c].got.access \in 0..issued /\ loaded[call[c].by]
      BY <1>5 DEF Refreshed, Flow, AtRefresh, Granted, Waiting, Bounded, Known
    <2>r. /\ call \in [Call -> Record(issued)]
          /\ call[c].got \in Pair \cup {NoPair}
      BY TypeOfCall DEF Record
    <2>c. /\ call' \in [Call -> Record(issued)] /\ Others(c)
          /\ \/ /\ call[c].at = "proactive" /\ call'[c].at = "header"
                /\ call'[c].token = 0
             \/ call'[c].at = "send" /\ call'[c].token = call[c].got.access
          /\ call'[c].reply = "none" /\ call'[c].got = NoPair
          /\ call'[c].by = call[c].by /\ call'[c].bad = call[c].bad
          /\ call'[c].execs = call[c].execs
      <3>1. 0 \in 0..issued /\ {"header", "send"} \subseteq Waiting
        BY DEF TypeOK, Waiting
      <3>2. CASE call[c].at = "proactive"
        BY <2>0, <3>1, <3>2, GoIs DEF AfterRefresh
      <3>3. CASE call[c].at # "proactive"
        BY <2>0, <2>b, <3>1, <3>3, GoIs DEF AfterRefresh
      <3> QED
        BY <3>2, <3>3
    <2>m. /\ mem' \in [Proc -> Pair \cup {NoPair}]
          /\ mem'[call[c].by] = call[c].got
          /\ \A p \in Proc : mem'[p] \in {mem[p], call[c].got}
      BY <2>0, <2>b, <2>r DEF TypeOK
    <2>1. TypeOK'
      BY <2>0, <2>c, <2>m, <2>r DEF TypeOK, Record, provider, commands
    <2>2. Bounded'
      <3>1. Known(NoPair)'
        BY <2>0 DEF Known, NoPair, TypeOK, provider
      <3> QED
        BY <2>0, <2>b, <2>c, <2>m, <3>1
           DEF Bounded, Known, Others, provider, commands
    <2>3. \A d \in Call : Flow(d)'
      <3>1. ASSUME NEW d \in Call \ {c} PROVE Flow(d)'
        BY <2>0, <2>b, <2>c, <2>m DEF Flow, AtRefresh, Granted, Others,
                                           provider
      <3>2. Flow(c)'
        BY <2>0, <2>b, <2>c, <2>m DEF Flow, AtRefresh, Granted, Waiting
      <3> QED
        BY <3>1, <3>2
    <2> QED
      BY <2>1, <2>2, <2>3
  <1>6. ASSUME NEW c \in Call, NotRefreshed(c) PROVE FlowInv'
    <2>0. UNCHANGED <<tokens, provider, commands>> /\ AtRefresh(c)
      BY <1>6 DEF NotRefreshed, Flow
    <2>4. /\ call' \in [Call -> Record(issued)] /\ Bounded'
          /\ \A d \in Call : Flow(d)'
      <3>1. CASE call[c].at = "proactive"
        <4>0. 0 \in 0..issued /\ "header" \in Waiting
          BY DEF TypeOK, Waiting
        <4>1. /\ call[c].by \in Proc /\ mem[call[c].by].access # 0
              /\ call[c].bad = 0 /\ call[c].execs = 0
              /\ loaded[call[c].by]
          BY <1>6, <3>1 DEF NotRefreshed, Flow, Waiting
        <4>2. /\ call' \in [Call -> Record(issued)] /\ Others(c)
              /\ call'[c].at = "header" /\ call'[c].token = 0
              /\ call'[c].reply = "none" /\ call'[c].got = NoPair
              /\ call'[c].by = call[c].by /\ call'[c].bad = call[c].bad
              /\ call'[c].execs = call[c].execs
          BY <1>6, <3>1, <4>0, GoIs DEF NotRefreshed
        <4>3. Flow(c)'
          BY <2>0, <4>1, <4>2 DEF Flow, AtRefresh, Granted, tokens
        <4>4. \A d \in Call \ {c} : Flow(d)'
          BY <2>0, <4>2, FlowOthers DEF tokens, provider
        <4>5. Bounded'
          BY <2>0, <4>2 DEF Bounded, Known, Others, NoPair, TypeOK, tokens,
                            provider, commands
        <4> QED
          BY <4>2, <4>3, <4>4, <4>5
      <3>2. CASE call[c].at # "proactive"
        <4>1. Return(c, "expired") /\ "expired" \in Results
          BY <1>6, <3>2 DEF NotRefreshed, Results
        <4> QED
          BY <2>0, <4>1, FlowReturn DEF tokens, provider, commands
      <3> QED
        BY <3>1, <3>2
    <2> QED
      BY <2>0, <2>4 DEF TypeOK, Record, tokens, provider, commands
  <1>7. ASSUME NEW c \in Call, RefreshFault(c) PROVE FlowInv'
    <2>1. Return(c, "raised") /\ "raised" \in Results
      BY <1>7 DEF RefreshFault, Results
    <2>2. /\ call' \in [Call -> Record(issued)] /\ Bounded'
          /\ \A d \in Call : Flow(d)'
      BY <1>7, <2>1, FlowReturn DEF RefreshFault, tokens, commands
    <2>3. wasted' \subseteq spent
      BY <1>7 DEF RefreshFault, Waste, TypeOK, Flow, Granted
    <2> QED
      BY <1>7, <2>2, <2>3 DEF RefreshFault, TypeOK, Record, tokens, commands
  <1>8. ASSUME NEW c \in Call, Serve(c) PROVE FlowInv'
    <2>0. UNCHANGED <<tokens, provider, commands>> /\ call[c].at = "send"
      BY <1>8 DEF Serve
    <2>r. /\ call \in [Call -> Record(issued)] /\ call[c] \in Record(issued)
          /\ call[c].execs = 0
      BY <1>8, TypeOfCall DEF Serve, Flow
    <2>c. /\ call' \in [Call -> Record(issued)] /\ Others(c)
          /\ call'[c].reply \in {"rejected", "throttled", "ok"}
          /\ call'[c].execs = IF call'[c].reply = "ok" THEN 1 ELSE 0
          /\ call'[c].at = "send" /\ call'[c].token = call[c].token
          /\ call'[c].by = call[c].by /\ call'[c].bad = call[c].bad
          /\ call'[c].got = call[c].got
      <3>1. CASE call' = [call EXCEPT ![c].reply = "ok", ![c].execs = @ + 1]
        BY <2>0, <2>r, <3>1 DEF Record, Others
      <3>2. CASE \E r \in {"rejected", "throttled"} :
                    call' = [call EXCEPT ![c].reply = r]
        BY <2>0, <2>r, <3>2 DEF Record, Others
      <3> QED
        BY <1>8, <3>1, <3>2 DEF Serve
    <2>1. TypeOK'
      BY <2>0, <2>c DEF TypeOK, Record, tokens, provider, commands
    <2>2. Bounded'
      BY <2>0, <2>c DEF Bounded, Known, Others, tokens, provider, commands
    <2>3. \A d \in Call : Flow(d)'
      <3>1. \A d \in Call \ {c} : Flow(d)'
        BY <2>0, <2>c, FlowOthers DEF tokens, provider
      <3>2. Flow(c)'
        BY <2>0, <2>c DEF Flow, AtRefresh, Granted, tokens, provider
      <3> QED
        BY <3>1, <3>2
    <2> QED
      BY <2>1, <2>2, <2>3
  <1>9. ASSUME NEW c \in Call, Rejected(c) PROVE FlowInv'
    <2>0. UNCHANGED <<tokens, provider, commands>> /\ call[c].at = "send"
      BY <1>9 DEF Rejected, Flow
    <2>4. /\ call' \in [Call -> Record(issued)] /\ Bounded'
          /\ \A d \in Call : Flow(d)'
      <3>1. CASE call[c].bad # 0 \/ mem[call[c].by].refresh = 0
        <4>1. PICK result \in Results : Return(c, result)
          BY <1>9, <3>1 DEF Rejected, Results
        <4> QED
          BY <2>0, <4>1, FlowReturn DEF tokens, provider, commands
      <3>2. CASE call[c].bad = 0 /\ mem[call[c].by].refresh # 0
        <4>1. call \in [Call -> Record(issued)] /\ call[c].token \in 0..issued
          BY TypeOfCall DEF Record
        <4>2. /\ call[c].by \in Proc /\ mem[call[c].by].refresh \in 0..issued
              /\ loaded[call[c].by] /\ mem[call[c].by].access # 0
              /\ call[c].execs = 0
          BY <1>9, <2>0 DEF Rejected, Flow, Waiting, Bounded, Known
        <4>3. call' = [call EXCEPT ![c].at = "renew", ![c].reply = "none",
                                   ![c].bad = call[c].token,
                                   ![c].token = mem[call[c].by].refresh]
          BY <1>9, <3>2 DEF Rejected
        <4> DEFINE i == [call[c] EXCEPT !.at = "renew", !.reply = "none"]
                   j == [i EXCEPT !.bad = call[c].token,
                                  !.token = mem[call[c].by].refresh]
        <4>i. /\ i \in Record(issued) /\ i.at = "renew" /\ i.reply = "none"
              /\ i.got = call[c].got /\ i.by = call[c].by
              /\ i.execs = call[c].execs
          BY <4>1 DEF Record, Waiting
        <4>c. call' = [call EXCEPT ![c] = j]
          BY <4>1, <4>3
        <4> HIDE DEF i
        <4>j. /\ j \in Record(issued) /\ j.at = "renew"
              /\ j.token = mem[call[c].by].refresh
              /\ j.reply = "none" /\ j.got = call[c].got
              /\ j.by = call[c].by /\ j.bad = call[c].token
              /\ j.execs = call[c].execs
          BY <4>1, <4>2, <4>i DEF Record
        <4> HIDE DEF j
        <4>4. /\ call' \in [Call -> Record(issued)] /\ Others(c)
              /\ call'[c].at = "renew"
              /\ call'[c].token = mem[call[c].by].refresh
              /\ call'[c].reply = "none" /\ call'[c].got = call[c].got
              /\ call'[c].by = call[c].by /\ call'[c].bad = call[c].token
              /\ call'[c].execs = call[c].execs
          BY <4>1, <4>c, <4>j, OneCall
        <4>5. Flow(c)'
          BY <2>0, <3>2, <4>2, <4>4 DEF Flow, AtRefresh, Granted, tokens
        <4>6. \A d \in Call \ {c} : Flow(d)'
          BY <2>0, <4>4, FlowOthers DEF tokens, provider
        <4>7. Bounded'
          BY <2>0, <4>4 DEF Bounded, Known, Others, tokens, provider, commands
        <4> QED
          BY <4>4, <4>5, <4>6, <4>7
      <3> QED
        BY <3>1, <3>2
    <2> QED
      BY <2>0, <2>4 DEF TypeOK, Record, tokens, provider, commands
  <1>10. ASSUME NEW c \in Call, Answered(c) PROVE FlowInv'
    <2>1. Return(c, "answered") /\ "answered" \in Results
      BY <1>10 DEF Answered, Results
    <2>2. /\ call' \in [Call -> Record(issued)] /\ Bounded'
          /\ \A d \in Call : Flow(d)'
      BY <1>10, <2>1, FlowReturn DEF Answered, tokens, provider, commands
    <2> QED
      BY <1>10, <2>2 DEF Answered, TypeOK, Record, tokens, provider, commands
  <1>11. ASSUME NEW c \in Call, Throttled(c) PROVE FlowInv'
    <2>0. UNCHANGED <<tokens, provider, commands>> /\ call[c].at = "send"
      BY <1>11 DEF Throttled, Flow
    <2>4. /\ call' \in [Call -> Record(issued)] /\ Bounded'
          /\ \A d \in Call : Flow(d)'
      <3>1. CASE ~(call[c].attempt < MaxRetries)
        <4>1. PICK result \in Results : Return(c, result)
          BY <1>11, <3>1 DEF Throttled, Results
        <4> QED
          BY <2>0, <4>1, FlowReturn DEF tokens, provider, commands
      <3>2. CASE call[c].attempt < MaxRetries
        <4>1. call \in [Call -> Record(issued)]
          BY TypeOfCall
        <4>2. call[c].execs = IF call[c].reply = "ok" THEN 1 ELSE 0
          BY DEF Flow
        <4>3. Repeat(c, 0)
          BY <1>11, <3>2, <4>1, <4>2 DEF Throttled, Again, Record, Repeat
        <4>4. /\ call' \in [Call -> Record(issued)] /\ Others(c)
              /\ call'[c].at = call[c].at /\ call'[c].token = call[c].token
              /\ call'[c].reply = "none" /\ call'[c].got = call[c].got
              /\ call'[c].by = call[c].by /\ call'[c].bad = call[c].bad
              /\ call'[c].execs = 0
          BY <3>2, <4>3, AgainIs
        <4>5. Flow(c)'
          BY <2>0, <4>4 DEF Flow, AtRefresh, Granted, tokens
        <4>6. \A d \in Call \ {c} : Flow(d)'
          BY <2>0, <4>4, FlowOthers DEF tokens, provider
        <4>7. Bounded'
          BY <2>0, <4>4 DEF Bounded, Known, Others, tokens, provider, commands
        <4> QED
          BY <4>4, <4>5, <4>6, <4>7
      <3> QED
        BY <3>1, <3>2
    <2> QED
      BY <2>0, <2>4 DEF TypeOK, Record, tokens, provider, commands
  <1>12. ASSUME NEW c \in Call, Fault(c) PROVE FlowInv'
    <2>0. UNCHANGED <<tokens, provider, commands>> /\ call[c].at = "send"
      BY <1>12 DEF Fault, Flow
    <2>4. /\ call' \in [Call -> Record(issued)] /\ Bounded'
          /\ \A d \in Call : Flow(d)'
      <3>1. CASE ~(call[c].attempt < MaxRetries)
        <4>1. PICK result \in Results : Return(c, result)
          BY <1>12, <3>1 DEF Fault, Results
        <4> QED
          BY <2>0, <4>1, FlowReturn DEF tokens, provider, commands
      <3>2. CASE call[c].attempt < MaxRetries
        <4>1. call \in [Call -> Record(issued)]
          BY TypeOfCall
        <4>2. call[c].execs = IF call[c].reply = "ok" THEN 1 ELSE 0
          BY DEF Flow
        <4>3. Repeat(c, 0)
          BY <1>12, <3>2, <4>1, <4>2 DEF Fault, Again, Record, Repeat
        <4>4. /\ call' \in [Call -> Record(issued)] /\ Others(c)
              /\ call'[c].at = call[c].at /\ call'[c].token = call[c].token
              /\ call'[c].reply = "none" /\ call'[c].got = call[c].got
              /\ call'[c].by = call[c].by /\ call'[c].bad = call[c].bad
              /\ call'[c].execs = 0
          BY <3>2, <4>3, AgainIs
        <4>5. Flow(c)'
          BY <2>0, <4>4 DEF Flow, AtRefresh, Granted, tokens
        <4>6. \A d \in Call \ {c} : Flow(d)'
          BY <2>0, <4>4, FlowOthers DEF tokens, provider
        <4>7. Bounded'
          BY <2>0, <4>4 DEF Bounded, Known, Others, tokens, provider, commands
        <4> QED
          BY <4>4, <4>5, <4>6, <4>7
      <3> QED
        BY <3>1, <3>2
    <2> QED
      BY <2>0, <2>4 DEF TypeOK, Record, tokens, provider, commands
  <1>13. ASSUME NEW c \in Call, NEW p \in Proc, Start(c, p) PROVE FlowInv'
    <2> DEFINE pair == IF loaded[p] THEN mem[p] ELSE file
               flow == [Fresh EXCEPT !.by = p, !.at = "send",
                                     !.token = pair.access]
               k == IF pair = NoPair THEN [flow EXCEPT !.at = "unauthorised"]
                    ELSE IF pair.access \in lapsed /\ pair.refresh # 0
                      THEN [flow EXCEPT !.at = "proactive",
                                        !.token = pair.refresh]
                    ELSE flow
    <2>0. /\ call[c].at = "idle" /\ mem' = [mem EXCEPT ![p] = pair]
          /\ loaded' = [loaded EXCEPT ![p] = TRUE]
          /\ call' = [call EXCEPT ![c] = k]
          /\ UNCHANGED <<file, provider, commands>>
      BY <1>13 DEF Start
    <2>1. /\ pair \in Pair \cup {NoPair} /\ Known(pair)
          /\ pair # NoPair => pair.access # 0
          /\ issued \in Nat /\ call \in [Call -> Record(issued)]
      BY TypeOfCall DEF TypeOK, Bounded, Pair, Token
    <2> HIDE DEF pair
    <2>2. /\ flow \in Record(issued) /\ flow.at = "send" /\ flow.bad = 0
          /\ flow.by = p /\ flow.token = pair.access
          /\ flow.reply = "none" /\ flow.got = NoPair /\ flow.execs = 0
      BY <2>1, FreshIs DEF Record, Waiting, Known
    <2> HIDE DEF flow
    <2>3. /\ k \in Record(issued) /\ k.bad = 0 /\ k.by = p
          /\ k.reply = "none" /\ k.got = NoPair /\ k.execs = 0
          /\ \/ k.at = "unauthorised"
             \/ pair.access # 0 /\ k.at = "send" /\ k.token = pair.access
             \/ pair.access # 0 /\ k.at = "proactive" /\ k.token # 0
      BY <2>1, <2>2 DEF Record, Waiting, Results, Known
    <2> HIDE DEF k
    <2>4. call' \in [Call -> Record(issued)] /\ call'[c] = k /\ Others(c)
      BY <2>0, <2>1, <2>3, OneCall
    <2>5. /\ mem' \in [Proc -> Pair \cup {NoPair}] /\ mem'[p] = pair
          /\ loaded' \in [Proc -> BOOLEAN] /\ loaded'[p]
          /\ \A q \in Proc : loaded[q] => mem'[q] = mem[q] /\ loaded'[q]
          /\ \A q \in Proc : mem'[q] \in {mem[q], pair}
      BY <2>0, <2>1 DEF TypeOK, pair
    <2>6. TypeOK'
      BY <2>0, <2>4, <2>5 DEF TypeOK, Record, provider, commands
    <2>7. Bounded'
      <3>1. Known(NoPair)'
        BY <2>0, <2>1 DEF Known, NoPair, provider
      <3> QED
        BY <2>0, <2>1, <2>3, <2>4, <2>5, <3>1
           DEF Bounded, Known, Others, provider, commands
    <2>8. ASSUME NEW d \in Call \ {c} PROVE Flow(d)'
      BY <2>0, <2>4, <2>5 DEF Flow, AtRefresh, Granted, Others, provider
    <2>9. Flow(c)'
      BY <2>3, <2>4, <2>5 DEF Flow, AtRefresh, Granted, Waiting
    <2> QED
      BY <2>6, <2>7, <2>8, <2>9
  <1>14. ASSUME NEW p \in Proc, Kill(p) PROVE FlowInv'
    <2> DEFINE k == [Fresh EXCEPT !.at = "gone"]
    <2>1. issued \in Nat /\ call \in [Call -> Record(issued)]
      BY TypeOfCall DEF TypeOK
    <2>2. /\ k \in Record(issued) /\ k.at = "gone" /\ k.bad = 0
          /\ k.reply = "none" /\ k.got = NoPair /\ k.execs = 0
      BY <2>1, FreshIs DEF Record, Results
    <2>3. \A c \in Call : /\ call'[c] \in {call[c], k}
                          /\ call[c].by = p
                             /\ call[c].at \in Waiting \cup {"idle"} =>
                               call'[c] = k
      BY <1>14 DEF Kill, Done, Results, Waiting
    <2>4. call' = [c \in Call |-> call'[c]]
      BY <1>14 DEF Kill
    <2> HIDE DEF k
    <2>5. call' \in [Call -> Record(issued)]
      BY <2>1, <2>2, <2>3, <2>4
    <2>6. /\ UNCHANGED <<file, issued, spent, lapsed, dead, commands>>
          /\ mem' \in [Proc -> Pair \cup {NoPair}]
          /\ loaded' \in [Proc -> BOOLEAN]
          /\ mem'[p] = NoPair
          /\ \A q \in Proc \ {p} : mem'[q] = mem[q] /\ loaded'[q] = loaded[q]
      BY <1>14 DEF Kill, TypeOK
    <2>7. wasted' \subseteq spent
      BY <1>14 DEF Kill, Waste, TypeOK, Flow, Granted
    <2>8. TypeOK'
      BY <2>5, <2>6, <2>7 DEF TypeOK, Record, commands
    <2>9. Bounded'
      <3>1. Known(NoPair)'
        BY <2>1, <2>6 DEF Known, NoPair
      <3> QED
        BY <2>2, <2>3, <2>6, <3>1 DEF Bounded, Known, commands
    <2>10. ASSUME NEW c \in Call PROVE Flow(c)'
      <3>1. CASE call'[c] = k
        BY <2>2, <3>1 DEF Flow, AtRefresh, Granted, Waiting
      <3>2. CASE call'[c] = call[c] /\ call[c].at \in Waiting
        BY <2>2, <2>3, <2>6, <3>2 DEF Flow, AtRefresh, Granted, Waiting
      <3>3. CASE call'[c] = call[c] /\ call[c].at \notin Waiting
        BY <3>3 DEF Flow, AtRefresh, Granted, Waiting
      <3> QED
        BY <2>3, <3>1, <3>2, <3>3
    <2> QED
      BY <2>8, <2>9, <2>10
  <1>15. ASSUME Login PROVE FlowInv'
    <2>1. TypeOK'
      BY <1>15 DEF Login, tokens, provider, TypeOK
    <2>2. Bounded'
      BY <1>15 DEF Login, tokens, provider, TypeOK, Bounded, Known
    <2>3. \A d \in Call : Flow(d)'
      BY <1>15 DEF Login, tokens, provider, TypeOK, Flow, AtRefresh, Granted
    <2> QED
      BY <2>1, <2>2, <2>3
  <1>16. ASSUME LoginFails PROVE FlowInv'
    <2>1. TypeOK'
      BY <1>16 DEF LoginFails, tokens, provider, TypeOK
    <2>2. Bounded'
      BY <1>16 DEF LoginFails, tokens, provider, NoPair, TypeOK, Bounded, Known
    <2>3. \A d \in Call : Flow(d)'
      BY <1>16
         DEF LoginFails, tokens, provider, TypeOK, Flow, AtRefresh, Granted
    <2> QED
      BY <2>1, <2>2, <2>3
  <1>17. ASSUME Callback PROVE FlowInv'
    <2>1. TypeOK'
      BY <1>17 DEF Callback, tokens, provider, TypeOK
    <2>2. Bounded'
      BY <1>17 DEF Callback, tokens, provider, TypeOK, Bounded, Known
    <2>3. \A d \in Call : Flow(d)'
      BY <1>17 DEF Callback, tokens, provider, TypeOK, Flow, AtRefresh, Granted
    <2> QED
      BY <2>1, <2>2, <2>3
  <1>18. ASSUME Exchange PROVE FlowInv'
    <2>1. TypeOK'
      BY <1>18 DEF Exchange, Issue, tokens, TypeOK
    <2>2. Bounded'
      BY <1>18 DEF Exchange, Issue, tokens, TypeOK, Bounded, Known
    <2>3. \A d \in Call : Flow(d)'
      BY <1>18 DEF Exchange, Issue, tokens, TypeOK, Flow, AtRefresh, Granted
    <2> QED
      BY <2>1, <2>2, <2>3
  <1>19. ASSUME Store PROVE FlowInv'
    <2>1. TypeOK'
      BY <1>19 DEF Store, provider, TypeOK
    <2>2. Bounded'
      BY <1>19 DEF Store, provider, NoPair, TypeOK, Bounded, Known
    <2>3. \A d \in Call : Flow(d)'
      BY <1>19 DEF Store, provider, TypeOK, Flow, AtRefresh, Granted
    <2> QED
      BY <2>1, <2>2, <2>3
  <1>20. ASSUME NEW c \in Call, SetHeader(c) PROVE FlowInv'
    <2>0. UNCHANGED <<tokens, provider, commands>> /\ call[c].at = "header"
      BY <1>20 DEF SetHeader
    <2>1. /\ call[c].by \in Proc /\ mem[call[c].by].access \in 0..issued
          /\ mem[call[c].by].access # 0 /\ call[c].bad = 0
          /\ call[c].execs = 0 /\ loaded[call[c].by]
      BY <2>0 DEF Flow, Waiting, Bounded, Known
    <2>2. /\ call' \in [Call -> Record(issued)] /\ Others(c)
          /\ call'[c].at = "send"
          /\ call'[c].token = mem[call[c].by].access
          /\ call'[c].reply = "none" /\ call'[c].got = NoPair
          /\ call'[c].by = call[c].by /\ call'[c].bad = call[c].bad
          /\ call'[c].execs = call[c].execs
      <3>1. "send" \in Waiting
        BY DEF Waiting
      <3> QED
        BY <1>20, <2>1, <3>1, GoIs DEF SetHeader
    <2>3. Flow(c)'
      BY <2>0, <2>1, <2>2 DEF Flow, AtRefresh, Granted, tokens
    <2>4. \A d \in Call \ {c} : Flow(d)'
      BY <2>0, <2>2, FlowOthers DEF tokens, provider
    <2>5. Bounded'
      BY <2>0, <2>2 DEF Bounded, Known, Others, NoPair, TypeOK, tokens,
                        provider, commands
    <2> QED
      BY <2>0, <2>2, <2>3, <2>4, <2>5
         DEF TypeOK, Record, tokens, provider, commands
  <1>21. ASSUME NEW c \in Call, Broken(c) PROVE FlowInv'
    <2>1. Return(c, "raised") /\ "raised" \in Results
      BY <1>21 DEF Broken, Results
    <2>2. /\ call' \in [Call -> Record(issued)] /\ Bounded'
          /\ \A d \in Call : Flow(d)'
      BY <1>21, <2>1, FlowReturn DEF Broken, tokens, provider, commands
    <2> QED
      BY <1>21, <2>2 DEF Broken, TypeOK, Record, tokens, provider, commands
  <1>22. CASE UNCHANGED vars
    BY <1>22
       DEF vars, tokens, provider, commands, TypeOK, Bounded, Known, Flow,
                 AtRefresh, Granted
  <1> QED
    BY <1>1, <1>2, <1>3, <1>4, <1>5, <1>6, <1>7, <1>8, <1>9, <1>10, <1>11,
       <1>12, <1>13, <1>14, <1>15, <1>16, <1>17, <1>18, <1>19, <1>20, <1>21,
       <1>22
       DEF Next, CallStep, LoginStep

\* Calls are typed, and no tool is run again, nor a rejected header sent again,
\* but for an answer that was lost, for any number of calls, processes,
\* logins, retries and faults.
THEOREM CallsHold == Spec => []CallInv
  <1>1. FlowInv => CallInv
    <2> SUFFICES ASSUME FlowInv PROVE CallInv
      OBVIOUS
    <2>1. TypeOK
      BY DEF FlowInv
    <2>2. \A c \in Call : call[c].execs <= 1
      BY DEF FlowInv, Flow
    <2>3. \A c \in Call : call[c].at = "send" => call[c].token # call[c].bad
      BY DEF FlowInv, Flow
    <2> QED
      BY <2>1, <2>2, <2>3 DEF CallInv, RepeatOnlyAfterLoss, RejectedNotResent
  <1> QED
    BY <1>1, FlowInit, FlowNext, PTL DEF Spec

-----------------------------------------------------------------------------
(* Refresh tokens.                                                         *)

LEMMA ApartInit == Init => Apart /\ FileUsable
  BY DEF Init, Apart, FileUsable, New, Granted, Fresh, NoPair

\* Tokens somebody holds, or that are spent, were issued.
LEMMA UsedBounded ==
  ASSUME FlowInv
  PROVE  /\ issued \in Nat /\ Used \subseteq 0..issued
         /\ spent \subseteq 1..issued /\ 0 \notin spent
         /\ gift.refresh \in 0..issued
         /\ \A c \in Call : call[c].got.refresh \in 0..issued
  <1>1. TypeOK /\ Bounded
    BY DEF FlowInv
  <1>2. \A c \in Call : call[c].token \in 0..issued
    BY <1>1, TypeOfCall DEF Record
  <1>3. issued \in Nat /\ spent \subseteq 1..issued /\ 0 \notin spent
    BY <1>1, OAuthAssumption DEF TypeOK
  <1> QED
    BY <1>1, <1>2, <1>3 DEF Used, Bounded, Known

\* Steps after which fewer tokens are held and on their way.
LEMMA FewerApart ==
  ASSUME Apart, Used' \subseteq Used, spent' = spent,
         gift' = gift \/ gift' = NoPair,
         \A c \in Call : Granted(c)' => Granted(c) /\ call'[c].got = call[c].got
  PROVE  Apart'
  BY DEF Apart, New, NoPair

\* A step of a call that stores nothing and is not granted anything.
Quiet(c) ==
    /\ Others(c) /\ ~Granted(c) /\ ~Granted(c)'
    /\ AtRefresh(c)' => call'[c].token \in Used
    /\ UNCHANGED <<file, mem, spent, wasted, gift>>

LEMMA QuietApart ==
  ASSUME Apart, FileUsable, NEW c \in Call, Quiet(c)
  PROVE  Apart' /\ FileUsable'
  <1>1. \A d \in Call \ {c} : /\ AtRefresh(d)' = AtRefresh(d)
                              /\ Granted(d)' = Granted(d)
                              /\ Waste(d)' = Waste(d)
                              /\ call'[d] = call[d]
    BY DEF Quiet, Others, AtRefresh, Granted, Waste
  <1>2. Used' \subseteq Used
    BY <1>1 DEF Used, Quiet
  <1>3. Apart'
    BY <1>1, <1>2, FewerApart DEF Quiet
  <1>4. Waste(c) = {}
    BY DEF Quiet, Granted, Waste
  <1>5. FileUsable'
    BY <1>1, <1>4 DEF FileUsable, Quiet
  <1> QED
    BY <1>3, <1>5

LEMMA ApartNext ==
  FlowInv /\ Apart /\ FileUsable /\ [Next]_vars => Apart' /\ FileUsable'
  <1> SUFFICES ASSUME FlowInv, Apart, FileUsable, [Next]_vars
               PROVE  Apart' /\ FileUsable'
    OBVIOUS
  <1>0. TypeOK /\ call \in [Call -> Record(issued)]
    BY TypeOfCall DEF FlowInv
  <1>f. \A c \in Call : Flow(c)
    BY DEF FlowInv
  <1>1. CASE UNCHANGED <<file, mem, spent, wasted, call>>
             /\ (gift' = gift \/ gift' = NoPair)
    <2>1. Used' = Used /\ \A c \in Call : Granted(c)' = Granted(c)
      BY <1>1 DEF Used, Granted, AtRefresh
    <2>2. Apart'
      BY <1>1, <2>1, FewerApart
    <2>3. FileUsable'
      BY <1>1 DEF FileUsable, Waste
    <2> QED
      BY <2>2, <2>3
  <1>2. ASSUME NEW c \in Call, Grant(c) PROVE Apart' /\ FileUsable'
    <2>1. PICK pair \in Pair :
            /\ Issue(pair)
            /\ call' = [call EXCEPT ![c].reply = "granted", ![c].got = pair]
      BY <1>2 DEF Grant
    <2>2. /\ Others(c) /\ call'[c].reply = "granted" /\ call'[c].got = pair
          /\ call'[c].at = call[c].at /\ call'[c].token = call[c].token
      BY <1>0, <2>1 DEF Record, Others
    <2>3. pair.refresh = 0 \/ pair.refresh = issued + 1
      BY <2>1 DEF Issue
    <2>4. /\ AtRefresh(c) /\ call[c].reply = "none"
          /\ spent' = spent \cup (IF Rotates THEN {call[c].token} ELSE {})
          /\ UNCHANGED <<file, mem, wasted, gift>>
      BY <1>2 DEF Grant, AtProvider, AtRefresh, tokens, commands
    <2>5. \A d \in Call : AtRefresh(d)' = AtRefresh(d)
                          /\ call'[d].token = call[d].token
      BY <2>2 DEF AtRefresh, Others
    <2>6. Used' = Used /\ call[c].token \in Used
      BY <2>4, <2>5 DEF Used
    <2>7. \A d \in Call \ {c} : /\ Granted(d)' = Granted(d)
                                /\ call'[d].got = call[d].got
                                /\ Waste(d)' = Waste(d)
      BY <2>2 DEF Granted, Others, Waste
    <2>8. New(pair.refresh)'
      <3>1. pair.refresh # 0 => pair.refresh \notin 0..issued
        BY <2>3, UsedBounded
      <3> QED
        BY <2>4, <2>6, <3>1, UsedBounded DEF New
    <2>9. \A r : New(r) => New(r)'
      BY <2>4, <2>6 DEF New
    <2>10. \A r \in 0..issued : pair.refresh = 0 \/ r # pair.refresh
      BY <2>3, UsedBounded
    <2>11. Apart'
      <3>1. \A d \in Call : Granted(d)' => New(call[d].got.refresh)'
        BY <2>2, <2>7, <2>8, <2>9 DEF Apart
      <3>2. New(gift.refresh)'
        BY <2>4, <2>9 DEF Apart
      <3>3. ASSUME NEW d \in Call, NEW e \in Call, d # e,
                   Granted(d)', Granted(e)'
            PROVE  call'[d].got.refresh = 0
                   \/ call'[d].got.refresh # call'[e].got.refresh
        BY <2>2, <2>7, <2>10, <3>3, UsedBounded DEF Apart
      <3>4. ASSUME NEW d \in Call, Granted(d)'
            PROVE  call'[d].got.refresh = 0
                   \/ call'[d].got.refresh # gift'.refresh
        BY <2>2, <2>4, <2>7, <2>10, <3>4, UsedBounded DEF Apart
      <3> QED
        BY <3>1, <3>2, <3>3, <3>4 DEF Apart
    <2>12. FileUsable'
      <3>1. Waste(c) = {} /\ (Rotates => call[c].token \in Waste(c)')
        BY <2>2, <2>4 DEF Waste
      <3> QED
        BY <2>4, <2>7, <3>1 DEF FileUsable
    <2> QED
      BY <2>11, <2>12
  <1>3. ASSUME NEW c \in Call, Refuse(c) PROVE Apart' /\ FileUsable'
    <2>1. Quiet(c)
      BY <1>0, <1>3 DEF Refuse, AtProvider, Quiet, Others, Granted, AtRefresh,
                        Used, Record, tokens, provider, commands
    <2> QED
      BY <2>1, QuietApart
  <1>4. ASSUME NEW c \in Call, Refreshed(c) PROVE Apart' /\ FileUsable'
    <2>1. /\ Granted(c) /\ AfterRefresh(c) /\ file' = call[c].got
          /\ mem' = [mem EXCEPT ![call[c].by] = call[c].got]
          /\ UNCHANGED <<spent, wasted, gift>>
      BY <1>4 DEF Refreshed, Granted, provider, commands
    <2>2. /\ Others(c) /\ call'[c].at \in {"header", "send"}
          /\ call'[c].reply = "none"
      BY <1>0, <2>1 DEF AfterRefresh, Go, Others, Record
    <2>3. ~AtRefresh(c)' /\ ~Granted(c)'
      BY <2>2 DEF AtRefresh, Granted
    <2>4. \A d \in Call \ {c} : /\ AtRefresh(d)' = AtRefresh(d)
                                /\ Granted(d)' = Granted(d)
                                /\ call'[d] = call[d]
      BY <2>2 DEF Others, AtRefresh, Granted
    <2>5. \A p \in Proc : mem'[p] \in {mem[p], call[c].got}
      BY <1>0, <2>1 DEF TypeOK
    <2>6. Used' \subseteq Used \cup {call[c].got.refresh}
      BY <2>1, <2>3, <2>4, <2>5 DEF Used
    <2>7. \A r : New(r) /\ (r = 0 \/ r # call[c].got.refresh) => New(r)'
      BY <2>1, <2>6 DEF New
    <2>8. Apart'
      <3>1. \A d \in Call : Granted(d)' => New(call[d].got.refresh)'
        BY <2>1, <2>3, <2>4, <2>7 DEF Apart
      <3>2. New(gift.refresh)'
        BY <2>1, <2>7 DEF Apart
      <3>3. \A d, e \in Call : d # e /\ Granted(d)' /\ Granted(e)' =>
              call'[d].got.refresh = 0
              \/ call'[d].got.refresh # call'[e].got.refresh
        BY <2>3, <2>4 DEF Apart
      <3>4. \A d \in Call : Granted(d)' =>
              call'[d].got.refresh = 0 \/ call'[d].got.refresh # gift'.refresh
        BY <2>1, <2>3, <2>4 DEF Apart
      <3> QED
        BY <3>1, <3>2, <3>3, <3>4 DEF Apart
    <2>9. FileUsable'
      BY <2>1, UsedBounded DEF FileUsable, Apart, New
    <2> QED
      BY <2>8, <2>9
  <1>5. ASSUME NEW c \in Call, NotRefreshed(c) PROVE Apart' /\ FileUsable'
    <2>1. Quiet(c)
      <3>1. /\ Others(c) /\ ~AtRefresh(c)' /\ ~Granted(c)'
            /\ UNCHANGED <<file, mem, spent, wasted, gift>>
        <4>1. CASE call[c].at = "proactive"
          BY <1>0, <1>5, <4>1 DEF NotRefreshed, Go, Others, AtRefresh,
             Granted, Record, tokens, provider, commands
        <4>2. CASE call[c].at # "proactive"
          <5>1. Return(c, "expired") /\ "expired" \in Results
            BY <1>5, <4>2 DEF NotRefreshed, Results
          <5>2. /\ Others(c) /\ call'[c].at = "expired"
                /\ call'[c].reply = "none"
            BY <1>0, <5>1, ReturnIs
          <5> QED
            BY <1>5, <5>2 DEF NotRefreshed, AtRefresh, Granted, tokens,
                              provider, commands
        <4> QED
          BY <4>1, <4>2
      <3> QED
        BY <1>5, <3>1 DEF NotRefreshed, Quiet, Granted
    <2> QED
      BY <2>1, QuietApart
  <1>6. ASSUME NEW c \in Call, RefreshFault(c) PROVE Apart' /\ FileUsable'
    <2>1. /\ Others(c) /\ call'[c].at = "raised" /\ call'[c].reply = "none"
          /\ wasted' = wasted \cup Waste(c)
          /\ UNCHANGED <<file, mem, spent, gift>>
      BY <1>0, <1>6, ReturnIs
         DEF RefreshFault, Results, tokens, commands
    <2>2. ~AtRefresh(c)' /\ ~Granted(c)'
      BY <2>1 DEF AtRefresh, Granted
    <2>3. \A d \in Call \ {c} : /\ AtRefresh(d)' = AtRefresh(d)
                                /\ Granted(d)' = Granted(d)
                                /\ Waste(d)' = Waste(d)
                                /\ call'[d] = call[d]
      BY <2>1 DEF Others, AtRefresh, Granted, Waste
    <2>4. Used' \subseteq Used
      BY <2>1, <2>2, <2>3 DEF Used
    <2>5. Apart'
      BY <2>1, <2>2, <2>3, <2>4, FewerApart
    <2>6. FileUsable'
      BY <2>1, <2>3 DEF FileUsable
    <2> QED
      BY <2>5, <2>6
  <1>7. ASSUME NEW c \in Call, Serve(c) PROVE Apart' /\ FileUsable'
    <2>1. Quiet(c)
      BY <1>0, <1>7 DEF Serve, Quiet, Others, Granted, AtRefresh, Record,
                        tokens, provider, commands
    <2> QED
      BY <2>1, QuietApart
  <1>8. ASSUME NEW c \in Call, Rejected(c) PROVE Apart' /\ FileUsable'
    <2>1. /\ call[c].reply = "rejected" /\ call[c].at = "send"
          /\ UNCHANGED <<file, mem, spent, wasted, gift>>
      BY <1>f, <1>8 DEF Rejected, Flow, tokens, provider, commands
    <2>2. CASE \E result \in Results : Return(c, result)
      <3>1. Others(c) /\ call'[c].at \in Results /\ call'[c].reply = "none"
        BY <1>0, <2>2, ReturnIs
      <3>2. Quiet(c)
        BY <2>1, <3>1 DEF Quiet, Granted, AtRefresh, Results
      <3> QED
        BY <3>2, QuietApart
    <2>3. CASE call' = [call EXCEPT ![c].at = "renew", ![c].reply = "none",
                          ![c].bad = call[c].token,
                          ![c].token = mem[call[c].by].refresh]
      <3>1. /\ Others(c) /\ call'[c].token = mem[call[c].by].refresh
            /\ call'[c].reply = "none"
        BY <1>0, <2>3 DEF Others, Record
      <3>2. call[c].by \in Proc
        BY <1>f, <2>1 DEF Flow, Waiting
      <3>3. Quiet(c)
        BY <2>1, <3>1, <3>2 DEF Quiet, Granted, Used
      <3> QED
        BY <3>3, QuietApart
    <2> QED
      BY <1>8, <2>2, <2>3 DEF Rejected, Results
  <1>9. ASSUME NEW c \in Call, Answered(c) PROVE Apart' /\ FileUsable'
    <2>1. Others(c) /\ call'[c].at = "answered" /\ call'[c].reply = "none"
      BY <1>0, <1>9, ReturnIs DEF Answered, Results
    <2>2. Quiet(c)
      BY <1>9, <2>1 DEF Answered, Quiet, Granted, AtRefresh, tokens, provider,
                        commands
    <2> QED
      BY <2>2, QuietApart
  <1>10. ASSUME NEW c \in Call, Throttled(c) PROVE Apart' /\ FileUsable'
    <2>1. /\ call[c].at = "send" /\ ~Granted(c)
          /\ UNCHANGED <<file, mem, spent, wasted, gift>>
      BY <1>f, <1>10 DEF Throttled, Flow, Granted, AtRefresh, tokens, provider,
                         commands
    <2>2. CASE \E result \in Results : Return(c, result)
      <3>1. Others(c) /\ call'[c].at \in Results /\ call'[c].reply = "none"
        BY <1>0, <2>2, ReturnIs
      <3>2. Quiet(c)
        BY <2>1, <3>1 DEF Quiet, Granted, AtRefresh, Results
      <3> QED
        BY <3>2, QuietApart
    <2>3. CASE call[c].attempt < MaxRetries
      <3>1. Others(c) /\ call'[c].at = "send" /\ call'[c].reply = "none"
        BY <1>0, <1>10, <2>1, <2>3 DEF Throttled, Again, Others, Record
      <3>2. Quiet(c)
        BY <2>1, <3>1 DEF Quiet, Granted, AtRefresh
      <3> QED
        BY <3>2, QuietApart
    <2> QED
      BY <1>10, <2>2, <2>3 DEF Throttled, Results
  <1>11. ASSUME NEW c \in Call, Fault(c) PROVE Apart' /\ FileUsable'
    <2>1. /\ call[c].at = "send" /\ ~Granted(c)
          /\ UNCHANGED <<file, mem, spent, wasted, gift>>
      BY <1>f, <1>11 DEF Fault, Flow, Granted, AtRefresh, tokens, provider,
                         commands
    <2>2. CASE \E result \in Results : Return(c, result)
      <3>1. Others(c) /\ call'[c].at \in Results /\ call'[c].reply = "none"
        BY <1>0, <2>2, ReturnIs
      <3>2. Quiet(c)
        BY <2>1, <3>1 DEF Quiet, Granted, AtRefresh, Results
      <3> QED
        BY <3>2, QuietApart
    <2>3. CASE call[c].attempt < MaxRetries
      <3>1. Others(c) /\ call'[c].at = "send" /\ call'[c].reply = "none"
        BY <1>0, <1>11, <2>1, <2>3 DEF Fault, Again, Others, Record
      <3>2. Quiet(c)
        BY <2>1, <3>1 DEF Quiet, Granted, AtRefresh
      <3> QED
        BY <3>2, QuietApart
    <2> QED
      BY <1>11, <2>2, <2>3 DEF Fault, Results
  <1>12. ASSUME NEW c \in Call, NEW p \in Proc, Start(c, p)
         PROVE  Apart' /\ FileUsable'
    <2> DEFINE pair == IF loaded[p] THEN mem[p] ELSE file
    <2>1. /\ call[c].at = "idle" /\ mem' = [mem EXCEPT ![p] = pair]
          /\ UNCHANGED <<file, spent, wasted, gift>>
      BY <1>12 DEF Start, provider, commands
    <2> DEFINE flow == [Fresh EXCEPT !.by = p, !.at = "send",
                                     !.token = pair.access]
               none == [flow EXCEPT !.at = "unauthorised"]
               soon == [flow EXCEPT !.at = "proactive",
                                    !.token = pair.refresh]
    <2>k. \E k \in {flow, none, soon} : call' = [call EXCEPT ![c] = k]
      BY <1>12 DEF Start
    <2>a. flow.reply = "none" /\ flow.at = "send"
      BY DEF Fresh
    <2>b. none.reply = "none" /\ none.at = "unauthorised"
      BY DEF Fresh
    <2>c. soon.reply = "none" /\ soon.token = pair.refresh
      BY DEF Fresh
    <2> HIDE DEF flow, none, soon
    <2>2. /\ Others(c) /\ call'[c].reply = "none"
          /\ AtRefresh(c)' => call'[c].token = pair.refresh
      BY <1>0, <2>k, <2>a, <2>b, <2>c DEF Others, AtRefresh
    <2>3. ~Granted(c) /\ ~Granted(c)'
      BY <1>f, <2>1, <2>2 DEF Flow, Granted, AtRefresh
    <2>4. pair.refresh \in Used
      BY DEF Used
    <2>5. \A q \in Proc : mem'[q] \in {mem[q], pair}
      BY <1>0, <2>1 DEF TypeOK
    <2> HIDE DEF pair
    <2>6. \A d \in Call \ {c} : /\ AtRefresh(d)' = AtRefresh(d)
                                /\ Granted(d)' = Granted(d)
                                /\ Waste(d)' = Waste(d)
                                /\ call'[d] = call[d]
      BY <2>2 DEF Others, AtRefresh, Granted, Waste
    <2>7. Used' \subseteq Used
      BY <2>1, <2>2, <2>4, <2>5, <2>6 DEF Used
    <2>8. Apart'
      BY <2>1, <2>3, <2>6, <2>7, FewerApart
    <2>9. Waste(c) = {}
      BY <2>3 DEF Waste, Granted
    <2>10. FileUsable'
      BY <2>1, <2>6, <2>9 DEF FileUsable
    <2> QED
      BY <2>8, <2>10
  <1>13. ASSUME NEW p \in Proc, Kill(p) PROVE Apart' /\ FileUsable'
    <2> DEFINE k == [Fresh EXCEPT !.at = "gone"]
    <2>1. k.at = "gone" /\ k.reply = "none"
      BY DEF Fresh
    <2>2. \A c \in Call : /\ call'[c] = call[c] \/ call'[c] = k
                          /\ call[c].by # p => call'[c] = call[c]
      BY <1>13 DEF Kill
    <2> HIDE DEF k
    <2>3. /\ UNCHANGED <<file, spent, gift>>
          /\ wasted' = wasted \cup
               UNION {Waste(c) : c \in {d \in Call : call[d].by = p}}
      BY <1>13 DEF Kill, commands
    <2>4. \A q \in Proc : mem'[q] \in {mem[q], NoPair}
      BY <1>0, <1>13 DEF Kill, TypeOK
    <2>5. \A c \in Call :
             /\ AtRefresh(c)' => AtRefresh(c) /\ call'[c] = call[c]
             /\ Granted(c)' => Granted(c) /\ call'[c] = call[c]
      BY <2>1, <2>2 DEF AtRefresh, Granted
    <2>6. Used' \subseteq Used \cup {0}
      BY <2>3, <2>4, <2>5 DEF Used, NoPair
    <2>7. \A r : New(r) => New(r)'
      BY <2>3, <2>6 DEF New
    <2>8. Apart'
      BY <2>3, <2>5, <2>7 DEF Apart
    <2>9. \A c \in Call : Waste(c) \subseteq wasted' \/ Waste(c)' = Waste(c)
      <3> TAKE c \in Call
      <3>1. CASE call[c].by = p
        BY <2>3, <3>1
      <3>2. CASE call[c].by # p
        BY <2>2, <3>2 DEF Waste
      <3> QED
        BY <3>1, <3>2
    <2>10. FileUsable'
      BY <2>3, <2>9 DEF FileUsable
    <2> QED
      BY <2>8, <2>10
  <1>14. ASSUME Exchange PROVE Apart' /\ FileUsable'
    <2>1. /\ UNCHANGED <<file, mem, spent, wasted, call>>
          /\ gift'.refresh = 0 \/ gift'.refresh = issued + 1
      BY <1>14 DEF Exchange, Issue, tokens
    <2>2. /\ Used' = Used
          /\ \A c \in Call : Granted(c)' = Granted(c)
      BY <2>1 DEF Used, Granted, AtRefresh
    <2>3. gift'.refresh = 0 \/ gift'.refresh \notin 0..issued
      BY <2>1, UsedBounded
    <2>4. \A r : New(r)' = New(r)
      BY <2>1, <2>2 DEF New
    <2>5. New(gift'.refresh)
      BY <2>3, UsedBounded DEF New
    <2>6. Apart'
      BY <2>1, <2>2, <2>3, <2>4, <2>5, UsedBounded DEF Apart
    <2>7. FileUsable'
      BY <2>1 DEF FileUsable, Waste
    <2> QED
      BY <2>6, <2>7
  <1>15. ASSUME Store PROVE Apart' /\ FileUsable'
    <2>1. /\ file' = gift /\ gift' = NoPair
          /\ UNCHANGED <<mem, spent, wasted, call>>
      BY <1>15 DEF Store, provider
    <2>2. /\ Used' \subseteq Used \cup {gift.refresh}
          /\ \A c \in Call : Granted(c)' = Granted(c)
      BY <2>1 DEF Used, Granted, AtRefresh
    <2>3. \A r : New(r) /\ (r = 0 \/ r # gift.refresh) => New(r)'
      BY <2>1, <2>2 DEF New
    <2>4. Apart'
      BY <2>1, <2>2, <2>3 DEF Apart, NoPair, New
    <2>5. FileUsable'
      BY <2>1, UsedBounded DEF FileUsable, Apart, New
    <2> QED
      BY <2>4, <2>5
  <1>16. ASSUME NEW c \in Call, SetHeader(c) PROVE Apart' /\ FileUsable'
    <2>1. /\ Others(c) /\ call'[c].at = "send" /\ call'[c].reply = "none"
          /\ call[c].at = "header"
          /\ UNCHANGED <<file, mem, spent, wasted, gift>>
      BY <1>0, <1>16 DEF SetHeader, Go, Others, Record, tokens, provider,
                         commands
    <2>2. Quiet(c)
      BY <1>f, <2>1 DEF Quiet, Flow, Granted, AtRefresh
    <2> QED
      BY <2>2, QuietApart
  <1>17. ASSUME NEW c \in Call, Broken(c) PROVE Apart' /\ FileUsable'
    <2>1. /\ Others(c) /\ call'[c].at = "raised" /\ call'[c].reply = "none"
          /\ call[c].at = "send"
          /\ UNCHANGED <<file, mem, spent, wasted, gift>>
      BY <1>0, <1>17, ReturnIs DEF Broken, Results, tokens, provider, commands
    <2>2. Quiet(c)
      BY <1>f, <2>1 DEF Quiet, Flow, Granted, AtRefresh
    <2> QED
      BY <2>2, QuietApart
  <1>18. CASE UNCHANGED vars
    BY <1>1, <1>18 DEF vars, tokens, provider, commands
  <1>19. CASE \/ \E n \in Token : Lapse(n) \/ Expire(n)
              \/ Login \/ Callback \/ LoginFails
    BY <1>1, <1>19 DEF Lapse, Expire, Login, Callback, LoginFails, tokens,
                       provider, commands
  <1> QED
    BY <1>2, <1>3, <1>4, <1>5, <1>6, <1>7, <1>8, <1>9, <1>10, <1>11, <1>12,
       <1>13, <1>14, <1>15, <1>18, <1>19, <1>16, <1>17
       DEF Next, CallStep, LoginStep

\* The refresh token in the file is one the provider still takes, or the reply
\* that holds its successor is on its way or was lost, for any number of
\* processes, calls and logins that replace it in any order.
THEOREM FileUsableHolds == Spec => []FileUsable
  <1> DEFINE Inv == FlowInv /\ Apart /\ FileUsable
  <1>1. Init => Inv
    BY FlowInit, ApartInit
  <1>2. Inv /\ [Next]_vars => Inv'
    BY FlowNext, ApartNext
  <1> QED
    BY <1>1, <1>2, PTL DEF Spec

=============================================================================
