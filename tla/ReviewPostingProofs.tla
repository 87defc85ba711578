------------------------- MODULE ReviewPostingProofs -------------------------
(***************************************************************************)
(* Theorems of ReviewPosting and, in the second half, of ToolLoop, the     *)
(* loop its branches run in.  Both models fold over sequences of any       *)
(* length, so both rest on the lemmas on folds that come first.            *)
(***************************************************************************)
EXTENDS ReviewPosting, ToolLoop, SequenceTheorems, FiniteSetTheorems, TLAPS

-----------------------------------------------------------------------------
(* Induction, and folds over sequences.                                    *)

\* A set of numbers that is not empty has a least one.
LEMMA NatMin ==
  ASSUME NEW T, T \subseteq Nat, T # {}
  PROVE  \E m \in T : \A k \in T : m <= k
  <1>1. \E m \in T : \A k \in T : <<k, m>> \notin OpToRel(<, Nat)
    BY NatLessThanWellFounded, WFMin
  <1>2. PICK m \in T : \A k \in T : ~(k < m)
    BY <1>1 DEF OpToRel
  <1> QED
    BY <1>2

\* Induction, as a fact about a set that holds 0 and with each number the next.
LEMMA NatSetInduction ==
  ASSUME NEW S, 0 \in S, \A n \in Nat : n \in S => n + 1 \in S
  PROVE  Nat \subseteq S
  <1>1. SUFFICES ASSUME Nat \ S # {} PROVE FALSE
    OBVIOUS
  <1>2. PICK m \in Nat \ S : \A k \in Nat \ S : m <= k
    BY <1>1, NatMin
  <1>3. m # 0 /\ m - 1 \in Nat /\ m - 1 < m
    BY <1>2
  <1>4. m - 1 \in S
    BY <1>2, <1>3
  <1> QED
    BY <1>2, <1>3, <1>4

\* Induction up to a bound.
LEMMA UpTo ==
  ASSUME NEW n \in Nat, NEW S, 0 \in S, \A i \in 1..n : i - 1 \in S => i \in S
  PROVE  0..n \subseteq S
  <1> DEFINE T == {k \in Nat : k <= n => k \in S}
  <1>1. \A k \in Nat : k \in T => k + 1 \in T
    <2> SUFFICES ASSUME NEW k \in Nat, k \in T, k + 1 <= n PROVE k + 1 \in S
      OBVIOUS
    <2>1. k + 1 \in 1..n /\ (k + 1) - 1 = k /\ k \in S
      OBVIOUS
    <2> QED
      BY <2>1
  <1>2. 0 \in T
    OBVIOUS
  <1> HIDE DEF T
  <1>3. Nat \subseteq T
    BY <1>1, <1>2, NatSetInduction
  <1> QED
    BY <1>3 DEF T

\* The folds of the library go down the greatest index of a set of them.
LEMMA MaxUpTo ==
  ASSUME NEW i \in Nat, i # 0
  PROVE  Max(1..i) = i /\ (1..i) \ {Max(1..i)} = 1..(i - 1)
  <1>1. Max(1..i) \in 1..i /\ \A y \in 1..i : Max(1..i) >= y
    BY DEF Max
  <1> QED
    BY <1>1

\* it is the fold of h over the indices up to k, from b.
Folds(it, k, b, h) ==
    \A t \in SUBSET (1..k) :
        it[t] = IF t = {} THEN b ELSE h[Max(t)][it[t \ {Max(t)}]]

\* A fold whose steps stay in A has a function that satisfies its recursion;
\* FoldLeft chooses one.
LEMMA FoldExists ==
  ASSUME NEW A, NEW b \in A, NEW n \in Nat, NEW h \in [1..n -> [A -> A]]
  PROVE  \E it \in [SUBSET (1..n) -> A] : Folds(it, n, b, h)
  <1> DEFINE S == {k \in Nat :
                     \E it \in [SUBSET (1..k) -> A] : Folds(it, k, b, h)}
  <1>1. 0 \in S
    <2> DEFINE it == [t \in SUBSET (1..0) |-> b]
    <2>1. it \in [SUBSET (1..0) -> A] /\ Folds(it, 0, b, h)
      BY DEF Folds
    <2> QED
      BY <2>1
  <1>2. ASSUME NEW k \in 1..n, k - 1 \in S
        PROVE  k \in S
    <2>1. PICK old \in [SUBSET (1..(k - 1)) -> A] : Folds(old, k - 1, b, h)
      BY <1>2
    <2> DEFINE it == [t \in SUBSET (1..k) |->
                        IF k \in t THEN h[k][old[t \ {k}]] ELSE old[t]]
    <2>2. \A t \in SUBSET (1..k) :
             /\ k \in t => t \ {k} \in SUBSET (1..(k - 1))
             /\ k \notin t => t \in SUBSET (1..(k - 1))
      OBVIOUS
    <2>3. it \in [SUBSET (1..k) -> A]
      BY <2>2
    <2>4. ASSUME NEW t \in SUBSET (1..k)
          PROVE  it[t] = IF t = {} THEN b ELSE h[Max(t)][it[t \ {Max(t)}]]
      <3>1. CASE k \in t
        <4>1. Max(t) = k
          <5>1. Max(t) \in t /\ \A y \in t : Max(t) >= y
            <6>1. \A y \in t : k >= y
              OBVIOUS
            <6> QED
              BY <3>1, <6>1 DEF Max
          <5>2. Max(t) \in 1..k /\ Max(t) >= k
            BY <3>1, <5>1
          <5> QED
            BY <5>2
        <4>2. it[t \ {k}] = old[t \ {k}]
          BY <2>2
        <4> QED
          BY <3>1, <4>1, <4>2
      <3>2. CASE k \notin t
        <4>1. t \in SUBSET (1..(k - 1)) /\ it[t] = old[t]
          BY <2>2, <3>2
        <4>2. it[t \ {Max(t)}] = old[t \ {Max(t)}]
          BY <3>2
        <4> QED
          BY <2>1, <4>1, <4>2 DEF Folds
      <3> QED
        BY <3>1, <3>2
    <2>5. Folds(it, k, b, h)
      BY <2>4 DEF Folds
    <2>6. k \in Nat
      OBVIOUS
    <2> HIDE DEF it
    <2> QED
      BY <2>3, <2>5, <2>6
  <1> HIDE DEF S
  <1>3. n \in 0..n
    OBVIOUS
  <1>4. n \in S
    BY <1>1, <1>2, <1>3, UpTo
  <1> QED
    BY <1>4 DEF S

\* A set of indices that is not empty has its greatest.
LEMMA MaxIn ==
  ASSUME NEW n \in Nat, NEW t \in SUBSET (1..n), t # {}
  PROVE  Max(t) \in t
  <1> DEFINE T == {k \in Nat : n - k \in t}
  <1>1. T # {}
    <2>1. PICK x \in t : TRUE
      OBVIOUS
    <2>2. n - x \in Nat /\ n - (n - x) = x
      BY <2>1
    <2> QED
      BY <2>1, <2>2
  <1>2. PICK m \in T : \A k \in T : m <= k
    BY <1>1, NatMin
  <1>3. ASSUME NEW y \in t
        PROVE  n - m >= y
    <2>1. n - y \in T /\ n - (n - y) = y
      OBVIOUS
    <2> QED
      BY <1>2, <2>1
  <1> QED
    BY <1>2, <1>3 DEF Max

-----------------------------------------------------------------------------
(* From findings to comments.                                              *)

\* valid_ids are collected one citation at a time.
LEMMA CitedSteps ==
  ASSUME NEW X, NEW cites \in Seq(X), NEW fs
  PROVE  \E g : /\ g[0] = <<>> /\ g[Len(cites)] = Cited(cites, fs)
                /\ \A i \in 1..Len(cites) :
                      g[i] = IF cites[i] \in fs \ ToSet(g[i - 1])
                               THEN Append(g[i - 1], cites[i]) ELSE g[i - 1]
  <1> DEFINE n == Len(cites)
             h == [i \in 1..n |-> [ids \in Seq(fs) |->
                     IF cites[i] \in fs \ ToSet(ids)
                       THEN Append(ids, cites[i]) ELSE ids]]
             F(it) == [t \in SUBSET (DOMAIN cites) |->
                         IF t = {} THEN <<>>
                         ELSE IF cites[Max(t)] \in fs \ ToSet(it[t \ {Max(t)}])
                                THEN Append(it[t \ {Max(t)}], cites[Max(t)])
                                ELSE it[t \ {Max(t)}]]
             c == CHOOSE it : it = F(it)
             g == [i \in 0..n |-> c[1..i]]
  <1>1. n \in Nat /\ DOMAIN cites = 1..n
    OBVIOUS
  <1>2. h \in [1..n -> [Seq(fs) -> Seq(fs)]] /\ <<>> \in Seq(fs)
    OBVIOUS
  <1>3. PICK it \in [SUBSET (1..n) -> Seq(fs)] : Folds(it, n, <<>>, h)
    <2> DEFINE A == Seq(fs)
               b == <<>>
    <2>1. b \in A /\ n \in Nat /\ h \in [1..n -> [A -> A]]
      BY <1>1, <1>2
    <2> HIDE DEF h, n, A, b
    <2> QED
      BY <2>1, FoldExists DEF A, b
  <1>4. it = F(it)
    <2>1. ASSUME NEW t \in SUBSET (1..n), t # {}
          PROVE  it[t] = F(it)[t]
      <3>1. Max(t) \in 1..n /\ it[t \ {Max(t)}] \in Seq(fs)
        BY <1>1, <2>1, MaxIn
      <3> QED
        BY <1>1, <1>3, <2>1, <3>1 DEF Folds
    <2>2. it[{}] = F(it)[{}]
      BY <1>1, <1>3 DEF Folds
    <2> QED
      BY <1>1, <2>1, <2>2
  <1>5. c = F(c)
    BY <1>4, Zenon
  <1>6. Cited(cites, fs) = c[DOMAIN cites]
    BY DEF Cited, FoldLeft, MapThenFoldSet
  <1> HIDE DEF c
  <1>7. ASSUME NEW i \in 1..n
        PROVE  c[1..i] = IF cites[i] \in fs \ ToSet(c[1..(i - 1)])
                           THEN Append(c[1..(i - 1)], cites[i])
                           ELSE c[1..(i - 1)]
    <2>1. 1..i \in SUBSET (DOMAIN cites) /\ 1..i # {}
      BY <1>1
    <2>2. Max(1..i) = i /\ (1..i) \ {i} = 1..(i - 1)
      BY MaxUpTo
    <2>3. c[1..i] = F(c)[1..i]
      BY <1>5
    <2> QED
      BY <2>1, <2>2, <2>3
  <1>8. c[1..0] = <<>>
    <2>1. 1..0 = {} /\ c[{}] = F(c)[{}]
      BY <1>5
    <2> QED
      BY <2>1
  <1>9. g[0] = <<>> /\ g[n] = Cited(cites, fs)
    BY <1>1, <1>6, <1>8
  <1>10. \A i \in 1..n : g[i] = c[1..i] /\ g[i - 1] = c[1..(i - 1)]
    BY <1>1
  <1> HIDE DEF g, n
  <1> QED
    BY <1>7, <1>9, <1>10 DEF n

\* valid_ids are findings, whatever the synthesis cites.
LEMMA CitedType ==
  ASSUME NEW X, NEW cites \in Seq(X), NEW fs
  PROVE  Cited(cites, fs) \in Seq(fs)
  <1>1. PICK g : /\ g[0] = <<>> /\ g[Len(cites)] = Cited(cites, fs)
                 /\ \A i \in 1..Len(cites) :
                       g[i] = IF cites[i] \in fs \ ToSet(g[i - 1])
                                THEN Append(g[i - 1], cites[i]) ELSE g[i - 1]
    BY CitedSteps
  <1> DEFINE S == {i \in Nat : g[i] \in Seq(fs)}
  <1>2. <<>> \in Seq(fs)
    OBVIOUS
  <1>3. ASSUME NEW i \in 1..Len(cites), i - 1 \in S
        PROVE  i \in S
    <2>1. \A ids \in Seq(fs) : \A f \in fs : Append(ids, f) \in Seq(fs)
      OBVIOUS
    <2>2. g[i] \in Seq(fs)
      BY <1>1, <1>3, <2>1
    <2> QED
      BY <2>2
  <1>4. Len(cites) \in Nat /\ Len(cites) \in 0..Len(cites)
    OBVIOUS
  <1> HIDE DEF S
  <1>5. 0 \in S
    BY <1>1, <1>2 DEF S
  <1>6. Len(cites) \in S
    BY <1>3, <1>4, <1>5, UpTo
  <1> QED
    BY <1>1, <1>6 DEF S


\* Joining lists of T gives a list of T.
LEMMA FlattenType ==
  ASSUME NEW T, NEW seqs \in Seq(Seq(T))
  PROVE  FlattenSeq(seqs) \in Seq(T)
  <1> DEFINE n == Len(seqs)
             A == Seq(T)
             h == [i \in 1..n |-> [a \in A |-> a \o seqs[i]]]
             F(f) == [i \in 1..n |-> IF i = 1 THEN seqs[i]
                                     ELSE f[i - 1] \o seqs[i]]
             c == CHOOSE f : f = F(f)
  <1>1. n \in Nat /\ \A i \in 1..n : seqs[i] \in A
    OBVIOUS
  <1>2. <<>> \in A /\ \A a, b \in A : a \o b \in A
    OBVIOUS
  <1>3. \A b \in A : <<>> \o b = b
    BY ConcatEmptySeq
  <1> HIDE DEF A, n
  <1>4. h \in [1..n -> [A -> A]]
    BY <1>1, <1>2
  <1>5. PICK it \in [SUBSET (1..n) -> A] : Folds(it, n, <<>>, h)
    <2> DEFINE b == <<>>
    <2>1. b \in A
      BY <1>2
    <2> HIDE DEF h, b
    <2> QED
      BY <1>1, <1>4, <2>1, FoldExists DEF b
  <1> DEFINE f == [i \in 1..n |-> it[1..i]]
  <1>6. f = F(f)
    <2>1. ASSUME NEW i \in 1..n
          PROVE  it[1..i] = it[1..(i - 1)] \o seqs[i]
      <3>1. Max(1..i) = i /\ (1..i) \ {i} = 1..(i - 1)
        BY MaxUpTo
      <3>2. i \in 1..i /\ \A j \in 1..i : j \in 1..n
        BY <1>1
      <3> QED
        BY <1>5, <3>1, <3>2 DEF Folds
    <2>2. it[1..0] = <<>>
      <3>1. 1..0 = {} /\ {} \in SUBSET (1..n)
        OBVIOUS
      <3> QED
        BY <1>5, <3>1 DEF Folds
    <2>3. ASSUME NEW i \in 1..n
          PROVE  f[i] = F(f)[i]
      <3>1. CASE i = 1
        <4>1. it[1..i] = it[1..0] \o seqs[i]
          <5>1. i - 1 = 0
            BY <3>1
          <5> QED
            BY <2>1, <5>1
        <4>2. it[1..i] = seqs[i]
          BY <1>1, <1>3, <2>2, <4>1
        <4> QED
          BY <3>1, <4>2
      <3>2. CASE i # 1
        <4>1. i - 1 \in 1..n
          BY <1>1, <3>2
        <4> QED
          BY <2>1, <3>2, <4>1
      <3> QED
        BY <3>1, <3>2
    <2> QED
      BY <2>3
  <1>7. c = F(c)
    BY <1>6, Zenon
  <1> HIDE DEF c
  <1>8. \A i \in 1..n : c[i] = IF i = 1 THEN seqs[i] ELSE c[i - 1] \o seqs[i]
    BY <1>7
  <1> DEFINE S == {i \in Nat : i = 0 \/ c[i] \in A}
  <1>9. 0 \in S /\ \A i \in 1..n : i - 1 \in S => i \in S
    <2> SUFFICES ASSUME NEW i \in 1..n, i - 1 \in S PROVE c[i] \in A
      OBVIOUS
    <2>1. CASE i = 1
      BY <1>1, <1>8, <2>1
    <2>2. CASE i # 1
      BY <1>1, <1>2, <1>8, <2>2
    <2> QED
      BY <2>1, <2>2
  <1> HIDE DEF S
  <1>10. n \in S
    <2>1. n \in 0..n
      BY <1>1
    <2> QED
      BY <1>1, <1>9, <2>1, UpTo
  <1>11. CASE n = 0
    BY <1>11 DEF n, A, FlattenSeq
  <1>12. CASE n # 0
    <2>1. FlattenSeq(seqs) = c[n]
      BY <1>12 DEF FlattenSeq, c, n
    <2> QED
      BY <1>10, <1>12, <2>1 DEF S, A
  <1> QED
    BY <1>11, <1>12


\* The first of the indices that fit.
LEMMA LeastOf ==
  ASSUME NEW c, c \subseteq Nat, c # {}
  PROVE  LET l == CHOOSE f \in c : \A g \in c : f <= g
         IN  l \in c /\ \A g \in c : l <= g
  BY NatMin

\* Of findings there are, the worst severity is a severity; of none it is not.
LEMMA WorstType ==
  ASSUME NEW fs \in SUBSET Finding, fs # {}
  PROVE  Worst(fs) \in 0..4
  <1> DEFINE T == {k \in 0..4 : \E f \in fs : SeverityOf[f] = 4 - k}
  <1>1. \A f \in fs : SeverityOf[f] \in 0..4
    BY PostingAssumption
  <1>2. T \subseteq Nat /\ T # {}
    <2>1. PICK f \in fs : TRUE
      OBVIOUS
    <2>2. 4 - SeverityOf[f] \in 0..4 /\ SeverityOf[f] = 4 - (4 - SeverityOf[f])
      BY <1>1
    <2>3. 4 - SeverityOf[f] \in T
      BY <2>2
    <2> QED
      BY <2>3
  <1>3. PICK m \in T : \A k \in T : m <= k
    BY <1>2, NatMin
  <1>4. ASSUME NEW f \in fs
        PROVE  SeverityOf[f] <= 4 - m
    <2>1. 4 - SeverityOf[f] \in T
      <3>1. 4 - SeverityOf[f] \in 0..4 /\ SeverityOf[f] = 4 - (4 - SeverityOf[f])
        BY <1>1
      <3> QED
        BY <3>1
    <2> QED
      BY <1>1, <1>3, <2>1
  <1>5. \E s \in {SeverityOf[f] : f \in fs} : \A f \in fs : SeverityOf[f] <= s
    BY <1>3, <1>4
  <1>6. Worst(fs) \in {SeverityOf[f] : f \in fs}
    BY <1>5 DEF Worst
  <1> QED
    BY <1>1, <1>6


\* _equivalent_findings only takes findings of one place.
LEMMA TwinsOnOneLine ==
  ASSUME NEW f, NEW g, Equivalent(f, g)
  PROVE  LineOf[f] = LineOf[g]
  <1>1. PICK x, y \in Finding : {f, g} = {x, y} /\ LineOf[x] = LineOf[y]
    BY PostingAssumption DEF Equivalent
  <1> QED
    BY <1>1

\* A finding is in a cluster.
InSome(cl, g) == \E i \in DOMAIN cl : g \in cl[i]

\* Clusters: findings of one line.
Clustered == {c \in SUBSET Finding :
                c # {} /\ \A f, g \in c : LineOf[f] = LineOf[g]}

\* A finding that joins the clusters is in one, on its line, and nothing leaves.
LEMMA JoinClusterType ==
  ASSUME NEW cl \in Seq(Clustered), NEW f \in Finding
  PROVE  /\ JoinCluster(cl, f) \in Seq(Clustered)
         /\ \A g : InSome(JoinCluster(cl, f), g) <=> g = f \/ InSome(cl, g)
  <1> DEFINE fits == {i \in DOMAIN cl : \A g \in cl[i] : Equivalent(f, g)}
             k == CHOOSE i \in fits : \A j \in fits : i <= j
             new == JoinCluster(cl, f)
  <1>1. CASE fits = {}
    <2>1. new = Append(cl, {f})
      BY <1>1 DEF JoinCluster
    <2>2. {f} \in Clustered
      BY DEF Clustered
    <2>3. /\ new \in Seq(Clustered) /\ DOMAIN new = 1..(Len(cl) + 1)
          /\ DOMAIN cl = 1..Len(cl) /\ Len(cl) \in Nat
          /\ \A i \in 1..Len(cl) : new[i] = cl[i]
          /\ new[Len(cl) + 1] = {f}
      BY <2>1, <2>2
    <2> HIDE DEF new
    <2>4. \A i \in 1..(Len(cl) + 1) : i \in 1..Len(cl) \/ i = Len(cl) + 1
      BY <2>3
    <2>5. \A g : InSome(new, g) <=> g = f \/ InSome(cl, g)
      BY <2>3, <2>4 DEF InSome
    <2> QED
      BY <2>3, <2>5 DEF new
  <1>2. CASE fits # {}
    <2>1. fits \subseteq Nat
      OBVIOUS
    <2>2. k \in fits
      <3> HIDE DEF fits
      <3>1. PICK m \in fits : \A j \in fits : m <= j
        BY <1>2, <2>1, NatMin
      <3> QED
        BY <3>1
    <2>3. new = [cl EXCEPT ![k] = @ \cup {f}]
      BY <1>2 DEF JoinCluster
    <2>4. k \in DOMAIN cl /\ \A g \in cl[k] : LineOf[f] = LineOf[g]
      BY <2>2, TwinsOnOneLine
    <2> HIDE DEF fits, k
    <2>5. cl[k] \cup {f} \in Clustered
      BY <2>4 DEF Clustered
    <2>6. /\ new \in Seq(Clustered) /\ DOMAIN new = DOMAIN cl
          /\ \A i \in DOMAIN cl : new[i] = IF i = k THEN cl[k] \cup {f} ELSE cl[i]
      BY <2>3, <2>4, <2>5
    <2> HIDE DEF new
    <2>7. \A g : InSome(new, g) <=> g = f \/ InSome(cl, g)
      BY <2>4, <2>6 DEF InSome
    <2> QED
      BY <2>6, <2>7 DEF new
  <1> QED
    BY <1>1, <1>2


\* The first n of s are in increasing order.
Increases(s, n) == \A i, j \in 1..n : i < j => s[i] < s[j]

\* A finite set of numbers can be listed in increasing order.
LEMMA OrderExists ==
  ASSUME NEW S \in SUBSET Nat, IsFiniteSet(S)
  PROVE  \E s \in [1..Cardinality(S) -> S] : Increases(s, Cardinality(S))
  <1> DEFINE P == {n \in Nat : \A T \in SUBSET Nat :
                     IsFiniteSet(T) /\ Cardinality(T) = n
                       => \E s \in [1..n -> T] : Increases(s, n)}
  <1>1. 0 \in P
    <2> SUFFICES ASSUME NEW T \in SUBSET Nat
                 PROVE  \E s \in [1..0 -> T] : Increases(s, 0)
      OBVIOUS
    <2>1. 1..0 = {}
      OBVIOUS
    <2> DEFINE s == [i \in 1..0 |-> 0]
    <2>2. s \in [1..0 -> T] /\ Increases(s, 0)
      BY <2>1 DEF Increases
    <2> QED
      BY <2>2
  <1>2. ASSUME NEW n \in Nat, n \in P
        PROVE  n + 1 \in P
    <2> SUFFICES ASSUME NEW T \in SUBSET Nat, IsFiniteSet(T),
                        Cardinality(T) = n + 1
                 PROVE  \E s \in [1..(n + 1) -> T] : Increases(s, n + 1)
      OBVIOUS
    <2>1. T # {}
      BY FS_EmptySet
    <2>2. PICK m \in T : \A k \in T : m <= k
      BY <2>1, NatMin
    <2>3. IsFiniteSet(T \ {m}) /\ Cardinality(T \ {m}) = n
      <3>1. /\ IsFiniteSet(T \ {m})
            /\ Cardinality(T \ {m}) = Cardinality(T) - 1
        BY <2>2, FS_RemoveElement
      <3> QED
        BY <3>1
    <2>4. PICK r \in [1..n -> T \ {m}] : Increases(r, n)
      BY <1>2, <2>3
    <2> DEFINE s == [i \in 1..(n + 1) |-> IF i = 1 THEN m ELSE r[i - 1]]
    <2>5. \A i \in 1..(n + 1) : i # 1 => i - 1 \in 1..n
      OBVIOUS
    <2>6. s \in [1..(n + 1) -> T]
      BY <2>2, <2>4, <2>5
    <2>7. ASSUME NEW i \in 1..(n + 1), NEW j \in 1..(n + 1), i < j
          PROVE  s[i] < s[j]
      <3>1. j # 1 /\ j - 1 \in 1..n /\ s[j] = r[j - 1]
        BY <2>5, <2>7
      <3>2. r[j - 1] \in T /\ r[j - 1] # m
        BY <2>4, <3>1
      <3>3. CASE i = 1
        <4>1. m \in Nat /\ r[j - 1] \in Nat /\ m <= r[j - 1]
          BY <2>2, <3>2
        <4>2. s[i] = m
          BY <3>3
        <4> QED
          BY <3>1, <3>2, <4>1, <4>2
      <3>4. CASE i # 1
        <4>1. i - 1 \in 1..n /\ i - 1 < j - 1 /\ s[i] = r[i - 1]
          BY <2>5, <2>7, <3>4
        <4> QED
          BY <2>4, <3>1, <4>1 DEF Increases
      <3> QED
        BY <3>3, <3>4
    <2>8. Increases(s, n + 1)
      BY <2>7 DEF Increases
    <2> QED
      BY <2>6, <2>8
  <1> HIDE DEF P
  <1>3. Nat \subseteq P
    BY <1>1, <1>2, NatSetInduction
  <1>4. Cardinality(S) \in P
    BY <1>3, FS_CardinalityType
  <1> QED
    BY <1>4 DEF P

\* That list has all of its members.
LEMMA InOrderIs ==
  ASSUME NEW fs \in SUBSET Finding
  PROVE  /\ InOrder(fs) \in Seq(fs)
         /\ \A f \in fs : \E i \in 1..Len(InOrder(fs)) : InOrder(fs)[i] = f
  <1> DEFINE n == Cardinality(fs)
             s == InOrder(fs)
  <1>1. fs \in SUBSET Nat /\ IsFiniteSet(fs)
    BY PostingAssumption, FS_Subset
  <1>2. n \in Nat
    BY <1>1, FS_CardinalityType
  <1>3. \E t \in [1..n -> fs] : \A i, j \in DOMAIN t : i < j => t[i] < t[j]
    BY <1>1, OrderExists DEF Increases
  <1>4. s \in [1..n -> fs] /\ \A i, j \in 1..n : i < j => s[i] < s[j]
    <2>1. s \in [1..n -> fs] /\ \A i, j \in DOMAIN s : i < j => s[i] < s[j]
      BY <1>3 DEF InOrder
    <2> QED
      BY <2>1
  <1> HIDE DEF n, s
  <1>5. s \in Injection(1..n, fs)
    <2>1. ASSUME NEW i \in 1..n, NEW j \in 1..n, s[i] = s[j]
          PROVE  i = j
      <3>1. s[i] \in Nat
        BY <1>1, <1>4
      <3>2. ~(s[i] < s[j]) /\ ~(s[j] < s[i])
        BY <2>1, <3>1
      <3> QED
        BY <1>2, <1>4, <3>2
    <2> QED
      BY <1>4, <2>1 DEF Injection, IsInjective
  <1>6. Cardinality(1..n) = n
    BY <1>2, FS_Interval
  <1>7. s \in Surjection(1..n, fs)
    BY <1>1, <1>5, <1>6, FS_Injection DEF n
  <1>8. s \in Seq(fs) /\ Len(s) = n
    BY <1>2, <1>4
  <1>9. \A f \in fs : \E i \in 1..n : s[i] = f
    BY <1>7 DEF Surjection
  <1> QED
    BY <1>8, <1>9 DEF s

\* The clusters grow by one finding at a time.
LEMMA ClusterSteps ==
  ASSUME NEW s \in Seq(Finding)
  PROVE  \E g : /\ g[0] = <<>>
                /\ g[Len(s)] = FoldLeft(JoinCluster, <<>>, s)
                /\ \A i \in 1..Len(s) : g[i] = JoinCluster(g[i - 1], s[i])
  <1> DEFINE n == Len(s)
             A == Seq(Clustered)
             h == [i \in 1..n |-> [cl \in A |-> JoinCluster(cl, s[i])]]
             F(it) == [t \in SUBSET (DOMAIN s) |->
                         IF t = {} THEN <<>>
                         ELSE JoinCluster(it[t \ {Max(t)}], s[Max(t)])]
             c == CHOOSE it : it = F(it)
             g == [i \in 0..n |-> c[1..i]]
             cl == FoldLeft(JoinCluster, <<>>, s)
  <1>1. /\ n \in Nat /\ DOMAIN s = 1..n
        /\ \A i \in 1..n : s[i] \in Finding
    OBVIOUS
  <1>2. h \in [1..n -> [A -> A]] /\ <<>> \in A
    BY <1>1, JoinClusterType
  <1>3. PICK it \in [SUBSET (1..n) -> A] : Folds(it, n, <<>>, h)
    <2> DEFINE b == <<>>
    <2>1. b \in A /\ n \in Nat /\ h \in [1..n -> [A -> A]]
      BY <1>1, <1>2
    <2> HIDE DEF h, n, A, b
    <2> QED
      BY <2>1, FoldExists DEF b
  <1> HIDE DEF A
  <1>4. it = F(it)
    <2>1. ASSUME NEW t \in SUBSET (1..n), t # {}
          PROVE  it[t] = F(it)[t]
      <3>1. Max(t) \in 1..n /\ it[t \ {Max(t)}] \in A
        BY <1>1, <2>1, MaxIn
      <3> QED
        BY <1>1, <1>3, <2>1, <3>1 DEF Folds
    <2>2. it[{}] = F(it)[{}]
      BY <1>1, <1>3 DEF Folds
    <2> QED
      BY <1>1, <2>1, <2>2
  <1>5. c = F(c)
    BY <1>4, Zenon
  <1>6. FoldLeft(JoinCluster, <<>>, s) = c[DOMAIN s]
    BY DEF FoldLeft, MapThenFoldSet
  <1> HIDE DEF c
  <1>7. ASSUME NEW i \in 1..n
        PROVE  c[1..i] = JoinCluster(c[1..(i - 1)], s[i])
    <2>1. 1..i \in SUBSET (DOMAIN s) /\ 1..i # {}
      BY <1>1
    <2>2. Max(1..i) = i /\ (1..i) \ {i} = 1..(i - 1)
      BY MaxUpTo
    <2>3. c[1..i] = F(c)[1..i]
      BY <1>5
    <2> QED
      BY <2>1, <2>2, <2>3
  <1>8. c[1..0] = <<>>
    <2>1. 1..0 = {} /\ c[{}] = F(c)[{}]
      BY <1>5
    <2> QED
      BY <2>1
  <1>9. g[0] = <<>> /\ g[n] = cl
    BY <1>1, <1>6, <1>8
  <1>10. \A i \in 1..n : g[i] = c[1..i] /\ g[i - 1] = c[1..(i - 1)]
    BY <1>1
  <1> HIDE DEF g, n, cl
  <1>11. /\ g[0] = <<>> /\ g[n] = cl
         /\ \A i \in 1..n : g[i] = JoinCluster(g[i - 1], s[i])
    BY <1>7, <1>9, <1>10
  <1> QED
    BY <1>11 DEF n, cl

\* The clusters hold the findings that joined them and no other, each on one
\* line.
LEMMA ClustersAre ==
  ASSUME NEW s \in Seq(Finding)
  PROVE  LET cl == FoldLeft(JoinCluster, <<>>, s)
         IN  /\ cl \in Seq(Clustered)
             /\ \A f : InSome(cl, f) <=> \E i \in 1..Len(s) : f = s[i]
  <1>1. PICK g : /\ g[0] = <<>>
                 /\ g[Len(s)] = FoldLeft(JoinCluster, <<>>, s)
                 /\ \A i \in 1..Len(s) : g[i] = JoinCluster(g[i - 1], s[i])
    BY ClusterSteps
  <1> DEFINE n == Len(s)
             P == {i \in Nat :
                     /\ g[i] \in Seq(Clustered)
                     /\ \A f : InSome(g[i], f) <=> \E j \in 1..i : f = s[j]}
  <1>2. 0 \in P
    <2>1. g[0] \in Seq(Clustered) /\ \A f : ~InSome(g[0], f)
      BY <1>1 DEF InSome
    <2> QED
      BY <2>1
  <1>3. ASSUME NEW i \in 1..n, i - 1 \in P
        PROVE  i \in P
    <2>1. g[i - 1] \in Seq(Clustered) /\ s[i] \in Finding /\ i \in Nat
      BY <1>3
    <2> DEFINE before == g[i - 1]
               new == s[i]
    <2>2. /\ g[i] \in Seq(Clustered)
          /\ \A f : InSome(g[i], f) <=> f = s[i] \/ InSome(g[i - 1], f)
      <3>1. before \in Seq(Clustered) /\ new \in Finding
        BY <2>1
      <3>2. g[i] = JoinCluster(before, new)
        BY <1>1
      <3> HIDE DEF before, new
      <3>3. /\ JoinCluster(before, new) \in Seq(Clustered)
            /\ \A f : InSome(JoinCluster(before, new), f)
                        <=> f = new \/ InSome(before, f)
        BY <3>1, JoinClusterType
      <3> QED
        BY <3>2, <3>3 DEF before, new
    <2>3. \A f : InSome(g[i - 1], f) <=> \E j \in 1..(i - 1) : f = s[j]
      BY <1>3
    <2>4. /\ \A j \in 1..i : j = i \/ j \in 1..(i - 1)
          /\ \A j \in 1..(i - 1) : j \in 1..i
          /\ i \in 1..i
      OBVIOUS
    <2>5. \A f : InSome(g[i], f) <=> \E j \in 1..i : f = s[j]
      BY <2>2, <2>3, <2>4
    <2> QED
      BY <2>1, <2>2, <2>5
  <1>4. n \in Nat /\ n \in 0..n
    OBVIOUS
  <1> HIDE DEF P, n
  <1>5. n \in P
    BY <1>2, <1>3, <1>4, UpTo
  <1> QED
    BY <1>1, <1>5 DEF P, n


\* Comments on the line of their findings.
OnTheirLine(fs) == {c \in [ids: SUBSET fs, line: Line, severity: 0..4] :
                      \A f \in c.ids : LineOf[f] = c.line}

\* A comment on findings of one line is well formed and on that line.
LEMMA CommentOnLine ==
  ASSUME NEW fs \in SUBSET Finding, NEW ids \in SUBSET fs, ids # {},
         NEW f \in fs, \A g \in ids : LineOf[g] = LineOf[f]
  PROVE  Comment(ids, f) \in OnTheirLine(fs) /\ Comment(ids, f).ids = ids
  <1>1. Worst(ids) \in 0..4 /\ LineOf[f] \in Line
    BY WorstType, PostingAssumption
  <1> QED
    BY <1>1 DEF Comment, OnTheirLine

\* _comments_from_equivalence_clusters: every finding left is in a comment on
\* its line.
LEMMA ClusterCommentsCover ==
  ASSUME NEW fs \in SUBSET Finding
  PROVE  /\ ClusterComments(fs) \in Seq(OnTheirLine(fs))
         /\ fs \subseteq Covered(ClusterComments(fs))
  <1> DEFINE s == InOrder(fs)
             cl == FoldLeft(JoinCluster, <<>>, s)
             least(c) == CHOOSE f \in c : \A g \in c : f <= g
             cs == [i \in DOMAIN cl |-> Comment(cl[i], least(cl[i]))]
  <1>1. s \in Seq(Finding) /\ s \in Seq(fs)
    <2>1. s \in Seq(fs)
      BY InOrderIs
    <2> QED
      BY <2>1, SeqMonotonic, Zenon
  <1>2. /\ cl \in Seq(Clustered)
        /\ \A f : InSome(cl, f) <=> \E i \in 1..Len(s) : f = s[i]
    <2> HIDE DEF s
    <2> QED
      BY <1>1, ClustersAre
  <1>3. ClusterComments(fs) = cs
    BY DEF ClusterComments
  <1> HIDE DEF cl
  <1>4. \A f : InSome(cl, f) <=> f \in fs
    <2>1. \A f \in fs : \E i \in 1..Len(s) : f = s[i]
      BY InOrderIs
    <2>2. \A i \in 1..Len(s) : s[i] \in fs
      <3> HIDE DEF s
      <3> QED
        BY <1>1
    <2> HIDE DEF s
    <2> QED
      BY <1>2, <2>1, <2>2
  <1> HIDE DEF s
  <1>5. ASSUME NEW i \in DOMAIN cl
        PROVE  cs[i] \in OnTheirLine(fs) /\ cs[i].ids = cl[i]
    <2>1. /\ cl[i] # {} /\ cl[i] \subseteq fs /\ cl[i] \subseteq Nat
          /\ \A f, g \in cl[i] : LineOf[f] = LineOf[g]
      <3>1. cl[i] \in Clustered
        BY <1>2
      <3>2. cl[i] \subseteq fs
        BY <1>4 DEF InSome
      <3> QED
        BY <3>1, <3>2, PostingAssumption DEF Clustered
    <2>2. least(cl[i]) \in cl[i]
      <3> DEFINE c == cl[i]
      <3>1. c # {} /\ c \subseteq Nat
        BY <2>1
      <3> HIDE DEF c
      <3>2. least(c) \in c
        BY <3>1, LeastOf
      <3> QED
        BY <3>2 DEF c
    <2>3. cs[i] = Comment(cl[i], least(cl[i]))
      OBVIOUS
    <2> HIDE DEF least, cs
    <2> QED
      BY <2>1, <2>2, <2>3, CommentOnLine
  <1>6. cs \in Seq(OnTheirLine(fs))
    <2>1. DOMAIN cl = 1..Len(cl) /\ Len(cl) \in Nat
      BY <1>2
    <2>2. cs \in [1..Len(cl) -> OnTheirLine(fs)]
      <3>1. \A i \in DOMAIN cl : cs[i] \in OnTheirLine(fs)
        BY <1>5
      <3> QED
        BY <2>1, <3>1
    <2> HIDE DEF cs
    <2> QED
      BY <2>1, <2>2
  <1>7. fs \subseteq Covered(cs)
    <2>1. DOMAIN cs = DOMAIN cl
      OBVIOUS
    <2> HIDE DEF cs
    <2>2. \A f \in fs : \E i \in DOMAIN cs : f \in cs[i].ids
      BY <1>4, <1>5, <2>1 DEF InSome
    <2> QED
      BY <2>2 DEF Covered
  <1> QED
    BY <1>3, <1>6, <1>7

\* What one synthesised comment turns into is on the lines of its findings.
LEMMA ValidatedOnLine ==
  ASSUME NEW fs \in SUBSET Finding, NEW X, NEW cites \in Seq(X),
         LET cited == Cited(cites, fs)
         IN  ~(cited # <<>> /\ OneIssue(cited) /\ Sources(cited, fs) = {})
  PROVE  Validated(cites, fs) \in Seq(OnTheirLine(fs))
  <1> DEFINE cited == Cited(cites, fs)
             T == OnTheirLine(fs)
  <1>1. cited \in Seq(fs)
    BY CitedType
  <1>2. /\ DOMAIN cited = 1..Len(cited) /\ Len(cited) \in Nat
        /\ \A i \in DOMAIN cited : cited[i] \in fs
    <2> HIDE DEF cited
    <2> QED
      BY <1>1
  <1>3. CASE cited = <<>>
    BY <1>3 DEF Validated
  <1>4. CASE cited # <<>> /\ ~OneIssue(cited)
    <2> DEFINE cs == [i \in DOMAIN cited |-> Comment({cited[i]}, cited[i])]
    <2>1. Validated(cites, fs) = cs
      BY <1>4 DEF Validated
    <2> HIDE DEF cited
    <2>2. \A i \in DOMAIN cited : Comment({cited[i]}, cited[i]) \in T
      BY <1>2, CommentOnLine
    <2>3. cs \in [1..Len(cited) -> T]
      BY <1>2, <2>2
    <2> HIDE DEF cs, T
    <2>4. cs \in Seq(T)
      BY <1>2, <2>3
    <2> QED
      BY <2>1, <2>4 DEF T
  <1>5. CASE cited # <<>> /\ OneIssue(cited)
    <2> DEFINE src == Sources(cited, fs)
    <2>1. Validated(cites, fs) = <<Comment(src, cited[1])>>
      BY <1>5 DEF Validated
    <2>2. src # {} /\ src \in SUBSET fs
      BY <1>5 DEF Sources
    <2>3. cited[1] \in fs
      <3> HIDE DEF cited
      <3> QED
        BY <1>1, <1>2, <1>5
    <2>4. ASSUME NEW f \in src
          PROVE  LineOf[f] = LineOf[cited[1]]
      <3>1. PICK i \in DOMAIN cited : Equivalent(f, cited[i])
        BY DEF Sources
      <3>2. LineOf[f] = LineOf[cited[i]]
        BY <3>1, TwinsOnOneLine
      <3>3. i = 1 \/ LineOf[cited[1]] = LineOf[cited[i]]
        BY <1>5, TwinsOnOneLine DEF OneIssue
      <3> QED
        BY <3>2, <3>3
    <2> HIDE DEF src, cited
    <2>5. Comment(src, cited[1]) \in T
      BY <2>2, <2>3, <2>4, CommentOnLine
    <2> HIDE DEF T
    <2>6. <<Comment(src, cited[1])>> \in Seq(T)
      BY <2>5
    <2> QED
      BY <2>1, <2>6 DEF T
  <1> QED
    BY <1>3, <1>4, <1>5

\* _validate_sourced_comments loses no finding, whatever the synthesis cites.
THEOREM ConsolidationHolds == ConsolidateCovers
  <1> SUFFICES ASSUME NEW fs \in SUBSET Finding, NEW answer \in AnswersOn(fs),
                      ~Raises(answer, fs)
               PROVE  Sourced(Consolidate(answer, fs), fs)
    BY DEF ConsolidateCovers
  <1> DEFINE T == OnTheirLine(fs)
             parts == [i \in DOMAIN answer |-> Validated(answer[i], fs)]
             said == FlattenSeq(parts)
             left == fs \ Covered(said)
             rest == ClusterComments(left)
  <1>1. PICK n \in 0..MaxComments :
           answer \in [1..n -> UNION {[1..m -> fs \cup {0}] : m \in 0..MaxCites}]
    BY DEF AnswersOn
  <1>2. n \in Nat /\ DOMAIN answer = 1..n
    BY <1>1, PostingAssumption
  <1>3. ASSUME NEW i \in 1..n
        PROVE  Validated(answer[i], fs) \in Seq(T)
    <2> DEFINE U == UNION {[1..m -> fs \cup {0}] : m \in 0..MaxCites}
    <2>0. answer[i] \in U
      <3> HIDE DEF U
      <3> QED
        BY <1>1 DEF U
    <2>1. PICK m \in 0..MaxCites : answer[i] \in [1..m -> fs \cup {0}]
      BY <2>0
    <2>2. answer[i] \in Seq(fs \cup {0})
      BY <2>1, PostingAssumption
    <2>3. LET cited == Cited(answer[i], fs)
          IN  ~(cited # <<>> /\ OneIssue(cited) /\ Sources(cited, fs) = {})
      BY <1>2 DEF Raises
    <2> QED
      BY <2>2, <2>3, ValidatedOnLine
  <1>4. parts \in Seq(Seq(T))
    <2> DEFINE U == Seq(T)
    <2>1. parts \in [1..n -> U]
      <3>1. \A i \in 1..n : Validated(answer[i], fs) \in U
        BY <1>3
      <3> HIDE DEF U
      <3> QED
        BY <1>2, <3>1
    <2> HIDE DEF parts, U
    <2>2. parts \in Seq(U)
      BY <1>2, <2>1
    <2> QED
      BY <2>2 DEF U
  <1>5. said \in Seq(T)
    <2> HIDE DEF parts, T
    <2> QED
      BY <1>4, FlattenType
  <1>6. rest \in Seq(T) /\ left \subseteq Covered(rest)
    <2>1. left \in SUBSET Finding /\ left \subseteq fs
      OBVIOUS
    <2> HIDE DEF left
    <2>2. rest \in Seq(OnTheirLine(left)) /\ left \subseteq Covered(rest)
      BY <2>1, ClusterCommentsCover
    <2>3. OnTheirLine(left) \subseteq T
      BY <2>1 DEF OnTheirLine
    <2> HIDE DEF rest, T
    <2> QED
      BY <2>2, <2>3, SeqMonotonic, Zenon
  <1> DEFINE cs == said \o rest
  <1>7. Consolidate(answer, fs) = cs
    BY DEF Consolidate
  <1> HIDE DEF said, rest, left, T
  <1>8. /\ cs \in Seq(T) /\ DOMAIN cs = 1..(Len(said) + Len(rest))
        /\ Len(said) \in Nat /\ Len(rest) \in Nat
        /\ DOMAIN said = 1..Len(said) /\ DOMAIN rest = 1..Len(rest)
        /\ \A i \in 1..Len(said) : cs[i] = said[i]
        /\ \A i \in 1..Len(rest) : cs[Len(said) + i] = rest[i]
    BY <1>5, <1>6
  <1> HIDE DEF cs
  <1>9. Covered(said) \subseteq Covered(cs) /\ Covered(rest) \subseteq Covered(cs)
    <2>1. \A i \in DOMAIN said : i \in DOMAIN cs /\ cs[i].ids = said[i].ids
      BY <1>8
    <2>2. \A i \in DOMAIN rest :
             Len(said) + i \in DOMAIN cs /\ cs[Len(said) + i].ids = rest[i].ids
      BY <1>8
    <2> QED
      BY <2>1, <2>2 DEF Covered
  <1>10. fs \subseteq Covered(cs)
    BY <1>6, <1>9 DEF left
  <1>11. /\ cs \in Seq([ids: SUBSET fs, line: Line, severity: 0..4])
         /\ \A i \in DOMAIN cs : \A f \in cs[i].ids : LineOf[f] = cs[i].line
    <2>1. T \subseteq [ids: SUBSET fs, line: Line, severity: 0..4]
      BY DEF T, OnTheirLine
    <2>2. cs \in Seq([ids: SUBSET fs, line: Line, severity: 0..4])
      BY <1>8, <2>1, SeqMonotonic, Zenon
    <2>3. \A i \in DOMAIN cs : cs[i] \in T
      BY <1>8
    <2>4. \A i \in DOMAIN cs : \A f \in cs[i].ids : LineOf[f] = cs[i].line
      BY <2>3 DEF T, OnTheirLine
    <2> QED
      BY <2>2, <2>4
  <1> QED
    BY <1>7, <1>10, <1>11 DEF Sourced

-----------------------------------------------------------------------------
(* The verdict.                                                            *)

\* The verdict of a review with a severe finding, or of one's own.
Covers(e) ==
    /\ e \in Events /\ e # "APPROVE"
    /\ own => e = "COMMENT"
    /\ ~own /\ (\E f \in found : SeverityOf[f] >= 3) => e = "REQUEST_CHANGES"

LEMMA SynthEventType == \A s : SynthEvent(s) \in Events
  BY DEF SynthEvent, Events

LEMMA StricterType == \A d, e \in Events : Stricter(d, e) \in Events
  BY DEF Stricter

LEMMA ResolveEventType ==
  ASSUME NEW asked, NEW s
  PROVE  ResolveEvent(asked, s) \in Events
  BY SynthEventType, StricterType DEF ResolveEvent, Events

\* The model asks for what it likes: a severe finding has its verdict.
LEMMA VerdictIsCovered ==
  ASSUME NEW asked, NEW cs, own \in BOOLEAN
  PROVE  Covers(Verdict(asked, cs, found))
  <1> DEFINE r == ResolveEvent(asked, {cs[i].severity : i \in DOMAIN cs})
             s == SynthEvent({SeverityOf[f] : f \in found})
  <1>1. r \in Events /\ s \in Events
    BY ResolveEventType, SynthEventType
  <1>2. (\E f \in found : SeverityOf[f] >= 3) => s = "REQUEST_CHANGES"
    BY DEF SynthEvent
  <1>3. Verdict(asked, cs, found) = EffectiveEvent(Stricter(r, s))
    BY DEF Verdict
  <1> HIDE DEF r, s
  <1>4. Stricter(r, s) \in Events
    BY <1>1, StricterType
  <1>5. s = "REQUEST_CHANGES" => Stricter(r, s) = "REQUEST_CHANGES"
    BY <1>1 DEF Stricter, Strictness, Events
  <1> QED
    BY <1>2, <1>3, <1>4, <1>5 DEF Covers, EffectiveEvent, Events

-----------------------------------------------------------------------------
(* The invariant.                                                          *)

Working == place \in {"synth", "list", "post", "persist"}

RangesOK ==
    /\ local \in BOOLEAN /\ own \in BOOLEAN
    /\ place \in {"idle", "fanin", "synth", "list", "post", "persist"}
    /\ found \in SUBSET Finding
    /\ base \in SUBSET Item
    /\ pass \in Nat

\* The node goes on only with something to review, and until it is done it has
\* the baseline it read.
WorkIsGrounded ==
    Working => /\ ~Unreviewed
               /\ prior = IF failed = {} \/ unread THEN {} ELSE base

\* The event on its way out is one that covers the findings.
EventCovers == place \in {"list", "post"} => Covers(event)

\* Inline comments are of passes that were; while a pass posts, those of
\* earlier passes are on lines it keeps off, or it has nothing to post.
PassesApart ==
    /\ \A c \in inline : c[2] \in 1..pass
    /\ Working => pass > 0
    /\ place \in {"idle", "fanin"} => comments = <<>>
    /\ place \in {"synth", "list"} => \A c \in inline : c[2] < pass
    /\ place = "post" /\ ~blind =>
          \/ comments = <<>>
          \/ \A c \in inline : c[2] = pass \/ c[1] \in already

PostingInv ==
    /\ RangesOK /\ WorkIsGrounded /\ EventCovers /\ PassesApart
    /\ CleanIsHonest /\ VerdictCovers /\ InlineOnce

LEMMA PostingInvInit == Init => PostingInv
  BY DEF Init, PostingInv, RangesOK, Working, WorkIsGrounded, EventCovers,
     PassesApart, CleanIsHonest, VerdictCovers, InlineOnce, Nothing, Events

-----------------------------------------------------------------------------
(* The steps.                                                              *)

\* The baseline that is written has lines and domains of findings and of the
\* baseline before.
LEMMA NewBaselineType ==
  ASSUME found \in SUBSET Finding, prior \in SUBSET Item
  PROVE  NewBaseline \in SUBSET Item
  <1>1. Keep(prior, failed) \in SUBSET Item
    BY DEF Keep, Item
  <1>2. ASSUME NEW f \in found
        PROVE  [line |-> LineOf[f],
                domains |-> {DomainOf[g] :
                                g \in {h \in found : LineOf[h] = LineOf[f]}}]
                  \in Item
    <2>1. LineOf[f] \in Line /\ \A g \in found : DomainOf[g] \in Domain
      BY PostingAssumption
    <2>2. {DomainOf[g] : g \in {h \in found : LineOf[h] = LineOf[f]}}
             \in SUBSET Domain
      BY <2>1
    <2> QED
      BY <2>1, <2>2 DEF Item
  <1> QED
    BY <1>1, <1>2 DEF NewBaseline

LEMMA BeginStep == PostingInv /\ Begin => PostingInv'
  <1> SUFFICES ASSUME PostingInv, Begin PROVE PostingInv'
    OBVIOUS
  <1> USE DEF PostingInv
  <1>1. /\ place = "idle" /\ place' = "fanin" /\ found' \in SUBSET Finding
        /\ review' = Nothing
        /\ UNCHANGED <<local, own, comments, inline, base, pass, blind>>
    BY DEF Begin, modeVars, workVars
  <1>2. RangesOK' /\ WorkIsGrounded' /\ EventCovers' /\ PassesApart'
    BY <1>1 DEF RangesOK, Working, WorkIsGrounded, EventCovers, PassesApart
  <1>3. CleanIsHonest' /\ VerdictCovers' /\ InlineOnce'
    BY <1>1 DEF CleanIsHonest, VerdictCovers, InlineOnce, Nothing, Events
  <1> QED
    BY <1>2, <1>3

\* The node ends: what is out stays out.
LEMMA LeaveStep ==
  ASSUME PostingInv, Leave,
         UNCHANGED <<local, own, kind, found, failed, inline, pass, blind>>,
         base' \in SUBSET Item, CleanIsHonest', VerdictCovers'
  PROVE  PostingInv'
  <1> USE DEF PostingInv
  <1>1. RangesOK' /\ WorkIsGrounded' /\ EventCovers' /\ PassesApart'
    BY DEF Leave, RangesOK, Working, WorkIsGrounded, EventCovers, PassesApart
  <1>2. InlineOnce'
    BY DEF InlineOnce
  <1> QED
    BY <1>1, <1>2

LEMMA ReportOutageStep == PostingInv /\ ReportOutage => PostingInv'
  <1> SUFFICES ASSUME PostingInv, ReportOutage PROVE PostingInv'
    OBVIOUS
  <1>1. /\ Leave
        /\ UNCHANGED <<local, own, kind, found, failed, inline, pass, blind>>
        /\ UNCHANGED <<base, review>>
    BY DEF ReportOutage, modeVars, inputVars, outVars, countVars
  <1> QED
    BY <1>1, LeaveStep DEF PostingInv, RangesOK, CleanIsHonest, VerdictCovers

LEMMA FanInStep == PostingInv /\ FanIn => PostingInv'
  <1> SUFFICES ASSUME PostingInv, FanIn PROVE PostingInv'
    OBVIOUS
  <1> USE DEF PostingInv
  <1>1. /\ place = "fanin" /\ ~Unreviewed /\ pass' = pass + 1
        /\ prior' = IF failed = {} \/ unread' THEN {} ELSE base
        /\ unread' \in BOOLEAN
        /\ UNCHANGED <<local, own, kind, found, failed, remark, comments,
                       inline, review, base, blind>>
    BY DEF FanIn, LoadBaseline, modeVars, inputVars, outVars
  <1>2. \/ place' = "synth"
        \/ /\ place' \in {"post", "persist"} /\ NoNews
           /\ event' = EffectiveEvent("APPROVE")
    BY DEF FanIn
  <1>3. RangesOK'
    BY <1>1, <1>2 DEF RangesOK
  <1>4. WorkIsGrounded'
    BY <1>1 DEF WorkIsGrounded, Unreviewed, Outage, NoNews
  <1>5. EventCovers'
    BY <1>1, <1>2 DEF EventCovers, Covers, EffectiveEvent, NoNews, Events
  <1>6. PassesApart'
    <2>1. \A c \in inline' : c[2] \in 1..pass' /\ c[2] < pass'
      BY <1>1 DEF PassesApart, RangesOK
    <2> QED
      BY <1>1, <1>2, <2>1 DEF PassesApart, RangesOK, Working
  <1>7. CleanIsHonest' /\ VerdictCovers' /\ InlineOnce'
    BY <1>1 DEF CleanIsHonest, VerdictCovers, InlineOnce
  <1> QED
    BY <1>3, <1>4, <1>5, <1>6, <1>7

LEMMA SynthesizeStep == PostingInv /\ Synthesize => PostingInv'
  <1> SUFFICES ASSUME PostingInv, Synthesize PROVE PostingInv'
    OBVIOUS
  <1> USE DEF PostingInv
  <1>1. /\ place = "synth" /\ place' \in {"persist", "list"}
        /\ UNCHANGED <<local, own, kind, found, failed, remark, prior, unread,
                       inline, review, base, pass, blind>>
    BY DEF Synthesize, modeVars, inputVars, outVars, countVars
  <1>2. PICK cs, asked : event' = Verdict(asked, cs, found)
    BY DEF Synthesize
  <1>3. Covers(event')
    BY <1>2, VerdictIsCovered DEF RangesOK
  <1>4. EventCovers'
    BY <1>1, <1>3 DEF EventCovers, Covers
  <1>5. RangesOK' /\ WorkIsGrounded'
    BY <1>1 DEF RangesOK, WorkIsGrounded, Working, Unreviewed, Outage, NoNews
  <1>6. PassesApart'
    BY <1>1 DEF PassesApart, Working
  <1>7. CleanIsHonest' /\ VerdictCovers' /\ InlineOnce'
    BY <1>1 DEF CleanIsHonest, VerdictCovers, InlineOnce
  <1> QED
    BY <1>4, <1>5, <1>6, <1>7

\* The node raised over its comments: it ends with nothing out.
LEMMA SynthesizeRaisesStep == PostingInv /\ SynthesizeRaises => PostingInv'
  <1> SUFFICES ASSUME PostingInv, SynthesizeRaises PROVE PostingInv'
    OBVIOUS
  <1>1. /\ Leave
        /\ UNCHANGED <<local, own, kind, found, failed, inline, pass, blind>>
        /\ UNCHANGED <<base, review>>
    BY DEF SynthesizeRaises, modeVars, inputVars, outVars, countVars
  <1> QED
    BY <1>1, LeaveStep DEF PostingInv, RangesOK, CleanIsHonest, VerdictCovers

LEMMA ListExistingStep == PostingInv /\ ListExisting => PostingInv'
  <1> SUFFICES ASSUME PostingInv, ListExisting PROVE PostingInv'
    OBVIOUS
  <1> USE DEF PostingInv
  <1>1. /\ place = "list" /\ place' = "post"
        /\ UNCHANGED <<local, own, kind, found, failed, remark, prior, unread,
                       comments, event, inline, review, base, pass>>
        /\ \/ already' = {c[1] : c \in inline} /\ blind' = blind
           \/ blind' = TRUE
    BY DEF ListExisting, modeVars, inputVars, outVars
  <1>2. PassesApart'
    BY <1>1 DEF PassesApart, Working
  <1>3. EventCovers'
    BY <1>1 DEF EventCovers, Covers
  <1>4. RangesOK' /\ WorkIsGrounded'
    BY <1>1 DEF RangesOK, WorkIsGrounded, Working, Unreviewed, Outage, NoNews
  <1>5. CleanIsHonest' /\ VerdictCovers' /\ InlineOnce'
    BY <1>1 DEF CleanIsHonest, VerdictCovers, InlineOnce
  <1> QED
    BY <1>2, <1>3, <1>4, <1>5

\* A comment that is not posted is only taken off the list.
LEMMA HeldBackStep == PostingInv /\ (FoldComment \/ SkipComment) => PostingInv'
  <1> SUFFICES ASSUME PostingInv, FoldComment \/ SkipComment PROVE PostingInv'
    OBVIOUS
  <1> USE DEF PostingInv
  <1>1. /\ place = "post"
        /\ UNCHANGED <<local, own, place, kind, found, failed, remark, prior,
                       unread, event, already, inline, review, base, pass, blind>>
    BY DEF FoldComment, SkipComment, modeVars, inputVars, outVars, countVars
  <1>2. comments # <<>>
    BY DEF FoldComment, SkipComment, NextUp
  <1>3. PassesApart'
    BY <1>1, <1>2 DEF PassesApart, Working
  <1>4. RangesOK' /\ WorkIsGrounded' /\ EventCovers'
    BY <1>1 DEF RangesOK, WorkIsGrounded, EventCovers, Covers, Working,
       Unreviewed, Outage, NoNews
  <1>5. CleanIsHonest' /\ VerdictCovers' /\ InlineOnce'
    BY <1>1 DEF CleanIsHonest, VerdictCovers, InlineOnce
  <1> QED
    BY <1>3, <1>4, <1>5

\* A comment goes out on a line that no earlier pass has one on.
LEMMA PostCommentStep == PostingInv /\ PostComment => PostingInv'
  <1> SUFFICES ASSUME PostingInv, PostComment PROVE PostingInv'
    OBVIOUS
  <1> USE DEF PostingInv
  <1>1. /\ place = "post"
        /\ UNCHANGED <<local, own, place, kind, found, failed, remark, prior,
                       unread, event, already, review, base, pass, blind>>
    BY DEF PostComment, modeVars, inputVars, countVars
  <1>2. comments # <<>>
    BY DEF PostComment, NextUp
  <1>3. \/ inline' = inline
        \/ \E l : l \notin already /\ inline' = inline \cup {<<l, pass>>}
    BY DEF PostComment
  <1>4. ~blind => \A c \in inline : c[2] = pass \/ c[1] \in already
    BY <1>1, <1>2 DEF PassesApart, Working
  <1>5. PassesApart' /\ InlineOnce'
    <2>1. CASE inline' = inline
      BY <1>1, <1>4, <2>1 DEF PassesApart, InlineOnce, Working
    <2>2. ASSUME NEW l, l \notin already, inline' = inline \cup {<<l, pass>>}
          PROVE  PassesApart' /\ InlineOnce'
      <3>1. pass \in 1..pass
        BY <1>1 DEF PassesApart, RangesOK, Working
      <3>2. \A c \in inline' : \/ c \in inline
                               \/ c[1] = l /\ c[2] = pass
        BY <2>2
      <3>3. PassesApart'
        BY <1>1, <1>4, <3>1, <3>2 DEF PassesApart, Working
      <3>4. InlineOnce'
        BY <1>1, <1>4, <2>2, <3>2 DEF InlineOnce
      <3> QED
        BY <3>3, <3>4
    <2> QED
      BY <1>3, <2>1, <2>2
  <1>6. RangesOK' /\ WorkIsGrounded' /\ EventCovers'
    BY <1>1 DEF RangesOK, WorkIsGrounded, EventCovers, Covers, Working,
       Unreviewed, Outage, NoNews
  <1>7. CleanIsHonest' /\ VerdictCovers'
    BY <1>1 DEF CleanIsHonest, VerdictCovers
  <1> QED
    BY <1>5, <1>6, <1>7

\* What is submitted covers the findings, and is clean only without any.
LEMMA SubmitStep == PostingInv /\ Submit => PostingInv'
  <1> SUFFICES ASSUME PostingInv, Submit PROVE PostingInv'
    OBVIOUS
  <1> USE DEF PostingInv
  <1>1. /\ place = "post" /\ comments = <<>> /\ review' = Report(event)
        /\ UNCHANGED <<local, own, kind, found, failed, remark, inline, base,
                       pass, blind>>
    BY DEF Submit, modeVars, inputVars, countVars
  <1>2. CleanIsHonest'
    BY <1>1 DEF CleanIsHonest, Report, WorkIsGrounded, Working, Unreviewed,
       Outage, NoNews
  <1>3. VerdictCovers'
    BY <1>1 DEF VerdictCovers, Report, EventCovers, Covers
  <1>4. CASE Leave
    BY <1>1, <1>2, <1>3, <1>4, LeaveStep DEF RangesOK
  <1>5. CASE place' = "persist" /\ UNCHANGED workVars
    <2>1. RangesOK' /\ EventCovers' /\ InlineOnce'
      BY <1>1, <1>5 DEF RangesOK, EventCovers, InlineOnce
    <2>2. WorkIsGrounded' /\ PassesApart'
      BY <1>1, <1>5 DEF WorkIsGrounded, PassesApart, Working, Unreviewed,
         Outage, NoNews, workVars
    <2> QED
      BY <1>2, <1>3, <2>1, <2>2
  <1> QED
    BY <1>4, <1>5 DEF Submit

LEMMA SubmitFailsStep == PostingInv /\ SubmitFails => PostingInv'
  <1> SUFFICES ASSUME PostingInv, SubmitFails PROVE PostingInv'
    OBVIOUS
  <1>1. /\ Leave
        /\ UNCHANGED <<local, own, kind, found, failed, inline, pass, blind>>
        /\ UNCHANGED <<base, review>>
    BY DEF SubmitFails, modeVars, inputVars, outVars, countVars
  <1> QED
    BY <1>1, LeaveStep DEF PostingInv, RangesOK, CleanIsHonest, VerdictCovers

LEMMA PersistStep == PostingInv /\ Persist => PostingInv'
  <1> SUFFICES ASSUME PostingInv, Persist PROVE PostingInv'
    OBVIOUS
  <1> USE DEF PostingInv
  <1>1. /\ place = "persist" /\ base' = NewBaseline /\ Leave
        /\ UNCHANGED <<local, own, kind, found, failed, remark, inline, pass,
                       blind>>
        /\ review' = review \/ review' = Report("report")
    BY DEF Persist, modeVars, inputVars, countVars
  <1>2. base' \in SUBSET Item
    BY <1>1, NewBaselineType DEF RangesOK, WorkIsGrounded, Working
  <1>3. CleanIsHonest'
    <2>1. CASE review' = review
      BY <1>1, <2>1 DEF CleanIsHonest
    <2>2. CASE review' = Report("report")
      <3>1. review'.clean = NoNews /\ ~Unreviewed
        BY <1>1, <2>2 DEF Report, WorkIsGrounded, Working
      <3> QED
        BY <1>1, <3>1 DEF CleanIsHonest, Unreviewed, Outage, NoNews
    <2> QED
      BY <1>1, <2>1, <2>2
  <1>4. VerdictCovers'
    BY <1>1 DEF VerdictCovers, Report, Events
  <1> QED
    BY <1>1, <1>2, <1>3, <1>4, LeaveStep

LEMMA CrashStep == PostingInv /\ Crash => PostingInv'
  <1> SUFFICES ASSUME PostingInv, Crash PROVE PostingInv'
    OBVIOUS
  <1> USE DEF PostingInv
  <1>1. /\ place \in {"post", "persist"} /\ place' = "fanin" /\ comments' = <<>>
        /\ UNCHANGED <<local, own, kind, found, failed, remark, inline, review,
                       base, pass, blind>>
    BY DEF Crash, modeVars, inputVars, outVars
  <1>2. RangesOK' /\ WorkIsGrounded' /\ EventCovers' /\ PassesApart'
    BY <1>1 DEF RangesOK, Working, WorkIsGrounded, EventCovers, PassesApart
  <1>3. CleanIsHonest' /\ VerdictCovers' /\ InlineOnce'
    BY <1>1 DEF CleanIsHonest, VerdictCovers, InlineOnce
  <1> QED
    BY <1>2, <1>3

-----------------------------------------------------------------------------
(* The theorems.                                                           *)

\* The invariant holds of every series of reviews of a pull request, with any
\* findings, answers of the model, failures of GitHub and crashes.
THEOREM PostingInvariant == Spec => []PostingInv
  <1>1. PostingInv /\ [Next]_vars => PostingInv'
    <2> SUFFICES ASSUME PostingInv, [Next]_vars PROVE PostingInv'
      OBVIOUS
    <2>1. CASE Next
      BY <2>1, BeginStep, ReportOutageStep, FanInStep, SynthesizeStep,
         SynthesizeRaisesStep, ListExistingStep, HeldBackStep,
         PostCommentStep, SubmitStep, SubmitFailsStep, PersistStep,
         CrashStep DEF Next
    <2>2. CASE UNCHANGED vars
      <3>1. /\ UNCHANGED <<local, own, place, kind, found, failed, remark>>
            /\ UNCHANGED <<prior, unread, comments, event, already, folded>>
            /\ UNCHANGED <<inline, review, base, pass, blind>>
        BY <2>2 DEF vars, modeVars, inputVars, workVars, outVars, countVars
      <3>2. RangesOK' /\ WorkIsGrounded' /\ EventCovers'
        BY <3>1 DEF PostingInv, RangesOK, Working, WorkIsGrounded, Unreviewed,
           Outage, NoNews, EventCovers, Covers
      <3>3. PassesApart'
        BY <3>1 DEF PostingInv, PassesApart, Working
      <3>4. CleanIsHonest' /\ VerdictCovers' /\ InlineOnce'
        BY <3>1 DEF PostingInv, CleanIsHonest, VerdictCovers, InlineOnce
      <3> QED
        BY <3>2, <3>3, <3>4 DEF PostingInv
    <2> QED
      BY <2>1, <2>2
  <1> QED
    BY <1>1, PostingInvInit, PTL DEF Spec

\* No review says that nothing was found when its branches found something, when
\* all of them failed, or when none could run.
THEOREM CleanHolds == Spec => []CleanIsHonest
  <1>1. PostingInv => CleanIsHonest
    BY DEF PostingInv
  <1> QED
    BY <1>1, PostingInvariant, PTL

\* The verdict follows the severities, whatever the model asks for.
THEOREM VerdictHolds == Spec => []VerdictCovers
  <1>1. PostingInv => VerdictCovers
    BY DEF PostingInv
  <1> QED
    BY <1>1, PostingInvariant, PTL

\* While the passes can see what is there, no line gets inline comments in two
\* of them: neither a retry after a crash nor a review that follows posts again.
THEOREM InlineHolds == Spec => []InlineOnce
  <1>1. PostingInv => InlineOnce
    BY DEF PostingInv
  <1> QED
    BY <1>1, PostingInvariant, PTL

\* A baseline that replaces another, which the pass had read, keeps what that
\* one held of the domains that failed.
THEOREM FailedDomainHolds == Spec => FailedDomainKept
  <1>1. ASSUME PostingInv, [Next]_vars, base' # base, ~unread
        PROVE  KeepsFailed
    <2>1. Persist
      BY <1>1 DEF Next, vars, Begin, ReportOutage, FanIn, Synthesize,
         SynthesizeRaises, ListExisting, FoldComment, SkipComment,
         PostComment, Submit, SubmitFails, Crash, outVars
    <2>2. /\ base' = NewBaseline /\ base \in SUBSET Item
          /\ (failed # {} => prior = base)
      BY <1>1, <2>1 DEF Persist, PostingInv, RangesOK, WorkIsGrounded, Working
    <2>3. ASSUME NEW i \in base, NEW d \in i.domains \cap failed
          PROVE  \E j \in base' : j.line = i.line /\ d \in j.domains
      <3> DEFINE j == [i EXCEPT !.domains = @ \cap failed]
      <3>1. j \in Keep(prior, failed)
        BY <2>2, <2>3 DEF Keep
      <3>2. j.line = i.line /\ j.domains = i.domains \cap failed
        BY <2>2, <2>3 DEF Item
      <3>3. j \in base'
        BY <2>2, <3>1 DEF NewBaseline
      <3> QED
        BY <2>3, <3>2, <3>3
    <2> QED
      BY <2>3 DEF KeepsFailed
  <1>2. PostingInv /\ [Next]_vars => [base' # base /\ ~unread => KeepsFailed]_vars
    BY <1>1
  <1> QED
    BY <1>2, PostingInvariant, PTL DEF Spec, FailedDomainKept

-----------------------------------------------------------------------------
(* No finding is withheld.                                                 *)

CommentSet == [ids: SUBSET Finding, line: Line, severity: 0..4]

Carries(l) == \E p \in 1..pass : <<l, p>> \in inline
Reached(f) == f \in told \/ Carries(LineOf[f])

\* Comments that wait are about findings of their own line, and the lines taken
\* to carry a comment do.
CommentsInPlace ==
    /\ comments \in Seq(CommentSet)
    /\ \A i \in DOMAIN comments : \A f \in comments[i].ids :
          LineOf[f] = comments[i].line
    /\ \A l \in already : Carries(l)

\* From the synthesis to the review every finding is in a comment that waits,
\* or folded into the body, or has reached the pull request; a local report
\* gets all comments at once.
NoneLost ==
    /\ place \in {"list", "post"} =>
          /\ ~local
          /\ \A f \in found : f \in Covered(comments) \cup folded \/ Reached(f)
    /\ place = "persist" /\ local => found \subseteq Covered(comments)

ToldInv == TypeOK /\ EveryFindingTold /\ CommentsInPlace /\ NoneLost

LEMMA ToldInvInit == Init => ToldInv
  <1> SUFFICES ASSUME Init PROVE ToldInv
    OBVIOUS
  <1>1. /\ MaxRuns \in Nat /\ MaxCrashes \in Nat
        /\ runs \in 0..MaxRuns /\ crashes \in 0..MaxCrashes
    BY PostingAssumption DEF Init
  <1>2. /\ comments = <<>> /\ inline = {}
        /\ review.event \in Events \cup {"none", "report"}
    BY DEF Init, Nothing
  <1>3. TypeOK
    <2>1. inDiff \in SUBSET Line /\ failed = {} /\ already = {}
      BY DEF Init
    <2>2. \A i \in DOMAIN comments :
             comments[i] \in [ids: SUBSET Finding, line: Line, severity: 0..4]
      BY <1>2
    <2> QED
      BY <1>1, <1>2, <2>1, <2>2 DEF Init, TypeOK, Kinds, Events
  <1>4. CommentsInPlace
    BY DEF Init, CommentsInPlace
  <1> QED
    BY <1>3, <1>4 DEF Init, ToldInv, EveryFindingTold, NoneLost, Nothing

\* What a line carries it keeps.
LEMMA CarriesKept ==
  ASSUME pass \in Nat, pass' \in Nat, pass <= pass', inline \subseteq inline'
  PROVE  /\ \A l : Carries(l) => Carries(l)'
         /\ told \subseteq told' => \A f : Reached(f) => Reached(f)'
  BY DEF Carries, Reached

\* A comment taken off the list leaves the others.
LEMMA RemoveAtOthers ==
  ASSUME NEW S, NEW s \in Seq(S), NEW i \in DOMAIN s
  PROVE  /\ RemoveAt(s, i) \in Seq(S)
         /\ \A j \in DOMAIN RemoveAt(s, i) :
               \E k \in DOMAIN s : RemoveAt(s, i)[j] = s[k]
         /\ \A k \in DOMAIN s : k = i \/
               \E j \in DOMAIN RemoveAt(s, i) : RemoveAt(s, i)[j] = s[k]
  <1> DEFINE a == SubSeq(s, 1, i - 1)
             b == SubSeq(s, i + 1, Len(s))
             r == RemoveAt(s, i)
  <1>1. i \in 1..Len(s) /\ Len(s) \in Nat /\ DOMAIN s = 1..Len(s)
    OBVIOUS
  <1>2. /\ a \in Seq(S) /\ Len(a) = i - 1
        /\ \A j \in 1..(i - 1) : a[j] = s[j]
    BY <1>1
  <1>3. /\ b \in Seq(S) /\ Len(b) = Len(s) - i
        /\ \A j \in 1..(Len(s) - i) : b[j] = s[i + j]
    BY <1>1
  <1>4. r = a \o b
    BY DEF RemoveAt
  <1> HIDE DEF a, b, r
  <1>5. /\ r \in Seq(S) /\ Len(r) = Len(s) - 1 /\ DOMAIN r = 1..(Len(s) - 1)
        /\ \A j \in 1..(Len(s) - 1) :
              r[j] = IF j < i THEN s[j] ELSE s[j + 1]
    <2>1. /\ r \in Seq(S) /\ Len(r) = Len(s) - 1
          /\ \A j \in 1..(Len(s) - 1) :
                r[j] = IF j <= i - 1 THEN a[j] ELSE b[j - (i - 1)]
      <3>1. a \in Seq(S) /\ b \in Seq(S)
        BY <1>2, <1>3
      <3>2. /\ a \o b \in Seq(S) /\ Len(a \o b) = Len(a) + Len(b)
            /\ \A j \in 1..(Len(a) + Len(b)) : (a \o b)[j] =
                  IF j <= Len(a) THEN a[j] ELSE b[j - Len(a)]
        BY <3>1, ConcatProperties, Zenon
      <3> QED
        BY <1>1, <1>2, <1>3, <1>4, <3>2
    <2>2. ASSUME NEW j \in 1..(Len(s) - 1)
          PROVE  r[j] = IF j < i THEN s[j] ELSE s[j + 1]
      <3>1. CASE j <= i - 1
        BY <1>1, <1>2, <2>1, <3>1
      <3>2. CASE j > i - 1
        <4>1. j - (i - 1) \in 1..(Len(s) - i) /\ i + (j - (i - 1)) = j + 1
          BY <1>1, <3>2
        <4>2. b[j - (i - 1)] = s[i + (j - (i - 1))]
          BY <1>3, <4>1
        <4>3. r[j] = b[j - (i - 1)] /\ ~(j < i)
          BY <1>1, <2>1, <3>2
        <4> QED
          BY <4>1, <4>2, <4>3
      <3> QED
        BY <1>1, <3>1, <3>2
    <2>3. DOMAIN r = 1..(Len(s) - 1)
      BY <2>1
    <2> QED
      BY <2>1, <2>2, <2>3
  <1>6. \A j \in DOMAIN r : \E k \in DOMAIN s : r[j] = s[k]
    BY <1>1, <1>5
  <1>7. ASSUME NEW k \in DOMAIN s, k # i
        PROVE  \E j \in DOMAIN r : r[j] = s[k]
    <2>1. CASE k < i
      BY <1>1, <1>5, <2>1
    <2>2. CASE k > i
      <3>1. k - 1 \in DOMAIN r /\ r[k - 1] = s[k]
        BY <1>1, <1>5, <2>2
      <3> QED
        BY <3>1
    <2> QED
      BY <1>1, <1>7, <2>1, <2>2
  <1> QED
    BY <1>5, <1>6, <1>7 DEF r

LEMMA TakenKeepsOthers ==
  ASSUME CommentsInPlace, NEW i \in DOMAIN comments, Taken(i)
  PROVE  /\ comments[i] \in CommentSet
         /\ comments' \in Seq(CommentSet)
         /\ \A j \in DOMAIN comments' : \A f \in comments'[j].ids :
               LineOf[f] = comments'[j].line
         /\ Covered(comments) \subseteq Covered(comments') \cup comments[i].ids
  <1>1. comments \in Seq(CommentSet)
    BY DEF CommentsInPlace
  <1>2. /\ comments' \in Seq(CommentSet)
        /\ \A j \in DOMAIN comments' :
              \E k \in DOMAIN comments : comments'[j] = comments[k]
        /\ \A k \in DOMAIN comments : k = i \/
              \E j \in DOMAIN comments' : comments'[j] = comments[k]
    BY <1>1, RemoveAtOthers DEF Taken
  <1>3. \A j \in DOMAIN comments' : \A f \in comments'[j].ids :
           LineOf[f] = comments'[j].line
    BY <1>2 DEF CommentsInPlace
  <1>4. Covered(comments) \subseteq Covered(comments') \cup comments[i].ids
    BY <1>2 DEF Covered
  <1> QED
    BY <1>1, <1>2, <1>3, <1>4

\* With an invariant that was proved, a step that ends the node.
LEMMA LeaveTold ==
  ASSUME ToldInv, Leave, pass \in Nat,
         UNCHANGED <<modeVars, inputVars, inline, countVars>>,
         told' \subseteq Finding,
         review'.event \in Events \cup {"none", "report"},
         base' \subseteq Item, EveryFindingTold'
  PROVE  ToldInv'
  <1>1. /\ place' = "idle" /\ prior' = {} /\ comments' = <<>>
        /\ event' = "COMMENT" /\ already' = {} /\ folded' = {}
    BY DEF Leave
  <1>2. unread' \in BOOLEAN
    BY DEF Leave
  <1>3. TypeOK'
    BY <1>1, <1>2 DEF ToldInv, TypeOK, Events, modeVars, inputVars, countVars
  <1>4. CommentsInPlace' /\ NoneLost'
    BY <1>1 DEF CommentsInPlace, NoneLost
  <1> QED
    BY <1>3, <1>4 DEF ToldInv

LEMMA BeginTold == ToldInv /\ pass \in Nat /\ Begin => ToldInv'
  <1> SUFFICES ASSUME ToldInv, pass \in Nat, Begin PROVE ToldInv'
    OBVIOUS
  <1> USE DEF ToldInv
  <1>1. /\ place' = "fanin" /\ review' = Nothing /\ told' = {}
        /\ runs' = runs + 1 /\ runs < MaxRuns
        /\ UNCHANGED <<modeVars, workVars, inline, base, pass, blind, crashes>>
    BY DEF Begin
  <1>2. /\ kind' \in Kinds /\ found' \subseteq Finding
        /\ failed' \subseteq Domain /\ remark' \in BOOLEAN
    BY DEF Begin, Kinds
  <1>3. TypeOK'
    BY <1>1, <1>2, PostingAssumption
       DEF TypeOK, Nothing, modeVars, workVars
  <1>4. CommentsInPlace'
    BY <1>1 DEF CommentsInPlace, Carries, workVars
  <1> QED
    BY <1>1, <1>3, <1>4 DEF EveryFindingTold, NoneLost, Nothing

LEMMA ReportOutageTold == ToldInv /\ pass \in Nat /\ ReportOutage => ToldInv'
  <1> SUFFICES ASSUME ToldInv, pass \in Nat, ReportOutage PROVE ToldInv'
    OBVIOUS
  <1>1. /\ Leave
        /\ UNCHANGED <<modeVars, inputVars, outVars, countVars>>
    BY DEF ReportOutage
  <1> QED
    BY <1>1, LeaveTold DEF ToldInv, TypeOK, EveryFindingTold, inputVars,
       outVars, countVars

LEMMA SubmitFailsTold == ToldInv /\ pass \in Nat /\ SubmitFails => ToldInv'
  <1> SUFFICES ASSUME ToldInv, pass \in Nat, SubmitFails PROVE ToldInv'
    OBVIOUS
  <1>1. /\ Leave
        /\ UNCHANGED <<modeVars, inputVars, outVars, countVars>>
    BY DEF SubmitFails
  <1> QED
    BY <1>1, LeaveTold DEF ToldInv, TypeOK, EveryFindingTold, inputVars,
       outVars, countVars

LEMMA SynthesizeRaisesTold ==
  ToldInv /\ pass \in Nat /\ SynthesizeRaises => ToldInv'
  <1> SUFFICES ASSUME ToldInv, pass \in Nat, SynthesizeRaises PROVE ToldInv'
    OBVIOUS
  <1>1. /\ Leave
        /\ UNCHANGED <<modeVars, inputVars, outVars, countVars>>
    BY DEF SynthesizeRaises
  <1> QED
    BY <1>1, LeaveTold DEF ToldInv, TypeOK, EveryFindingTold, inputVars,
       outVars, countVars

LEMMA FanInTold == ToldInv /\ PostingInv /\ FanIn => ToldInv'
  <1> SUFFICES ASSUME ToldInv, PostingInv, FanIn PROVE ToldInv'
    OBVIOUS
  <1> USE DEF ToldInv
  <1>1. /\ pass' = pass + 1 /\ pass \in Nat /\ comments = <<>>
        /\ prior' = IF failed = {} \/ unread' THEN {} ELSE base
        /\ unread' \in BOOLEAN
        /\ UNCHANGED <<modeVars, inputVars, comments, already, folded, outVars,
                       blind, runs, crashes>>
    BY DEF FanIn, LoadBaseline, PostingInv, RangesOK, PassesApart
  <1>2. \/ place' = "synth" /\ event' = event
        \/ /\ found = {} /\ event' = "COMMENT"
           /\ place' = IF local THEN "persist" ELSE "post"
    BY DEF FanIn, NoNews, EffectiveEvent
  <1>3. TypeOK'
    BY <1>1, <1>2 DEF TypeOK, Events, modeVars, inputVars, outVars
  <1>4. /\ \A l : Carries(l) => Carries(l)'
        /\ \A f : Reached(f) => Reached(f)'
    BY <1>1, CarriesKept DEF outVars
  <1>5. CommentsInPlace'
    BY <1>1, <1>4 DEF CommentsInPlace
  <1>6. NoneLost'
    BY <1>1, <1>2 DEF NoneLost, inputVars, modeVars
  <1>7. EveryFindingTold'
    BY <1>1, <1>4 DEF EveryFindingTold, Reached, Carries, inputVars, outVars
  <1> QED
    BY <1>3, <1>5, <1>6, <1>7

\* Whatever goes out of the synthesis has every finding of the review.
LEMMA ConsolidatedIsSourced ==
  ASSUME found \in SUBSET Finding, NEW cs \in Consolidated
  PROVE  Sourced(cs, found)
  <1>1. CASE found = {}
    <2>1. PICK n \in 0..MaxComments :
             cs \in [1..n -> [ids: {{}}, line: Line, severity: 0..4]]
      BY <1>1 DEF Consolidated, Unsourced
    <2>2. n \in Nat
      BY <2>1, PostingAssumption
    <2>3. \A i \in 1..n :
             /\ cs[i] \in [ids: SUBSET found, line: Line, severity: 0..4]
             /\ cs[i].ids = {}
      BY <1>1, <2>1
    <2>4. cs \in [1..n -> [ids: SUBSET found, line: Line, severity: 0..4]]
      BY <2>1, <2>3
    <2>5. cs \in Seq([ids: SUBSET found, line: Line, severity: 0..4])
      <3> DEFINE S == [ids: SUBSET found, line: Line, severity: 0..4]
      <3>1. cs \in [1..n -> S]
        BY <2>4
      <3> HIDE DEF S
      <3>2. cs \in Seq(S)
        BY <2>2, <3>1, SeqDef, Zenon
      <3> QED
        BY <3>2 DEF S
    <2> QED
      BY <1>1, <2>3, <2>4, <2>5 DEF Sourced
  <1>2. CASE found # {}
    <2>1. PICK answer \in AnswersOn(found) :
             ~Raises(answer, found) /\ cs = Consolidate(answer, found)
      BY <1>2 DEF Consolidated
    <2> QED
      BY <2>1, ConsolidationHolds DEF ConsolidateCovers
  <1> QED
    BY <1>1, <1>2

\* Here the consolidated comments come in, with every finding of the review.
LEMMA SynthesizeTold == ToldInv /\ PostingInv /\ Synthesize => ToldInv'
  <1> SUFFICES ASSUME ToldInv, PostingInv, Synthesize PROVE ToldInv'
    OBVIOUS
  <1> USE DEF ToldInv
  <1>1. /\ place = "synth" /\ place' = IF local THEN "persist" ELSE "list"
        /\ UNCHANGED <<modeVars, inputVars, prior, unread, already, folded,
                       outVars, countVars>>
    BY DEF Synthesize
  <1>2. PICK cs \in Consolidated, asked \in Events \cup {"junk"} :
           comments' = cs /\ event' = Verdict(asked, cs, found)
    BY DEF Synthesize
  <1>3. found \in SUBSET Finding /\ own \in BOOLEAN
    BY DEF PostingInv, RangesOK
  <1>4. Sourced(comments', found)
    BY <1>2, <1>3, ConsolidatedIsSourced
  <1>5. event' \in Events
    BY <1>2, <1>3, VerdictIsCovered DEF Covers
  <1>6. comments' \in Seq(CommentSet)
    <2>1. comments' \in Seq([ids: SUBSET found, line: Line, severity: 0..4])
      BY <1>4 DEF Sourced
    <2>2. [ids: SUBSET found, line: Line, severity: 0..4] \subseteq CommentSet
      BY <1>3 DEF CommentSet
    <2> QED
      BY <2>1, <2>2, SeqMonotonic, Zenon
  <1>7. TypeOK'
    <2>1. \A i \in DOMAIN comments' : comments'[i] \in CommentSet
      BY <1>6
    <2> QED
      BY <1>1, <1>5, <2>1
         DEF TypeOK, CommentSet, modeVars, inputVars, outVars, countVars
  <1>8. CommentsInPlace'
    BY <1>1, <1>4, <1>6
       DEF CommentsInPlace, Sourced, Carries, outVars, countVars
  <1>9. NoneLost'
    BY <1>1, <1>3, <1>4 DEF NoneLost, Sourced, inputVars, modeVars
  <1>10. EveryFindingTold'
    BY <1>1 DEF EveryFindingTold, inputVars, outVars, countVars
  <1> QED
    BY <1>7, <1>8, <1>9, <1>10

LEMMA ListExistingTold == ToldInv /\ pass \in Nat /\ ListExisting => ToldInv'
  <1> SUFFICES ASSUME ToldInv, pass \in Nat, ListExisting PROVE ToldInv'
    OBVIOUS
  <1> USE DEF ToldInv
  <1>1. /\ place = "list" /\ place' = "post"
        /\ already' = {c[1] : c \in inline} \/ already' = {}
        /\ blind' = blind \/ blind' = TRUE
        /\ UNCHANGED <<modeVars, inputVars, prior, unread, comments, event,
                       folded, outVars, pass, runs, crashes>>
    BY DEF ListExisting
  <1>2. \A l \in already' : l \in Line /\ Carries(l)
    BY <1>1 DEF TypeOK, Carries
  <1>3. TypeOK'
    BY <1>1, <1>2 DEF TypeOK, modeVars, inputVars, outVars
  <1>4. CommentsInPlace'
    BY <1>1, <1>2 DEF CommentsInPlace, Carries, outVars
  <1>5. NoneLost' /\ EveryFindingTold'
    BY <1>1 DEF NoneLost, EveryFindingTold, Reached, Carries, Covered,
       modeVars, inputVars, outVars
  <1> QED
    BY <1>3, <1>4, <1>5

\* A comment is folded, skipped or posted: its findings are in the body, on a
\* line that carries a comment, or told.
LEMMA TakenTold ==
  ASSUME ToldInv, place = "post", pass \in Nat,
         NEW i \in DOMAIN comments, Taken(i),
         UNCHANGED <<modeVars, place, inputVars, prior, unread, event, already,
                     review, base, countVars>>,
         folded \subseteq folded', folded' \subseteq folded \cup comments[i].ids,
         told \subseteq told', told' \subseteq told \cup comments[i].ids,
         inline \subseteq inline',
         inline' \subseteq inline \cup {<<comments[i].line, pass>>},
         inline' # inline => pass > 0,
         \/ comments[i].ids \subseteq folded' \cup told'
         \/ comments[i].line \in already
  PROVE  ToldInv'
  <1> USE DEF ToldInv
  <1>1. /\ comments[i] \in CommentSet
        /\ comments' \in Seq(CommentSet)
        /\ \A j \in DOMAIN comments' : \A f \in comments'[j].ids :
              LineOf[f] = comments'[j].line
        /\ Covered(comments) \subseteq Covered(comments') \cup comments[i].ids
    BY TakenKeepsOthers
  <1>2. /\ \A l : Carries(l) => Carries(l)'
        /\ \A f : Reached(f) => Reached(f)'
    BY CarriesKept DEF countVars
  <1>3. TypeOK'
    <2>1. comments[i].ids \subseteq Finding /\ comments[i].line \in Line
      BY <1>1 DEF CommentSet
    <2>2. inline' \subseteq Line \X (1..pass')
      BY <2>1 DEF TypeOK, countVars
    <2>3. \A j \in DOMAIN comments' : comments'[j] \in CommentSet
      BY <1>1
    <2> QED
      BY <2>1, <2>2, <2>3
         DEF TypeOK, CommentSet, modeVars, inputVars, countVars
  <1>4. CommentsInPlace'
    BY <1>1, <1>2 DEF CommentsInPlace
  <1>5. \A f \in comments[i].ids : f \in folded' \/ Reached(f)'
    BY <1>2 DEF CommentsInPlace, Reached
  <1>6. NoneLost'
    BY <1>1, <1>2, <1>5 DEF NoneLost, modeVars, inputVars
  <1>7. EveryFindingTold'
    BY <1>2 DEF EveryFindingTold, Reached, Carries, inputVars
  <1> QED
    BY <1>3, <1>4, <1>6, <1>7

LEMMA FoldCommentTold == ToldInv /\ pass \in Nat /\ FoldComment => ToldInv'
  <1> SUFFICES ASSUME ToldInv, pass \in Nat, FoldComment PROVE ToldInv'
    OBVIOUS
  <1>1. PICK i \in DOMAIN comments :
           folded' = folded \cup comments[i].ids /\ Taken(i)
    BY DEF FoldComment, NextUp
  <1>2. /\ place = "post"
        /\ UNCHANGED <<modeVars, place, inputVars, prior, unread, event, already,
                       outVars, countVars>>
    BY DEF FoldComment
  <1>3. UNCHANGED <<told, inline, review, base>>
    BY <1>2 DEF outVars
  <1> QED
    BY <1>1, <1>2, <1>3, TakenTold

LEMMA SkipCommentTold == ToldInv /\ pass \in Nat /\ SkipComment => ToldInv'
  <1> SUFFICES ASSUME ToldInv, pass \in Nat, SkipComment PROVE ToldInv'
    OBVIOUS
  <1>1. PICK i \in DOMAIN comments : comments[i].line \in already /\ Taken(i)
    BY DEF SkipComment, NextUp
  <1>2. /\ place = "post"
        /\ UNCHANGED <<modeVars, place, inputVars, prior, unread, event, already,
                       folded, outVars, countVars>>
    BY DEF SkipComment
  <1>3. UNCHANGED <<told, inline, review, base>>
    BY <1>2 DEF outVars
  <1> QED
    BY <1>1, <1>2, <1>3, TakenTold

LEMMA PostCommentTold == ToldInv /\ PostingInv /\ PostComment => ToldInv'
  <1> SUFFICES ASSUME ToldInv, PostingInv, PostComment PROVE ToldInv'
    OBVIOUS
  <1>1. PICK i \in DOMAIN comments, ok \in BOOLEAN, landed \in BOOLEAN :
           /\ ok => landed
           /\ IF landed
                THEN /\ inline' = inline \cup {<<comments[i].line, pass>>}
                     /\ told' = told \cup comments[i].ids
                ELSE UNCHANGED <<inline, told>>
           /\ folded' = IF ok THEN folded ELSE folded \cup comments[i].ids
           /\ Taken(i)
    BY DEF PostComment, NextUp
  <1>2. /\ place = "post"
        /\ UNCHANGED <<modeVars, place, inputVars, prior, unread, event, already,
                       review, base, countVars>>
    BY DEF PostComment
  <1>3. pass \in Nat /\ pass > 0
    BY <1>2 DEF PostingInv, RangesOK, PassesApart, Working
  <1>4. /\ folded \subseteq folded'
        /\ folded' \subseteq folded \cup comments[i].ids
        /\ told \subseteq told' /\ told' \subseteq told \cup comments[i].ids
        /\ inline \subseteq inline'
        /\ inline' \subseteq inline \cup {<<comments[i].line, pass>>}
        /\ comments[i].ids \subseteq folded' \cup told'
    BY <1>1
  <1> QED
    BY <1>1, <1>2, <1>3, <1>4, TakenTold

\* Nothing waits when the review goes out: what was not told is in its body.
LEMMA SubmitTold == ToldInv /\ pass \in Nat /\ Submit => ToldInv'
  <1> SUFFICES ASSUME ToldInv, pass \in Nat, Submit PROVE ToldInv'
    OBVIOUS
  <1> USE DEF ToldInv
  <1>1. /\ place = "post" /\ comments = <<>> /\ review' = Report(event)
        /\ told' = told \cup folded
        /\ UNCHANGED <<modeVars, inputVars, inline, base, countVars>>
    BY DEF Submit
  <1>2. Covered(comments) = {}
    BY <1>1 DEF Covered
  <1>3. EveryFindingTold'
    BY <1>1, <1>2
       DEF EveryFindingTold, NoneLost, Reached, Carries, inputVars, countVars
  <1>4. told' \subseteq Finding /\ review'.event \in Events
    BY <1>1 DEF TypeOK, Report
  <1>5. CASE Leave
    BY <1>1, <1>3, <1>4, <1>5, LeaveTold DEF TypeOK
  <1>6. CASE place' = "persist" /\ UNCHANGED workVars
    <2>1. TypeOK'
      BY <1>1, <1>4, <1>6
         DEF TypeOK, modeVars, inputVars, countVars, workVars
    <2>2. CommentsInPlace' /\ NoneLost'
      BY <1>1, <1>6 DEF CommentsInPlace, NoneLost, Carries, modeVars,
         countVars, workVars
    <2> QED
      BY <1>3, <2>1, <2>2
  <1> QED
    BY <1>5, <1>6 DEF Submit

LEMMA PersistTold == ToldInv /\ PostingInv /\ Persist => ToldInv'
  <1> SUFFICES ASSUME ToldInv, PostingInv, Persist PROVE ToldInv'
    OBVIOUS
  <1> USE DEF ToldInv
  <1>1. /\ place = "persist" /\ Leave
        /\ UNCHANGED <<modeVars, inputVars, inline, countVars>>
        /\ IF local THEN told' = Covered(comments) /\ review' = Report("report")
                    ELSE UNCHANGED <<told, review>>
    BY DEF Persist
  <1>2. pass \in Nat /\ base' \subseteq Item
    <2>1. found \in SUBSET Finding /\ prior \in SUBSET Item /\ pass \in Nat
      BY DEF PostingInv, RangesOK, TypeOK
    <2> QED
      BY <2>1, NewBaselineType DEF Persist
  <1>3. Covered(comments) \subseteq Finding
    BY DEF TypeOK, Covered
  <1>4. EveryFindingTold' /\ told' \subseteq Finding
    BY <1>1, <1>3 DEF EveryFindingTold, NoneLost, TypeOK, inputVars, countVars
  <1>5. review'.event \in Events \cup {"none", "report"}
    BY <1>1 DEF TypeOK, Report
  <1> QED
    BY <1>1, <1>2, <1>4, <1>5, LeaveTold

LEMMA CrashTold == ToldInv /\ pass \in Nat /\ Crash => ToldInv'
  <1> SUFFICES ASSUME ToldInv, pass \in Nat, Crash PROVE ToldInv'
    OBVIOUS
  <1> USE DEF ToldInv
  <1>1. /\ place' = "fanin" /\ prior' = {} /\ comments' = <<>>
        /\ event' = "COMMENT" /\ already' = {} /\ folded' = {}
        /\ unread' \in BOOLEAN
        /\ crashes < MaxCrashes /\ crashes' = crashes + 1
        /\ UNCHANGED <<modeVars, inputVars, outVars, pass, blind, runs>>
    BY DEF Crash
  <1>2. TypeOK'
    BY <1>1, PostingAssumption
       DEF TypeOK, Events, modeVars, inputVars, outVars
  <1>3. CommentsInPlace' /\ NoneLost'
    BY <1>1 DEF CommentsInPlace, NoneLost
  <1>4. EveryFindingTold'
    BY <1>1 DEF EveryFindingTold, inputVars, outVars
  <1> QED
    BY <1>2, <1>3, <1>4

\* The types hold and no finding is withheld: whatever the synthesis cited and
\* whichever posts failed, every finding is in the review or report, in an
\* inline comment, or on a line that carries one.
THEOREM FindingsAreTold == Spec => []ReviewInv
  <1>1. PostingInv /\ ToldInv /\ [Next]_vars => ToldInv'
    <2> SUFFICES ASSUME PostingInv, ToldInv, [Next]_vars PROVE ToldInv'
      OBVIOUS
    <2>1. pass \in Nat
      BY DEF PostingInv, RangesOK
    <2>2. CASE Next
      BY <2>1, <2>2, BeginTold, ReportOutageTold, FanInTold, SynthesizeTold,
         SynthesizeRaisesTold,
         ListExistingTold, FoldCommentTold, SkipCommentTold, PostCommentTold,
         SubmitTold, SubmitFailsTold, PersistTold, CrashTold DEF Next
    <2>3. CASE UNCHANGED vars
      <3>1. TypeOK'
        BY <2>3 DEF ToldInv, TypeOK, vars, modeVars, inputVars, workVars,
           outVars, countVars
      <3>2. EveryFindingTold' /\ CommentsInPlace' /\ NoneLost'
        BY <2>3 DEF ToldInv, EveryFindingTold, CommentsInPlace, NoneLost,
           Covered, Reached, Carries, vars, modeVars, inputVars, workVars,
           outVars, countVars
      <3> QED
        BY <3>1, <3>2 DEF ToldInv
    <2> QED
      BY <2>2, <2>3
  <1>2. ToldInv => ReviewInv
    BY DEF ToldInv, ReviewInv
  <1> QED
    BY <1>1, <1>2, ToldInvInit, PostingInvariant, PTL DEF Spec

-----------------------------------------------------------------------------
(* ToolLoop: what a conversation is of.                                    *)

\* What a message is to the loop.
Message == [kind: {"human", "ai", "tool"}, turn: Nat, nr: Nat, size: Nat \ {0}]

\* The size of a conversation is the sum of its messages', one by one.
LEMMA SizeSteps ==
  ASSUME NEW s \in Seq(Message)
  PROVE  \E g \in [0..Len(s) -> Nat] :
            /\ g[0] = 0 /\ g[Len(s)] = Size(s)
            /\ \A i \in 1..Len(s) : g[i] = g[i - 1] + s[i].size
  <1> DEFINE n == Len(s)
             h == [i \in 1..n |-> [a \in Nat |-> a + s[i].size]]
             F(it) == [t \in SUBSET (DOMAIN s) |->
                         IF t = {} THEN 0
                         ELSE it[t \ {Max(t)}] + s[Max(t)].size]
             c == CHOOSE it : it = F(it)
             g == [i \in 0..n |-> c[1..i]]
  <1>1. /\ n \in Nat /\ DOMAIN s = 1..n
        /\ \A i \in 1..n : s[i].size \in Nat
    <2>1. \A i \in 1..n : s[i] \in Message
      OBVIOUS
    <2> QED
      BY <2>1 DEF Message
  <1>2. h \in [1..n -> [Nat -> Nat]]
    BY <1>1
  <1>3. PICK it \in [SUBSET (1..n) -> Nat] : Folds(it, n, 0, h)
    <2> HIDE DEF h, n
    <2> QED
      BY <1>1, <1>2, FoldExists
  <1>4. it = F(it)
    <2>1. ASSUME NEW t \in SUBSET (1..n), t # {}
          PROVE  it[t] = F(it)[t]
      <3>1. Max(t) \in 1..n /\ it[t \ {Max(t)}] \in Nat
        BY <1>1, <2>1, MaxIn
      <3> QED
        BY <1>1, <1>3, <2>1, <3>1 DEF Folds
    <2>2. it[{}] = F(it)[{}]
      BY <1>1, <1>3 DEF Folds
    <2> QED
      BY <1>1, <2>1, <2>2
  <1>5. c = F(c)
    BY <1>4, Zenon
  <1>6. Size(s) = c[DOMAIN s]
    BY DEF Size, FoldLeft, MapThenFoldSet, Max
  <1> HIDE DEF c
  <1>7. ASSUME NEW i \in 1..n
        PROVE  c[1..i] = c[1..(i - 1)] + s[i].size
    <2>1. 1..i \in SUBSET (DOMAIN s) /\ 1..i # {}
      BY <1>1
    <2>2. Max(1..i) = i /\ (1..i) \ {i} = 1..(i - 1)
      BY MaxUpTo
    <2>3. c[1..i] = F(c)[1..i]
      BY <1>5
    <2> QED
      BY <2>1, <2>2, <2>3
  <1>8. c[1..0] = 0
    <2>1. 1..0 = {} /\ c[{}] = F(c)[{}]
      BY <1>5
    <2> QED
      BY <2>1
  <1>9. g[0] = 0 /\ g[n] = Size(s)
    BY <1>1, <1>6, <1>8
  <1>10. \A i \in 1..n : g[i] = c[1..i] /\ g[i - 1] = c[1..(i - 1)]
    BY <1>1
  <1>11. \A i \in 1..n : g[i] = g[i - 1] + s[i].size
    BY <1>7, <1>10
  <1> DEFINE P == {i \in Nat : i <= n => g[i] \in Nat}
  <1> HIDE DEF g
  <1>12. 0..n \subseteq P
    <2>1. 0 \in P
      BY <1>9
    <2>2. \A i \in 1..n : i - 1 \in P => i \in P
      BY <1>1, <1>11
    <2> HIDE DEF P, n
    <2> QED
      BY <1>1, <2>1, <2>2, UpTo
  <1>13. g \in [0..n -> Nat]
    BY <1>1, <1>12 DEF g
  <1> HIDE DEF P, n
  <1> QED
    BY <1>9, <1>11, <1>13 DEF n

\* A message in front adds its size.
LEMMA SizeOfCons ==
  ASSUME NEW a \in Message, NEW k \in Seq(Message)
  PROVE  Size(<<a>> \o k) = a.size + Size(k) /\ Size(k) \in Nat
  <1> DEFINE s == <<a>> \o k
             n == Len(k)
  <1>1. /\ s \in Seq(Message) /\ n \in Nat /\ Len(s) = n + 1
        /\ s[1] = a /\ \A i \in 1..n : s[i + 1] = k[i]
        /\ a.size \in Nat
    BY DEF Message
  <1>2. PICK f \in [0..n -> Nat] :
           /\ f[0] = 0 /\ f[n] = Size(k)
           /\ \A i \in 1..n : f[i] = f[i - 1] + k[i].size
    BY SizeSteps
  <1> HIDE DEF s, n
  <1>3. PICK g \in [0..(n + 1) -> Nat] :
           /\ g[0] = 0 /\ g[n + 1] = Size(s)
           /\ \A i \in 1..(n + 1) : g[i] = g[i - 1] + s[i].size
    <2>1. PICK g \in [0..Len(s) -> Nat] :
             /\ g[0] = 0 /\ g[Len(s)] = Size(s)
             /\ \A i \in 1..Len(s) : g[i] = g[i - 1] + s[i].size
      BY <1>1, SizeSteps
    <2> QED
      BY <1>1, <2>1
  <1> DEFINE P == {i \in Nat : i <= n => g[i + 1] = a.size + f[i]}
  <1>4. 0 \in P
    BY <1>1, <1>2, <1>3
  <1>5. ASSUME NEW i \in 1..n, i - 1 \in P
        PROVE  i \in P
    <2>1. i + 1 \in 1..(n + 1) /\ i \in Nat /\ (i + 1) - 1 = i /\ (i - 1) + 1 = i
      BY <1>1
    <2>2. g[i + 1] = g[i] + k[i].size
      BY <1>1, <1>3, <2>1
    <2>3. g[i] = a.size + f[i - 1]
      BY <1>1, <1>5, <2>1
    <2>4. f[i] = f[i - 1] + k[i].size /\ f[i - 1] \in Nat /\ k[i].size \in Nat
      <3>1. k[i] \in Message
        BY DEF n
      <3>2. i - 1 \in 0..n
        BY <1>1
      <3> QED
        BY <1>2, <3>1, <3>2 DEF Message
    <2> HIDE DEF P
    <2>5. g[i + 1] = a.size + f[i]
      <3>1. \A x, y, z \in Nat : (x + y) + z = x + (y + z)
        OBVIOUS
      <3>2. a.size \in Nat
        BY <1>1
      <3>3. (a.size + f[i - 1]) + k[i].size = a.size + (f[i - 1] + k[i].size)
        BY <2>4, <3>1, <3>2
      <3> QED
        BY <2>2, <2>3, <2>4, <3>3, Zenon
    <2> QED
      BY <2>1, <2>5 DEF P
  <1>6. n \in 0..n
    BY <1>1
  <1> HIDE DEF P
  <1>7. n \in P
    BY <1>1, <1>4, <1>5, <1>6, UpTo
  <1>8. g[n + 1] = a.size + f[n]
    BY <1>1, <1>7 DEF P
  <1>9. f[n] \in Nat
    BY <1>1, <1>2, <1>6
  <1> QED
    BY <1>2, <1>3, <1>8, <1>9 DEF s

\* Nothing has no size.
LEMMA SizeOfNone == Size(<<>>) = 0
  <1>1. <<>> \in Seq(Message) /\ Len(<<>>) = 0
    OBVIOUS
  <1> QED
    BY <1>1, SizeSteps

\* What is kept is nothing, or an end that fits and begins with the model.
LEMMA KeptIs ==
  ASSUME NEW s \in Seq(Message), NEW room
  PROVE  \/ Kept(s, room) = <<>>
         \/ \E i \in 1..Len(s) : /\ Kept(s, room) = SubSeq(s, i, Len(s))
                                 /\ s[i].kind = "ai"
                                 /\ Size(Kept(s, room)) <= room
  <1> DEFINE fits == {i \in 1..Len(s) :
                        /\ Size(SubSeq(s, i, Len(s))) <= room
                        /\ s[i].kind = "ai"}
             first == CHOOSE i \in fits : \A j \in fits : i <= j
  <1>1. CASE fits = {}
    BY <1>1 DEF Kept
  <1>2. CASE fits # {}
    <2>1. Kept(s, room) = SubSeq(s, first, Len(s))
      BY <1>2 DEF Kept
    <2>2. fits \subseteq Nat
      OBVIOUS
    <2>3. first \in fits
      <3> HIDE DEF fits
      <3>1. PICK m \in fits : \A j \in fits : m <= j
        BY <1>2, <2>2, NatMin
      <3> QED
        BY <3>1
    <2> HIDE DEF first
    <2> QED
      BY <2>1, <2>3
  <1> QED
    BY <1>1, <1>2

-----------------------------------------------------------------------------
(* Whole turns.                                                            *)

\* A turn of the model at k with the answers to all its calls, up to e.
TurnAt(s, k, e) ==
    /\ k \in 2..e /\ s[k].kind = "ai" /\ k + s[k].nr <= e
    /\ \A c \in 1..s[k].nr : /\ s[k + c].kind = "tool"
                             /\ s[k + c].turn = s[k].turn

\* Up to e, every message but the first is of a whole turn.
Whole(s, e) ==
    \A i \in 2..e :
        \E k \in 2..i : /\ TurnAt(s, k, e)
                        /\ s[i].turn = s[k].turn
                        /\ k = IF s[i].kind = "ai" THEN i ELSE i - s[i].nr
                        /\ i <= k + s[k].nr

\* The last turn, of which the first answers are there.
OpenTurn(s, t, cs, done) ==
    LET b == Len(s) - done
    IN  /\ b \in 2..Len(s)
        /\ s[b].kind = "ai" /\ s[b].turn = t /\ s[b].nr = Len(cs)
        /\ \A c \in 1..done :
              s[b + c].kind = "tool" /\ s[b + c].turn = t /\ s[b + c].nr = c
        /\ Whole(s, b - 1)

\* A history that begins like a whole one is whole as far as that.
LEMMA WholeKept ==
  ASSUME NEW s \in Seq(Message), NEW t \in Seq(Message), NEW e \in Nat,
         e <= Len(s), e <= Len(t), \A i \in 1..e : t[i] = s[i], Whole(s, e)
  PROVE  Whole(t, e)
  <1>1. \A i \in 1..e : t[i] = s[i] /\ s[i] \in Message
    OBVIOUS
  <1>2. ASSUME NEW k \in 2..e, TurnAt(s, k, e)
        PROVE  TurnAt(t, k, e)
    <2>1. k \in 1..e /\ s[k].nr \in Nat /\ t[k] = s[k]
      <3>1. k \in 1..e
        OBVIOUS
      <3>2. s[k] \in Message /\ t[k] = s[k]
        BY <1>1, <3>1
      <3> QED
        BY <3>1, <3>2 DEF Message
    <2>2. \A c \in 1..s[k].nr : k + c \in 1..e
      BY <1>2, <2>1 DEF TurnAt
    <2> QED
      BY <1>1, <1>2, <2>1, <2>2 DEF TurnAt
  <1>3. ASSUME NEW i \in 2..e
        PROVE  \E k \in 2..i : /\ TurnAt(t, k, e)
                               /\ t[i].turn = t[k].turn
                               /\ k = IF t[i].kind = "ai" THEN i ELSE i - t[i].nr
                               /\ i <= k + t[k].nr
    <2>1. PICK k \in 2..i : /\ TurnAt(s, k, e)
                            /\ s[i].turn = s[k].turn
                            /\ k = IF s[i].kind = "ai" THEN i ELSE i - s[i].nr
                            /\ i <= k + s[k].nr
      BY DEF Whole
    <2>2. k \in 2..e /\ k \in 1..e /\ i \in 1..e
      OBVIOUS
    <2> QED
      BY <1>1, <1>2, <2>1, <2>2
  <1> QED
    BY <1>3 DEF Whole

\* What Append does, for the leaves that need nothing else of it.
LEMMA AppendIs ==
  ASSUME NEW S, NEW s \in Seq(S), NEW m \in S
  PROVE  LET t == Append(s, m)
         IN  /\ t \in Seq(S) /\ Len(t) = Len(s) + 1 /\ Len(s) \in Nat
             /\ \A i \in 1..Len(s) : t[i] = s[i]
             /\ t[Len(s) + 1] = m
  OBVIOUS

\* What a message in front does to the others.
LEMMA ConsIs ==
  ASSUME NEW S, NEW a \in S, NEW k \in Seq(S)
  PROVE  LET t == <<a>> \o k
         IN  /\ t \in Seq(S) /\ t # <<>> /\ t[1] = a
             /\ Len(t) = Len(k) + 1 /\ Len(k) \in Nat
             /\ \A j \in 2..(Len(k) + 1) : t[j] = k[j - 1]
  OBVIOUS

\* What the end of a sequence from i on is.
LEMMA RestIs ==
  ASSUME NEW S, NEW s \in Seq(S), NEW i \in 1..(Len(s) + 1)
  PROVE  LET r == SubSeq(s, i, Len(s))
         IN  /\ r \in Seq(S) /\ Len(r) = (Len(s) - i) + 1
             /\ \A j \in 1..Len(r) : r[j] = s[(i + j) - 1]
  OBVIOUS

\* A turn of the model begins.
LEMMA TurnBegins ==
  ASSUME NEW s \in Seq(Message), s # <<>>, Whole(s, Len(s)),
         NEW m \in Message, m.kind = "ai", NEW cs, m.nr = Len(cs)
  PROVE  OpenTurn(Append(s, m), m.turn, cs, 0)
  <1> DEFINE t == Append(s, m)
             n == Len(s)
  <1>1. /\ t \in Seq(Message) /\ Len(t) = n + 1 /\ n \in Nat /\ n > 0
        /\ \A i \in 1..n : t[i] = s[i]
        /\ t[n + 1] = m
    BY AppendIs
  <1> HIDE DEF t
  <1>2. Whole(t, n)
    BY <1>1, WholeKept
  <1>3. Len(t) - 0 = n + 1 /\ (n + 1) - 1 = n /\ n + 1 \in 2..Len(t)
    BY <1>1
  <1> HIDE DEF n
  <1> QED
    BY <1>1, <1>2, <1>3 DEF OpenTurn, t

\* The next call of the turn is answered.
LEMMA TurnGoesOn ==
  ASSUME NEW s \in Seq(Message), NEW t, NEW cs, NEW done \in Nat,
         OpenTurn(s, t, cs, done),
         NEW m \in Message, m.kind = "tool", m.turn = t, m.nr = done + 1
  PROVE  OpenTurn(Append(s, m), t, cs, done + 1)
  <1> DEFINE u == Append(s, m)
             n == Len(s)
             b == n - done
  <1>1. /\ u \in Seq(Message) /\ Len(u) = n + 1 /\ n \in Nat
        /\ \A i \in 1..n : u[i] = s[i]
        /\ u[n + 1] = m
    BY AppendIs
  <1>2. /\ b \in 2..n /\ s[b].kind = "ai" /\ s[b].turn = t /\ s[b].nr = Len(cs)
        /\ \A c \in 1..done :
              s[b + c].kind = "tool" /\ s[b + c].turn = t /\ s[b + c].nr = c
        /\ Whole(s, b - 1)
    BY DEF OpenTurn
  <1> HIDE DEF u
  <1>3. /\ Len(u) - (done + 1) = b /\ b \in 2..Len(u) /\ b - 1 \in Nat
        /\ b \in 1..n /\ b - 1 <= n /\ b + done = n
    BY <1>1, <1>2
  <1>4. Whole(u, b - 1)
    <2>1. \A i \in 1..(b - 1) : u[i] = s[i]
      BY <1>1, <1>3
    <2> HIDE DEF b
    <2> QED
      BY <1>1, <1>2, <1>3, <2>1, WholeKept
  <1>5. ASSUME NEW c \in 1..(done + 1)
        PROVE  u[b + c].kind = "tool" /\ u[b + c].turn = t /\ u[b + c].nr = c
    <2>1. CASE c = done + 1
      <3>1. b + c = n + 1
        BY <1>3, <2>1
      <3> QED
        BY <1>1, <2>1, <3>1
    <2>2. CASE c # done + 1
      <3>1. c \in 1..done /\ b + c \in 1..n
        BY <1>1, <1>2, <2>2
      <3> QED
        BY <1>1, <1>2, <3>1
    <2> QED
      BY <2>1, <2>2
  <1>6. u[b] = s[b]
    BY <1>1, <1>3
  <1> HIDE DEF b, n
  <1> QED
    BY <1>1, <1>2, <1>3, <1>4, <1>5, <1>6 DEF OpenTurn, u

\* With its last answer the turn is whole.
LEMMA TurnEnds ==
  ASSUME NEW s \in Seq(Message), NEW t, NEW cs, Len(cs) \in Nat,
         OpenTurn(s, t, cs, Len(cs))
  PROVE  Whole(s, Len(s))
  <1> DEFINE n == Len(s)
             d == Len(cs)
             b == n - d
  <1>1. /\ b \in 2..n /\ s[b].kind = "ai" /\ s[b].turn = t /\ s[b].nr = d
        /\ \A c \in 1..d :
              s[b + c].kind = "tool" /\ s[b + c].turn = t /\ s[b + c].nr = c
        /\ Whole(s, b - 1)
    BY DEF OpenTurn
  <1>2. n \in Nat /\ b \in Nat /\ b + d = n /\ d \in Nat
    BY <1>1
  <1>3. TurnAt(s, b, n)
    BY <1>1, <1>2 DEF TurnAt
  <1>4. ASSUME NEW i \in 2..n
        PROVE  \E k \in 2..i : /\ TurnAt(s, k, n)
                               /\ s[i].turn = s[k].turn
                               /\ k = IF s[i].kind = "ai" THEN i ELSE i - s[i].nr
                               /\ i <= k + s[k].nr
    <2>1. CASE i \in 2..(b - 1)
      <3>1. PICK k \in 2..i : /\ TurnAt(s, k, b - 1)
                              /\ s[i].turn = s[k].turn
                              /\ k = IF s[i].kind = "ai" THEN i ELSE i - s[i].nr
                              /\ i <= k + s[k].nr
        BY <1>1, <2>1 DEF Whole
      <3>2. s[k].nr \in Nat /\ k \in Nat /\ b - 1 <= n /\ b - 1 \in Nat
        <4>1. k \in 1..n
          BY <1>1, <1>2, <2>1
        <4>2. s[k] \in Message
          BY <4>1
        <4>3. s[k].nr \in Nat
          BY <4>2 DEF Message
        <4>4. b - 1 <= n /\ b - 1 \in Nat
          BY <1>1, <1>2
        <4> QED
          BY <4>1, <4>3, <4>4
      <3> HIDE DEF b, n
      <3>3. TurnAt(s, k, n)
        BY <1>2, <3>1, <3>2 DEF TurnAt
      <3> QED
        BY <3>1, <3>3
    <2>2. CASE i = b
      BY <1>1, <1>2, <1>3, <2>2
    <2>3. CASE i > b
      <3>1. i - b \in 1..d /\ b + (i - b) = i /\ b \in 2..i
        BY <1>1, <1>2, <2>3
      <3>2. s[i].kind = "tool" /\ s[i].turn = t /\ s[i].nr = i - b
        BY <1>1, <3>1
      <3>3. i - s[i].nr = b /\ i <= b + s[b].nr
        BY <1>1, <1>2, <3>1, <3>2
      <3> QED
        BY <1>1, <1>3, <3>1, <3>2, <3>3
    <2>4. i \in 2..(b - 1) \/ i = b \/ i > b
      <3>1. i \in Nat /\ i >= 2 /\ b \in Nat
        BY <1>2
      <3> HIDE DEF b, n
      <3> QED
        BY <3>1
    <2> QED
      BY <2>1, <2>2, <2>3, <2>4
  <1> QED
    BY <1>4 DEF Whole

\* A message of a whole history belongs to a turn of it.
LEMMA WholeAt ==
  ASSUME NEW s \in Seq(Message), Whole(s, Len(s)), NEW x \in 2..Len(s)
  PROVE  \E k \in 2..x, q \in Nat :
            /\ q = s[k].nr /\ s[k].kind = "ai" /\ k + q <= Len(s) /\ x <= k + q
            /\ \A c \in 1..q : /\ s[k + c].kind = "tool"
                               /\ s[k + c].turn = s[k].turn
            /\ s[x].turn = s[k].turn
            /\ s[x].kind = "ai" => k = x
            /\ s[x].kind # "ai" => k = x - s[x].nr /\ s[x].nr \in Nat
  <1>1. PICK k \in 2..x : /\ TurnAt(s, k, Len(s))
                          /\ s[x].turn = s[k].turn
                          /\ k = IF s[x].kind = "ai" THEN x ELSE x - s[x].nr
                          /\ x <= k + s[k].nr
    BY DEF Whole
  <1>2. s[k].nr \in Nat /\ s[x].nr \in Nat
    <2>1. k \in 1..Len(s) /\ x \in 1..Len(s)
      OBVIOUS
    <2>2. s[k] \in Message /\ s[x] \in Message
      BY <2>1
    <2> QED
      BY <2>2 DEF Message
  <1> QED
    BY <1>1, <1>2 DEF TurnAt

\* An end of whole turns that begins with the model is of whole turns.
LEMMA EndIsWhole ==
  ASSUME NEW s \in Seq(Message), NEW t \in Seq(Message), NEW d \in Nat,
         Whole(s, Len(s)), NEW e \in Nat, Len(t) = e, Len(s) = e + d,
         \A j \in 2..e : t[j] = s[j + d],
         e > 1, s[2 + d].kind = "ai"
  PROVE  Whole(t, e)
  <1> DEFINE n == Len(s)
  <1>1. n \in Nat /\ n = e + d
    OBVIOUS
  <1>2. ASSUME NEW j \in 2..e
        PROVE  \E k \in 2..j : /\ TurnAt(t, k, e)
                               /\ t[j].turn = t[k].turn
                               /\ k = IF t[j].kind = "ai" THEN j ELSE j - t[j].nr
                               /\ j <= k + t[k].nr
    <2> DEFINE x == j + d
    <2>1. x \in 2..n /\ x \in Nat /\ j \in Nat /\ j >= 2 /\ t[j] = s[x] /\ x - d = j
      BY <1>1
    <2>a. x = j + d
      OBVIOUS
    <2> HIDE DEF x
    <2>2. PICK k \in 2..x, q \in Nat :
            /\ q = s[k].nr /\ s[k].kind = "ai" /\ k + q <= Len(s) /\ x <= k + q
            /\ \A c \in 1..q : /\ s[k + c].kind = "tool"
                               /\ s[k + c].turn = s[k].turn
            /\ s[x].turn = s[k].turn
            /\ s[x].kind = "ai" => k = x
            /\ s[x].kind # "ai" => k = x - s[x].nr /\ s[x].nr \in Nat
      BY <2>1, WholeAt
    <2>3. k \in Nat /\ k + q <= n
      BY <2>1, <2>2
    <2> HIDE DEF n
    <2>4. k >= d + 2
      <3> SUFFICES ASSUME k < d + 2 PROVE FALSE
        BY <2>3
      <3> DEFINE c == (d + 2) - k
      <3>1. c \in 1..q /\ k + c = 2 + d
        <4>1. k < d + 2 /\ d + 2 <= k + q
          BY <2>a, <2>1, <2>2, <2>3
        <4> QED
          BY <2>3, <4>1
      <3> HIDE DEF c
      <3>2. s[2 + d].kind = "tool"
        BY <2>2, <3>1, Zenon
      <3> QED
        BY <3>2
    <2> DEFINE i == k - d
    <2>5. i \in Nat /\ i >= 2 /\ i <= j /\ i <= e /\ i + d = k /\ i + q <= e /\ j <= i + q
      <3>1. k <= x /\ x <= k + q
        BY <2>1, <2>2, <2>3
      <3> QED
        BY <1>1, <2>a, <2>1, <2>3, <2>4, <3>1
    <2>b. i \in 2..j /\ i \in 2..e
      BY <2>1, <2>5
    <2>6. t[i] = s[k]
      BY <2>5, <2>b
    <2>7. TurnAt(t, i, e)
      <3>1. ASSUME NEW c \in 1..q
            PROVE  t[i + c] = s[k + c]
        <4> HIDE DEF i
        <4>1. c \in Nat /\ c >= 1 /\ c <= q
          OBVIOUS
        <4>2. i + c >= 2 /\ i + c <= e /\ (i + c) + d = k + c
          BY <2>3, <2>5, <4>1
        <4>3. i + c \in 2..e
          BY <2>5, <4>1, <4>2
        <4> QED
          BY <4>2, <4>3, Zenon
      <3> QED
        BY <2>2, <2>5, <2>b, <2>6, <3>1 DEF TurnAt
    <2>8. /\ t[j].turn = t[i].turn /\ j <= i + t[i].nr
          /\ t[j].kind = "ai" => i = j
          /\ t[j].kind # "ai" => i = j - t[j].nr
      <3>1. t[j].turn = t[i].turn /\ j <= i + t[i].nr
        BY <2>1, <2>2, <2>5, <2>6
      <3>2. t[j].kind = "ai" => i = j
        BY <2>1, <2>2, <2>5
      <3>3. t[j].kind # "ai" => i = j - t[j].nr
        <4> SUFFICES ASSUME t[j].kind # "ai" PROVE i = j - t[j].nr
          OBVIOUS
        <4>1. k = x - s[x].nr /\ s[x].nr \in Nat /\ s[x].nr = t[j].nr
          BY <2>1, <2>2
        <4> DEFINE r == s[x].nr
        <4>2. k = x - r /\ r \in Nat /\ r = t[j].nr
          BY <4>1
        <4> HIDE DEF r
        <4>3. k - d = j - r
          BY <2>a, <2>1, <2>3, <4>2
        <4> QED
          BY <4>2, <4>3
      <3> QED
        BY <3>1, <3>2, <3>3
    <2> HIDE DEF i
    <2> QED
      BY <2>b, <2>7, <2>8
  <1> QED
    BY <1>2 DEF Whole

\* What a history may be when it is trimmed.
Trimmable(s) ==
    \/ Whole(s, Len(s))
    \/ Len(s) = 2 /\ s[2].kind = "human"

\* What trimming leaves begins with the anchor, is of whole turns and fits: the
\* anchor and the tail share the budget.
LEMMA TrimmedIsFit ==
  ASSUME NEW s \in Seq(Message), s # <<>>, Trimmable(s), NEW a \in Message,
         a.size <= Budget, Budget \in Nat
  PROVE  LET t == <<a>> \o Kept(SubSeq(s, 2, Len(s)), Budget - a.size)
         IN  /\ t \in Seq(Message) /\ t # <<>> /\ t[1] = a
             /\ Whole(t, Len(t)) /\ Size(t) <= Budget
  <1> DEFINE n == Len(s)
             r == SubSeq(s, 2, n)
             room == Budget - a.size
             k == Kept(r, room)
             t == <<a>> \o k
  <1>1. n \in Nat /\ n > 0 /\ a.size \in Nat /\ room \in Nat
    BY DEF Message
  <1>2. /\ r \in Seq(Message) /\ Len(r) = n - 1
        /\ \A i \in 1..(n - 1) : r[i] = s[i + 1]
    <2>1. 2 \in 1..(n + 1) /\ (n - 2) + 1 = n - 1
      BY <1>1
    <2>2. /\ r \in Seq(Message) /\ Len(r) = (n - 2) + 1
          /\ \A i \in 1..Len(r) : r[i] = s[(2 + i) - 1]
      BY <2>1, RestIs
    <2>3. \A i \in 1..(n - 1) : (2 + i) - 1 = i + 1
      BY <1>1
    <2> HIDE DEF r, n
    <2> QED
      BY <2>1, <2>2, <2>3
  <1> HIDE DEF r, room
  <1>3. CASE k = <<>>
    <2>1. t = <<a>> \o k /\ <<>> \in Seq(Message) /\ Len(<<>>) = 0
      OBVIOUS
    <2> HIDE DEF k
    <2>2. Size(t) = a.size
      <3>1. Size(<<a>> \o <<>>) = a.size + Size(<<>>)
        BY <2>1, SizeOfCons
      <3> QED
        BY <1>1, <1>3, <3>1, SizeOfNone
    <2>3. t \in Seq(Message) /\ t # <<>> /\ t[1] = a /\ Len(t) = 1
      <3>1. t \in Seq(Message) /\ t # <<>> /\ t[1] = a /\ Len(t) = Len(<<>>) + 1
        BY <1>3, <2>1, ConsIs
      <3> QED
        BY <2>1, <3>1
    <2>4. Whole(t, Len(t))
      <3>1. 2..1 = {}
        OBVIOUS
      <3> QED
        BY <2>3, <3>1 DEF Whole
    <2> HIDE DEF t, k
    <2> QED
      BY <2>2, <2>3, <2>4 DEF t, k, r, room
  <1>4. CASE k # <<>>
    <2>1. PICK i \in 1..(n - 1) : /\ k = SubSeq(r, i, n - 1)
                                  /\ r[i].kind = "ai" /\ Size(k) <= room
      BY <1>2, <1>4, KeptIs
    <2> HIDE DEF k
    <2>2. /\ k \in Seq(Message) /\ Len(k) = n - i
          /\ \A j \in 1..(n - i) : k[j] = s[i + j]
      <3>1. /\ k \in Seq(Message) /\ Len(k) = n - i
            /\ \A j \in 1..(n - i) : k[j] = r[(i + j) - 1]
        BY <1>1, <1>2, <2>1
      <3>2. \A j \in 1..(n - i) :
               (i + j) - 1 \in 1..(n - 1) /\ ((i + j) - 1) + 1 = i + j
        BY <1>1, <2>1
      <3> HIDE DEF n
      <3> QED
        BY <1>2, <3>1, <3>2
    <2>3. s[i + 1].kind = "ai" /\ i \in Nat /\ i <= n - 1
      BY <1>1, <1>2, <2>1
    <2>4. /\ t \in Seq(Message) /\ t # <<>> /\ t[1] = a
          /\ Len(t) = (n - i) + 1
          /\ \A j \in 2..((n - i) + 1) : t[j] = k[j - 1]
      <3>1. k \in Seq(Message)
        BY <2>2
      <3>2. /\ t \in Seq(Message) /\ t # <<>> /\ t[1] = a
            /\ Len(t) = Len(k) + 1
            /\ \A j \in 2..(Len(k) + 1) : t[j] = k[j - 1]
        BY <3>1, ConsIs
      <3> HIDE DEF t
      <3> QED
        BY <2>2, <3>2
    <2> HIDE DEF t
    <2>5. Whole(s, n)
      <3> SUFFICES ASSUME n = 2, s[2].kind = "human" PROVE FALSE
        BY DEF Trimmable
      <3>1. i + 1 = 2
        BY <2>1
      <3> QED
        BY <2>3, <3>1
    <2> DEFINE d == i - 1
    <2>6. /\ d \in Nat /\ Len(t) = n - d /\ Len(t) > 1 /\ 2 + d = i + 1
      BY <1>1, <2>3, <2>4
    <2>7. ASSUME NEW j \in 2..Len(t)
          PROVE  t[j] = s[j + d]
      <3>1. j - 1 \in 1..(n - i) /\ i + (j - 1) = j + d /\ j \in 2..((n - i) + 1)
        BY <1>1, <2>3, <2>4
      <3> HIDE DEF n
      <3> QED
        BY <2>2, <2>4, <3>1
    <2>8. Whole(t, Len(t))
      <3> DEFINE e == Len(t)
      <3>1. e \in Nat /\ e > 1 /\ n = e + d
        BY <1>1, <2>3, <2>4, <2>6
      <3>2. s[2 + d].kind = "ai"
        BY <2>3, <2>6
      <3>3. \A j \in 2..e : t[j] = s[j + d]
        BY <2>7
      <3> HIDE DEF d, e
      <3>4. Len(t) = e
        BY DEF e
      <3>5. Whole(t, e)
        BY <2>4, <2>5, <2>6, <3>1, <3>2, <3>3, <3>4, EndIsWhole
      <3> QED
        BY <3>4, <3>5
    <2>9. Size(t) <= Budget
      <3>1. Size(t) = a.size + Size(k) /\ Size(k) \in Nat
        BY <2>2, SizeOfCons DEF t
      <3> QED
        BY <1>1, <2>1, <3>1 DEF room
    <2> QED
      BY <2>4, <2>8, <2>9 DEF t, k, r, room
  <1> QED
    BY <1>3, <1>4

-----------------------------------------------------------------------------
(* The bounds and the invariant of the loop.                               *)

\* The bounds, as the arithmetic needs them.
LEMMA LoopBoundsAre ==
         /\ Budget \in Nat /\ MaxTurns \in Nat /\ MaxTurns > 0
         /\ MaxRetries \in Nat /\ MaxRetries > 0
         /\ MaxAttempts \in Nat /\ MaxAttempts > 0
         /\ MaxRepeats \in Nat /\ MaxRepeats > 1
         /\ \A n \in Prompts \cup ResultSizes : n \in Nat /\ n > 0
  BY LoopAssumption

\* The calls of a turn are a sequence of names.
LEMMA CallsAre ==
  ASSUME NEW cs \in Calls, MaxCalls \in Nat
  PROVE  /\ cs \in Seq(Names) /\ Len(cs) \in Nat
         /\ \A i \in 1..Len(cs) : cs[i] \in Names
  <1>1. PICK m \in 0..MaxCalls : cs \in [1..m -> Names]
    BY DEF Calls, SeqOf
  <1>2. m \in Nat
    OBVIOUS
  <1> QED
    BY <1>1, <1>2

\* A turn may be without calls.
LEMMA NoCalls ==
  ASSUME MaxCalls \in Nat
  PROVE  <<>> \in Calls
  <1>1. <<>> \in [1..0 -> Names] /\ 0 \in 0..MaxCalls
    OBVIOUS
  <1> QED
    BY <1>1 DEF Calls, SeqOf

-----------------------------------------------------------------------------

\* The ranges of the loop's variables.
LoopTypes ==
    /\ pc \in {"trim", "ask", "check", "call", "run"} \cup Ends
    /\ messages \in Seq(Message) /\ messages # <<>>
    /\ turn \in 0..MaxTurns /\ repeats \in 0..MaxRepeats
    /\ last \in Calls /\ calls \in Calls
    /\ tries \in Nat /\ (pc = "ask" => tries < MaxAttempts)
    /\ ran \in Seq(Nat) /\ slow \in Seq(Nat) /\ Len(slow) = Len(ran)
    /\ Len(ran) <= Len(calls)
    /\ executed \in Seq(Calls)

\* How often the calls of this turn ran; the one that runs is the last.
RunsCounted ==
    /\ pc \in {"trim", "ask", "check"} => ran = <<>>
    /\ pc = "run" =>
          /\ ran # <<>> /\ ran[Len(ran)] = tries /\ slow[Len(ran)] + 1 = tries
          /\ tries <= MaxRetries
          /\ Reports(calls[Len(ran)]) => tries = 1
    /\ CalledAgainOnlyWhenSlow

\* Every executed turn was counted, and the loop goes on below the cap only.
TurnsCounted ==
    /\ pc \in {"trim", "ask", "call", "run"} => turn < MaxTurns
    /\ Len(executed) <= turn /\ Len(executed) < MaxTurns
    /\ pc = "check" => Len(executed) < turn

\* repeats counts the executed turns at the end that are the same.
RepeatsCounted ==
    /\ NoTreadmill
    /\ executed # <<>> => last = executed[Len(executed)]
    /\ pc # "repeating" =>
          /\ repeats < MaxRepeats /\ repeats <= Len(executed)
          /\ executed # <<>> => repeats > 0
          /\ repeats < Len(executed) =>
                executed[Len(executed) - repeats] # last

\* The conversation is of whole turns, but for the one that is in work.
TurnsAnswered ==
    /\ messages[1].kind = "human"
    /\ pc = "trim" => Trimmable(messages)
    /\ pc = "ask" => /\ Whole(messages, Len(messages))
                     /\ Size(messages) <= Budget
    /\ pc = "check" => OpenTurn(messages, turn, calls, 0)
    /\ pc = "call" => OpenTurn(messages, turn, calls, Len(ran))
    /\ pc = "run" => OpenTurn(messages, turn, calls, Len(ran) - 1)

\* The inductive invariant.
LoopInv ==
    /\ LoopTypes /\ RunsCounted /\ TurnsCounted /\ RepeatsCounted
    /\ TurnsAnswered

-----------------------------------------------------------------------------

\* The invariant holds at the start.
LEMMA LoopBegins ==
  ASSUME LoopInit
  PROVE  LoopInv
  <1>1. PICK a \in Prompts :
           messages \in {<<Human(a)>>, <<Human(a), Human(1)>>}
    BY DEF LoopInit
  <1>2. Human(a) \in Message /\ Human(1) \in Message
    BY LoopBoundsAre DEF Human, Message
  <1> DEFINE p == Human(a)
             q == Human(1)
  <1>3. p.kind = "human" /\ q.kind = "human"
    BY DEF Human
  <1>a. messages = <<p>> \/ messages = <<p, q>>
    BY <1>1
  <1>b. p \in Message /\ q \in Message
    BY <1>2
  <1> HIDE DEF p, q
  <1>4. /\ messages \in Seq(Message) /\ messages # <<>> /\ messages[1] = p
        /\ Len(messages) = 1 \/ (Len(messages) = 2 /\ messages[2] = q)
    <2>1. CASE messages = <<p>>
      BY <1>b, <2>1
    <2>2. CASE messages = <<p, q>>
      BY <1>b, <2>2
    <2> QED
      BY <1>a, <2>1, <2>2
  <1>5. LoopTypes
    BY LoopAssumption, <1>4, LoopBoundsAre, NoCalls DEF LoopInit, LoopTypes
  <1>6. RunsCounted
    BY DEF LoopInit, RunsCounted, CalledAgainOnlyWhenSlow
  <1>7. TurnsCounted
    BY LoopBoundsAre DEF LoopInit, TurnsCounted
  <1>8. RepeatsCounted
    BY LoopBoundsAre DEF LoopInit, RepeatsCounted, NoTreadmill
  <1>9. Trimmable(messages)
    <2>1. 2..1 = {}
      OBVIOUS
    <2> QED
      BY <1>3, <1>4, <2>1 DEF Trimmable, Whole
  <1>10. TurnsAnswered
    BY <1>3, <1>4, <1>9 DEF LoopInit, TurnsAnswered
  <1> QED
    BY <1>5, <1>6, <1>7, <1>8, <1>10 DEF LoopInv

\* The loop ends: nothing is promised any more but the counts.
LEMMA LoopIsOver ==
  ASSUME LoopInv, pc' \in Ends, UNCHANGED <<turn, last, calls, tries>>,
         UNCHANGED <<ran, slow, executed>>,
         messages' \in Seq(Message), messages' # <<>>,
         messages'[1] = messages[1],
         repeats' \in 0..MaxRepeats,
         pc' # "repeating" => repeats' = repeats /\ pc # "repeating"
  PROVE  LoopInv'
  <1>1. /\ LoopTypes /\ RunsCounted /\ TurnsCounted /\ RepeatsCounted
        /\ TurnsAnswered
    BY DEF LoopInv
  <1>2. /\ pc' \notin {"trim", "ask", "check", "call", "run"}
        /\ Ends' = Ends
    BY DEF Ends
  <1>3. LoopTypes'
    BY <1>1, <1>2 DEF LoopTypes
  <1>4. RunsCounted'
    BY <1>1, <1>2 DEF RunsCounted, CalledAgainOnlyWhenSlow, Reports
  <1>5. TurnsCounted'
    BY <1>1, <1>2 DEF TurnsCounted
  <1>6. RepeatsCounted'
    BY <1>1, <1>2 DEF RepeatsCounted, NoTreadmill
  <1>7. TurnsAnswered'
    BY <1>1, <1>2 DEF TurnsAnswered
  <1> QED
    BY <1>3, <1>4, <1>5, <1>6, <1>7 DEF LoopInv

\* A message at the end leaves the first one where it is.
LEMMA MessageAdded ==
  ASSUME messages \in Seq(Message), messages # <<>>, NEW m \in Message,
         messages' = Append(messages, m)
  PROVE  /\ messages' \in Seq(Message) /\ messages' # <<>>
         /\ messages'[1] = messages[1]
  OBVIOUS

\* The window has no room, or the content cannot be cut.
LEMMA GiveUpStep ==
  ASSUME LoopInv, GiveUp
  PROVE  LoopInv'
  BY LoopIsOver DEF GiveUp, End, Ends, counters, history, LoopInv,
                    LoopTypes

\* The task is cancelled.
LEMMA CancelStep ==
  ASSUME LoopInv, Cancel
  PROVE  LoopInv'
  BY LoopIsOver DEF Cancel, End, Ends, counters, history, LoopInv,
                    LoopTypes

\* The model answers without calls.
LEMMA FinalStep ==
  ASSUME LoopInv, Final
  PROVE  LoopInv'
  <1>1. AI(0) \in Message
    BY DEF AI, Message, LoopInv, LoopTypes
  <1>2. /\ messages' \in Seq(Message) /\ messages' # <<>>
        /\ messages'[1] = messages[1]
    BY <1>1, MessageAdded DEF Final, LoopInv, LoopTypes
  <1> QED
    BY <1>2, LoopIsOver DEF Final, End, Ends, counters, history,
                            LoopInv, LoopTypes

\* Another attempt at the question, or the end.
LEMMA AskFailsStep ==
  ASSUME LoopInv, AskFails
  PROVE  LoopInv'
  <1>1. /\ pc = "ask" /\ UNCHANGED <<messages, turn, last, repeats, calls>>
        /\ UNCHANGED <<ran, slow, executed>>
    BY DEF AskFails, counters, history
  <1>2. CASE End("error") /\ UNCHANGED tries
    BY <1>1, <1>2, LoopIsOver DEF End, Ends, LoopInv, LoopTypes
  <1>3. CASE tries + 1 < MaxAttempts /\ tries' = tries + 1 /\ UNCHANGED pc
    <2>1. LoopTypes'
      BY <1>1, <1>3 DEF LoopInv, LoopTypes
    <2>2. RunsCounted'
      BY <1>1, <1>3 DEF LoopInv, RunsCounted, CalledAgainOnlyWhenSlow,
                        Reports
    <2>3. TurnsCounted'
      BY <1>1, <1>3 DEF LoopInv, TurnsCounted
    <2>4. RepeatsCounted'
      BY <1>1, <1>3 DEF LoopInv, RepeatsCounted, NoTreadmill
    <2>5. TurnsAnswered'
      BY <1>1, <1>3 DEF LoopInv, TurnsAnswered
    <2> QED
      BY <2>1, <2>2, <2>3, <2>4, <2>5 DEF LoopInv
  <1> QED
    BY <1>2, <1>3 DEF AskFails

\* The question: the anchor is a message of the caller that fits.
LEMMA TrimStep ==
  ASSUME LoopInv, Trim
  PROVE  LoopInv'
  <1>1. /\ pc = "trim" /\ pc' = "ask" /\ tries' = 0
        /\ UNCHANGED <<turn, last, repeats, calls, ran, slow, executed>>
    BY DEF Trim, counters, history
  <1>2. /\ messages \in Seq(Message) /\ messages # <<>>
        /\ messages[1].kind = "human" /\ Trimmable(messages)
    BY <1>1 DEF LoopInv, LoopTypes, TurnsAnswered
  <1>3. PICK a \in Anchors(Head(messages)) :
           messages' = <<a>> \o Kept(Rest, Budget - a.size)
    BY DEF Trim
  <1>4. a \in Message /\ a.kind = "human" /\ a.size <= Budget
    <2> DEFINE m == messages[1]
    <2>1. m \in Message /\ m.kind = "human" /\ Head(messages) = m
      BY <1>2
    <2> HIDE DEF m
    <2>2. m.size \in Nat /\ m.size > 0
      BY <2>1 DEF Message
    <2>3. CASE Long(m)
      <3>1. PICK n \in 1..Budget : a = Human(n)
        BY <1>3, <2>1, <2>3 DEF Anchors
      <3> QED
        BY <3>1, LoopBoundsAre DEF Human, Message
    <2>4. CASE ~Long(m)
      <3>1. a = m
        BY <1>3, <2>1, <2>4 DEF Anchors
      <3>2. m.size <= Budget
        BY <2>2, <2>4, LoopBoundsAre DEF Long
      <3> QED
        BY <2>1, <3>1, <3>2
    <2> QED
      BY <2>3, <2>4
  <1>5. /\ messages' \in Seq(Message) /\ messages' # <<>>
        /\ messages'[1] = a
        /\ Whole(messages', Len(messages')) /\ Size(messages') <= Budget
    <2>1. messages' = <<a>> \o Kept(SubSeq(messages, 2, Len(messages)),
                                      Budget - a.size)
      BY <1>3 DEF Rest
    <2> QED
      BY <1>2, <1>4, <2>1, LoopBoundsAre, TrimmedIsFit
  <1>6. LoopTypes'
    BY <1>1, <1>5, LoopBoundsAre DEF LoopInv, LoopTypes
  <1>7. RunsCounted'
    BY <1>1 DEF LoopInv, RunsCounted, CalledAgainOnlyWhenSlow, Reports
  <1>8. TurnsCounted'
    BY <1>1 DEF LoopInv, TurnsCounted
  <1>9. RepeatsCounted'
    BY <1>1 DEF LoopInv, RepeatsCounted, NoTreadmill
  <1>10. TurnsAnswered'
    <2>1. Size(messages)' = Size(messages')
      BY DEF Size, FoldLeft, MapThenFoldSet, Max
    <2> QED
      BY <1>1, <1>4, <1>5 DEF TurnsAnswered
  <1> QED
    BY <1>6, <1>7, <1>8, <1>9, <1>10 DEF LoopInv

\* A turn with calls opens.
LEMMA ReplyStep ==
  ASSUME LoopInv, Reply
  PROVE  LoopInv'
  <1>1. /\ pc = "ask" /\ pc' = "check" /\ turn' = turn + 1
        /\ ran' = <<>> /\ slow' = <<>>
        /\ UNCHANGED <<last, repeats, tries, executed>>
    BY DEF Reply
  <1>2. PICK cs \in Calls :
           /\ calls' = cs
           /\ messages' =
                Append(messages, [AI(Len(cs)) EXCEPT !.turn = turn + 1])
    BY DEF Reply
  <1> DEFINE m == [AI(Len(cs)) EXCEPT !.turn = turn + 1]
  <1>3. turn \in Nat /\ turn + 1 \in 0..MaxTurns /\ MaxCalls \in Nat
    BY LoopAssumption, <1>1, LoopBoundsAre DEF LoopInv, LoopTypes, TurnsCounted
  <1>4. /\ m \in Message /\ m.kind = "ai" /\ m.turn = turn + 1
        /\ m.nr = Len(cs)
    BY <1>3, CallsAre DEF AI, Message
  <1> HIDE DEF m
  <1>5. /\ messages' \in Seq(Message) /\ messages' # <<>>
        /\ messages'[1] = messages[1]
    BY <1>2, <1>4, MessageAdded DEF LoopInv, LoopTypes, m
  <1>6. LoopTypes'
    BY <1>1, <1>2, <1>3, <1>5, CallsAre DEF LoopInv, LoopTypes
  <1>7. RunsCounted'
    BY <1>1 DEF LoopInv, RunsCounted, CalledAgainOnlyWhenSlow
  <1>8. TurnsCounted'
    BY <1>1, <1>3 DEF LoopInv, LoopTypes, TurnsCounted
  <1>9. RepeatsCounted'
    BY <1>1 DEF LoopInv, RepeatsCounted, NoTreadmill
  <1>10. TurnsAnswered'
    <2>1. OpenTurn(Append(messages, m), m.turn, cs, 0)
      BY <1>1, <1>4, TurnBegins DEF LoopInv, LoopTypes, TurnsAnswered
    <2>2. OpenTurn(messages, turn, calls, 0)'
      BY <1>1, <1>2, <1>4, <2>1 DEF m, OpenTurn
    <2> QED
      BY <1>1, <1>5, <2>2 DEF LoopInv, TurnsAnswered
  <1> QED
    BY <1>6, <1>7, <1>8, <1>9, <1>10 DEF LoopInv

\* The calls are counted as a repetition, or as the first of their kind.
LEMMA RepeatsGoOn ==
  ASSUME LoopTypes, RepeatsCounted, pc = "check",
         Len(executed) + 1 < MaxTurns,
         executed' = Append(executed, calls), last' = calls,
         repeats' = IF Same THEN repeats + 1 ELSE 1,
         Same => repeats + 1 < MaxRepeats
  PROVE  RepeatsCounted' /\ executed' \in Seq(Calls)
         /\ Len(executed') = Len(executed) + 1 /\ repeats' \in 0..MaxRepeats
  <1> DEFINE n == Len(executed)
  <1>1. /\ executed' \in Seq(Calls) /\ Len(executed') = n + 1 /\ n \in Nat
        /\ \A i \in 1..n : executed'[i] = executed[i]
        /\ executed'[n + 1] = calls
    BY AppendIs DEF LoopTypes
  <1>2. /\ MaxRepeats \in Nat /\ MaxRepeats > 1 /\ repeats \in Nat
    BY LoopBoundsAre DEF LoopTypes
  <1>3. /\ repeats < MaxRepeats /\ repeats <= n
        /\ n > 0 => last = executed[n]
        /\ n > 0 => repeats > 0
        /\ repeats < n => executed[n - repeats] # last
    <2>1. n > 0 => executed # <<>>
      OBVIOUS
    <2> QED
      BY <2>1 DEF RepeatsCounted
  <1>4. \A i \in 1..n : i + MaxRepeats - 1 <= n =>
           \E k \in i..(i + MaxRepeats - 1) : executed[k] # executed[i]
    BY DEF RepeatsCounted, NoTreadmill
  <1> HIDE DEF n
  <1> DEFINE r == repeats'
  <1>5. /\ r \in Nat /\ 0 < r /\ r < MaxRepeats /\ r <= n + 1
        /\ r < n + 1 => executed'[(n + 1) - r] # calls
    <2>1. CASE Same
      <3>1. r = repeats + 1 /\ calls = last
        BY <2>1 DEF Same
      <3>2. r \in Nat /\ 0 < r /\ r < MaxRepeats /\ r <= n + 1
        BY <1>1, <1>2, <1>3, <2>1, <3>1
      <3>3. ASSUME r < n + 1
            PROVE  executed'[(n + 1) - r] # calls
        <4>1. /\ repeats < n /\ (n + 1) - r = n - repeats
              /\ n - repeats \in 1..n
          BY <1>1, <1>2, <1>3, <3>1, <3>3
        <4> QED
          BY <1>1, <1>3, <3>1, <4>1
      <3> QED
        BY <3>2, <3>3
    <2>2. CASE ~Same
      <3>1. r = 1 /\ calls # last
        BY <2>2 DEF Same
      <3>2. r \in Nat /\ 0 < r /\ r < MaxRepeats /\ r <= n + 1
        BY <1>1, <1>2, <3>1
      <3>3. ASSUME r < n + 1
            PROVE  executed'[(n + 1) - r] # calls
        <4>1. n > 0 /\ (n + 1) - r = n /\ n \in 1..n
          BY <1>1, <3>1, <3>3
        <4> QED
          BY <1>1, <1>3, <3>1, <4>1
      <3> QED
        BY <3>2, <3>3
    <2> QED
      BY <2>1, <2>2
  <1> HIDE DEF r
  <1>6. ASSUME NEW i \in 1..(n + 1), i + MaxRepeats - 1 <= n + 1
        PROVE  \E k \in i..(i + MaxRepeats - 1) : executed'[k] # executed'[i]
    <2>1. CASE i + MaxRepeats - 1 <= n
      <3>1. i \in 1..n
        BY <1>1, <1>2, <2>1
      <3>2. PICK k \in i..(i + MaxRepeats - 1) : executed[k] # executed[i]
        BY <1>4, <2>1, <3>1
      <3>3. k \in 1..n
        BY <1>1, <1>2, <2>1, <3>1
      <3> QED
        BY <1>1, <3>1, <3>2, <3>3
    <2>2. CASE i + MaxRepeats - 1 = n + 1
      <3> DEFINE k == (n + 1) - r
      <3>1. /\ k \in i..(i + MaxRepeats - 1) /\ r < n + 1
            /\ n + 1 \in i..(i + MaxRepeats - 1)
        BY <1>1, <1>2, <1>5, <2>2
      <3>2. executed'[k] # executed'[n + 1]
        BY <1>1, <1>5, <3>1
      <3> HIDE DEF k
      <3> QED
        BY <3>1, <3>2
    <2> QED
      BY <1>1, <1>2, <1>6, <2>1, <2>2
  <1>7. NoTreadmill'
    <2>1. Len(executed)' = n + 1 /\ n + 1 < MaxTurns
      BY <1>1 DEF n
    <2> QED
      BY <1>6, <2>1 DEF NoTreadmill
  <1>8. RepeatsCounted'
    <2>1. Len(executed') = n + 1 /\ executed' # <<>>
      BY <1>1
    <2> QED
      BY <1>1, <1>5, <1>7, <2>1 DEF RepeatsCounted, r
  <1>9. repeats' \in 0..MaxRepeats
    BY <1>2, <1>5 DEF r
  <1> QED
    BY <1>1, <1>8, <1>9 DEF n

\* The turn is one too many, one repetition too many, or is executed.
LEMMA CheckStep ==
  ASSUME LoopInv, Check
  PROVE  LoopInv'
  <1>1. pc = "check" /\ UNCHANGED <<messages, turn, calls, tries>>
    BY DEF Check
  <1>2. /\ turn \in Nat /\ MaxTurns \in Nat /\ repeats \in Nat
        /\ repeats < MaxRepeats /\ MaxRepeats \in Nat
        /\ Len(executed) \in Nat /\ Len(executed) < turn
    BY <1>1, LoopBoundsAre
       DEF LoopInv, LoopTypes, TurnsCounted, RepeatsCounted
  <1>3. CASE turn >= MaxTurns
    BY <1>1, <1>3, LoopIsOver DEF Check, End, Ends, history, LoopInv,
                                  LoopTypes
  <1>4. CASE turn < MaxTurns /\ Same /\ repeats + 1 >= MaxRepeats
    <2>1. /\ pc' = "repeating" /\ repeats' = repeats + 1
          /\ UNCHANGED <<ran, slow, executed, last>>
      BY <1>2, <1>4 DEF Check, End, history
    <2>2. repeats' \in 0..MaxRepeats
      BY <1>2, <2>1
    <2> QED
      BY <1>1, <2>1, <2>2, LoopIsOver DEF Ends, LoopInv, LoopTypes
  <1>5. CASE turn < MaxTurns /\ ~(Same /\ repeats + 1 >= MaxRepeats)
    <2>1. /\ executed' = Append(executed, calls) /\ pc' = "call"
          /\ UNCHANGED <<ran, slow>> /\ last' = calls
          /\ repeats' = IF Same THEN repeats + 1 ELSE 1
      BY <1>2, <1>5 DEF Check, Execute
    <2>2. /\ RepeatsCounted' /\ executed' \in Seq(Calls)
          /\ Len(executed') = Len(executed) + 1 /\ repeats' \in 0..MaxRepeats
      <3>1. Len(executed) + 1 < MaxTurns
        BY <1>2, <1>5
      <3>2. Same => repeats + 1 < MaxRepeats
        BY <1>2, <1>5
      <3> QED
        BY <1>1, <2>1, <3>1, <3>2, RepeatsGoOn DEF LoopInv
    <2>3. LoopTypes'
      BY <1>1, <2>1, <2>2 DEF LoopInv, LoopTypes
    <2>4. RunsCounted'
      BY <1>1, <2>1 DEF LoopInv, RunsCounted, CalledAgainOnlyWhenSlow,
                        Reports
    <2>5. TurnsCounted'
      BY <1>1, <1>2, <1>5, <2>1, <2>2 DEF LoopInv, TurnsCounted
    <2>6. TurnsAnswered'
      <3>1. ran = <<>> /\ Len(ran') = 0
        BY <1>1, <2>1 DEF LoopInv, RunsCounted
      <3> QED
        BY <1>1, <2>1, <3>1 DEF LoopInv, TurnsAnswered, OpenTurn
    <2> QED
      BY <2>2, <2>3, <2>4, <2>5, <2>6 DEF LoopInv
  <1> QED
    BY <1>2, <1>3, <1>4, <1>5

\* An answer of this turn is a message.
LEMMA AnswerIs ==
  ASSUME LoopTypes, NEW n \in Nat, n > 0, NEW c \in Nat
  PROVE  /\ Answer(n, c) \in Message /\ Answer(n, c).kind = "tool"
         /\ Answer(n, c).turn = turn /\ Answer(n, c).nr = c
  BY DEF Answer, Message, LoopTypes

\* A call that is answered at once.
LEMMA AnsweredAtOnce ==
  ASSUME LoopInv, pc = "call", More,
         ran' = Append(ran, 0), slow' = Append(slow, 0),
         Tell(1, Len(ran) + 1),
         UNCHANGED <<pc, turn, last, repeats, calls, tries, executed>>
  PROVE  LoopInv'
  <1> DEFINE n == Len(ran)
             m == Answer(1, n + 1)
  <1>1. /\ n \in Nat /\ ran' \in Seq(Nat) /\ slow' \in Seq(Nat)
        /\ Len(ran') = n + 1 /\ Len(slow') = n + 1 /\ n < Len(calls)
        /\ Len(calls) \in Nat
        /\ \A i \in 1..n : ran'[i] = ran[i] /\ slow'[i] = slow[i]
        /\ ran'[n + 1] = 0 /\ slow'[n + 1] = 0
    <2>1. ran \in Seq(Nat) /\ slow \in Seq(Nat) /\ Len(slow) = n
      BY DEF LoopInv, LoopTypes
    <2>2. /\ ran' \in Seq(Nat) /\ Len(ran') = n + 1 /\ n \in Nat
          /\ \A i \in 1..n : ran'[i] = ran[i] /\ ran'[n + 1] = 0
      BY <2>1, AppendIs
    <2>3. /\ slow' \in Seq(Nat) /\ Len(slow') = n + 1
          /\ \A i \in 1..n : slow'[i] = slow[i] /\ slow'[n + 1] = 0
      BY <2>1, AppendIs
    <2>4. Len(calls) \in Nat /\ n < Len(calls)
      BY LoopAssumption, CallsAre DEF LoopInv, LoopTypes, More
    <2>5. ran'[n + 1] = 0 /\ slow'[n + 1] = 0
      <3>1. Append(ran, 0)[n + 1] = 0 /\ Append(slow, 0)[n + 1] = 0
        BY <2>1, AppendIs
      <3> QED
        BY <3>1
    <2> HIDE DEF n
    <2> QED
      BY <2>2, <2>3, <2>4, <2>5
  <1>2. messages' = Append(messages, m)
    BY DEF Tell
  <1>3. /\ m \in Message /\ m.kind = "tool" /\ m.turn = turn
        /\ m.nr = n + 1
    BY <1>1, AnswerIs DEF LoopInv
  <1> HIDE DEF m
  <1>4. /\ messages' \in Seq(Message) /\ messages' # <<>>
        /\ messages'[1] = messages[1]
    BY <1>2, <1>3, MessageAdded DEF LoopInv, LoopTypes
  <1>5. LoopTypes'
    BY <1>1, <1>4 DEF LoopInv, LoopTypes
  <1>6. RunsCounted'
    <2>1. ASSUME NEW i \in 1..(n + 1)
          PROVE  /\ ran'[i] <= slow'[i] + 1 /\ ran'[i] <= MaxRetries
                 /\ Reports(calls[i]) => ran'[i] <= 1
      <3>1. CASE i \in 1..n
        BY <1>1, <3>1 DEF LoopInv, RunsCounted, CalledAgainOnlyWhenSlow
      <3>2. CASE i = n + 1
        BY <1>1, <3>2, LoopBoundsAre
      <3> QED
        BY <1>1, <3>1, <3>2
    <2> QED
      BY <1>1, <2>1 DEF LoopInv, RunsCounted, CalledAgainOnlyWhenSlow,
                        Reports
  <1>7. TurnsCounted'
    BY DEF LoopInv, TurnsCounted
  <1>8. RepeatsCounted'
    BY DEF LoopInv, RepeatsCounted, NoTreadmill
  <1>9. TurnsAnswered'
    <2>1. OpenTurn(messages, turn, calls, n)
      BY DEF LoopInv, TurnsAnswered
    <2>2. OpenTurn(messages', turn, calls, n + 1)
      BY <1>1, <1>2, <1>3, <2>1, TurnGoesOn DEF LoopInv, LoopTypes
    <2>3. OpenTurn(messages, turn, calls, Len(ran))'
      BY <1>1, <2>2 DEF OpenTurn
    <2> QED
      BY <1>4, <2>3 DEF LoopInv, TurnsAnswered
  <1> QED
    BY <1>5, <1>6, <1>7, <1>8, <1>9 DEF LoopInv

\* A name that is not in the map is answered at once.
LEMMA NotFoundStep ==
  ASSUME LoopInv, NotFound
  PROVE  LoopInv'
  BY AnsweredAtOnce DEF NotFound, counters

\* So is a command or path that Shell does not allow.
LEMMA RefusedStep ==
  ASSUME LoopInv, Refused
  PROVE  LoopInv'
  BY AnsweredAtOnce DEF Refused, counters


\* A tool is called: the first of its executions.
LEMMA InvokeStep ==
  ASSUME LoopInv, Invoke
  PROVE  LoopInv'
  <1> DEFINE n == Len(ran)
  <1>1. /\ pc = "call" /\ pc' = "run" /\ tries' = 1
        /\ ran' = Append(ran, 1) /\ slow' = Append(slow, 0)
        /\ UNCHANGED <<messages, turn, last, repeats, calls, executed>>
    BY DEF Invoke, counters
  <1>2. /\ n \in Nat /\ ran' \in Seq(Nat) /\ slow' \in Seq(Nat)
        /\ Len(ran') = n + 1 /\ Len(slow') = n + 1 /\ n < Len(calls)
        /\ Len(calls) \in Nat
        /\ \A i \in 1..n : ran'[i] = ran[i] /\ slow'[i] = slow[i]
        /\ ran'[n + 1] = 1 /\ slow'[n + 1] = 0
    <2>1. ran \in Seq(Nat) /\ slow \in Seq(Nat) /\ Len(slow) = n
      BY DEF LoopInv, LoopTypes
    <2>2. /\ ran' \in Seq(Nat) /\ Len(ran') = n + 1 /\ n \in Nat
          /\ \A i \in 1..n : ran'[i] = ran[i]
      BY <1>1, <2>1, AppendIs
    <2>3. /\ slow' \in Seq(Nat) /\ Len(slow') = n + 1
          /\ \A i \in 1..n : slow'[i] = slow[i]
      BY <1>1, <2>1, AppendIs
    <2>4. Len(calls) \in Nat /\ n < Len(calls)
      BY LoopAssumption, CallsAre DEF LoopInv, LoopTypes, Invoke, More
    <2>5. ran'[n + 1] = 1 /\ slow'[n + 1] = 0
      <3>1. Append(ran, 1)[n + 1] = 1 /\ Append(slow, 0)[n + 1] = 0
        BY <2>1, AppendIs
      <3> QED
        BY <1>1, <3>1
    <2> HIDE DEF n
    <2> QED
      BY <2>2, <2>3, <2>4, <2>5
  <1>3. LoopTypes'
    BY <1>1, <1>2 DEF LoopInv, LoopTypes
  <1>4. RunsCounted'
    <2>1. ASSUME NEW i \in 1..(n + 1)
          PROVE  /\ ran'[i] <= slow'[i] + 1 /\ ran'[i] <= MaxRetries
                 /\ Reports(calls[i]) => ran'[i] <= 1
      <3>1. CASE i \in 1..n
        BY <1>2, <3>1 DEF LoopInv, RunsCounted, CalledAgainOnlyWhenSlow
      <3>2. CASE i = n + 1
        BY <1>2, <3>2, LoopBoundsAre
      <3> QED
        BY <1>2, <3>1, <3>2
    <2>2. CalledAgainOnlyWhenSlow'
      BY <1>1, <1>2, <2>1 DEF CalledAgainOnlyWhenSlow, Reports
    <2>3. ran' # <<>> /\ 1 <= MaxRetries
      BY <1>2, LoopBoundsAre
    <2> QED
      BY <1>1, <1>2, <2>2, <2>3 DEF RunsCounted
  <1>5. TurnsCounted'
    BY <1>1 DEF LoopInv, TurnsCounted
  <1>6. RepeatsCounted'
    BY <1>1 DEF LoopInv, RepeatsCounted, NoTreadmill
  <1>7. TurnsAnswered'
    <2>1. OpenTurn(messages, turn, calls, n)
      BY <1>1 DEF LoopInv, TurnsAnswered
    <2>2. Len(ran') - 1 = n
      BY <1>2
    <2>3. OpenTurn(messages, turn, calls, Len(ran) - 1)'
      BY <1>1, <2>1, <2>2 DEF OpenTurn
    <2> QED
      BY <1>1, <2>3 DEF LoopInv, TurnsAnswered
  <1> QED
    BY <1>3, <1>4, <1>5, <1>6, <1>7 DEF LoopInv

\* The call that ran is answered; it may have timed out once more.
LEMMA AnsweredAfterRun ==
  ASSUME LoopInv, pc = "run", pc' = "call", tries' = 0,
         NEW size \in Nat, size > 0, Tell(size, Len(ran)),
         \/ slow' = slow
         \/ slow' = [slow EXCEPT ![Len(ran)] = @ + 1],
         UNCHANGED <<turn, last, repeats, calls, ran, executed>>
  PROVE  LoopInv'
  <1> DEFINE n == Len(ran)
             m == Answer(size, n)
  <1>1. /\ ran \in Seq(Nat) /\ slow \in Seq(Nat) /\ Len(slow) = n
        /\ n \in Nat /\ n > 0 /\ tries \in Nat
    <2>1. /\ ran \in Seq(Nat) /\ slow \in Seq(Nat) /\ Len(slow) = n
          /\ ran # <<>> /\ tries \in Nat
      BY DEF LoopInv, LoopTypes, RunsCounted
    <2> QED
      BY <2>1
  <1>2. messages' = Append(messages, m)
    BY DEF Tell
  <1>3. /\ m \in Message /\ m.kind = "tool" /\ m.turn = turn /\ m.nr = n
    BY <1>1, AnswerIs DEF LoopInv
  <1> HIDE DEF m
  <1>4. /\ messages' \in Seq(Message) /\ messages' # <<>>
        /\ messages'[1] = messages[1]
    BY <1>2, <1>3, MessageAdded DEF LoopInv, LoopTypes
  <1>5. /\ slow' \in Seq(Nat) /\ Len(slow') = n
        /\ \A i \in 1..n : slow[i] \in Nat /\ slow'[i] \in Nat
                           /\ slow'[i] >= slow[i]
    <2>1. CASE slow' = slow
      BY <1>1, <2>1
    <2>2. CASE slow' = [slow EXCEPT ![n] = @ + 1]
      BY <1>1, <2>2
    <2> QED
      BY <2>1, <2>2
  <1>6. LoopTypes'
    BY <1>4, <1>5 DEF LoopInv, LoopTypes
  <1>7. RunsCounted'
    <2>1. CalledAgainOnlyWhenSlow'
      <3>1. ASSUME NEW i \in 1..n
            PROVE  /\ ran[i] <= slow'[i] + 1 /\ ran[i] <= MaxRetries
                   /\ Reports(calls[i]) => ran[i] <= 1
        <4>1. /\ ran[i] <= slow[i] + 1 /\ ran[i] <= MaxRetries
              /\ Reports(calls[i]) => ran[i] <= 1
          BY DEF LoopInv, RunsCounted, CalledAgainOnlyWhenSlow
        <4>2. ran[i] \in Nat
          BY <1>1
        <4> HIDE DEF n
        <4> QED
          BY <1>5, <4>1, <4>2
      <3> QED
        BY <3>1 DEF CalledAgainOnlyWhenSlow, Reports
    <2> QED
      BY <2>1 DEF RunsCounted
  <1>8. TurnsCounted'
    BY DEF LoopInv, TurnsCounted
  <1>9. RepeatsCounted'
    BY DEF LoopInv, RepeatsCounted, NoTreadmill
  <1>10. TurnsAnswered'
    <2>1. OpenTurn(messages, turn, calls, n - 1)
      BY DEF LoopInv, TurnsAnswered
    <2>2. n - 1 \in Nat /\ (n - 1) + 1 = n
      BY <1>1
    <2>3. OpenTurn(messages', turn, calls, n)
      <3> DEFINE k == n - 1
      <3> HIDE DEF k, n
      <3>1. k \in Nat /\ n = k + 1 /\ OpenTurn(messages, turn, calls, k)
        BY <2>1, <2>2 DEF k
      <3>2. OpenTurn(messages', turn, calls, k + 1)
        BY <1>2, <1>3, <3>1, TurnGoesOn DEF LoopInv, LoopTypes
      <3> QED
        BY <3>1, <3>2
    <2>4. OpenTurn(messages, turn, calls, Len(ran))'
      BY <2>3 DEF OpenTurn
    <2> QED
      BY <1>4, <2>4 DEF LoopInv, TurnsAnswered
  <1> QED
    BY <1>6, <1>7, <1>8, <1>9, <1>10 DEF LoopInv

\* A tool returned or raised.
LEMMA FinishStep ==
  ASSUME LoopInv, Finish
  PROVE  LoopInv'
  <1>1. PICK n \in ResultSizes : Tell(n, Len(ran))
    BY DEF Finish
  <1>2. n \in Nat /\ n > 0
    BY LoopBoundsAre
  <1> QED
    BY <1>1, <1>2, AnsweredAfterRun DEF Finish, counters, history

\* A command of Shell ended, or was killed for its timeout.
LEMMA CommandDoneStep ==
  ASSUME LoopInv, CommandDone
  PROVE  LoopInv'
  <1>1. CASE \E n \in ResultSizes : Tell(n, Len(ran)) /\ UNCHANGED slow
    <2>1. PICK n \in ResultSizes : Tell(n, Len(ran)) /\ UNCHANGED slow
      BY <1>1
    <2>2. n \in Nat /\ n > 0
      BY LoopBoundsAre
    <2> QED
      BY <2>1, <2>2, AnsweredAfterRun DEF CommandDone, counters
  <1>2. CASE /\ Tell(1, Len(ran))
             /\ slow' = [slow EXCEPT ![Len(ran)] = @ + 1]
    BY <1>2, AnsweredAfterRun DEF CommandDone, counters
  <1> QED
    BY <1>1, <1>2 DEF CommandDone

\* One more attempt at the call, or its answer.
LEMMA TimedOutStep ==
  ASSUME LoopInv, TimedOut
  PROVE  LoopInv'
  <1> DEFINE n == Len(ran)
  <1>1. /\ pc = "run" /\ ~Reports(calls[n])
        /\ slow' = [slow EXCEPT ![n] = @ + 1]
        /\ UNCHANGED <<turn, last, repeats, calls, executed>>
    BY DEF TimedOut, counters, Running
  <1>2. CASE tries >= MaxRetries
    <2>1. pc' = "call" /\ Tell(1, n) /\ tries' = 0 /\ UNCHANGED ran
      BY <1>2, LoopBoundsAre DEF TimedOut, LoopInv, LoopTypes
    <2> QED
      BY <1>1, <2>1, AnsweredAfterRun
  <1>3. CASE tries < MaxRetries
    <2>1. /\ tries' = tries + 1 /\ ran' = [ran EXCEPT ![n] = @ + 1]
          /\ UNCHANGED <<pc, messages>>
      BY <1>3 DEF TimedOut
    <2>2. /\ ran \in Seq(Nat) /\ slow \in Seq(Nat) /\ Len(slow) = n
          /\ n \in Nat /\ n > 0 /\ tries \in Nat /\ MaxRetries \in Nat
          /\ ran[n] = tries /\ slow[n] + 1 = tries
      <3>1. /\ ran \in Seq(Nat) /\ slow \in Seq(Nat) /\ Len(slow) = n
            /\ ran # <<>> /\ tries \in Nat
            /\ ran[n] = tries /\ slow[n] + 1 = tries
        BY <1>1 DEF LoopInv, LoopTypes, RunsCounted
      <3> QED
        BY <3>1, LoopBoundsAre
    <2>3. /\ ran' \in Seq(Nat) /\ Len(ran') = n /\ ran'[n] = tries + 1
          /\ \A i \in 1..n : i # n => ran'[i] = ran[i]
      BY <2>1, <2>2
    <2>4. /\ slow' \in Seq(Nat) /\ Len(slow') = n /\ slow'[n] = tries
          /\ \A i \in 1..n : i # n => slow'[i] = slow[i]
      BY <1>1, <2>2
    <2>5. LoopTypes'
      BY <1>1, <2>1, <2>2, <2>3, <2>4 DEF LoopInv, LoopTypes
    <2>6. RunsCounted'
      <3>1. ASSUME NEW i \in 1..n
            PROVE  /\ ran'[i] <= slow'[i] + 1 /\ ran'[i] <= MaxRetries
                   /\ Reports(calls[i]) => ran'[i] <= 1
        <4>1. CASE i # n
          BY <2>3, <2>4, <4>1
             DEF LoopInv, RunsCounted, CalledAgainOnlyWhenSlow
        <4>2. CASE i = n
          BY <1>1, <1>3, <2>2, <2>3, <2>4, <4>2
        <4> QED
          BY <4>1, <4>2
      <3>2. CalledAgainOnlyWhenSlow'
        BY <1>1, <2>3, <3>1 DEF CalledAgainOnlyWhenSlow, Reports
      <3>3. ran' # <<>> /\ tries + 1 <= MaxRetries
        BY <1>3, <2>2, <2>3
      <3> QED
        BY <1>1, <2>1, <2>3, <2>4, <3>2, <3>3 DEF RunsCounted, Reports
    <2>7. TurnsCounted'
      BY <1>1, <2>1 DEF LoopInv, TurnsCounted
    <2>8. RepeatsCounted'
      BY <1>1, <2>1 DEF LoopInv, RepeatsCounted, NoTreadmill
    <2>9. TurnsAnswered'
      <3>1. OpenTurn(messages, turn, calls, n - 1)
        BY <1>1 DEF LoopInv, TurnsAnswered
      <3>2. OpenTurn(messages, turn, calls, Len(ran) - 1)'
        BY <1>1, <2>1, <2>3, <3>1 DEF OpenTurn
      <3> QED
        BY <1>1, <2>1, <3>2 DEF LoopInv, TurnsAnswered
    <2> QED
      BY <2>5, <2>6, <2>7, <2>8, <2>9 DEF LoopInv
  <1>4. tries \in Nat /\ MaxRetries \in Nat
    BY LoopBoundsAre DEF LoopInv, LoopTypes
  <1> QED
    BY <1>2, <1>3, <1>4

\* Every call is answered: the turn is whole.
LEMMA EndTurnStep ==
  ASSUME LoopInv, EndTurn
  PROVE  LoopInv'
  <1>1. /\ pc = "call" /\ pc' = "trim" /\ ~More
        /\ calls' = <<>> /\ ran' = <<>> /\ slow' = <<>> /\ tries' = 0
        /\ UNCHANGED <<messages, turn, last, repeats, executed>>
    BY DEF EndTurn, counters
  <1>2. MaxCalls \in Nat
    BY LoopAssumption
  <1>3. Len(calls) \in Nat /\ Len(ran) = Len(calls)
    <2>1. Len(calls) \in Nat /\ Len(ran) \in Nat /\ Len(ran) <= Len(calls)
      BY <1>2, CallsAre DEF LoopInv, LoopTypes
    <2> QED
      BY <1>1, <2>1 DEF More
  <1>4. Whole(messages, Len(messages))
    BY <1>1, <1>3, TurnEnds DEF LoopInv, LoopTypes, TurnsAnswered
  <1>5. LoopTypes'
    BY <1>1, <1>2, NoCalls DEF LoopInv, LoopTypes
  <1>6. RunsCounted'
    BY <1>1 DEF RunsCounted, CalledAgainOnlyWhenSlow
  <1>7. TurnsCounted'
    BY <1>1 DEF LoopInv, TurnsCounted
  <1>8. RepeatsCounted'
    BY <1>1 DEF LoopInv, RepeatsCounted, NoTreadmill
  <1>9. TurnsAnswered'
    BY <1>1, <1>4 DEF LoopInv, TurnsAnswered, Trimmable, Whole, TurnAt
  <1> QED
    BY <1>5, <1>6, <1>7, <1>8, <1>9 DEF LoopInv

\* A stutter changes nothing.
LEMMA LoopStands ==
  ASSUME LoopInv, UNCHANGED loopVars
  PROVE  LoopInv'
  <1>1. /\ UNCHANGED <<pc, messages, turn, last, repeats, calls, tries>>
        /\ UNCHANGED <<ran, slow, executed>>
    BY DEF loopVars, counters, history
  <1>2. LoopTypes' /\ RunsCounted' /\ TurnsCounted' /\ RepeatsCounted'
    BY <1>1 DEF LoopInv, LoopTypes, RunsCounted, TurnsCounted, RepeatsCounted,
                NoTreadmill, CalledAgainOnlyWhenSlow, Reports
  <1>3. TurnsAnswered'
    <2>1. Size(messages)' = Size(messages')
      BY DEF Size, FoldLeft, MapThenFoldSet, Max
    <2> QED
      BY <1>1, <2>1 DEF LoopInv, TurnsAnswered, Trimmable, Whole, TurnAt,
                        OpenTurn
  <1> QED
    BY <1>2, <1>3 DEF LoopInv

\* Every state of a loop is typed, its counts are right and its turns whole.
THEOREM LoopInvariant ==
  LoopSpec => []LoopInv
  <1>1. LoopInit => LoopInv
    BY LoopBegins
  <1>2. ASSUME LoopInv, [LoopNext]_(loopVars)
        PROVE  LoopInv'
    <2>1. CASE Step
      BY <1>2, <2>1, TrimStep, GiveUpStep, FinalStep, ReplyStep,
         AskFailsStep, CheckStep, NotFoundStep, RefusedStep, InvokeStep,
         FinishStep, CommandDoneStep, TimedOutStep, EndTurnStep DEF Step
    <2>2. CASE Cancel
      BY <1>2, <2>2, CancelStep
    <2>3. CASE UNCHANGED loopVars
      BY <1>2, <2>3, LoopStands
    <2> QED
      BY <1>2, <2>1, <2>2, <2>3 DEF LoopNext
  <1> QED
    BY <1>1, <1>2, PTL DEF LoopSpec

\* For any window, prompts, results, tools and caps, and however the model and
\* the tools behave: whenever the model is asked, the conversation begins with
\* the caller's message, goes on with whole turns and fits the window.
THEOREM PromptsAreWhole ==
  LoopSpec => []PromptInv
  <1>1. LoopInv => PromptInv
    <2> SUFFICES ASSUME LoopInv PROVE PromptInv
      OBVIOUS
    <2>1. LoopTypeOK
      <3>1. pc = "run" => tries > 0
        <4> SUFFICES ASSUME pc = "run" PROVE tries > 0
          OBVIOUS
        <4>1. /\ ran \in Seq(Nat) /\ slow \in Seq(Nat) /\ ran # <<>>
              /\ Len(slow) = Len(ran) /\ slow[Len(ran)] + 1 = tries
          BY DEF LoopInv, LoopTypes, RunsCounted
        <4>2. slow[Len(ran)] \in Nat
          BY <4>1
        <4> QED
          BY <4>1, <4>2
      <3>2. MaxAttempts \in Nat /\ MaxRetries \in Nat
        BY LoopBoundsAre
      <3> QED
        BY <3>1, <3>2 DEF LoopInv, LoopTypes, RunsCounted, LoopTypeOK
    <2>2. PromptWellFormed
      <3> SUFFICES ASSUME pc = "ask" PROVE PromptWellFormed
        BY DEF PromptWellFormed
      <3>1. /\ messages \in Seq(Message) /\ messages # <<>>
            /\ messages[1].kind = "human" /\ Whole(messages, Len(messages))
        BY DEF LoopInv, LoopTypes, TurnsAnswered
      <3>2. Head(messages).kind = "human"
        BY <3>1
      <3>3. ASSUME NEW i \in 2..Len(messages)
            PROVE  LET m == messages[i]
                       k == IF m.kind = "ai" THEN i ELSE i - m.nr
                   IN  /\ k \in 2..Len(messages)
                       /\ messages[k].kind = "ai"
                       /\ messages[k].turn = m.turn
                       /\ k + messages[k].nr <= Len(messages)
                       /\ \A c \in 1..messages[k].nr :
                             /\ messages[k + c].kind = "tool"
                             /\ messages[k + c].turn = m.turn
        <4>1. PICK k \in 2..i, q \in Nat :
                /\ q = messages[k].nr /\ messages[k].kind = "ai"
                /\ k + q <= Len(messages) /\ i <= k + q
                /\ \A c \in 1..q : /\ messages[k + c].kind = "tool"
                                   /\ messages[k + c].turn = messages[k].turn
                /\ messages[i].turn = messages[k].turn
                /\ messages[i].kind = "ai" => k = i
                /\ messages[i].kind # "ai" => /\ k = i - messages[i].nr
                                             /\ messages[i].nr \in Nat
          BY <3>1, WholeAt
        <4>2. k \in 2..Len(messages)
          BY <3>1
        <4>3. k = IF messages[i].kind = "ai" THEN i ELSE i - messages[i].nr
          BY <4>1
        <4> QED
          BY <4>1, <4>2, <4>3
      <3> QED
        BY <3>2, <3>3 DEF PromptWellFormed
    <2>3. PromptFits
      BY DEF LoopInv, TurnsAnswered, PromptFits
    <2> QED
      BY <2>1, <2>2, <2>3 DEF PromptInv
  <1> QED
    BY <1>1, LoopInvariant, PTL

\* However often tools time out, a call is made again only after it did, at most
\* max_retries times in all, and a tool of Shell never.
THEOREM SlowCallsOnly ==
  LoopSpec => []CalledAgainOnlyWhenSlow
  <1>1. LoopInv => CalledAgainOnlyWhenSlow
    BY DEF LoopInv, RunsCounted
  <1> QED
    BY <1>1, LoopInvariant, PTL

\* The same calls are never executed _MAX_REPEAT_CALLS times in a row, nor is a
\* turn past max_turns, for any values of the two.
THEOREM NoTreadmillHolds ==
  LoopSpec => []NoTreadmill
  <1>1. LoopInv => NoTreadmill
    BY DEF LoopInv, RepeatsCounted
  <1> QED
    BY <1>1, LoopInvariant, PTL

=============================================================================
