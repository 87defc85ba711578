-------------------------- MODULE EventStreamProofs --------------------------
(* Theorems of EventStream and their proofs.                               *)
EXTENDS EventStream, FiniteSetTheorems, TLAPS

-----------------------------------------------------------------------------
(* The invariant.                                                          *)

TypeRuns ==
    /\ status \in Statuses
    /\ log \in Seq([run : Runs, kind : Kinds]) /\ Len(log) <= MaxEvents
    /\ walk \in {"none", "write", "log", "done"}
    /\ run \in Runs
    /\ wpc \in [Runs -> {"unborn", "launch", "read", "added", "stored",
                         "publish", "mark", "over"}]
    /\ cur \in [Runs -> 0..MaxEvents]
    /\ hooked \in [Runs -> BOOLEAN]
TypeStreams ==
    /\ subs \subseteq Streams
    /\ queue \in [Streams -> Seq(Ids \cup {End})]
    /\ spc \in [Streams -> {"off", "status", "events", "replay", "live",
                           "ending"}]
    /\ since \in [Streams -> Runs]
    /\ snap \in [Streams -> Statuses]
TypeClients ==
    /\ unpub \subseteq Ids
    /\ todo \in [Streams -> SUBSET Ids]
    /\ got \in [Streams -> SUBSET Ids]
    /\ cursor \in [Streams -> 0..MaxEvents]
    /\ opens \in [Streams -> 0..MaxOpens]
    /\ gone \in [Streams -> BOOLEAN]

LEMMA TypeParts == TypeOK <=> TypeRuns /\ TypeStreams /\ TypeClients
  BY DEF TypeOK, TypeRuns, TypeStreams, TypeClients

\* One reader at a time: a patient retry waits for the one before.
InOrder ==
    \A r \in Runs : /\ r < run => wpc[r] = "over"
                    /\ r > run => wpc[r] = "unborn"

\* A reader handles an event of its own run that is in the history, and goes
\* on only after one that is not the last.
Handled ==
    \A r \in Runs :
        /\ cur[r] <= Len(log)
        /\ wpc[r] \in {"added", "stored", "publish"} => cur[r] # 0
        /\ cur[r] # 0 => log[cur[r]].run = r
        /\ wpc[r] \in {"unborn", "launch", "read", "mark"} =>
             cur[r] = 0 \/ Kind(r) \notin Terminal

\* Event i is with a reader that will still look for subscribers, or that
\* holds their set.
Pending(i) ==
    \E r \in Runs : /\ cur[r] = i
                    /\ \/ wpc[r] \in {"added", "stored"}
                       \/ wpc[r] = "publish" /\ hooked[r]

\* What needs no delivery to f any more, and what is at one of the first p
\* places of its queue.
Seen(f) == got[f] \cup todo[f] \cup unpub
Among(q, k, p) == \E m \in 1..p : q[m] = k

Kept(f) ==
    /\ spc[f] = "off" <=> f \notin subs
    /\ spc[f] = "off" => queue[f] = << >>
    /\ todo[f] # {} => spc[f] = "replay"
    /\ Seen(f) \subseteq 1..Len(log)
    /\ cursor[f] \in got[f] \cup {0}
    /\ \A p \in 1..Len(queue[f]) : queue[f][p] <= Len(log)

\* Every event before one that was shown or is to be replayed has been seen.
Shown(f) ==
    /\ \A i \in got[f] : \A k \in 1..i : k \in got[f] \cup unpub
    /\ \A i \in todo[f] : \A k \in 1..i : k \in Seen(f)

\* Between history and queue there is no gap: an event is seen, queued or
\* still with a reader, and what is queued has all before it seen or queued
\* before it.
Follows(f) == spc[f] \in {"replay", "live"}
Complete(f) ==
    Follows(f) => \A k \in 1..Len(log) :
        k \in Seen(f) \/ Among(queue[f], k, Len(queue[f])) \/ Pending(k)
Sorted(f) ==
    Follows(f) => \A p \in 1..Len(queue[f]) : \A k \in 1..queue[f][p] :
        k \in Seen(f) \/ Among(queue[f], k, p)

\* Event i tells how run n, or a later one, came out; or a run came out
\* without telling.
Outcome(i, n) == log[i].kind \in Terminal /\ log[i].run >= n
Silent(n) ==
    \/ walk = "log"
    \/ \E r \in n..MaxRuns : /\ wpc[r] \in {"mark", "over"}
                             /\ cur[r] = 0 \/ Kind(r) \notin Terminal

StatusTold ==
    status \in Terminal =>
       Silent(run) \/ \E i \in 1..Len(log) : Outcome(i, run)

\* A stream that is about to end has the outcome it will have shown: before
\* the sentinel, ...
EndTold(f) ==
    /\ \A p \in 1..Len(queue[f]) : queue[f][p] = End =>
          \E i \in 1..Len(log) : /\ i \in got[f] \/ Among(queue[f], i, p)
                                 /\ Outcome(i, since[f])
    /\ spc[f] = "ending" =>
          \E i \in 1..Len(log) : i \in got[f] /\ Outcome(i, since[f])

\* ... or in the history, when the task was over at the start.
HistoryTold(f) ==
    /\ spc[f] # "off" => since[f] <= run
    /\ spc[f] = "events" /\ snap[f] \in Terminal =>
          Silent(since[f]) \/ \E i \in 1..Len(log) : Outcome(i, since[f])
    /\ spc[f] = "replay" /\ snap[f] \in Terminal =>
          \/ Silent(since[f])
          \/ \E i \in 1..Len(log) : i \in Seen(f) /\ Outcome(i, since[f])

StreamsInv ==
    /\ TypeRuns /\ TypeStreams /\ TypeClients /\ InOrder /\ Handled
    /\ \A f \in Streams : Kept(f)
    /\ \A f \in Streams : Shown(f)
    /\ \A f \in Streams : Complete(f)
    /\ \A f \in Streams : Sorted(f)
    /\ StatusTold
    /\ \A f \in Streams : EndTold(f)
    /\ \A f \in Streams : HistoryTold(f)

-----------------------------------------------------------------------------

(* What a step leaves alone.                                               *)

\* The history only grows.
LogGrows == /\ Len(log) <= Len(log')
            /\ \A i \in 1..Len(log) : log'[i] = log[i]

LEMMA AppendGrows ==
  ASSUME TypeRuns, NEW e, log' = Append(log, e)
  PROVE  LogGrows /\ Len(log') = Len(log) + 1 /\ log'[Len(log) + 1] = e
  BY DEF TypeRuns, LogGrows

LEMMA ElementTyped ==
  ASSUME NEW S, NEW s \in Seq(S), NEW i \in 1..Len(s)
  PROVE  s[i] \in S
  OBVIOUS

LEMMA LogTyped ==
  ASSUME TypeRuns, NEW i \in 1..Len(log)
  PROVE  log[i].run \in Nat
  <1>1. log \in Seq([run : Runs, kind : Kinds])
    BY DEF TypeRuns
  <1>2. log[i] \in [run : Runs, kind : Kinds]
    BY <1>1, ElementTyped
  <1> QED
    BY <1>2 DEF Runs

LEMMA CompleteKept ==
  ASSUME NEW g \in Streams, Complete(g),
         Follows(g)' =>
            Follows(g) /\ \A k \in 1..Len(log) : Pending(k) => Pending(k)',
         queue'[g] = queue[g], Len(log') = Len(log),
         \A k : k \in Seen(g) => k \in Seen(g)'
  PROVE  Complete(g)'
  BY DEF Complete, Among

LEMMA SortedKept ==
  ASSUME NEW g \in Streams, Sorted(g), Follows(g)' => Follows(g),
         queue'[g] = queue[g], \A k : k \in Seen(g) => k \in Seen(g)'
  PROVE  Sorted(g)'
  BY DEF Sorted, Among

LEMMA EndToldKept ==
  ASSUME NEW g \in Streams, EndTold(g), LogGrows,
         queue'[g] = queue[g], since'[g] = since[g],
         got[g] \subseteq got'[g], spc'[g] = "ending" => spc[g] = "ending"
  PROVE  EndTold(g)'
  BY DEF EndTold, Among, Outcome, LogGrows

LEMMA HistoryToldKept ==
  ASSUME NEW g \in Streams, HistoryTold(g), LogGrows, TypeRuns, TypeStreams,
         since'[g] = since[g], spc'[g] = spc[g], snap'[g] = snap[g],
         run <= run', run' \in Runs,
         \A k : k \in Seen(g) => k \in Seen(g)',
         \A n \in Runs : n <= run /\ Silent(n) =>
            Silent(n)' \/ \E i \in unpub' \cap 1..Len(log') : Outcome(i, n)'
  PROVE  HistoryTold(g)'
  <1>1. since[g] \in Runs /\ run \in Runs /\ run' \in Nat
    BY StreamAssumption DEF TypeStreams, TypeRuns, Runs
  <1>2. spc[g] # "off" /\ Silent(since[g]) => Silent(since[g])' \/
          \E i \in 1..Len(log') : i \in Seen(g)' /\ Outcome(i, since[g])'
    <2>1. spc[g] # "off" => since[g] <= run
      BY DEF HistoryTold
    <2> QED
      BY <1>1, <2>1 DEF Seen
  <1>3. \A i \in 1..Len(log) : Outcome(i, since[g]) =>
          i \in 1..Len(log') /\ Outcome(i, since[g])'
    BY DEF Outcome, LogGrows
  <1>4. spc'[g] # "off" => since'[g] <= run'
    BY <1>1 DEF HistoryTold, Runs
  <1> QED
    BY <1>2, <1>3, <1>4 DEF HistoryTold

LEMMA SilentKept ==
  ASSUME TypeRuns, Handled, LogGrows, walk = "log" => walk' = "log",
         \A r \in Runs : wpc[r] \in {"mark", "over"} =>
            wpc'[r] \in {"mark", "over"} /\ cur'[r] = cur[r]
  PROVE  \A n \in Runs : Silent(n) => Silent(n)'
  <1> SUFFICES ASSUME NEW n \in Runs, NEW r \in n..MaxRuns,
                      wpc[r] \in {"mark", "over"},
                      cur[r] = 0 \/ Kind(r) \notin Terminal
               PROVE  Silent(n)'
    BY DEF Silent
  <1>1. r \in Runs
    BY StreamAssumption DEF Runs
  <1>2. wpc'[r] \in {"mark", "over"} /\ cur'[r] = cur[r]
    BY <1>1
  <1>3. cur[r] # 0 => log'[cur[r]] = log[cur[r]]
    BY <1>1 DEF TypeRuns, Handled, LogGrows
  <1> QED
    BY <1>2, <1>3 DEF Silent, Kind

\* What min of a set of ids returns.
LEMMA LeastNatural ==
  ASSUME NEW T, T \subseteq Nat, T # {}
  PROVE  \E x \in T : \A y \in T : x <= y
  <1> DEFINE R == StrictSubsetOrdering(Nat)
             TT == {0..x : x \in T}
  <1>1. TT \subseteq FiniteSubsetsOf(Nat) /\ TT # {}
    <2>1. ASSUME NEW x \in T PROVE 0..x \subseteq Nat /\ IsFiniteSet(0..x)
      BY FS_Interval
    <2> QED
      BY <2>1 DEF FiniteSubsetsOf
  <1>2. IsWellFoundedOn(R, FiniteSubsetsOf(Nat))
    BY FS_StrictSubsetOrderingWellFounded
  <1> HIDE DEF R, TT
  <1>3. PICK t \in TT : \A u \in TT : <<u, t>> \notin R
    BY <1>1, <1>2, WFMin
  <1>4. PICK x \in T : t = 0..x
    BY DEF TT
  <1>5. ASSUME NEW y \in T PROVE x <= y
    <2>1. SUFFICES ASSUME y < x PROVE FALSE
      OBVIOUS
    <2>2. 0..y \in TT /\ <<0..y, t>> \notin R
      BY <1>3 DEF TT
    <2>3. 0..y \subseteq 0..x /\ x \in 0..x /\ x \notin 0..y /\ 0..x \subseteq Nat
      BY <2>1
    <2> QED
      BY <1>4, <2>2, <2>3 DEF R, StrictSubsetOrdering
  <1> QED
    BY <1>5

\* A step that is not about g.
LEMMA StreamFrame ==
  ASSUME StreamsInv, NEW g \in Streams, UNCHANGED <<logVars, runVars, walk>>,
         queue'[g] = queue[g], spc'[g] = spc[g], since'[g] = since[g],
         snap'[g] = snap[g], todo'[g] = todo[g], got'[g] = got[g],
         cursor'[g] = cursor[g], g \in subs <=> g \in subs',
         g \in subs => \A r \in Runs : hooked[r] => hooked'[r]
  PROVE  /\ Kept(g)' /\ Shown(g)' /\ Complete(g)' /\ Sorted(g)'
         /\ EndTold(g)' /\ HistoryTold(g)'
  <1> USE DEF StreamsInv, logVars, runVars
  <1>1. \A k : k \in Seen(g) <=> k \in Seen(g)'
    BY DEF Seen
  <1>2. Kept(g)'
    BY <1>1 DEF Kept, Seen
  <1>3. Shown(g)'
    BY <1>1 DEF Shown, Seen
  <1>4. Follows(g)' <=> Follows(g)
    BY DEF Follows
  <1>5. g \in subs => \A k : Pending(k) => Pending(k)'
    BY DEF Pending
  <1>6. Follows(g) => g \in subs
    BY DEF Follows, Kept, TypeStreams
  <1>7. Complete(g)' /\ Sorted(g)'
    <2>1. Len(log') = Len(log) /\ Complete(g) /\ Sorted(g)
      OBVIOUS
    <2>2. Follows(g)' =>
            Follows(g) /\ \A k \in 1..Len(log) : Pending(k) => Pending(k)'
      BY <1>4, <1>5, <1>6
    <2> QED
      BY <1>1, <2>1, <2>2, CompleteKept, SortedKept
  <1>8. LogGrows
    BY DEF LogGrows, TypeRuns
  <1>9. \A n \in Runs : Silent(n) => Silent(n)'
    BY <1>8, SilentKept
  <1>10. EndTold(g)'
    BY <1>8, EndToldKept
  <1>11. HistoryTold(g)'
    <2>1. run' \in Runs /\ run <= run'
      BY StreamAssumption DEF TypeRuns, Runs
    <2> QED
      BY <1>1, <1>8, <1>9, <2>1, HistoryToldKept
  <1> QED
    BY <1>2, <1>3, <1>7, <1>10, <1>11

\* A stream that is off asks for nothing.
LEMMA OffFrame ==
  ASSUME NEW g \in Streams, Shown(g), Seen(g) \subseteq 1..Len(log),
         cursor[g] \in got[g] \cup {0}, log' = log,
         spc'[g] = "off", queue'[g] = << >>, g \notin subs', todo'[g] = {},
         got'[g] = got[g], unpub' = unpub, cursor'[g] = cursor[g]
  PROVE  /\ Kept(g)' /\ Shown(g)' /\ Complete(g)' /\ Sorted(g)'
         /\ EndTold(g)' /\ HistoryTold(g)'
  BY DEF Kept, Shown, Seen, Complete, Sorted, Follows, EndTold, HistoryTold

-----------------------------------------------------------------------------

LEMMA StreamsInvInit == Init => StreamsInv
  <1> SUFFICES ASSUME Init PROVE StreamsInv
    OBVIOUS
  <1> USE StreamAssumption DEF Init
  <1>1. TypeRuns
    <2>1. log \in Seq([run : Runs, kind : Kinds]) /\ Len(log) = 0
      OBVIOUS
    <2> QED
      BY <2>1 DEF TypeRuns, Statuses, Terminal, Runs
  <1>2. TypeStreams
    BY DEF TypeStreams, TypeRuns, Handled, Statuses, Terminal, Ids, End, Runs
  <1>3. TypeClients
    BY DEF TypeClients, TypeRuns, TypeStreams, Ids, End, Kept
  <1>4. InOrder
    BY DEF InOrder, TypeRuns, Runs
  <1>5. Handled
    BY DEF Handled, TypeRuns, Kind, Terminal, Runs
  <1>6. StatusTold
    BY DEF StatusTold, Silent, Outcome, TypeRuns, Kind, Terminal, Handled,
        InOrder, Runs, Statuses
  <1>7. \A g \in Streams : Kept(g)
    BY DEF Kept, Seen, TypeRuns, TypeStreams, TypeClients, Ids, End, Handled
  <1>8. \A g \in Streams : Shown(g)
    BY DEF Shown, Seen, TypeRuns, TypeStreams, TypeClients, Ids, End, Kept,
        Sorted, Among, Follows
  <1>9. \A g \in Streams : Complete(g)
    BY DEF Complete, Follows, Seen, Among, Pending, TypeRuns, TypeStreams,
        TypeClients, Ids, End, Kept, Handled, InOrder
  <1>10. \A g \in Streams : Sorted(g)
    BY DEF Sorted, Follows, Seen, Among, TypeRuns, TypeStreams, TypeClients,
        Ids, End, Kept
  <1>11. \A g \in Streams : EndTold(g)
    BY DEF EndTold, Outcome, Among, TypeRuns, TypeStreams, TypeClients, Ids,
        End, Kept
  <1>12. \A g \in Streams : HistoryTold(g)
    BY DEF HistoryTold, Silent, Outcome, Seen, TypeRuns, TypeStreams,
        TypeClients, Kind, Terminal, Handled, InOrder, Kept, StatusTold, Runs,
        Ids
  <1> QED
    BY <1>1, <1>2, <1>3, <1>4, <1>5, <1>6, <1>7, <1>8, <1>9, <1>10, <1>11,
        <1>12 DEF StreamsInv

LEMMA MarkRunningStep ==
  ASSUME StreamsInv, NEW r \in Runs, MarkRunning(r)
  PROVE  StreamsInv'
  <1> USE StreamAssumption DEF StreamsInv
  <1>a. UNCHANGED <<queue, spc, since, snap, todo, got, cursor, unpub, log>>
        /\ UNCHANGED <<subs, opens, gone>>
    BY DEF MarkRunning, At, logVars, hubVars, subVars, tuiVars
  <1>b. LogGrows /\ \A g \in Streams : \A k : k \in Seen(g) <=> k \in Seen(g)'
    BY <1>a DEF LogGrows, Seen, TypeRuns
  <1>c. \A g \in Streams : \A k : Follows(g) /\ Pending(k) => Pending(k)'
    BY DEF MarkRunning, At, logVars, hubVars, subVars, tuiVars, Pending,
        TypeRuns
  <1>d. \A n \in Runs : Silent(n) => Silent(n)'
    BY <1>b, SilentKept DEF MarkRunning, At, logVars, hubVars, subVars,
        tuiVars, TypeRuns
  <1>e. run' \in Runs /\ run <= run'
    BY DEF MarkRunning, At, logVars, hubVars, subVars, tuiVars, TypeRuns, Runs
  <1>1. TypeRuns'
    BY DEF MarkRunning, At, logVars, hubVars, subVars, tuiVars, TypeRuns,
        Statuses, Kinds, Terminal, Runs
  <1>2. TypeStreams'
    BY <1>a DEF TypeStreams
  <1>3. TypeClients'
    BY <1>a DEF TypeClients
  <1>4. InOrder'
    BY DEF MarkRunning, At, logVars, hubVars, subVars, tuiVars, InOrder,
        TypeRuns, Runs
  <1>5. Handled'
    BY DEF MarkRunning, At, logVars, hubVars, subVars, tuiVars, Handled,
        TypeRuns, Kind, Terminal, Runs
  <1>6. StatusTold'
    BY DEF MarkRunning, At, logVars, hubVars, subVars, tuiVars, StatusTold,
        Silent, Outcome, TypeRuns, Kind, Terminal, Handled, InOrder, Runs,
        Statuses
  <1>7. ASSUME NEW g \in Streams
        PROVE  /\ Kept(g)' /\ Shown(g)' /\ Complete(g)' /\ Sorted(g)'
               /\ EndTold(g)' /\ HistoryTold(g)'
    <2>1. Kept(g)' /\ Shown(g)'
      BY <1>a DEF Kept, Shown, Seen
    <2>2. Complete(g)' /\ Sorted(g)'
      BY <1>a, <1>b, <1>c, CompleteKept, SortedKept DEF Follows
    <2>3. EndTold(g)'
      BY <1>a, <1>b, EndToldKept
    <2>4. HistoryTold(g)'
      BY <1>a, <1>b, <1>d, <1>e, HistoryToldKept
    <2> QED
      BY <2>1, <2>2, <2>3, <2>4
  <1> QED
    BY <1>1, <1>2, <1>3, <1>4, <1>5, <1>6, <1>7

LEMMA AddEventStep ==
  ASSUME StreamsInv, NEW r \in Runs, AddEvent(r)
  PROVE  StreamsInv'
  <1> USE StreamAssumption DEF StreamsInv
  <1>n. PICK n \in Nat : n = Len(log) + 1
    BY DEF TypeRuns
  <1>p. PICK e \in {"progress"} \cup Endings :
          log' = Append(log, [run |-> r, kind |-> e])
    BY DEF AddEvent
  <1>a. LogGrows /\ Len(log') = n /\ log'[n] = [run |-> r, kind |-> e]
    BY <1>n, <1>p, AppendGrows
  <1>b. /\ UNCHANGED <<queue, spc, since, snap, todo, got, cursor, unpub>>
        /\ UNCHANGED <<subs, opens, gone, hooked, run, status, walk>>
        /\ wpc[r] = "read" /\ n <= MaxEvents
        /\ cur' = [cur EXCEPT ![r] = n] /\ wpc' = [wpc EXCEPT ![r] = "added"]
    BY <1>n DEF AddEvent, At, rowVars, hubVars, subVars, tuiVars, TypeRuns
  <1>c. e \in Kinds /\ Len(log) \in Nat /\ n \in Nat
    BY DEF Kinds, Terminal, TypeRuns
  <1>d. \A k \in Runs : Silent(k) => Silent(k)'
    BY <1>a, <1>b, SilentKept DEF TypeRuns
  <1>e. \A k : k # n /\ Pending(k) => Pending(k)'
    BY <1>b DEF Pending, TypeRuns
  <1>f. Pending(n)'
    BY <1>b DEF Pending, TypeRuns
  <1>g. Len(log) <= Len(log') /\ n = Len(log) + 1
    BY <1>a, <1>n DEF LogGrows
  <1>z. run' \in Runs /\ run <= run'
    BY <1>b DEF TypeRuns, Runs
  <1>1. TypeRuns'
    <2>1. log' \in Seq([run : Runs, kind : Kinds])
      BY <1>p, <1>c DEF TypeRuns
    <2> QED
      BY <2>1, <1>a, <1>b, <1>c DEF TypeRuns
  <1>2. TypeStreams'
    BY <1>b DEF TypeStreams
  <1>3. TypeClients'
    BY <1>b DEF TypeClients
  <1>4. InOrder'
    BY <1>b DEF InOrder, TypeRuns, Runs
  <1>5. Handled'
    <2> SUFFICES ASSUME NEW s \in Runs
                 PROVE  /\ cur'[s] <= Len(log')
                        /\ wpc'[s] \in {"added", "stored", "publish"} =>
                             cur'[s] # 0
                        /\ cur'[s] # 0 => log'[cur'[s]].run = s
                        /\ wpc'[s] \in {"unborn", "launch", "read", "mark"} =>
                             cur'[s] = 0 \/ Kind(s)' \notin Terminal
      BY DEF Handled
    <2>1. CASE s = r
      BY <2>1, <1>a, <1>b, <1>c, <1>g DEF TypeRuns
    <2>2. CASE s # r
      <3>1. cur'[s] = cur[s] /\ wpc'[s] = wpc[s] /\ cur[s] \in Nat
        BY <2>2, <1>b DEF TypeRuns
      <3>2. cur[s] <= Len(log) /\ cur'[s] <= Len(log')
        BY <3>1, <1>c, <1>a, <1>g DEF Handled
      <3>3. cur[s] # 0 => log'[cur[s]] = log[cur[s]]
        BY <3>1, <3>2, <1>a DEF LogGrows
      <3> QED
        BY <3>1, <3>2, <3>3 DEF Handled, Kind
    <2> QED
      BY <2>1, <2>2
  <1>6. StatusTold'
    <2>1. \A i \in 1..Len(log) : Outcome(i, run) =>
            i \in 1..Len(log') /\ Outcome(i, run)'
      BY <1>a, <1>b, <1>c, <1>g DEF Outcome, LogGrows
    <2> QED
      BY <1>b, <1>d, <2>1 DEF StatusTold, TypeRuns
  <1>7. ASSUME NEW g \in Streams
        PROVE  /\ Kept(g)' /\ Shown(g)' /\ Complete(g)' /\ Sorted(g)'
               /\ EndTold(g)' /\ HistoryTold(g)'
    <2>1. Seen(g)' = Seen(g)
      BY <1>b DEF Seen
    <2>2. Kept(g)'
      <3>1. Seen(g) \subseteq 1..Len(log')
        BY <1>c, <1>a, <1>g DEF Kept
      <3>2. \A p \in 1..Len(queue[g]) : queue[g][p] <= Len(log')
        <4> SUFFICES ASSUME NEW p \in 1..Len(queue[g])
                     PROVE  queue[g][p] <= Len(log')
          OBVIOUS
        <4>1. queue[g][p] \in Nat /\ queue[g][p] <= Len(log)
          BY DEF Kept, TypeStreams, Ids, End
        <4> QED
          BY <4>1, <1>c, <1>a, <1>g
      <3> QED
        BY <1>b, <2>1, <3>1, <3>2 DEF Kept
    <2>3. Shown(g)'
      BY <1>b DEF Shown, Seen
    <2>4. Complete(g)'
      <3> SUFFICES ASSUME Follows(g), NEW k \in 1..n
                   PROVE  k \in Seen(g) \/ Among(queue[g], k, Len(queue[g]))
                            \/ Pending(k)'
        BY <1>a, <1>b, <2>1 DEF Complete, Follows, Among
      <3>1. CASE k = n
        BY <3>1, <1>f
      <3>2. CASE k # n
        BY <3>2, <1>c, <1>e, <1>g DEF Complete
      <3> QED
        BY <3>1, <3>2
    <2>5. Sorted(g)'
      BY <1>b, <2>1, SortedKept DEF Follows
    <2>6. EndTold(g)'
      BY <1>a, <1>b, EndToldKept
    <2>7. HistoryTold(g)'
      BY <1>a, <1>b, <1>d, <1>z, <2>1, HistoryToldKept
    <2> QED
      BY <2>2, <2>3, <2>4, <2>5, <2>6, <2>7
  <1> QED
    BY <1>1, <1>2, <1>3, <1>4, <1>5, <1>6, <1>7

LEMMA StoreStatusStep ==
  ASSUME StreamsInv, NEW r \in Runs, StoreStatus(r)
  PROVE  StreamsInv'
  <1> USE StreamAssumption DEF StreamsInv
  <1>a. UNCHANGED <<queue, spc, since, snap, todo, got, cursor, unpub, log>>
        /\ UNCHANGED <<subs, opens, gone>>
    BY DEF StoreStatus, At, logVars, hubVars, subVars, tuiVars
  <1>b. LogGrows /\ \A g \in Streams : \A k : k \in Seen(g) <=> k \in Seen(g)'
    BY <1>a DEF LogGrows, Seen, TypeRuns
  <1>c. \A g \in Streams : \A k : Follows(g) /\ Pending(k) => Pending(k)'
    BY DEF StoreStatus, At, logVars, hubVars, subVars, tuiVars, Pending,
        TypeRuns
  <1>d. \A n \in Runs : Silent(n) => Silent(n)'
    BY <1>b, SilentKept DEF StoreStatus, At, logVars, hubVars, subVars,
        tuiVars, TypeRuns
  <1>e. run' \in Runs /\ run <= run'
    BY DEF StoreStatus, At, logVars, hubVars, subVars, tuiVars, TypeRuns, Runs
  <1>1. TypeRuns'
    BY DEF StoreStatus, At, logVars, hubVars, subVars, tuiVars, TypeRuns,
        Statuses, Kinds, Terminal, Runs
  <1>2. TypeStreams'
    BY <1>a DEF TypeStreams
  <1>3. TypeClients'
    BY <1>a DEF TypeClients
  <1>4. InOrder'
    BY DEF StoreStatus, At, logVars, hubVars, subVars, tuiVars, InOrder,
        TypeRuns, Runs
  <1>5. Handled'
    BY DEF StoreStatus, At, logVars, hubVars, subVars, tuiVars, Handled,
        TypeRuns, Kind, Terminal, Runs
  <1>6. StatusTold'
    BY DEF StoreStatus, At, logVars, hubVars, subVars, tuiVars, StatusTold,
        Silent, Outcome, TypeRuns, Kind, Terminal, Handled, InOrder, Runs,
        Statuses
  <1>7. ASSUME NEW g \in Streams
        PROVE  /\ Kept(g)' /\ Shown(g)' /\ Complete(g)' /\ Sorted(g)'
               /\ EndTold(g)' /\ HistoryTold(g)'
    <2>1. Kept(g)' /\ Shown(g)'
      BY <1>a DEF Kept, Shown, Seen
    <2>2. Complete(g)' /\ Sorted(g)'
      BY <1>a, <1>b, <1>c, CompleteKept, SortedKept DEF Follows
    <2>3. EndTold(g)'
      BY <1>a, <1>b, EndToldKept
    <2>4. HistoryTold(g)'
      BY <1>a, <1>b, <1>d, <1>e, HistoryToldKept
    <2> QED
      BY <2>1, <2>2, <2>3, <2>4
  <1> QED
    BY <1>1, <1>2, <1>3, <1>4, <1>5, <1>6, <1>7

LEMMA CaptureStep ==
  ASSUME StreamsInv, NEW r \in Runs, Capture(r)
  PROVE  StreamsInv'
  <1> USE StreamAssumption DEF StreamsInv
  <1>a. UNCHANGED <<queue, spc, since, snap, todo, got, cursor, unpub, log>>
        /\ UNCHANGED <<subs, opens, gone>>
    BY DEF Capture, At, NextUp, rowVars, logVars, subVars, tuiVars
  <1>b. LogGrows /\ \A g \in Streams : \A k : k \in Seen(g) <=> k \in Seen(g)'
    BY <1>a DEF LogGrows, Seen, TypeRuns
  <1>c. \A g \in Streams : \A k : Follows(g) /\ Pending(k) => Pending(k)'
    <2> SUFFICES ASSUME NEW g \in Streams, NEW k, Follows(g), Pending(k)
                 PROVE  Pending(k)'
      OBVIOUS
    <2>1. subs # {}
      BY DEF Follows, Kept, TypeStreams
    <2>2. PICK s \in Runs : /\ cur[s] = k
                           /\ \/ wpc[s] \in {"added", "stored"}
                              \/ wpc[s] = "publish" /\ hooked[s]
      BY DEF Pending
    <2>3. /\ wpc' = [wpc EXCEPT ![r] = "publish"] /\ cur' = cur
          /\ hooked' = [hooked EXCEPT ![r] = TRUE]
      BY <2>1 DEF Capture, At
    <2>4. CASE s = r
      BY <2>2, <2>3, <2>4 DEF Pending, TypeRuns
    <2>5. CASE s # r
      BY <2>2, <2>3, <2>5 DEF Pending, TypeRuns
    <2> QED
      BY <2>4, <2>5
  <1>d. \A n \in Runs : Silent(n) => Silent(n)'
    BY <1>b, SilentKept DEF Capture, At, NextUp, rowVars, logVars, subVars,
        tuiVars, TypeRuns
  <1>e. run' \in Runs /\ run <= run'
    BY DEF Capture, At, NextUp, rowVars, logVars, subVars, tuiVars, TypeRuns,
        Runs
  <1>1. TypeRuns'
    BY DEF Capture, At, NextUp, rowVars, logVars, subVars, tuiVars, TypeRuns,
        Statuses, Kinds, Terminal, Runs
  <1>2. TypeStreams'
    BY <1>a DEF TypeStreams
  <1>3. TypeClients'
    BY <1>a DEF TypeClients
  <1>4. InOrder'
    BY DEF Capture, At, NextUp, rowVars, logVars, subVars, tuiVars, InOrder,
        TypeRuns, Runs
  <1>5. Handled'
    BY DEF Capture, At, NextUp, rowVars, logVars, subVars, tuiVars, Handled,
        TypeRuns, Kind, Terminal, Runs
  <1>6. StatusTold'
    BY <1>a, <1>d, <1>e DEF StatusTold, Outcome, Capture, rowVars, TypeRuns
  <1>7. ASSUME NEW g \in Streams
        PROVE  /\ Kept(g)' /\ Shown(g)' /\ Complete(g)' /\ Sorted(g)'
               /\ EndTold(g)' /\ HistoryTold(g)'
    <2>1. Kept(g)' /\ Shown(g)'
      BY <1>a DEF Kept, Shown, Seen
    <2>2. Complete(g)' /\ Sorted(g)'
      BY <1>a, <1>b, <1>c, CompleteKept, SortedKept DEF Follows
    <2>3. EndTold(g)'
      BY <1>a, <1>b, EndToldKept
    <2>4. HistoryTold(g)'
      BY <1>a, <1>b, <1>d, <1>e, HistoryToldKept
    <2> QED
      BY <2>1, <2>2, <2>3, <2>4
  <1> QED
    BY <1>1, <1>2, <1>3, <1>4, <1>5, <1>6, <1>7

LEMMA PublishStep ==
  ASSUME StreamsInv, NEW r \in Runs, Publish(r)
  PROVE  StreamsInv'
  <1> USE StreamAssumption DEF StreamsInv
  <1>a. /\ UNCHANGED <<spc, since, snap, todo, got, cursor, unpub, log, status>>
        /\ UNCHANGED <<subs, opens, gone, run, cur, walk>>
        /\ hooked' = [hooked EXCEPT ![r] = FALSE]
        /\ wpc[r] = "publish" /\ wpc' = [wpc EXCEPT ![r] = NextUp(r)]
    BY DEF Publish, Push, At, rowVars, logVars, subVars, tuiVars
  <1>b. LogGrows /\ \A g \in Streams : \A k : k \in Seen(g) <=> k \in Seen(g)'
    BY <1>a DEF LogGrows, Seen, TypeRuns
  <1>c. r = run
    BY <1>a DEF InOrder, TypeRuns, Runs
  <1>d. /\ cur[r] \in 1..Len(log) /\ log[cur[r]].run = r
        /\ Len(log) \in Nat /\ Len(log) <= MaxEvents
    BY <1>a DEF Handled, TypeRuns
  <1>e. \A k : Pending(k) => k = cur[r] /\ hooked[r]
    BY <1>a, <1>c DEF Pending, InOrder, TypeRuns, Runs
  <1>f. \A n \in Runs : Silent(n) => Silent(n)'
    BY <1>a, <1>b, SilentKept DEF TypeRuns
  <1>g. ASSUME NEW g \in Streams
        PROVE  queue'[g] = IF g \in Audience(r) THEN queue[g] \o WithEnd(r)
                                                ELSE queue[g]
    BY DEF Publish, Push
  <1>h. WithEnd(r) \in Seq(Ids \cup {End})
    <2>1. cur[r] \in Ids
      BY <1>d DEF Ids
    <2>2. CASE Kind(r) \in Terminal
      BY <2>1, <2>2 DEF WithEnd
    <2>3. CASE Kind(r) \notin Terminal
      BY <2>1, <2>3 DEF WithEnd
    <2> QED
      BY <2>2, <2>3
  <1>z. run' \in Runs /\ run <= run'
    BY <1>a DEF TypeRuns, Runs
  <1>1. TypeRuns'
    BY <1>a DEF TypeRuns, NextUp
  <1>2. TypeStreams'
    <2>1. \A g \in Streams : queue[g] \o WithEnd(r) \in Seq(Ids \cup {End})
      BY <1>h DEF TypeStreams
    <2>2. queue' \in [Streams -> Seq(Ids \cup {End})]
      BY <2>1 DEF Publish, Push, TypeStreams
    <2> QED
      BY <1>a, <2>2 DEF TypeStreams
  <1>3. TypeClients'
    BY <1>a DEF TypeClients
  <1>4. InOrder'
    BY <1>a, <1>c DEF InOrder, TypeRuns, Runs
  <1>5. Handled'
    BY <1>a DEF Handled, TypeRuns, Kind, NextUp
  <1>6. StatusTold'
    BY <1>a, <1>f DEF StatusTold, Outcome, TypeRuns
  <1>7. ASSUME NEW g \in Streams
        PROVE  /\ Kept(g)' /\ Shown(g)' /\ Complete(g)' /\ Sorted(g)'
               /\ EndTold(g)' /\ HistoryTold(g)'
    <2>s. Shown(g)'
      BY <1>a DEF Shown, Seen
    <2>h. HistoryTold(g)'
      BY <1>a, <1>b, <1>f, <1>z, HistoryToldKept
    <2>1. Shown(g)' /\ HistoryTold(g)'
      BY <2>s, <2>h
    <2>2. CASE g \notin Audience(r)
      <3>1. queue'[g] = queue[g]
        BY <2>2, <1>g
      <3>2. Follows(g) => \A k : ~Pending(k)
        BY <2>2, <1>e DEF Audience, Follows, Kept
      <3>3. Kept(g)'
        BY <3>1, <1>a DEF Kept, Seen
      <3>4. Complete(g)' /\ Sorted(g)'
        BY <3>1, <3>2, <1>a, <1>b, CompleteKept, SortedKept DEF Follows
      <3>5. EndTold(g)'
        BY <3>1, <1>a, <1>b, EndToldKept
      <3> QED
        BY <2>1, <3>3, <3>4, <3>5
    <2>3. CASE g \in Audience(r)
      <3> DEFINE q == queue[g]
                 n == Len(q) + 1
      <3>1. q \in Seq(Ids \cup {End}) /\ queue'[g] = q \o WithEnd(r)
        BY <2>3, <1>g DEF TypeStreams
      <3>2. /\ \A p \in 1..Len(q) : queue'[g][p] = q[p]
            /\ n \in 1..Len(queue'[g]) /\ queue'[g][n] = cur[r]
            /\ \A p \in 1..Len(queue'[g]) :
                  \/ p \in 1..Len(q) \/ p = n
                  \/ p = n + 1 /\ queue'[g][p] = End /\ Kind(r) \in Terminal
        <4>1. CASE Kind(r) \in Terminal
          <5>1. queue'[g] = q \o <<cur[r], End>> /\ cur[r] \in Ids
            BY <3>1, <4>1, <1>d DEF WithEnd, Ids
          <5> QED
            BY <3>1, <4>1, <5>1
        <4>2. CASE Kind(r) \notin Terminal
          <5>1. queue'[g] = q \o <<cur[r]>> /\ cur[r] \in Ids
            BY <3>1, <4>2, <1>d DEF WithEnd, Ids
          <5> QED
            BY <3>1, <5>1
        <4> QED
          BY <4>1, <4>2
      <3>n. Len(q) \in Nat /\ n \in Nat /\ n # 0 /\ Len(queue'[g]) \in Nat
        BY <3>1, <1>h
      <3> HIDE DEF n
      <3>3. g \in subs /\ spc[g] # "off" /\ since[g] <= run
        BY <2>3 DEF Audience, Kept, HistoryTold
      <3>4. \A k : \A p \in 1..Len(q) : Among(queue[g], k, p) => Among(queue'[g], k, p)
        BY <3>1, <3>2 DEF Among
      <3>5. \A k, p : p \in Nat /\ p >= n =>
              (Among(queue[g], k, Len(q)) => Among(queue'[g], k, p))
        BY <3>2, <3>n DEF Among, n
      <3>6. \A p : p \in Nat /\ p >= n => Among(queue'[g], cur[r], p)
        BY <3>2, <3>n DEF Among, n
      <3>7. Kept(g)'
        <4>2. \A p \in 1..Len(queue'[g]) : queue'[g][p] <= Len(log)
          BY <1>d, <3>2, <3>n DEF Kept, End
        <4>3. Seen(g)' = Seen(g)
          BY <1>a DEF Seen
        <4> QED
          BY <1>a, <3>3, <4>2, <4>3 DEF Kept
      <3>8. Complete(g)'
        <4> SUFFICES ASSUME Follows(g), NEW k \in 1..Len(log)
                     PROVE  k \in Seen(g)' \/ Among(queue'[g], k, Len(queue'[g]))
          BY <1>a DEF Complete, Follows
        <4>1. Len(queue'[g]) >= n
          BY <3>2, <3>n
        <4> QED
          BY <4>1, <3>n, <3>5, <3>6, <1>b, <1>e DEF Complete
      <3>9. Sorted(g)'
        <4> SUFFICES ASSUME Follows(g), NEW p \in 1..Len(queue'[g]),
                            NEW k \in 1..queue'[g][p]
                     PROVE  k \in Seen(g)' \/ Among(queue'[g], k, p)
          BY <1>a DEF Sorted, Follows
        <4>1. CASE p \in 1..Len(q)
          BY <4>1, <3>2, <3>4, <1>b DEF Sorted
        <4>2. CASE p = n
          <5>1. k \in 1..Len(log)
            BY <4>2, <3>2, <1>d
          <5> QED
            BY <5>1, <4>2, <3>n, <3>5, <3>6, <1>b, <1>e DEF Complete
        <4>3. CASE p = n + 1 /\ queue'[g][p] = End
          BY <4>3 DEF End
        <4> QED
          BY <4>1, <4>2, <4>3, <3>2
      <3>10. EndTold(g)'
        <4>1. ASSUME NEW p \in 1..Len(queue'[g]), queue'[g][p] = End
              PROVE  \E i \in 1..Len(log) : /\ i \in got[g] \/ Among(queue'[g], i, p)
                                            /\ Outcome(i, since[g])
          <5>1. CASE p \in 1..Len(q)
            BY <4>1, <5>1, <3>2, <3>4 DEF EndTold
          <5>2. CASE p = n
            BY <4>1, <5>2, <3>2, <1>d DEF End
          <5>3. CASE p = n + 1 /\ Kind(r) \in Terminal
            <6>1. Among(queue'[g], cur[r], p)
              BY <5>3, <3>6, <3>n
            <6>2. Outcome(cur[r], since[g])
              BY <5>3, <3>3, <1>c, <1>d DEF Outcome, Kind
            <6> QED
              BY <6>1, <6>2, <1>d
          <5> QED
            BY <5>1, <5>2, <5>3, <3>2
        <4>2. spc'[g] = "ending" =>
                \E i \in 1..Len(log) : i \in got[g] /\ Outcome(i, since[g])
          BY <1>a DEF EndTold
        <4> QED
          BY <4>1, <4>2, <1>a DEF EndTold, Outcome
      <3> QED
        BY <2>1, <3>7, <3>8, <3>9, <3>10
    <2> QED
      BY <2>2, <2>3
  <1> QED
    BY <1>1, <1>2, <1>3, <1>4, <1>5, <1>6, <1>7

LEMMA ExitStep ==
  ASSUME StreamsInv, NEW r \in Runs, Exit(r)
  PROVE  StreamsInv'
  <1> USE StreamAssumption DEF StreamsInv
  <1>a. UNCHANGED <<queue, spc, since, snap, todo, got, cursor, unpub, log>>
        /\ UNCHANGED <<subs, opens, gone>>
    BY DEF Exit, At, rowVars, logVars, hubVars, subVars, tuiVars
  <1>b. LogGrows /\ \A g \in Streams : \A k : k \in Seen(g) <=> k \in Seen(g)'
    BY <1>a DEF LogGrows, Seen, TypeRuns
  <1>c. \A g \in Streams : \A k : Follows(g) /\ Pending(k) => Pending(k)'
    BY DEF Exit, At, rowVars, logVars, hubVars, subVars, tuiVars, Pending,
        TypeRuns
  <1>d. \A n \in Runs : Silent(n) => Silent(n)'
    BY <1>b, SilentKept DEF Exit, At, rowVars, logVars, hubVars, subVars,
        tuiVars, TypeRuns
  <1>e. run' \in Runs /\ run <= run'
    BY DEF Exit, At, rowVars, logVars, hubVars, subVars, tuiVars, TypeRuns,
        Runs
  <1>1. TypeRuns'
    BY DEF Exit, At, rowVars, logVars, hubVars, subVars, tuiVars, TypeRuns,
        Statuses, Kinds, Terminal, Runs
  <1>2. TypeStreams'
    BY <1>a DEF TypeStreams
  <1>3. TypeClients'
    BY <1>a DEF TypeClients
  <1>4. InOrder'
    BY DEF Exit, At, rowVars, logVars, hubVars, subVars, tuiVars, InOrder,
        TypeRuns, Runs
  <1>5. Handled'
    BY DEF Exit, At, rowVars, logVars, hubVars, subVars, tuiVars, Handled,
        TypeRuns, Kind, Terminal, Runs
  <1>6. StatusTold'
    BY DEF Exit, At, rowVars, logVars, hubVars, subVars, tuiVars, StatusTold,
        Silent, Outcome, TypeRuns, Kind, Terminal, Handled, InOrder, Runs,
        Statuses
  <1>7. ASSUME NEW g \in Streams
        PROVE  /\ Kept(g)' /\ Shown(g)' /\ Complete(g)' /\ Sorted(g)'
               /\ EndTold(g)' /\ HistoryTold(g)'
    <2>1. Kept(g)' /\ Shown(g)'
      BY <1>a DEF Kept, Shown, Seen
    <2>2. Complete(g)' /\ Sorted(g)'
      BY <1>a, <1>b, <1>c, CompleteKept, SortedKept DEF Follows
    <2>3. EndTold(g)'
      BY <1>a, <1>b, EndToldKept
    <2>4. HistoryTold(g)'
      BY <1>a, <1>b, <1>d, <1>e, HistoryToldKept
    <2> QED
      BY <2>1, <2>2, <2>3, <2>4
  <1> QED
    BY <1>1, <1>2, <1>3, <1>4, <1>5, <1>6, <1>7

LEMMA MarkFailedStep ==
  ASSUME StreamsInv, NEW r \in Runs, MarkFailed(r)
  PROVE  StreamsInv'
  <1> USE StreamAssumption DEF StreamsInv
  <1>a. UNCHANGED <<queue, spc, since, snap, todo, got, cursor, unpub, log>>
        /\ UNCHANGED <<subs, opens, gone>>
    BY DEF MarkFailed, At, logVars, hubVars, subVars, tuiVars
  <1>b. LogGrows /\ \A g \in Streams : \A k : k \in Seen(g) <=> k \in Seen(g)'
    BY <1>a DEF LogGrows, Seen, TypeRuns
  <1>c. \A g \in Streams : \A k : Follows(g) /\ Pending(k) => Pending(k)'
    BY DEF MarkFailed, At, logVars, hubVars, subVars, tuiVars, Pending,
        TypeRuns
  <1>d. \A n \in Runs : Silent(n) => Silent(n)'
    BY <1>b, SilentKept DEF MarkFailed, At, logVars, hubVars, subVars, tuiVars,
        TypeRuns
  <1>e. run' \in Runs /\ run <= run'
    BY DEF MarkFailed, At, logVars, hubVars, subVars, tuiVars, TypeRuns, Runs
  <1>1. TypeRuns'
    BY DEF MarkFailed, At, logVars, hubVars, subVars, tuiVars, TypeRuns,
        Statuses, Kinds, Terminal, Runs
  <1>2. TypeStreams'
    BY <1>a DEF TypeStreams
  <1>3. TypeClients'
    BY <1>a DEF TypeClients
  <1>4. InOrder'
    BY DEF MarkFailed, At, logVars, hubVars, subVars, tuiVars, InOrder,
        TypeRuns, Runs
  <1>5. Handled'
    BY DEF MarkFailed, At, logVars, hubVars, subVars, tuiVars, Handled,
        TypeRuns, Kind, Terminal, Runs
  <1>6. StatusTold'
    BY DEF MarkFailed, At, logVars, hubVars, subVars, tuiVars, StatusTold,
        Silent, Outcome, TypeRuns, Kind, Terminal, Handled, InOrder, Runs,
        Statuses
  <1>7. ASSUME NEW g \in Streams
        PROVE  /\ Kept(g)' /\ Shown(g)' /\ Complete(g)' /\ Sorted(g)'
               /\ EndTold(g)' /\ HistoryTold(g)'
    <2>1. Kept(g)' /\ Shown(g)'
      BY <1>a DEF Kept, Shown, Seen
    <2>2. Complete(g)' /\ Sorted(g)'
      BY <1>a, <1>b, <1>c, CompleteKept, SortedKept DEF Follows
    <2>3. EndTold(g)'
      BY <1>a, <1>b, EndToldKept
    <2>4. HistoryTold(g)'
      BY <1>a, <1>b, <1>d, <1>e, HistoryToldKept
    <2> QED
      BY <2>1, <2>2, <2>3, <2>4
  <1> QED
    BY <1>1, <1>2, <1>3, <1>4, <1>5, <1>6, <1>7

LEMMA CascadeCheckStep ==
  ASSUME StreamsInv, CascadeCheck
  PROVE  StreamsInv'
  <1> USE StreamAssumption DEF StreamsInv
  <1>a. UNCHANGED <<queue, spc, since, snap, todo, got, cursor, unpub, log>>
        /\ UNCHANGED <<subs, opens, gone>>
    BY DEF CascadeCheck, logVars, runVars, hubVars, subVars, tuiVars
  <1>b. LogGrows /\ \A g \in Streams : \A k : k \in Seen(g) <=> k \in Seen(g)'
    BY <1>a DEF LogGrows, Seen, TypeRuns
  <1>c. \A g \in Streams : \A k : Follows(g) /\ Pending(k) => Pending(k)'
    BY DEF CascadeCheck, logVars, runVars, hubVars, subVars, tuiVars, Pending,
        TypeRuns
  <1>d. \A n \in Runs : Silent(n) => Silent(n)'
    BY <1>b, SilentKept DEF CascadeCheck, logVars, runVars, hubVars, subVars,
        tuiVars, TypeRuns
  <1>e. run' \in Runs /\ run <= run'
    BY DEF CascadeCheck, logVars, runVars, hubVars, subVars, tuiVars, TypeRuns,
        Runs
  <1>1. TypeRuns'
    BY DEF CascadeCheck, logVars, runVars, hubVars, subVars, tuiVars, TypeRuns,
        Statuses, Kinds, Terminal, Runs
  <1>2. TypeStreams'
    BY <1>a DEF TypeStreams
  <1>3. TypeClients'
    BY <1>a DEF TypeClients
  <1>4. InOrder'
    BY DEF CascadeCheck, logVars, runVars, hubVars, subVars, tuiVars, InOrder,
        TypeRuns, Runs
  <1>5. Handled'
    BY DEF CascadeCheck, logVars, runVars, hubVars, subVars, tuiVars, Handled,
        TypeRuns, Kind, Terminal, Runs
  <1>6. StatusTold'
    BY DEF CascadeCheck, logVars, runVars, hubVars, subVars, tuiVars,
        StatusTold, Silent, Outcome, TypeRuns, Kind, Terminal, Handled, InOrder,
        Runs, Statuses
  <1>7. ASSUME NEW g \in Streams
        PROVE  /\ Kept(g)' /\ Shown(g)' /\ Complete(g)' /\ Sorted(g)'
               /\ EndTold(g)' /\ HistoryTold(g)'
    <2>1. Kept(g)' /\ Shown(g)'
      BY <1>a DEF Kept, Shown, Seen
    <2>2. Complete(g)' /\ Sorted(g)'
      BY <1>a, <1>b, <1>c, CompleteKept, SortedKept DEF Follows
    <2>3. EndTold(g)'
      BY <1>a, <1>b, EndToldKept
    <2>4. HistoryTold(g)'
      BY <1>a, <1>b, <1>d, <1>e, HistoryToldKept
    <2> QED
      BY <2>1, <2>2, <2>3, <2>4
  <1> QED
    BY <1>1, <1>2, <1>3, <1>4, <1>5, <1>6, <1>7

LEMMA CascadeWriteStep ==
  ASSUME StreamsInv, CascadeWrite
  PROVE  StreamsInv'
  <1> USE StreamAssumption DEF StreamsInv
  <1>a. UNCHANGED <<queue, spc, since, snap, todo, got, cursor, unpub, log>>
        /\ UNCHANGED <<subs, opens, gone>>
    BY DEF CascadeWrite, logVars, runVars, hubVars, subVars, tuiVars
  <1>b. LogGrows /\ \A g \in Streams : \A k : k \in Seen(g) <=> k \in Seen(g)'
    BY <1>a DEF LogGrows, Seen, TypeRuns
  <1>c. \A g \in Streams : \A k : Follows(g) /\ Pending(k) => Pending(k)'
    BY DEF CascadeWrite, logVars, runVars, hubVars, subVars, tuiVars, Pending,
        TypeRuns
  <1>d. \A n \in Runs : Silent(n) => Silent(n)'
    BY <1>b, SilentKept DEF CascadeWrite, logVars, runVars, hubVars, subVars,
        tuiVars, TypeRuns
  <1>e. run' \in Runs /\ run <= run'
    BY DEF CascadeWrite, logVars, runVars, hubVars, subVars, tuiVars, TypeRuns,
        Runs
  <1>1. TypeRuns'
    BY DEF CascadeWrite, logVars, runVars, hubVars, subVars, tuiVars, TypeRuns,
        Statuses, Kinds, Terminal, Runs
  <1>2. TypeStreams'
    BY <1>a DEF TypeStreams
  <1>3. TypeClients'
    BY <1>a DEF TypeClients
  <1>4. InOrder'
    BY DEF CascadeWrite, logVars, runVars, hubVars, subVars, tuiVars, InOrder,
        TypeRuns, Runs
  <1>5. Handled'
    BY DEF CascadeWrite, logVars, runVars, hubVars, subVars, tuiVars, Handled,
        TypeRuns, Kind, Terminal, Runs
  <1>6. StatusTold'
    BY DEF CascadeWrite, logVars, runVars, hubVars, subVars, tuiVars,
        StatusTold, Silent, Outcome, TypeRuns, Kind, Terminal, Handled, InOrder,
        Runs, Statuses
  <1>7. ASSUME NEW g \in Streams
        PROVE  /\ Kept(g)' /\ Shown(g)' /\ Complete(g)' /\ Sorted(g)'
               /\ EndTold(g)' /\ HistoryTold(g)'
    <2>1. Kept(g)' /\ Shown(g)'
      BY <1>a DEF Kept, Shown, Seen
    <2>2. Complete(g)' /\ Sorted(g)'
      BY <1>a, <1>b, <1>c, CompleteKept, SortedKept DEF Follows
    <2>3. EndTold(g)'
      BY <1>a, <1>b, EndToldKept
    <2>4. HistoryTold(g)'
      BY <1>a, <1>b, <1>d, <1>e, HistoryToldKept
    <2> QED
      BY <2>1, <2>2, <2>3, <2>4
  <1> QED
    BY <1>1, <1>2, <1>3, <1>4, <1>5, <1>6, <1>7

LEMMA CascadeLogStep ==
  ASSUME StreamsInv, CascadeLog
  PROVE  StreamsInv'
  <1> USE StreamAssumption DEF StreamsInv
  <1>n. PICK n \in Nat : n = Len(log) + 1
    BY DEF TypeRuns
  <1>a. LogGrows /\ Len(log') = n /\ log'[n] = [run |-> run, kind |-> "cancelled"]
    BY <1>n, AppendGrows DEF CascadeLog
  <1>b. /\ UNCHANGED <<queue, spc, since, snap, todo, got, cursor>>
        /\ UNCHANGED <<subs, opens, gone, hooked, run, status, wpc, cur>>
        /\ n <= MaxEvents /\ unpub' = unpub \cup {n} /\ walk' = "done"
    BY <1>n DEF CascadeLog, runVars, hubVars, subVars, tuiVars, TypeRuns
  <1>c. Len(log) \in Nat /\ n \in Nat
    BY DEF TypeRuns
  <1>g. Len(log) <= Len(log') /\ n = Len(log) + 1
    BY <1>a, <1>n DEF LogGrows
  <1>h. n \in 1..Len(log')
    BY <1>a, <1>c, <1>g
  <1>d. \A k \in Runs : k <= run => Outcome(n, k)'
    BY <1>a, <1>b DEF Outcome, Terminal, TypeRuns, Runs
  <1>z. run' \in Runs /\ run <= run'
    BY <1>b DEF TypeRuns, Runs
  <1>1. TypeRuns'
    <2>1. log' \in Seq([run : Runs, kind : Kinds])
      BY DEF CascadeLog, TypeRuns, Kinds, Terminal
    <2> QED
      BY <2>1, <1>a, <1>b, <1>c DEF TypeRuns
  <1>2. TypeStreams'
    BY <1>b DEF TypeStreams
  <1>3. TypeClients'
    <2>1. n \in Ids
      BY <1>b, <1>c, <1>g DEF Ids
    <2> QED
      BY <1>b, <2>1 DEF TypeClients
  <1>4. InOrder'
    BY <1>b DEF InOrder
  <1>5. Handled'
    <2> SUFFICES ASSUME NEW s \in Runs
                 PROVE  /\ cur[s] <= Len(log')
                        /\ cur[s] # 0 => log'[cur[s]] = log[cur[s]]
      BY <1>b DEF Handled, Kind
    <2>1. cur[s] \in Nat /\ cur[s] <= Len(log)
      BY DEF TypeRuns, Handled
    <2> QED
      BY <2>1, <1>a, <1>c, <1>g DEF LogGrows
  <1>6. StatusTold'
    BY <1>b, <1>d, <1>h DEF StatusTold, TypeRuns, Runs
  <1>7. ASSUME NEW g \in Streams
        PROVE  /\ Kept(g)' /\ Shown(g)' /\ Complete(g)' /\ Sorted(g)'
               /\ EndTold(g)' /\ HistoryTold(g)'
    <2>1. Seen(g)' = Seen(g) \cup {n}
      BY <1>b DEF Seen
    <2>2. Kept(g)'
      <3>1. Seen(g)' \subseteq 1..Len(log')
        BY <2>1, <1>c, <1>a, <1>g DEF Kept
      <3>2. \A p \in 1..Len(queue[g]) : queue[g][p] <= Len(log')
        BY <1>c, <1>a, <1>g DEF Kept, TypeStreams, Ids, End
      <3> QED
        BY <1>b, <3>1, <3>2 DEF Kept
    <2>3. Shown(g)'
      BY <1>b DEF Shown, Seen
    <2>4. Complete(g)'
      <3> SUFFICES ASSUME Follows(g), NEW k \in 1..n
                   PROVE  k \in Seen(g)' \/ Among(queue[g], k, Len(queue[g]))
                            \/ Pending(k)
        BY <1>a, <1>b DEF Complete, Follows, Among, Pending
      <3>1. CASE k = n
        BY <3>1, <2>1
      <3>2. CASE k # n
        BY <3>2, <1>c, <2>1, <1>g DEF Complete
      <3> QED
        BY <3>1, <3>2
    <2>5. Sorted(g)'
      BY <1>b, <2>1, SortedKept DEF Follows
    <2>6. EndTold(g)'
      BY <1>a, <1>b, EndToldKept
    <2>7. HistoryTold(g)'
      <3>1. \A k \in Runs : k <= run =>
                \E i \in unpub' \cap 1..Len(log') : Outcome(i, k)'
        BY <1>b, <1>d, <1>h
      <3> QED
        BY <3>1, <1>a, <1>b, <1>z, <2>1, HistoryToldKept DEF Seen
    <2> QED
      BY <2>2, <2>3, <2>4, <2>5, <2>6, <2>7
  <1> QED
    BY <1>1, <1>2, <1>3, <1>4, <1>5, <1>6, <1>7

LEMMA ClearStep ==
  ASSUME StreamsInv, Clear
  PROVE  StreamsInv'
  <1> USE StreamAssumption DEF StreamsInv
  <1>a. UNCHANGED <<queue, spc, since, snap, todo, got, cursor, unpub, log>>
        /\ UNCHANGED <<subs, opens, gone>>
    BY DEF Clear, logVars, runVars, hubVars, subVars, tuiVars
  <1>b. LogGrows /\ \A g \in Streams : \A k : k \in Seen(g) <=> k \in Seen(g)'
    BY <1>a DEF LogGrows, Seen, TypeRuns
  <1>c. \A g \in Streams : \A k : Follows(g) /\ Pending(k) => Pending(k)'
    BY DEF Clear, logVars, runVars, hubVars, subVars, tuiVars, Pending,
        TypeRuns
  <1>d. \A n \in Runs : Silent(n) => Silent(n)'
    BY <1>b, SilentKept DEF Clear, logVars, runVars, hubVars, subVars, tuiVars,
        TypeRuns
  <1>e. run' \in Runs /\ run <= run'
    BY DEF Clear, logVars, runVars, hubVars, subVars, tuiVars, TypeRuns, Runs
  <1>1. TypeRuns'
    BY DEF Clear, logVars, runVars, hubVars, subVars, tuiVars, TypeRuns,
        Statuses, Kinds, Terminal, Runs
  <1>2. TypeStreams'
    BY <1>a DEF TypeStreams
  <1>3. TypeClients'
    BY <1>a DEF TypeClients
  <1>4. InOrder'
    BY DEF Clear, logVars, runVars, hubVars, subVars, tuiVars, InOrder,
        TypeRuns, Runs
  <1>5. Handled'
    BY DEF Clear, logVars, runVars, hubVars, subVars, tuiVars, Handled,
        TypeRuns, Kind, Terminal, Runs
  <1>6. StatusTold'
    BY DEF Clear, logVars, runVars, hubVars, subVars, tuiVars, StatusTold,
        Silent, Outcome, TypeRuns, Kind, Terminal, Handled, InOrder, Runs,
        Statuses
  <1>7. ASSUME NEW g \in Streams
        PROVE  /\ Kept(g)' /\ Shown(g)' /\ Complete(g)' /\ Sorted(g)'
               /\ EndTold(g)' /\ HistoryTold(g)'
    <2>1. Kept(g)' /\ Shown(g)'
      BY <1>a DEF Kept, Shown, Seen
    <2>2. Complete(g)' /\ Sorted(g)'
      BY <1>a, <1>b, <1>c, CompleteKept, SortedKept DEF Follows
    <2>3. EndTold(g)'
      BY <1>a, <1>b, EndToldKept
    <2>4. HistoryTold(g)'
      BY <1>a, <1>b, <1>d, <1>e, HistoryToldKept
    <2> QED
      BY <2>1, <2>2, <2>3, <2>4
  <1> QED
    BY <1>1, <1>2, <1>3, <1>4, <1>5, <1>6, <1>7

LEMMA RetryStep ==
  ASSUME StreamsInv, Patient, Retry
  PROVE  StreamsInv'
  <1> USE StreamAssumption DEF StreamsInv
  <1>a. UNCHANGED <<queue, spc, since, snap, todo, got, cursor, unpub, log>>
        /\ UNCHANGED <<subs, opens, gone>>
    BY DEF Retry, logVars, hubVars, subVars, tuiVars
  <1>b. LogGrows /\ \A g \in Streams : \A k : k \in Seen(g) <=> k \in Seen(g)'
    BY <1>a DEF LogGrows, Seen, TypeRuns
  <1>c. \A g \in Streams : \A k : Follows(g) /\ Pending(k) => Pending(k)'
    BY DEF Retry, logVars, hubVars, subVars, tuiVars, Pending, TypeRuns,
        InOrder, Runs
  <1>d. \A n \in Runs : Silent(n) => Silent(n)'
    BY <1>b, SilentKept DEF Retry, logVars, hubVars, subVars, tuiVars,
        TypeRuns, InOrder, Runs
  <1>e. run' \in Runs /\ run <= run'
    BY DEF Retry, logVars, hubVars, subVars, tuiVars, TypeRuns, Runs
  <1>1. TypeRuns'
    BY DEF Retry, logVars, hubVars, subVars, tuiVars, TypeRuns, Statuses,
        Kinds, Terminal, Runs
  <1>2. TypeStreams'
    BY <1>a DEF TypeStreams
  <1>3. TypeClients'
    BY <1>a DEF TypeClients
  <1>4. InOrder'
    BY DEF Retry, logVars, hubVars, subVars, tuiVars, InOrder, TypeRuns, Runs
  <1>5. Handled'
    <2>1. run + 1 \in Runs /\ wpc[run + 1] = "unborn"
      BY DEF Retry, InOrder, TypeRuns, Runs
    <2> QED
      BY <1>a, <2>1 DEF Retry, Handled, Kind, TypeRuns
  <1>6. StatusTold'
    BY DEF Retry, logVars, hubVars, subVars, tuiVars, StatusTold, Silent,
        Outcome, TypeRuns, Kind, Terminal, Handled, InOrder, Runs, Statuses
  <1>7. ASSUME NEW g \in Streams
        PROVE  /\ Kept(g)' /\ Shown(g)' /\ Complete(g)' /\ Sorted(g)'
               /\ EndTold(g)' /\ HistoryTold(g)'
    <2>1. Kept(g)' /\ Shown(g)'
      BY <1>a DEF Kept, Shown, Seen
    <2>2. Complete(g)' /\ Sorted(g)'
      BY <1>a, <1>b, <1>c, CompleteKept, SortedKept DEF Follows
    <2>3. EndTold(g)'
      BY <1>a, <1>b, EndToldKept
    <2>4. HistoryTold(g)'
      BY <1>a, <1>b, <1>d, <1>e, HistoryToldKept
    <2> QED
      BY <2>1, <2>2, <2>3, <2>4
  <1> QED
    BY <1>1, <1>2, <1>3, <1>4, <1>5, <1>6, <1>7

LEMMA SubscribeStep ==
  ASSUME StreamsInv, NEW f \in Streams, Subscribe(f)
  PROVE  StreamsInv'
  <1> USE StreamAssumption DEF StreamsInv
  <1>1. TypeRuns'
    BY DEF Subscribe, rowVars, logVars, runVars, TypeRuns, Statuses, Kinds,
        Terminal, Runs
  <1>2. TypeStreams'
    BY DEF Subscribe, rowVars, logVars, runVars, TypeStreams, TypeRuns,
        Handled, Statuses, Terminal, Ids, End, Runs
  <1>3. TypeClients'
    BY DEF Subscribe, rowVars, logVars, runVars, TypeClients, TypeRuns,
        TypeStreams, Ids, End, Kept
  <1>4. InOrder'
    BY DEF Subscribe, rowVars, logVars, runVars, InOrder, TypeRuns, Runs
  <1>5. Handled'
    BY DEF Subscribe, rowVars, logVars, runVars, Handled, TypeRuns, Kind,
        Terminal, Runs
  <1>6. StatusTold'
    BY DEF Subscribe, rowVars, logVars, runVars, StatusTold, Silent, Outcome,
        TypeRuns, Kind, Terminal, Handled, InOrder, Runs, Statuses
  <1>7. ASSUME NEW g \in Streams
        PROVE  /\ Kept(g)' /\ Shown(g)' /\ Complete(g)' /\ Sorted(g)'
               /\ EndTold(g)' /\ HistoryTold(g)'
    <2>1. CASE g # f
      BY <2>1, StreamFrame DEF Subscribe, rowVars, logVars, runVars,
          TypeStreams, TypeClients, TypeRuns
    <2>2. CASE g = f
      <3>a. /\ spc[f] = "off" /\ spc'[f] = "status" /\ queue'[f] = << >>
            /\ since'[f] = run /\ f \in subs'
            /\ UNCHANGED <<todo, got, unpub, log, cursor, run>>
        BY DEF Subscribe, TypeStreams, rowVars, logVars, runVars
      <3>b. Seen(f)' = Seen(f)
        BY <3>a DEF Seen
      <3>1. Kept(f)'
        BY <3>a, <3>b DEF Kept
      <3>2. Shown(f)'
        BY <3>a DEF Shown, Seen
      <3>3. Complete(f)'
        BY <3>a DEF Complete, Follows
      <3>4. Sorted(f)'
        BY <3>a DEF Sorted, Follows
      <3>5. EndTold(f)'
        BY <3>a DEF EndTold
      <3>6. HistoryTold(f)'
        BY <3>a DEF HistoryTold, TypeRuns, Runs
      <3> QED
        BY <2>2, <3>1, <3>2, <3>3, <3>4, <3>5, <3>6
    <2> QED
      BY <2>1, <2>2
  <1> QED
    BY <1>1, <1>2, <1>3, <1>4, <1>5, <1>6, <1>7

LEMMA ReadStatusStep ==
  ASSUME StreamsInv, NEW f \in Streams, ReadStatus(f)
  PROVE  StreamsInv'
  <1> USE StreamAssumption DEF StreamsInv
  <1>1. TypeRuns'
    BY DEF ReadStatus, rowVars, logVars, runVars, hubVars, tuiVars, TypeRuns,
        Statuses, Kinds, Terminal, Runs
  <1>2. TypeStreams'
    BY DEF ReadStatus, rowVars, logVars, runVars, hubVars, tuiVars,
        TypeStreams, TypeRuns, Handled, Statuses, Terminal, Ids, End, Runs
  <1>3. TypeClients'
    BY DEF ReadStatus, rowVars, logVars, runVars, hubVars, tuiVars,
        TypeClients, TypeRuns, TypeStreams, Ids, End, Kept
  <1>4. InOrder'
    BY DEF ReadStatus, rowVars, logVars, runVars, hubVars, tuiVars, InOrder,
        TypeRuns, Runs
  <1>5. Handled'
    BY DEF ReadStatus, rowVars, logVars, runVars, hubVars, tuiVars, Handled,
        TypeRuns, Kind, Terminal, Runs
  <1>6. StatusTold'
    BY DEF ReadStatus, rowVars, logVars, runVars, hubVars, tuiVars, StatusTold,
        Silent, Outcome, TypeRuns, Kind, Terminal, Handled, InOrder, Runs,
        Statuses
  <1>7. ASSUME NEW g \in Streams
        PROVE  /\ Kept(g)' /\ Shown(g)' /\ Complete(g)' /\ Sorted(g)'
               /\ EndTold(g)' /\ HistoryTold(g)'
    <2>1. CASE g # f
      BY <2>1, StreamFrame DEF ReadStatus, rowVars, logVars, runVars, hubVars,
          tuiVars, TypeStreams, TypeClients, TypeRuns
    <2>2. CASE g = f
      <3>a. /\ spc[f] = "status" /\ spc'[f] = "events" /\ snap'[f] = status
            /\ UNCHANGED <<queue, since, subs, todo, got, unpub, log, cursor,
                           run, walk, wpc, cur>>
        BY DEF ReadStatus, TypeStreams, rowVars, logVars, runVars, hubVars,
            tuiVars
      <3>b. LogGrows /\ Seen(f)' = Seen(f)
        BY <3>a DEF Seen, LogGrows, TypeRuns
      <3>c. since[f] \in Runs /\ since[f] <= run /\ run \in Runs
        BY <3>a DEF HistoryTold, TypeStreams, TypeRuns
      <3>1. Kept(f)'
        BY <3>a, <3>b DEF Kept
      <3>2. Shown(f)'
        BY <3>a DEF Shown, Seen
      <3>3. Complete(f)'
        BY <3>a DEF Complete, Follows
      <3>4. Sorted(f)'
        BY <3>a DEF Sorted, Follows
      <3>5. EndTold(f)'
        BY <3>a, <3>b, EndToldKept
      <3>6. HistoryTold(f)'
        <4>1. Silent(run) => Silent(since[f])
          BY <3>c DEF Silent, Runs
        <4>2. \A i \in 1..Len(log) : Outcome(i, run) => Outcome(i, since[f])
          <5> SUFFICES ASSUME NEW i \in 1..Len(log), Outcome(i, run)
                       PROVE  Outcome(i, since[f])
            OBVIOUS
          <5>1. log[i].run \in Nat
            BY LogTyped
          <5> QED
            BY <3>c, <5>1 DEF Outcome, Runs
        <4>3. Silent(since[f])' = Silent(since[f])
          BY <3>a DEF Silent, Kind
        <4> QED
          BY <3>a, <3>c, <4>1, <4>2, <4>3 DEF HistoryTold, StatusTold, Outcome
      <3> QED
        BY <2>2, <3>1, <3>2, <3>3, <3>4, <3>5, <3>6
    <2> QED
      BY <2>1, <2>2
  <1> QED
    BY <1>1, <1>2, <1>3, <1>4, <1>5, <1>6, <1>7

LEMMA ReadHistoryStep ==
  ASSUME StreamsInv, NEW f \in Streams, ReadHistory(f)
  PROVE  StreamsInv'
  <1> USE StreamAssumption DEF StreamsInv
  <1>1. TypeRuns'
    BY DEF ReadHistory, rowVars, logVars, runVars, hubVars, tuiVars, TypeRuns,
        Statuses, Kinds, Terminal, Runs
  <1>2. TypeStreams'
    BY DEF ReadHistory, rowVars, logVars, runVars, hubVars, tuiVars,
        TypeStreams, TypeRuns, Handled, Statuses, Terminal, Ids, End, Runs
  <1>3. TypeClients'
    BY DEF ReadHistory, rowVars, logVars, runVars, hubVars, tuiVars,
        TypeClients, TypeRuns, TypeStreams, Ids, End, Kept
  <1>4. InOrder'
    BY DEF ReadHistory, rowVars, logVars, runVars, hubVars, tuiVars, InOrder,
        TypeRuns, Runs
  <1>5. Handled'
    BY DEF ReadHistory, rowVars, logVars, runVars, hubVars, tuiVars, Handled,
        TypeRuns, Kind, Terminal, Runs
  <1>6. StatusTold'
    BY DEF ReadHistory, rowVars, logVars, runVars, hubVars, tuiVars,
        StatusTold, Silent, Outcome, TypeRuns, Kind, Terminal, Handled, InOrder,
        Runs, Statuses
  <1>7. ASSUME NEW g \in Streams
        PROVE  /\ Kept(g)' /\ Shown(g)' /\ Complete(g)' /\ Sorted(g)'
               /\ EndTold(g)' /\ HistoryTold(g)'
    <2>1. CASE g # f
      BY <2>1, StreamFrame DEF ReadHistory, rowVars, logVars, runVars, hubVars,
          tuiVars, TypeStreams, TypeClients, TypeRuns
    <2>2. CASE g = f
      <3>a. /\ spc[f] = "events" /\ spc'[f] = "replay"
            /\ todo'[f] = (cursor[f] + 1)..Len(log)
            /\ UNCHANGED <<queue, since, snap, subs, got, unpub, log, cursor,
                           run, walk, wpc, cur>>
        BY DEF ReadHistory, TypeStreams, TypeClients, rowVars, logVars,
            runVars, hubVars, tuiVars
      <3>b. LogGrows
        BY <3>a DEF LogGrows, TypeRuns
      <3>c. cursor[f] \in Nat /\ cursor[f] \in got[f] \cup {0} /\ Len(log) \in Nat
        BY DEF TypeClients, Kept, TypeRuns
      <3>d. \A k \in 1..Len(log) : k \in Seen(f)'
        <4> SUFFICES ASSUME NEW k \in 1..Len(log) PROVE k \in Seen(f)'
          OBVIOUS
        <4>1. CASE k <= cursor[f]
          <5>1. cursor[f] \in got[f] /\ k \in 1..cursor[f]
            BY <4>1, <3>c
          <5>2. k \in got[f] \cup unpub
            BY <5>1 DEF Shown
          <5> QED
            BY <5>2, <3>a DEF Seen
        <4>2. CASE k > cursor[f]
          BY <4>2, <3>a, <3>c DEF Seen
        <4> QED
          BY <4>1, <4>2, <3>c
      <3>e. Seen(f)' \subseteq 1..Len(log)
        BY <3>a, <3>c DEF Seen, Kept
      <3>1. Kept(f)'
        BY <3>a, <3>e DEF Kept
      <3>2. Shown(f)'
        <4>1. \A i \in todo'[f] : 1..i \subseteq 1..Len(log)
          BY <3>a, <3>c
        <4> QED
          BY <3>a, <3>d, <4>1 DEF Shown
      <3>3. Complete(f)'
        BY <3>a, <3>d DEF Complete
      <3>4. Sorted(f)'
        <4>1. \A p \in 1..Len(queue[f]) : 1..queue[f][p] \subseteq 1..Len(log)
          BY <3>c DEF Kept, TypeStreams, Ids, End
        <4> QED
          BY <3>a, <3>d, <4>1 DEF Sorted
      <3>5. EndTold(f)'
        BY <3>a, <3>b, EndToldKept
      <3>6. HistoryTold(f)'
        <4>1. Silent(since[f])' = Silent(since[f])
          BY <3>a DEF Silent, Kind
        <4> QED
          BY <3>a, <3>d, <4>1 DEF HistoryTold, Outcome
      <3> QED
        BY <2>2, <3>1, <3>2, <3>3, <3>4, <3>5, <3>6
    <2> QED
      BY <2>1, <2>2
  <1> QED
    BY <1>1, <1>2, <1>3, <1>4, <1>5, <1>6, <1>7

LEMMA ReplayStep ==
  ASSUME StreamsInv, NEW f \in Streams, Replay(f)
  PROVE  StreamsInv'
  <1> USE StreamAssumption DEF StreamsInv
  <1> DEFINE i == CHOOSE j \in todo[f] : \A k \in todo[f] : j <= k
  <1>i. i \in todo[f] /\ \A k \in todo[f] : i <= k
    <2>1. todo[f] \subseteq Nat /\ todo[f] # {}
      BY DEF Replay, TypeClients, Ids
    <2> QED
      BY <2>1, LeastNatural
  <1>a. /\ spc[f] = "replay" /\ UNCHANGED spc
        /\ todo' = [todo EXCEPT ![f] = @ \ {i}]
        /\ got' = [got EXCEPT ![f] = @ \cup {i}]
        /\ cursor' = [cursor EXCEPT ![f] = i]
        /\ UNCHANGED <<queue, since, snap, subs, unpub, log, run, walk, wpc>>
        /\ UNCHANGED <<cur, hooked, status, opens, gone>>
    BY DEF Replay, Show, rowVars, logVars, runVars, hubVars
  <1> HIDE DEF i
  <1>1. TypeRuns'
    BY <1>a DEF TypeRuns
  <1>2. TypeStreams'
    BY <1>a DEF TypeStreams
  <1>3. TypeClients'
    BY <1>a, <1>i DEF TypeClients, Ids
  <1>4. InOrder'
    BY <1>a DEF InOrder
  <1>5. Handled'
    BY <1>a DEF Handled, Kind
  <1>6. StatusTold'
    BY <1>a DEF StatusTold, Silent, Outcome, Kind
  <1>7. ASSUME NEW g \in Streams
        PROVE  /\ Kept(g)' /\ Shown(g)' /\ Complete(g)' /\ Sorted(g)'
               /\ EndTold(g)' /\ HistoryTold(g)'
    <2>1. CASE g # f
      BY <2>1, StreamFrame DEF Replay, Show, rowVars, logVars, runVars,
          hubVars, TypeStreams, TypeClients, TypeRuns
    <2>2. CASE g = f
      <3>a. /\ todo'[f] = todo[f] \ {i} /\ got'[f] = got[f] \cup {i}
            /\ cursor'[f] = i
        BY <1>a DEF TypeClients
      <3>b. LogGrows /\ Seen(f)' = Seen(f)
        BY <1>a, <1>i, <3>a DEF Seen, LogGrows, TypeRuns
      <3>1. Kept(f)'
        BY <1>a, <3>a, <3>b DEF Kept
      <3>2. Shown(f)'
        <4>1. \A k \in 1..i : k \in got'[f] \cup unpub
          <5>1. i \in Nat /\ \A k \in 1..i : k \in Seen(f)
            BY <1>i DEF Shown, TypeClients, Ids
          <5>2. \A k \in 1..i : k \in todo[f] => k = i
            BY <1>i, <5>1
          <5> QED
            BY <5>1, <5>2, <3>a DEF Seen
        <4> QED
          BY <4>1, <1>a, <3>a, <3>b DEF Shown
      <3>3. Complete(f)'
        BY <1>a, <3>b, CompleteKept DEF Follows, Pending
      <3>4. Sorted(f)'
        BY <1>a, <3>b, SortedKept DEF Follows
      <3>5. EndTold(f)'
        BY <1>a, <3>a, <3>b, EndToldKept
      <3>6. HistoryTold(f)'
        <4>1. Silent(since[f])' = Silent(since[f])
          BY <1>a DEF Silent, Kind
        <4> QED
          BY <1>a, <3>b, <4>1 DEF HistoryTold, Outcome
      <3> QED
        BY <2>2, <3>1, <3>2, <3>3, <3>4, <3>5, <3>6
    <2> QED
      BY <2>1, <2>2
  <1> QED
    BY <1>1, <1>2, <1>3, <1>4, <1>5, <1>6, <1>7

LEMMA LeaveStep ==
  ASSUME StreamsInv, NEW f \in Streams, Leave(f),
         UNCHANGED <<rowVars, logVars, runVars, tuiVars>>
  PROVE  StreamsInv'
  <1> USE StreamAssumption DEF StreamsInv
  <1>a. /\ spc' = [spc EXCEPT ![f] = "off"]
        /\ since' = [since EXCEPT ![f] = 1]
        /\ snap' = [snap EXCEPT ![f] = "pending"]
        /\ todo' = [todo EXCEPT ![f] = {}]
        /\ queue' = [queue EXCEPT ![f] = << >>]
        /\ subs' = subs \ {f}
        /\ hooked' = [r \in Runs |-> hooked[r] /\ subs \ {f} # {}]
    BY DEF Leave
  <1>b. /\ UNCHANGED <<log, unpub, run, cur, wpc, status, walk>>
        /\ UNCHANGED <<got, cursor, opens, gone>>
    BY DEF rowVars, logVars, runVars, tuiVars
  <1>c. << >> \in Seq(Ids \cup {End}) /\ 1 \in Runs
    BY DEF Runs
  <1>1. TypeRuns'
    BY <1>a, <1>b DEF TypeRuns
  <1>2. TypeStreams'
    BY <1>a, <1>b, <1>c DEF TypeStreams, Statuses
  <1>3. TypeClients'
    BY <1>a, <1>b DEF TypeClients
  <1>4. InOrder'
    BY <1>b DEF InOrder
  <1>5. Handled'
    BY <1>b DEF Handled, Kind
  <1>6. StatusTold'
    BY <1>b DEF StatusTold, Silent, Outcome, Kind
  <1>7. ASSUME NEW g \in Streams
        PROVE  /\ Kept(g)' /\ Shown(g)' /\ Complete(g)' /\ Sorted(g)'
               /\ EndTold(g)' /\ HistoryTold(g)'
    <2>1. CASE g # f
      <3>1. g \in subs => \A r \in Runs : hooked[r] => hooked'[r]
        BY <2>1, <1>a DEF TypeRuns
      <3> QED
        BY <2>1, <3>1, <1>a, StreamFrame DEF TypeStreams, TypeClients, tuiVars,
            rowVars
    <2>2. CASE g = f
      BY <2>2, <1>a, <1>b, OffFrame DEF Kept, TypeStreams, TypeClients
    <2> QED
      BY <2>1, <2>2
  <1> QED
    BY <1>1, <1>2, <1>3, <1>4, <1>5, <1>6, <1>7

LEMMA GoLiveStep ==
  ASSUME StreamsInv, NEW f \in Streams,
         spc[f] = "replay", todo[f] = {}, spc' = [spc EXCEPT ![f] = "live"],
         UNCHANGED <<rowVars, logVars, runVars, hubVars, tuiVars>>,
         UNCHANGED <<queue, since, snap, todo>>
  PROVE  StreamsInv'
  <1> USE StreamAssumption DEF StreamsInv
  <1>a. UNCHANGED <<log, unpub, run, cur, wpc, status, walk, got, cursor, opens,
                    gone, hooked, subs, queue, since, snap, todo>>
    BY DEF rowVars, logVars, runVars, hubVars, tuiVars
  <1>1. TypeRuns'
    BY <1>a DEF TypeRuns
  <1>2. TypeStreams'
    BY <1>a DEF TypeStreams
  <1>3. TypeClients'
    BY <1>a DEF TypeClients
  <1>4. InOrder'
    BY <1>a DEF InOrder
  <1>5. Handled'
    BY <1>a DEF Handled, Kind
  <1>6. StatusTold'
    BY <1>a DEF StatusTold, Silent, Outcome, Kind
  <1>7. ASSUME NEW g \in Streams
        PROVE  /\ Kept(g)' /\ Shown(g)' /\ Complete(g)' /\ Sorted(g)'
               /\ EndTold(g)' /\ HistoryTold(g)'
    <2>1. CASE g # f
      BY <2>1, <1>a, StreamFrame DEF TypeStreams, runVars, logVars
    <2>2. CASE g = f
      <3>a. spc'[f] = "live"
        BY DEF TypeStreams
      <3>b. LogGrows /\ Seen(f)' = Seen(f)
        BY <1>a DEF Seen, LogGrows, TypeRuns
      <3>1. Kept(f)'
        BY <1>a, <3>a, <3>b DEF Kept
      <3>2. Shown(f)'
        BY <1>a DEF Shown, Seen
      <3>3. Complete(f)' /\ Sorted(f)'
        BY <1>a, <3>b, CompleteKept, SortedKept DEF Follows, Pending
      <3>4. EndTold(f)'
        BY <1>a, <3>a, <3>b, EndToldKept
      <3>5. HistoryTold(f)'
        BY <1>a, <3>a DEF HistoryTold
      <3> QED
        BY <2>2, <3>1, <3>2, <3>3, <3>4, <3>5
    <2> QED
      BY <2>1, <2>2
  <1> QED
    BY <1>1, <1>2, <1>3, <1>4, <1>5, <1>6, <1>7

LEMMA ReplayedStep ==
  ASSUME StreamsInv, NEW f \in Streams, Replayed(f)
  PROVE  StreamsInv'
  <1>1. CASE snap[f] \in Terminal
    BY <1>1, LeaveStep DEF Replayed
  <1>2. CASE snap[f] \notin Terminal
    BY <1>2, GoLiveStep DEF Replayed
  <1> QED
    BY <1>1, <1>2

LEMMA ForwardStep ==
  ASSUME StreamsInv, NEW f \in Streams, Forward(f)
  PROVE  StreamsInv'
  <1> USE StreamAssumption DEF StreamsInv
  <1> DEFINE i == Head(queue[f])
             q == queue[f]
  <1>a. /\ spc[f] = "live" /\ UNCHANGED spc /\ q # << >> /\ i # End
        /\ queue' = [queue EXCEPT ![f] = Tail(q)]
        /\ got' = [got EXCEPT ![f] = @ \cup {i}]
        /\ cursor' = [cursor EXCEPT ![f] = i]
        /\ UNCHANGED <<since, snap, todo, subs, unpub, log, run, walk, wpc>>
        /\ UNCHANGED <<cur, hooked, status, opens, gone>>
    BY DEF Forward, Show, rowVars, logVars, runVars, hubVars, subVars
  <1>q. q \in Seq(Ids \cup {End})
    BY DEF TypeStreams
  <1>r. /\ i = q[1] /\ Len(q) \in Nat \ {0} /\ Tail(q) \in Seq(Ids \cup {End})
        /\ Len(Tail(q)) = Len(q) - 1
        /\ \A p \in 1..Len(q) - 1 : Tail(q)[p] = q[p + 1]
    BY <1>a, <1>q
  <1>i. i \in Ids /\ i \in 1..Len(log)
    <2>1. i \in Ids
      BY <1>a, <1>q, <1>r
    <2>2. i <= Len(log) /\ Len(log) \in Nat
      BY <1>r DEF Kept, TypeRuns
    <2> QED
      BY <2>1, <2>2 DEF Ids
  <1> HIDE DEF i
  <1>1. TypeRuns'
    BY <1>a DEF TypeRuns
  <1>2. TypeStreams'
    BY <1>a, <1>r DEF TypeStreams
  <1>3. TypeClients'
    BY <1>a, <1>i DEF TypeClients, Ids
  <1>4. InOrder'
    BY <1>a DEF InOrder
  <1>5. Handled'
    BY <1>a DEF Handled, Kind
  <1>6. StatusTold'
    BY <1>a DEF StatusTold, Silent, Outcome, Kind
  <1>7. ASSUME NEW g \in Streams
        PROVE  /\ Kept(g)' /\ Shown(g)' /\ Complete(g)' /\ Sorted(g)'
               /\ EndTold(g)' /\ HistoryTold(g)'
    <2>1. CASE g # f
      BY <2>1, StreamFrame DEF Forward, Show, rowVars, logVars, runVars,
          hubVars, subVars, TypeStreams, TypeClients, TypeRuns
    <2>2. CASE g = f
      <3>a. /\ got'[f] = got[f] \cup {i} /\ cursor'[f] = i /\ queue'[f] = Tail(q)
            /\ todo[f] = {}
        BY <1>a DEF TypeClients, TypeStreams, Kept
      <3>b. LogGrows /\ Seen(f)' = Seen(f) \cup {i}
        BY <1>a, <3>a DEF Seen, LogGrows, TypeRuns
      <3>c. ASSUME NEW k, NEW p \in 1..Len(q), Among(queue[f], k, p)
            PROVE  k = i \/ Among(queue'[f], k, p - 1)
        <4>1. PICK m \in 1..p : q[m] = k
          BY <3>c DEF Among
        <4>2. CASE m = 1
          BY <4>1, <4>2, <1>r
        <4>3. CASE m # 1
          <5>1. m - 1 \in 1..p - 1 /\ m - 1 \in 1..Len(q) - 1 /\ (m - 1) + 1 = m
            BY <4>3, <1>r
          <5>2. queue'[f][m - 1] = k
            BY <4>1, <5>1, <1>r, <3>a
          <5> QED
            BY <5>1, <5>2 DEF Among
        <4> QED
          BY <4>2, <4>3
      <3>1. Kept(f)'
        BY <1>a, <1>r, <1>i, <3>a, <3>b DEF Kept
      <3>2. Shown(f)'
        <4>1. \A k \in 1..i : k \in got'[f] \cup unpub
          <5>1. \A k \in 1..i : k \in Seen(f) \/ Among(queue[f], k, 1)
            BY <1>a, <1>r DEF Sorted, Follows
          <5>2. \A k : Among(queue[f], k, 1) => k = i
            BY <1>r DEF Among
          <5> QED
            BY <5>1, <5>2, <3>a DEF Seen
        <4> QED
          BY <4>1, <1>a, <3>a DEF Shown
      <3>3. Complete(f)'
        <4> SUFFICES ASSUME NEW k \in 1..Len(log)
                     PROVE  \/ k \in Seen(f)' \/ Among(queue'[f], k, Len(queue'[f]))
                            \/ Pending(k)'
          BY <1>a DEF Complete
        <4>1. k \in Seen(f) \/ Among(queue[f], k, Len(q)) \/ Pending(k)
          BY <1>a DEF Complete, Follows
        <4>2. Pending(k) => Pending(k)'
          BY <1>a DEF Pending
        <4>3. Among(queue[f], k, Len(q)) => k = i \/ Among(queue'[f], k, Len(q) - 1)
          BY <3>c, <1>r
        <4> QED
          BY <4>1, <4>2, <4>3, <3>a, <3>b, <1>r
      <3>4. Sorted(f)'
        <4> SUFFICES ASSUME NEW p \in 1..Len(q) - 1, NEW k \in 1..q[p + 1]
                     PROVE  k \in Seen(f)' \/ Among(queue'[f], k, p)
          BY <1>a, <1>r, <3>a DEF Sorted
        <4>1. k \in Seen(f) \/ Among(queue[f], k, p + 1)
          BY <1>a, <1>r DEF Sorted, Follows
        <4>2. Among(queue[f], k, p + 1) => k = i \/ Among(queue'[f], k, (p + 1) - 1)
          BY <3>c, <1>r
        <4>3. (p + 1) - 1 = p
          OBVIOUS
        <4> QED
          BY <4>1, <4>2, <4>3, <3>b
      <3>5. EndTold(f)'
        <4>1. ASSUME NEW p \in 1..Len(q) - 1, q[p + 1] = End
              PROVE  \E j \in 1..Len(log) :
                               /\ j \in got'[f] \/ Among(queue'[f], j, p)
                               /\ Outcome(j, since[f])
          <5>1. p + 1 \in 1..Len(q) /\ (p + 1) - 1 = p
            BY <1>r
          <5>2. PICK j \in 1..Len(log) : /\ j \in got[f] \/ Among(q, j, p + 1)
                                         /\ Outcome(j, since[f])
            BY <4>1, <5>1 DEF EndTold
          <5>3. Among(q, j, p + 1) => j = i \/ Among(queue'[f], j, p)
            BY <5>1, <3>c
          <5> QED
            BY <5>2, <5>3, <3>a
        <4>2. \A j : Outcome(j, since[f])' <=> Outcome(j, since[f])
          BY <1>a DEF Outcome
        <4>3. /\ \A p \in 1..Len(queue'[f]) : p \in 1..Len(q) - 1
              /\ \A p \in 1..Len(q) - 1 : queue'[f][p] = q[p + 1]
          BY <1>r, <3>a
        <4> QED
          BY <1>a, <4>1, <4>2, <4>3 DEF EndTold
      <3>6. HistoryTold(f)'
        BY <1>a DEF HistoryTold
      <3> QED
        BY <2>2, <3>1, <3>2, <3>3, <3>4, <3>5, <3>6
    <2> QED
      BY <2>1, <2>2
  <1> QED
    BY <1>1, <1>2, <1>3, <1>4, <1>5, <1>6, <1>7

LEMMA SentinelStep ==
  ASSUME StreamsInv, NEW f \in Streams, Sentinel(f)
  PROVE  StreamsInv'
  <1> USE StreamAssumption DEF StreamsInv
  <1>1. TypeRuns'
    BY DEF Sentinel, rowVars, logVars, runVars, hubVars, tuiVars, TypeRuns,
        Statuses, Kinds, Terminal, Runs
  <1>2. TypeStreams'
    BY DEF Sentinel, rowVars, logVars, runVars, hubVars, tuiVars, TypeStreams,
        TypeRuns, Handled, Statuses, Terminal, Ids, End, Runs
  <1>3. TypeClients'
    BY DEF Sentinel, rowVars, logVars, runVars, hubVars, tuiVars, TypeClients,
        TypeRuns, TypeStreams, Ids, End, Kept
  <1>4. InOrder'
    BY DEF Sentinel, rowVars, logVars, runVars, hubVars, tuiVars, InOrder,
        TypeRuns, Runs
  <1>5. Handled'
    BY DEF Sentinel, rowVars, logVars, runVars, hubVars, tuiVars, Handled,
        TypeRuns, Kind, Terminal, Runs
  <1>6. StatusTold'
    BY DEF Sentinel, rowVars, logVars, runVars, hubVars, tuiVars, StatusTold,
        Silent, Outcome, TypeRuns, Kind, Terminal, Handled, InOrder, Runs,
        Statuses
  <1>7. ASSUME NEW g \in Streams
        PROVE  /\ Kept(g)' /\ Shown(g)' /\ Complete(g)' /\ Sorted(g)'
               /\ EndTold(g)' /\ HistoryTold(g)'
    <2>1. CASE g # f
      BY <2>1, StreamFrame DEF Sentinel, rowVars, logVars, runVars, hubVars,
          tuiVars, TypeStreams, TypeClients, TypeRuns
    <2>2. CASE g = f
      <3>a. /\ spc[f] = "live" /\ spc'[f] = "ending" /\ queue[f] # << >>
            /\ Head(queue[f]) = End /\ queue'[f] = Tail(queue[f])
            /\ UNCHANGED <<since, snap, subs, todo, got, unpub, log, cursor,
                           run>>
        BY DEF Sentinel, TypeStreams, rowVars, logVars, runVars, hubVars,
            tuiVars
      <3>b. Seen(f)' = Seen(f)
        BY <3>a DEF Seen
      <3>q. queue[f] \in Seq(Ids \cup {End})
        BY DEF TypeStreams
      <3>r. /\ queue[f][1] = End /\ Len(queue[f]) \in Nat \ {0}
            /\ Len(queue'[f]) = Len(queue[f]) - 1
            /\ \A p \in 1..Len(queue[f]) - 1 : queue'[f][p] = queue[f][p + 1]
        BY <3>a, <3>q
      <3>1. Kept(f)'
        BY <3>a, <3>b, <3>r DEF Kept
      <3>2. Shown(f)'
        BY <3>a DEF Shown, Seen
      <3>3. Complete(f)'
        BY <3>a DEF Complete, Follows
      <3>4. Sorted(f)'
        BY <3>a DEF Sorted, Follows
      <3>5. EndTold(f)'
        <4>1. ASSUME NEW p \in 1..Len(queue[f]) - 1, queue[f][p + 1] = End
              PROVE  \E j \in 1..Len(log) :
                               /\ j \in got[f] \/ Among(queue'[f], j, p)
                               /\ Outcome(j, since[f])
          <5>0. p + 1 \in 1..Len(queue[f])
            BY <3>r
          <5>1. PICK j \in 1..Len(log) :
                        /\ j \in got[f] \/ Among(queue[f], j, p + 1)
                        /\ Outcome(j, since[f])
            BY <4>1, <5>0 DEF EndTold
          <5>2. ASSUME NEW m \in 1..p + 1, queue[f][m] = j
                PROVE  queue'[f][m - 1] = j /\ m - 1 \in 1..p
            <6>1. m # 1
              BY <5>2, <3>r DEF End
            <6>2. m - 1 \in 1..Len(queue[f]) - 1 /\ (m - 1) + 1 = m
              BY <6>1, <3>r
            <6> QED
              BY <5>2, <6>1, <6>2, <3>r
          <5> QED
            BY <5>1, <5>2 DEF Among
        <4>2. \E i \in 1..Len(log) : i \in got[f] /\ Outcome(i, since[f])
          <5>1. PICK i \in 1..Len(log) : /\ i \in got[f] \/ Among(queue[f], i, 1)
                                         /\ Outcome(i, since[f])
            BY <3>r DEF EndTold
          <5>2. ~Among(queue[f], i, 1)
            BY <3>r DEF Among, End
          <5> QED
            BY <5>1, <5>2
        <4> QED
          BY <4>1, <4>2, <3>a, <3>r DEF EndTold, Outcome
      <3>6. HistoryTold(f)'
        BY <3>a DEF HistoryTold
      <3> QED
        BY <2>2, <3>1, <3>2, <3>3, <3>4, <3>5, <3>6
    <2> QED
      BY <2>1, <2>2
  <1> QED
    BY <1>1, <1>2, <1>3, <1>4, <1>5, <1>6, <1>7

LEMMA FinishStep ==
  ASSUME StreamsInv, NEW f \in Streams, Finish(f)
  PROVE  StreamsInv'
  BY LeaveStep DEF Finish

LEMMA QuitStep ==
  ASSUME StreamsInv, NEW f \in Streams, Quit(f)
  PROVE  StreamsInv'
  <1> USE StreamAssumption DEF StreamsInv
  <1>1. TypeRuns'
    BY DEF Quit, rowVars, logVars, runVars, hubVars, subVars, TypeRuns,
        Statuses, Kinds, Terminal, Runs
  <1>2. TypeStreams'
    BY DEF Quit, rowVars, logVars, runVars, hubVars, subVars, TypeStreams,
        TypeRuns, Handled, Statuses, Terminal, Ids, End, Runs
  <1>3. TypeClients'
    BY DEF Quit, rowVars, logVars, runVars, hubVars, subVars, TypeClients,
        TypeRuns, TypeStreams, Ids, End, Kept
  <1>4. InOrder'
    BY DEF Quit, rowVars, logVars, runVars, hubVars, subVars, InOrder,
        TypeRuns, Runs
  <1>5. Handled'
    BY DEF Quit, rowVars, logVars, runVars, hubVars, subVars, Handled,
        TypeRuns, Kind, Terminal, Runs
  <1>6. StatusTold'
    BY DEF Quit, rowVars, logVars, runVars, hubVars, subVars, StatusTold,
        Silent, Outcome, TypeRuns, Kind, Terminal, Handled, InOrder, Runs,
        Statuses
  <1>7. ASSUME NEW g \in Streams
        PROVE  /\ Kept(g)' /\ Shown(g)' /\ Complete(g)' /\ Sorted(g)'
               /\ EndTold(g)' /\ HistoryTold(g)'
    BY StreamFrame DEF Quit, rowVars, hubVars, subVars, tuiVars
  <1> QED
    BY <1>1, <1>2, <1>3, <1>4, <1>5, <1>6, <1>7

LEMMA WriteFailsStep ==
  ASSUME StreamsInv, NEW f \in Streams, WriteFails(f)
  PROVE  StreamsInv'
  BY LeaveStep DEF WriteFails

-----------------------------------------------------------------------------
(* The theorems.                                                           *)

LEMMA StreamsInvNext ==
  ASSUME Patient, StreamsInv, [Next]_vars
  PROVE  StreamsInv'
  <1>1. ASSUME NEW r \in Runs, Reader(r) \/ AddEvent(r) \/ Exit(r)
        PROVE  StreamsInv'
    BY <1>1, MarkRunningStep, AddEventStep, StoreStatusStep, CaptureStep,
        PublishStep, ExitStep, MarkFailedStep DEF Reader
  <1>2. CASE CascadeCheck \/ CascadeWrite \/ CascadeLog \/ Clear \/ Retry
    BY <1>2, CascadeCheckStep, CascadeWriteStep, CascadeLogStep, ClearStep,
        RetryStep
  <1>3. ASSUME NEW f \in Streams, Subscribe(f) \/ Serve(f) \/ Quit(f)
        PROVE  StreamsInv'
    BY <1>3, SubscribeStep, ReadStatusStep, ReadHistoryStep, ReplayStep,
        ReplayedStep, ForwardStep, SentinelStep, FinishStep, QuitStep,
        WriteFailsStep DEF Serve
  <1>4. CASE UNCHANGED vars
    <2>1. UNCHANGED <<status, walk, log, unpub, run, wpc, cur, hooked, subs,
                      queue, spc, since, snap, todo, got, cursor, opens, gone>>
      BY <1>4 DEF vars, rowVars, logVars, runVars, hubVars, subVars, tuiVars
    <2> QED
      BY <2>1 DEF StreamsInv, TypeRuns, TypeStreams, TypeClients, InOrder,
          Handled, Kind, Kept, Seen, Shown, Complete, Sorted, Among, Follows,
          Pending, StatusTold, Silent, Outcome, EndTold, HistoryTold
  <1> QED
    BY <1>1, <1>2, <1>3, <1>4 DEF Next, Write, Watch

\* Every state of a patient task's streams satisfies the invariant.
THEOREM StreamsInvariant ==
  ASSUME Patient
  PROVE  Spec => []StreamsInv
  <1>1. Init => StreamsInv
    BY StreamsInvInit
  <1>2. StreamsInv /\ [Next]_vars => StreamsInv'
    BY StreamsInvNext
  <1> QED
    BY <1>1, <1>2, PTL DEF Spec

\* Each client has shown all that came before what it shows, save the events
\* that nobody publishes: between the replay of the history and the queue of
\* _stream_subscribe no event is lost, provided that a retry waits until the
\* reader of the run before is through.
THEOREM StreamsHaveNoGap ==
  ASSUME Patient
  PROVE  Spec => []StreamInv
  <1>1. StreamsInv => StreamInv
    BY TypeParts DEF StreamsInv, Shown, StreamInv, NoGap
  <1> QED
    BY <1>1, StreamsInvariant, PTL

\* What a step that ends a stream to a client does is one of two: the task was
\* over when the stream was opened, or the sentinel has come.
LEMMA EndStep ==
  ASSUME StreamsInv, Next, NEW f \in Streams, spc[f] # "off", spc'[f] = "off"
  PROVE  \/ Replayed(f) /\ snap[f] \in Terminal
         \/ Finish(f)
         \/ gone[f]
  <1> USE DEF StreamsInv
  <1>1. ASSUME NEW r \in Runs, Reader(r) \/ AddEvent(r) \/ Exit(r)
        PROVE  spc' = spc
    BY <1>1 DEF Reader, MarkRunning, AddEvent, StoreStatus, Capture, Publish,
        Push, Exit, MarkFailed, subVars
  <1>2. CASE CascadeCheck \/ CascadeWrite \/ CascadeLog \/ Clear \/ Retry
    BY <1>2 DEF CascadeCheck, CascadeWrite, CascadeLog, Clear, Retry, subVars
  <1>3. ASSUME NEW g \in Streams, g # f, Subscribe(g) \/ Serve(g) \/ Quit(g)
        PROVE  spc'[f] = spc[f]
    BY <1>3 DEF Subscribe, Serve, ReadStatus, ReadHistory, Replay, Replayed,
        Leave, Forward, Sentinel, Finish, Quit, WriteFails, subVars, TypeStreams
  <1>4. CASE Subscribe(f) \/ Serve(f) \/ Quit(f)
    <2>1. ~Subscribe(f)
      BY DEF Subscribe
    <2>2. ~ReadStatus(f) /\ ~ReadHistory(f) /\ ~Replay(f) /\ ~Forward(f)
            /\ ~Sentinel(f) /\ ~Quit(f)
      BY DEF ReadStatus, ReadHistory, Replay, Forward, Sentinel, Quit, subVars,
          TypeStreams
    <2>3. Replayed(f) => snap[f] \in Terminal
      BY DEF Replayed, TypeStreams
    <2>4. WriteFails(f) => gone[f]
      BY DEF WriteFails
    <2> QED
      BY <1>4, <2>1, <2>2, <2>3, <2>4 DEF Serve
  <1> QED
    BY <1>1, <1>2, <1>3, <1>4 DEF Next, Write, Watch

LEMMA EndShowsOutcome ==
  ASSUME StreamsInv, Next, NEW f \in Streams, spc[f] # "off", spc'[f] = "off",
         ~gone[f], ~Unannounced(since[f])
  PROVE  \E i \in got[f] : Outcome(i, since[f])
  <1> USE DEF StreamsInv
  <1>1. ~Silent(since[f])
    BY DEF Silent, Unannounced
  <1>2. CASE Replayed(f) /\ snap[f] \in Terminal
    <2>1. spc[f] = "replay" /\ todo[f] = {}
      BY <1>2 DEF Replayed
    <2>2. PICK i \in 1..Len(log) : i \in Seen(f) /\ Outcome(i, since[f])
      BY <1>1, <1>2, <2>1 DEF HistoryTold
    <2>3. i \notin unpub
      BY <2>2 DEF Unannounced, Outcome
    <2> QED
      BY <2>1, <2>2, <2>3 DEF Seen
  <1>3. CASE Finish(f)
    BY <1>3 DEF Finish, EndTold
  <1> QED
    BY <1>2, <1>3, EndStep

\* A stream that the daemon ends while its client is there has shown how the
\* run it was opened in, or a later one, came out, unless that end was one
\* nobody is told of: neither the sentinel nor the early return for a finished
\* task overtakes the event it stands for.
THEOREM EndsAreComplete ==
  ASSUME Patient
  PROVE  Spec => EndIsComplete
  <1>1. StreamsInv /\ [Next]_vars =>
          [\A f \in Streams :
              spc[f] # "off" /\ spc'[f] = "off" /\ ~gone[f] /\ ~Unannounced(since[f])
                => \E i \in got[f] : /\ log[i].kind \in Terminal
                                     /\ log[i].run >= since[f]]_vars
    BY EndShowsOutcome DEF Outcome
  <1> QED
    BY <1>1, StreamsInvariant, PTL DEF Spec, EndIsComplete
=============================================================================
