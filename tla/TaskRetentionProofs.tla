------------------------- MODULE TaskRetentionProofs -------------------------
(* Theorems of TaskRetention and their proofs.                             *)
EXTENDS TaskRetention, TLAPS

-----------------------------------------------------------------------------
(* The invariant.  Most of it is about the tasks that nobody used in a     *)
(* purge's way: raced holds the others.                                    *)

\* A task without a row has no history and no mappings.
Sound(tb) ==
    \A t \in Tasks \ raced : tb.row[t] = "absent" =>
        t \notin tb.events /\ \A x \in Threads : <<x, t>> \notin tb.maps

\* A thread is recorded for the tasks that wrote to it, and a checkpoint on a
\* thread of a task's own has that record.
Own(t) == /\ ThreadOf[t] \notin Legacy
          /\ \A u \in Tasks \ {t} : ThreadOf[u] # ThreadOf[t]
Mapped(tb) ==
    /\ \A x \in Threads, t \in Tasks : <<x, t>> \in tb.maps => x = ThreadOf[t]
    /\ \A t \in Tasks \ raced : Own(t) /\ ThreadOf[t] \in tb.cps =>
          <<ThreadOf[t], t>> \in tb.maps

Known(tb) == \A t \in Tasks : tb.row[t] # "absent" => t \in used

TableInv(tb) == Sound(tb) /\ Mapped(tb) /\ Known(tb)

\* A task is launched, read or run.
Busy(t) == lpc[t] # "free" \/ rpc[t] # "none" \/ t \in alive

\* A task that is busy has a row, and one with a finished row is not busy but
\* for the end of its reader and the start of a retry.
TaskOK(t) ==
    /\ rpc[t] # "none" => lpc[t] = "free"
    /\ rpc[t] \in {"store", "clean"} => t \notin alive
    /\ lpc[t] = "mark" => t \in active
    /\ Busy(t) => t \in used
    /\ t \notin raced /\ Busy(t) => db.row[t] # "absent"
    /\ t \notin raced /\ db.row[t] \in Purgeable =>
         /\ rpc[t] \in {"clean", "none"} /\ t \notin alive
         /\ lpc[t] \in {"free", "reset"}
TaskInv == \A t \in Tasks : TaskOK(t)

\* Nothing but agents that outlived it is left of a daemon that is down.
DownInv ==
    ~up => /\ \A p \in Purges : ppc[p] = "idle"
           /\ \A t \in Tasks : /\ lpc[t] = "free" /\ rpc[t] = "none"
                               /\ t \in alive => t \in raced

\* How far a purge is with the tasks of its two lists: their rows are still
\* finished, then their history is gone, their checkpoints, their mappings and
\* at last their rows.  Another purge may be there first.
AfterSelect == {"events", "mapped", "sweep", "checkpoints", "maps", "rows"}
AfterEvents == {"mapped", "sweep", "checkpoints", "maps", "rows"}
Gone == Purgeable \cup {"absent"}
ListOK(p) ==
    /\ ids[p] \cup doomed[p] \subseteq used
    /\ ppc[p] \in AfterSelect => \A t \in ids[p] \ raced : db.row[t] \in Gone
    /\ ppc[p] = "select" => \A t \in doomed[p] \ raced : db.row[t] \in Gone
    /\ ppc[p] \in AfterSelect \cup {"commit"} =>
          \A t \in doomed[p] \ raced : t \in ids[p] \/ db.row[t] = "absent"
    /\ ppc[p] \in AfterEvents => \A t \in ids[p] \ raced : t \notin db.events
    /\ ppc[p] = "rows" =>
          \A t \in ids[p] \ raced : \A x \in Threads : <<x, t>> \notin db.maps
    /\ ppc[p] = "commit" => \A t \in ids[p] : db.row[t] = "absent"
    /\ ppc[p] = "files" => \A t \in doomed[p] \ raced : db.row[t] = "absent"
ListInv == \A p \in Purges : ListOK(p)

\* The threads a purge is to delete: of the tasks with a thread of their own,
\* those that it purges and no other.
ThreadOK(p) ==
    \A t \in Tasks \ raced : Own(t) =>
        /\ ppc[p] \in {"sweep", "checkpoints"} =>
             IF t \in ids[p] THEN ThreadOf[t] \in db.cps => ThreadOf[t] \in thr[p]
                             ELSE ThreadOf[t] \notin thr[p]
        /\ ppc[p] = "maps" /\ t \in ids[p] => ThreadOf[t] \notin db.cps
ThreadInv == \A p \in Purges : ThreadOK(p)

\* A row that is deleted and not yet committed belongs to a purge that is
\* about to commit.
Deleted(t) == db.row[t] = "absent" /\ disk.row[t] # "absent"
PendingInv ==
    \A t \in Tasks : Deleted(t) =>
        \E p \in Purges : ppc[p] = "commit" /\ t \in ids[p]

RetentionInv ==
    /\ TypeOK /\ TableInv(db) /\ TableInv(disk)
    /\ TaskInv /\ DownInv /\ ListInv /\ ThreadInv /\ PendingInv

-----------------------------------------------------------------------------
(* What a step does to the tables.                                         *)

LEMMA UpdatedIs ==
  ASSUME db \in Tables, NEW t \in Tasks, NEW s \in Rows
  PROVE  /\ Updated(t, s) \in Tables
         /\ Updated(t, s).events = db.events /\ Updated(t, s).maps = db.maps
         /\ Updated(t, s).cps = db.cps
         /\ \A u \in Tasks : Updated(t, s).row[u] =
               IF u = t /\ db.row[t] # "absent" THEN s ELSE db.row[u]
  BY DEF Updated, Tables

LEMMA SetIs ==
  ASSUME NEW r \in [Tasks -> Rows], NEW ts, NEW s \in Rows
  PROVE  /\ Set(r, ts, s) \in [Tasks -> Rows]
         /\ \A u \in Tasks : Set(r, ts, s)[u] = IF u \in ts THEN s ELSE r[u]
  BY DEF Set

\* The committed tables: nothing is lost by a statement that waits for its
\* commit, nor by a step that leaves the tables alone.
LEMMA DiskKept ==
  ASSUME TableInv(disk), disk' = disk, raced \subseteq raced', used' = used
  PROVE  TableInv(disk)'
  BY DEF TableInv, Sound, Mapped, Known

LEMMA DbKept ==
  ASSUME TableInv(db), db' = db, raced \subseteq raced', used' = used
  PROVE  TableInv(db)'
  BY DEF TableInv, Sound, Mapped, Known

LEMMA DiskIsDb ==
  ASSUME disk' = db', TableInv(db)'
  PROVE  TableInv(disk)'
  BY DEF TableInv, Sound, Mapped, Known

LEMMA ListedAre ==
  ASSUME TypeOK
  PROVE  /\ Listed \subseteq Tasks
         /\ \A p \in Purges : ids[p] \subseteq Listed /\ doomed[p] \subseteq Listed
         /\ \A p \in Purges : ids[p] \subseteq Tasks /\ doomed[p] \subseteq Tasks
  BY DEF TypeOK, Listed

\* A step that is not this purge's, and what it may do to the tasks this purge
\* is at.
LEMMA ListKept ==
  ASSUME NEW p \in Purges, ListOK(p),
         ppc'[p] = ppc[p], ids'[p] = ids[p], doomed'[p] = doomed[p],
         used \subseteq used', raced \subseteq raced',
         \A t \in (ids[p] \cup doomed[p]) \ raced' :
            db.row[t] \in Purgeable => db'.row[t] \in Gone,
         \A t \in ids[p] \cup doomed[p] :
            db.row[t] = "absent" => db'.row[t] = "absent",
         ppc[p] \in AfterEvents =>
            \A t \in ids[p] \ raced' : t \in db'.events => t \in db.events,
         ppc[p] = "rows" =>
            \A t \in ids[p] \ raced', x \in Threads :
               <<x, t>> \in db'.maps => <<x, t>> \in db.maps
  PROVE  ListOK(p)'
  <1>1. ids'[p] \cup doomed'[p] \subseteq used'
    BY DEF ListOK
  <1>2. \A t \in (ids[p] \cup doomed[p]) \ raced' :
           db.row[t] \in Gone => db'.row[t] \in Gone
    BY DEF Gone
  <1>3. ppc'[p] \in AfterSelect => \A t \in ids'[p] \ raced' : db'.row[t] \in Gone
    BY <1>2 DEF ListOK
  <1>4. ppc'[p] = "select" => \A t \in doomed'[p] \ raced' : db'.row[t] \in Gone
    BY <1>2 DEF ListOK
  <1>5. ppc'[p] \in AfterSelect \cup {"commit"} =>
          \A t \in doomed'[p] \ raced' : t \in ids'[p] \/ db'.row[t] = "absent"
    BY DEF ListOK
  <1>6. ppc'[p] \in AfterEvents => \A t \in ids'[p] \ raced' : t \notin db'.events
    BY DEF ListOK
  <1>7. ppc'[p] = "rows" =>
          \A t \in ids'[p] \ raced' : \A x \in Threads : <<x, t>> \notin db'.maps
    BY DEF ListOK
  <1>8. /\ ppc'[p] = "commit" => \A t \in ids'[p] : db'.row[t] = "absent"
        /\ ppc'[p] = "files" => \A t \in doomed'[p] \ raced' : db'.row[t] = "absent"
    BY DEF ListOK
  <1> QED
    BY <1>1, <1>3, <1>4, <1>5, <1>6, <1>7, <1>8 DEF ListOK, AfterSelect,
       AfterEvents, Gone, Purgeable

\* The same of all purges, for a step of something else.
LEMMA ListFrame ==
  ASSUME ListInv, TypeOK, ppc' = ppc, ids' = ids, doomed' = doomed,
         used \subseteq used', raced \subseteq raced',
         \A t \in Listed \ raced' :
            db.row[t] \in Purgeable => db'.row[t] \in Gone,
         \A t \in Listed : db.row[t] = "absent" => db'.row[t] = "absent",
         \A p \in Purges : ppc[p] \in AfterEvents =>
            \A t \in ids[p] \ raced' : t \in db'.events => t \in db.events,
         \A p \in Purges : ppc[p] = "rows" =>
            \A t \in ids[p] \ raced', x \in Threads :
               <<x, t>> \in db'.maps => <<x, t>> \in db.maps
  PROVE  ListInv'
  <1> SUFFICES ASSUME NEW p \in Purges PROVE ListOK(p)'
    BY DEF ListInv
  <1>1. ids[p] \subseteq Listed /\ doomed[p] \subseteq Listed
    BY ListedAre
  <1> QED
    BY <1>1, ListKept DEF ListInv

\* A purge's threads stay what they are when no checkpoint is added.
LEMMA ThreadKept ==
  ASSUME NEW p \in Purges, ThreadOK(p), raced \subseteq raced',
         ppc'[p] = ppc[p], ids'[p] = ids[p], thr'[p] = thr[p],
         db'.cps \subseteq db.cps
  PROVE  ThreadOK(p)'
  BY DEF ThreadOK, Own

-----------------------------------------------------------------------------
(* Init and the actions.                                                   *)

LEMMA RetentionInvInit == Init => RetentionInv
  <1> SUFFICES ASSUME Init PROVE RetentionInv
    OBVIOUS
  <1>1. Empty \in Tables
    BY RetentionAssumption DEF Empty, Tables, Rows
  <1>2. TypeOK
    <2>1. db \in Tables /\ disk \in Tables /\ db = disk /\ held \in BOOLEAN
      BY <1>1 DEF Init
    <2>2. /\ lpc \in [Tasks -> {"free", "reset", "spawn", "mark"}]
          /\ rpc \in [Tasks -> {"none", "read", "store", "clean"}]
          /\ kpc \in [Followed -> {"ask", "row", "done"}]
          /\ \A t \in Tasks : rpc[t] # "none" => t \in active
      BY DEF Init
    <2>3. /\ active \subseteq Tasks /\ alive \subseteq Tasks
          /\ files \subseteq Tasks /\ seen \subseteq Followed
          /\ ppc = [p \in Purges |-> "idle"] /\ thr = [p \in Purges |-> {}]
          /\ doomed = [p \in Purges |-> {}] /\ ids = [p \in Purges |-> {}]
          /\ used \subseteq Tasks /\ raced \subseteq Tasks
      BY DEF Init
    <2>4. up \in BOOLEAN /\ crashes \in 0..MaxCrashes /\ retries \in 0..MaxRetries
      BY RetentionAssumption DEF Init
    <2> QED
      BY <2>1, <2>2, <2>3, <2>4 DEF TypeOK
  <1>3. TableInv(db) /\ TableInv(disk)
    BY DEF Init, Empty, TableInv, Sound, Mapped, Known, Own
  <1>4. TaskInv /\ DownInv
    BY DEF Init, Empty, TaskInv, TaskOK, DownInv, Busy, Purgeable
  <1>5. ListInv /\ ThreadInv /\ PendingInv
    BY DEF Init, ListInv, ListOK, ThreadInv, ThreadOK, PendingInv, Deleted,
        AfterSelect, AfterEvents
  <1> QED
    BY <1>2, <1>3, <1>4, <1>5 DEF RetentionInv

LEMMA SubmitStep ==
  ASSUME RetentionInv, NEW t \in Tasks, Submit(t)
  PROVE  RetentionInv'
  <1> USE RetentionAssumption DEF RetentionInv
  <1>a. /\ t \notin used /\ used' = used \cup {t} /\ up
        /\ db' \in Tables /\ disk' = db' /\ held' = FALSE
        /\ db'.events = db.events /\ db'.maps = db.maps /\ db'.cps = db.cps
        /\ \A u \in Tasks : db'.row[u] = IF u = t THEN "pending" ELSE db.row[u]
        /\ lpc' = [lpc EXCEPT ![t] = "spawn"]
    BY DEF Submit, Commit, purgeVars, pollVars, TypeOK, Tables, Rows, Live,
        Purgeable
  <1>b. UNCHANGED <<active, alive, rpc, files, ppc, doomed, ids, thr, kpc,
                     seen, up, crashes, retries, raced>>
    BY DEF Submit, Commit, purgeVars, pollVars
  <1>c. t \notin Listed
    BY <1>a DEF ListInv, ListOK, Listed
  <1>1. TypeOK'
    BY <1>a, <1>b DEF TypeOK
  <1>2. TableInv(db)'
    BY <1>a, <1>b DEF TableInv, Sound, Mapped, Known, Own
  <1>3. TableInv(disk)'
    BY <1>a, <1>2, DiskIsDb
  <1>4. TaskInv'
    BY <1>a, <1>b DEF TaskInv, TaskOK, Busy, Live, Purgeable
  <1>5. DownInv'
    BY <1>a, <1>b DEF DownInv
  <1>6. ListInv'
    BY <1>a, <1>b, <1>c, ListFrame, ListedAre DEF Gone, Purgeable
  <1>7. ThreadInv'
    BY <1>a, <1>b, ThreadKept DEF ThreadInv
  <1>8. PendingInv'
    BY <1>a DEF PendingInv, Deleted
  <1> QED
    BY <1>1, <1>2, <1>3, <1>4, <1>5, <1>6, <1>7, <1>8

LEMMA RetryCheckStep ==
  ASSUME RetentionInv, NEW t \in Tasks, RetryCheck(t)
  PROVE  RetentionInv'
  <1> USE RetentionAssumption DEF RetentionInv
  <1>a. /\ lpc[t] = "free" /\ db.row[t] = "over" /\ rpc[t] = "none" /\ up
        /\ lpc' = [lpc EXCEPT ![t] = "reset"]
        /\ retries' \in 0..MaxRetries
    BY DEF RetryCheck, dbVars, purgeVars, pollVars, TypeOK
  <1>b. UNCHANGED <<db, disk, held, active, alive, rpc, files, ppc, doomed,
                     ids, thr, kpc, seen, up, crashes, used, raced>>
    BY DEF RetryCheck, dbVars, purgeVars, pollVars
  <1>1. TypeOK'
    BY <1>a, <1>b DEF TypeOK
  <1>2. TableInv(db)'
    BY <1>a, <1>b, DbKept
  <1>3. TableInv(disk)'
    BY <1>a, <1>b, DiskKept
  <1>4. TaskInv'
    <2> SUFFICES ASSUME NEW u \in Tasks PROVE TaskOK(u)'
      BY DEF TaskInv
    <2>1. CASE u = t
      BY <2>1, <1>a, <1>b
         DEF TaskInv, TaskOK, Busy, Purgeable, TypeOK, TableInv, Known
    <2>2. CASE u # t
      BY <2>2, <1>a, <1>b
         DEF TaskInv, TaskOK, Busy, Purgeable, TypeOK, TableInv, Known
    <2> QED
      BY <2>1, <2>2
  <1>5. DownInv'
    BY <1>a, <1>b DEF DownInv
  <1>6. ListInv'
    BY <1>a, <1>b, ListFrame DEF Gone
  <1>7. ThreadInv'
    BY <1>a, <1>b, ThreadKept DEF ThreadInv
  <1>8. PendingInv'
    BY <1>a, <1>b DEF PendingInv, Deleted
  <1> QED
    BY <1>1, <1>2, <1>3, <1>4, <1>5, <1>6, <1>7, <1>8

LEMMA RetryResetStep ==
  ASSUME RetentionInv, NEW t \in Tasks, RetryReset(t)
  PROVE  RetentionInv'
  <1> USE RetentionAssumption DEF RetentionInv
  <1>a. /\ lpc[t] = "reset" /\ lpc' = [lpc EXCEPT ![t] = "spawn"]
        /\ raced' = IF t \in Listed THEN raced \cup {t} ELSE raced
        /\ db' \in Tables /\ disk' = db' /\ held' = FALSE
        /\ db'.events = db.events /\ db'.maps = db.maps /\ db'.cps = db.cps
        /\ \A u \in Tasks : db'.row[u] = 
              IF u = t /\ db.row[t] # "absent" THEN "pending" ELSE db.row[u]
    BY UpdatedIs DEF RetryReset, Commit, purgeVars, pollVars, hostVars,
        TypeOK, Tables, Rows, Live, Purgeable
  <1>b. UNCHANGED <<active, alive, rpc, files, ppc, doomed, ids, thr, kpc,
                     seen, up, crashes, retries, used>>
    BY DEF RetryReset, Commit, purgeVars, pollVars, hostVars
  <1>c. t \notin raced => db.row[t] # "absent"
    BY <1>a DEF TaskInv, TaskOK, Busy
  <1>1. TypeOK'
    BY <1>a, <1>b DEF TypeOK
  <1>2. TableInv(db)'
    BY <1>a, <1>b DEF TableInv, Sound, Mapped, Known, Own
  <1>3. TableInv(disk)'
    BY <1>a, <1>2, DiskIsDb
  <1>4. TaskInv'
    BY <1>a, <1>b DEF TaskInv, TaskOK, Busy, Live, Purgeable
  <1>5. DownInv'
    BY <1>a, <1>b DEF DownInv
  <1>6. ListInv'
    BY <1>a, <1>b, <1>c, ListFrame, ListedAre DEF Gone, Purgeable
  <1>7. ThreadInv'
    BY <1>a, <1>b, ThreadKept DEF ThreadInv
  <1>8. PendingInv'
    BY <1>a DEF PendingInv, Deleted
  <1> QED
    BY <1>1, <1>2, <1>3, <1>4, <1>5, <1>6, <1>7, <1>8

LEMMA SpawnStep ==
  ASSUME RetentionInv, NEW t \in Tasks, Spawn(t)
  PROVE  RetentionInv'
  <1> USE RetentionAssumption DEF RetentionInv
  <1>a. /\ lpc[t] = "spawn" /\ lpc' = [lpc EXCEPT ![t] = "mark"]
        /\ active' = active \cup {t} /\ alive' = alive \cup {t}
        /\ files' = files \cup {t}
        /\ db' = db /\ disk' = db' /\ held' = FALSE
    BY DEF Spawn, Commit, purgeVars, pollVars, hostVars, TypeOK
  <1>b. UNCHANGED <<rpc, ppc, doomed, ids, thr, kpc, seen, up, crashes,
                     retries, used, raced>>
    BY DEF Spawn, Commit, purgeVars, pollVars, hostVars
  <1>c. t \notin raced => db.row[t] \notin Purgeable \cup {"absent"}
    BY <1>a DEF TaskInv, TaskOK, Busy
  <1>1. TypeOK'
    BY <1>a, <1>b DEF TypeOK
  <1>2. TableInv(db)'
    BY <1>a, <1>b, DbKept
  <1>3. TableInv(disk)'
    BY <1>a, <1>2, DiskIsDb
  <1>4. TaskInv'
    BY <1>a, <1>b DEF TaskInv, TaskOK, Busy, Live, Purgeable
  <1>5. DownInv'
    BY <1>a, <1>b DEF DownInv
  <1>6. ListInv'
    BY <1>a, <1>b, ListFrame DEF Gone
  <1>7. ThreadInv'
    BY <1>a, <1>b, ThreadKept DEF ThreadInv
  <1>8. PendingInv'
    BY <1>a DEF PendingInv, Deleted
  <1> QED
    BY <1>1, <1>2, <1>3, <1>4, <1>5, <1>6, <1>7, <1>8

LEMMA MarkRunningStep ==
  ASSUME RetentionInv, NEW t \in Tasks, MarkRunning(t)
  PROVE  RetentionInv'
  <1> USE RetentionAssumption DEF RetentionInv
  <1>a. /\ lpc[t] = "mark" /\ lpc' = [lpc EXCEPT ![t] = "free"]
        /\ rpc' = [rpc EXCEPT ![t] = "read"]
        /\ db' \in Tables /\ disk' = db' /\ held' = FALSE
        /\ db'.events = db.events /\ db'.maps = db.maps /\ db'.cps = db.cps
        /\ \A u \in Tasks : db'.row[u] = 
              IF u = t /\ db.row[t] # "absent" THEN "running" ELSE db.row[u]
    BY UpdatedIs DEF MarkRunning, Commit, purgeVars, pollVars, hostVars,
        TypeOK, Tables, Rows, Live, Purgeable
  <1>b. UNCHANGED <<active, alive, files, ppc, doomed, ids, thr, kpc, seen,
                     up, crashes, retries, used, raced>>
    BY DEF MarkRunning, Commit, purgeVars, pollVars, hostVars
  <1>c. t \notin raced => db.row[t] \notin Purgeable \cup {"absent"}
    BY <1>a DEF TaskInv, TaskOK, Busy
  <1>1. TypeOK'
    <2>1. t \in active
      BY <1>a DEF TaskInv, TaskOK
    <2> QED
      BY <2>1, <1>a, <1>b DEF TypeOK
  <1>2. TableInv(db)'
    BY <1>a, <1>b DEF TableInv, Sound, Mapped, Known, Own
  <1>3. TableInv(disk)'
    BY <1>a, <1>2, DiskIsDb
  <1>4. TaskInv'
    <2> SUFFICES ASSUME NEW u \in Tasks PROVE TaskOK(u)'
      BY DEF TaskInv
    <2>1. CASE u = t
      BY <2>1, <1>a, <1>b, <1>c DEF TaskInv, TaskOK, Busy, Purgeable, Live, TypeOK
    <2>2. CASE u # t
      BY <2>2, <1>a, <1>b, <1>c DEF TaskInv, TaskOK, Busy, Purgeable, Live, TypeOK
    <2> QED
      BY <2>1, <2>2
  <1>5. DownInv'
    <2>1. up
      BY <1>a DEF DownInv, TypeOK
    <2> QED
      BY <2>1, <1>b DEF DownInv
  <1>6. ListInv'
    BY <1>a, <1>b, <1>c, ListFrame, ListedAre DEF Gone, Purgeable
  <1>7. ThreadInv'
    BY <1>a, <1>b, ThreadKept DEF ThreadInv
  <1>8. PendingInv'
    BY <1>a DEF PendingInv, Deleted
  <1> QED
    BY <1>1, <1>2, <1>3, <1>4, <1>5, <1>6, <1>7, <1>8

LEMMA AddEventStep ==
  ASSUME RetentionInv, NEW t \in Tasks, AddEvent(t)
  PROVE  RetentionInv'
  <1> USE RetentionAssumption DEF RetentionInv
  <1>a. /\ rpc[t] = "read" /\ rpc' = [rpc EXCEPT ![t] = "store"]
        /\ alive' = alive \ {t}
        /\ db' \in Tables /\ disk' = db' /\ held' = FALSE
        /\ db'.events = db.events \cup {t} /\ db'.row = db.row
        /\ db'.maps = db.maps /\ db'.cps = db.cps
    BY DEF AddEvent, Commit, purgeVars, pollVars, hostVars, TypeOK, Tables
  <1>b. UNCHANGED <<lpc, active, files, ppc, doomed, ids, thr, kpc, seen,
                     up, crashes, retries, used, raced>>
    BY DEF AddEvent, Commit, purgeVars, pollVars, hostVars
  <1>c. t \notin raced => db.row[t] \notin Purgeable \cup {"absent"}
    BY <1>a DEF TaskInv, TaskOK, Busy
  <1>1. TypeOK'
    BY <1>a, <1>b DEF TypeOK
  <1>2. TableInv(db)'
    BY <1>a, <1>b, <1>c DEF TableInv, Sound, Mapped, Known
  <1>3. TableInv(disk)'
    BY <1>a, <1>2, DiskIsDb
  <1>4. TaskInv'
    BY <1>a, <1>b DEF TaskInv, TaskOK, Busy, Live, Purgeable
  <1>5. DownInv'
    BY <1>a, <1>b DEF DownInv
  <1>6. ListInv'
    <2>1. \A p \in Purges : ppc[p] \in AfterEvents /\ t \in ids[p] => t \in raced
      BY <1>c DEF ListInv, ListOK, AfterEvents, AfterSelect, Gone
    <2> QED
      BY <1>a, <1>b, <2>1, ListFrame DEF Gone
  <1>7. ThreadInv'
    BY <1>a, <1>b, ThreadKept DEF ThreadInv
  <1>8. PendingInv'
    BY <1>a DEF PendingInv, Deleted
  <1> QED
    BY <1>1, <1>2, <1>3, <1>4, <1>5, <1>6, <1>7, <1>8

LEMMA StoreStatusStep ==
  ASSUME RetentionInv, NEW t \in Tasks, StoreStatus(t)
  PROVE  RetentionInv'
  <1> USE RetentionAssumption DEF RetentionInv
  <1>a. /\ rpc[t] = "store" /\ rpc' = [rpc EXCEPT ![t] = "clean"]
        /\ db' \in Tables /\ disk' = db' /\ held' = FALSE
        /\ db'.events = db.events /\ db'.maps = db.maps /\ db'.cps = db.cps
        /\ \A u \in Tasks : db'.row[u] = 
              IF u = t /\ db.row[t] # "absent" THEN "over" ELSE db.row[u]
    BY UpdatedIs DEF StoreStatus, Commit, purgeVars, pollVars, hostVars,
        TypeOK, Tables, Rows, Live, Purgeable
  <1>b. UNCHANGED <<lpc, active, alive, files, ppc, doomed, ids, thr, kpc,
                     seen, up, crashes, retries, used, raced>>
    BY DEF StoreStatus, Commit, purgeVars, pollVars, hostVars
  <1>c. t \notin alive /\ lpc[t] = "free" /\ t \in used
    BY <1>a DEF TaskInv, TaskOK, Busy
  <1>1. TypeOK'
    BY <1>a, <1>b DEF TypeOK
  <1>2. TableInv(db)'
    BY <1>a, <1>b DEF TableInv, Sound, Mapped, Known, Own
  <1>3. TableInv(disk)'
    BY <1>a, <1>2, DiskIsDb
  <1>4. TaskInv'
    <2> SUFFICES ASSUME NEW u \in Tasks PROVE TaskOK(u)'
      BY DEF TaskInv
    <2>1. CASE u = t
      BY <2>1, <1>a, <1>b, <1>c DEF TaskInv, TaskOK, Busy, Purgeable, Live, TypeOK
    <2>2. CASE u # t
      BY <2>2, <1>a, <1>b, <1>c DEF TaskInv, TaskOK, Busy, Purgeable, Live, TypeOK
    <2> QED
      BY <2>1, <2>2
  <1>5. DownInv'
    BY <1>a, <1>b DEF DownInv
  <1>6. ListInv'
    BY <1>a, <1>b, <1>c, ListFrame, ListedAre DEF Gone, Purgeable
  <1>7. ThreadInv'
    BY <1>a, <1>b, ThreadKept DEF ThreadInv
  <1>8. PendingInv'
    BY <1>a DEF PendingInv, Deleted
  <1> QED
    BY <1>1, <1>2, <1>3, <1>4, <1>5, <1>6, <1>7, <1>8

LEMMA CleanupStep ==
  ASSUME RetentionInv, NEW t \in Tasks, Cleanup(t)
  PROVE  RetentionInv'
  <1> USE RetentionAssumption DEF RetentionInv
  <1>a. /\ rpc[t] = "clean" /\ rpc' = [rpc EXCEPT ![t] = "none"]
        /\ active' = active \ {t}
        /\ db' = db /\ disk' = db' /\ held' = FALSE
    BY DEF Cleanup, Commit, purgeVars, pollVars, hostVars, TypeOK
  <1>b. UNCHANGED <<lpc, alive, files, ppc, doomed, ids, thr, kpc, seen,
                     up, crashes, retries, used, raced>>
    BY DEF Cleanup, Commit, purgeVars, pollVars, hostVars
  <1>1. TypeOK'
    BY <1>a, <1>b DEF TypeOK
  <1>2. TableInv(db)'
    BY <1>a, <1>b, DbKept
  <1>3. TableInv(disk)'
    BY <1>a, <1>2, DiskIsDb
  <1>4. TaskInv'
    BY <1>a, <1>b DEF TaskInv, TaskOK, Busy, Live, Purgeable
  <1>5. DownInv'
    <2>1. up
      BY <1>a DEF DownInv, TypeOK
    <2> QED
      BY <2>1, <1>b DEF DownInv
  <1>6. ListInv'
    BY <1>a, <1>b, ListFrame DEF Gone
  <1>7. ThreadInv'
    BY <1>a, <1>b, ThreadKept DEF ThreadInv
  <1>8. PendingInv'
    BY <1>a DEF PendingInv, Deleted
  <1> QED
    BY <1>1, <1>2, <1>3, <1>4, <1>5, <1>6, <1>7, <1>8

LEMMA CheckpointStep ==
  ASSUME RetentionInv, NEW t \in Tasks, Checkpoint(t)
  PROVE  RetentionInv'
  <1> USE RetentionAssumption DEF RetentionInv
  <1>a. /\ t \in alive /\ ~held
        /\ db' \in Tables /\ disk' = db' /\ held' = FALSE
        /\ db'.events = db.events /\ db'.row = db.row
        /\ db'.cps = db.cps \cup {ThreadOf[t]}
        /\ db'.maps = db.maps \cup {<<ThreadOf[t], t>>}
    <2>1. ThreadOf[t] \in Threads /\ <<ThreadOf[t], t>> \in Threads \X Tasks
      OBVIOUS
    <2> QED
      BY <2>1 DEF Checkpoint, AgentWrites, Commit, TypeOK, Tables
  <1>b. UNCHANGED <<lpc, active, alive, rpc, files, ppc, doomed, ids, thr,
                     kpc, seen, up, crashes, retries, used, raced>>
    BY DEF Checkpoint, AgentWrites, Commit, launchVars, purgeVars, pollVars,
        hostVars
  <1>c. t \notin raced => db.row[t] \notin Purgeable \cup {"absent"}
    BY <1>a DEF TaskInv, TaskOK, Busy
  <1>1. TypeOK'
    BY <1>a, <1>b DEF TypeOK
  <1>2. TableInv(db)'
    <2>1. Sound(db)'
      BY <1>a, <1>b, <1>c DEF TableInv, Sound
    <2>2. Mapped(db)'
      BY <1>a, <1>b DEF TableInv, Mapped, Own
    <2>3. Known(db)'
      BY <1>a, <1>b DEF TableInv, Known
    <2> QED
      BY <2>1, <2>2, <2>3 DEF TableInv
  <1>3. TableInv(disk)'
    BY <1>a, <1>2, DiskIsDb
  <1>4. TaskInv'
    BY <1>a, <1>b DEF TaskInv, TaskOK, Busy, Live, Purgeable
  <1>5. DownInv'
    BY <1>a, <1>b DEF DownInv
  <1>6. ListInv'
    <2>1. \A p \in Purges : ppc[p] = "rows" /\ t \in ids[p] => t \in raced
      BY <1>c DEF ListInv, ListOK, AfterSelect, Gone
    <2>2. \A u \in Tasks, x \in Threads :
             <<x, u>> \in db'.maps => <<x, u>> \in db.maps \/ u = t
      BY <1>a
    <2>3. \A p \in Purges : ids[p] \subseteq Tasks
      BY ListedAre
    <2> QED
      BY <1>a, <1>b, <2>1, <2>2, <2>3, ListFrame DEF Gone
  <1>7. ThreadInv'
    <2> SUFFICES ASSUME NEW p \in Purges, NEW u \in Tasks \ raced, Own(u)
                 PROVE  /\ ppc[p] \in {"sweep", "checkpoints"} =>
                             IF u \in ids[p]
                             THEN ThreadOf[u] \in db'.cps => ThreadOf[u] \in thr[p]
                             ELSE ThreadOf[u] \notin thr[p]
                        /\ ppc[p] = "maps" /\ u \in ids[p] =>
                             ThreadOf[u] \notin db'.cps
      BY <1>b DEF ThreadInv, ThreadOK, Own
    <2>1. ppc[p] \in AfterSelect /\ t \in ids[p] => t \in raced
      BY <1>c DEF ListInv, ListOK, Gone
    <2>2. u # t => ThreadOf[u] # ThreadOf[t]
      BY DEF Own
    <2>3. CASE u = t
      BY <1>a, <2>1, <2>3 DEF ThreadInv, ThreadOK, AfterSelect
    <2>4. CASE u # t
      BY <1>a, <2>2, <2>4 DEF ThreadInv, ThreadOK
    <2> QED
      BY <2>3, <2>4
  <1>8. PendingInv'
    BY <1>a DEF PendingInv, Deleted
  <1> QED
    BY <1>1, <1>2, <1>3, <1>4, <1>5, <1>6, <1>7, <1>8

LEMMA DeleteThreadStep ==
  ASSUME RetentionInv, NEW t \in Tasks, DeleteThread(t)
  PROVE  RetentionInv'
  <1> USE RetentionAssumption DEF RetentionInv
  <1>a. /\ t \in alive /\ ~held
        /\ db' \in Tables /\ disk' = db' /\ held' = FALSE
        /\ db'.events = db.events /\ db'.row = db.row
        /\ db'.cps = db.cps \ {ThreadOf[t]}
        /\ db'.maps = db.maps \ ({ThreadOf[t]} \X Tasks)
    BY DEF DeleteThread, AgentWrites, Commit, launchVars, purgeVars,
        pollVars, hostVars, TypeOK, Tables
  <1>b. UNCHANGED <<lpc, active, alive, rpc, files, ppc, doomed, ids, thr,
                     kpc, seen, up, crashes, retries, used, raced>>
    BY DEF DeleteThread, AgentWrites, Commit, launchVars, purgeVars,
        pollVars, hostVars
  <1>1. TypeOK'
    BY <1>a, <1>b DEF TypeOK
  <1>2. TableInv(db)'
    BY <1>a, <1>b DEF TableInv, Sound, Mapped, Known, Own
  <1>3. TableInv(disk)'
    BY <1>a, <1>2, DiskIsDb
  <1>4. TaskInv'
    BY <1>a, <1>b DEF TaskInv, TaskOK, Busy, Live, Purgeable
  <1>5. DownInv'
    BY <1>a, <1>b DEF DownInv
  <1>6. ListInv'
    BY <1>a, <1>b, ListFrame DEF Gone
  <1>7. ThreadInv'
    BY <1>a, <1>b, ThreadKept DEF ThreadInv
  <1>8. PendingInv'
    BY <1>a DEF PendingInv, Deleted
  <1> QED
    BY <1>1, <1>2, <1>3, <1>4, <1>5, <1>6, <1>7, <1>8

LEMMA StrayEndsStep ==
  ASSUME RetentionInv, NEW t \in Tasks, StrayEnds(t)
  PROVE  RetentionInv'
  <1> USE RetentionAssumption DEF RetentionInv
  <1>a. /\ t \notin active /\ lpc[t] = "free"
        /\ alive' = alive \ {t}
    BY DEF StrayEnds, dbVars, purgeVars, pollVars, hostVars, TypeOK
  <1>b. UNCHANGED <<db, disk, held, lpc, active, rpc, files, ppc, doomed,
                     ids, thr, kpc, seen, up, crashes, retries, used, raced>>
    BY DEF StrayEnds, dbVars, purgeVars, pollVars, hostVars
  <1>1. TypeOK'
    BY <1>a, <1>b DEF TypeOK
  <1>2. TableInv(db)'
    BY <1>a, <1>b, DbKept
  <1>3. TableInv(disk)'
    BY <1>a, <1>b, DiskKept
  <1>4. TaskInv'
    BY <1>a, <1>b DEF TaskInv, TaskOK, Busy, Live, Purgeable
  <1>5. DownInv'
    BY <1>a, <1>b DEF DownInv
  <1>6. ListInv'
    BY <1>a, <1>b, ListFrame DEF Gone
  <1>7. ThreadInv'
    BY <1>a, <1>b, ThreadKept DEF ThreadInv
  <1>8. PendingInv'
    BY <1>a, <1>b DEF PendingInv, Deleted
  <1> QED
    BY <1>1, <1>2, <1>3, <1>4, <1>5, <1>6, <1>7, <1>8

LEMMA ClearStep ==
  ASSUME RetentionInv, Clear
  PROVE  RetentionInv'
  <1> USE RetentionAssumption DEF RetentionInv
  <1>a. /\ up
        /\ db' \in Tables /\ disk' = db' /\ held' = FALSE
        /\ db'.events = db.events /\ db'.maps = db.maps /\ db'.cps = db.cps
        /\ \A u \in Tasks : db'.row[u] = 
              IF db.row[u] = "over" THEN "cleared" ELSE db.row[u]
    <2>1. db \in Tables /\ db.row \in [Tasks -> Rows] /\ "cleared" \in Rows
      BY DEF TypeOK, Tables, Rows, Purgeable
    <2>2. db' = [db EXCEPT !.row = Set(db.row,
                                 {t \in Tasks : db.row[t] = "over"}, "cleared")]
      BY DEF Clear, Commit
    <2> QED
      BY <2>1, <2>2, SetIs DEF Clear, Commit, Tables
  <1>b. UNCHANGED <<lpc, active, alive, rpc, files, ppc, doomed, ids, thr,
                     kpc, seen, up, crashes, retries, used, raced>>
    BY DEF Clear, Commit, launchVars, purgeVars, pollVars, hostVars
  <1>1. TypeOK'
    BY <1>a, <1>b DEF TypeOK
  <1>2. TableInv(db)'
    BY <1>a, <1>b DEF TableInv, Sound, Mapped, Known, Own
  <1>3. TableInv(disk)'
    BY <1>a, <1>2, DiskIsDb
  <1>4. TaskInv'
    BY <1>a, <1>b DEF TaskInv, TaskOK, Busy, Live, Purgeable
  <1>5. DownInv'
    BY <1>a, <1>b DEF DownInv
  <1>6. ListInv'
    BY <1>a, <1>b, ListFrame, ListedAre DEF Gone, Purgeable
  <1>7. ThreadInv'
    BY <1>a, <1>b, ThreadKept DEF ThreadInv
  <1>8. PendingInv'
    BY <1>a DEF PendingInv, Deleted
  <1> QED
    BY <1>1, <1>2, <1>3, <1>4, <1>5, <1>6, <1>7, <1>8

LEMMA PurgeStartStep ==
  ASSUME RetentionInv, NEW p \in Purges, PurgeStart(p)
  PROVE  RetentionInv'
  <1> USE RetentionAssumption DEF RetentionInv
  <1>a. /\ ppc[p] = "idle" /\ ppc' = [ppc EXCEPT ![p] = "select"] /\ up
        /\ doomed' = [doomed EXCEPT ![p] = Finished]
    BY DEF PurgeStart, dbVars, launchVars, pollVars, hostVars, TypeOK
  <1>b. UNCHANGED <<db, disk, held, lpc, active, alive, rpc, files, ids,
                     thr, kpc, seen, up, crashes, retries, used, raced>>
    BY DEF PurgeStart, dbVars, launchVars, pollVars, hostVars
  <1>1. TypeOK'
    BY <1>a, <1>b, ListedAre DEF TypeOK, Tables, Finished
  <1>2. TableInv(db)'
    BY <1>a, <1>b, DbKept
  <1>3. TableInv(disk)'
    BY <1>a, <1>b, DiskKept
  <1>4. TaskInv'
    BY <1>a, <1>b DEF TaskInv, TaskOK, Busy, Live, Purgeable
  <1>5. DownInv'
    BY <1>a, <1>b DEF DownInv
  <1>6. ListInv'
    <2> SUFFICES ASSUME NEW q \in Purges PROVE ListOK(q)'
      BY DEF ListInv
    <2>1. CASE q # p
      BY <1>a, <1>b, <2>1, ListKept, ListedAre DEF ListInv, TypeOK, Gone
    <2>2. CASE q = p
      <3>1. \A t \in Finished : t \in used /\ db.row[t] \in Purgeable
        BY DEF Finished, Purgeable, TableInv, Known
      <3>2. ppc'[p] = "select" /\ doomed'[p] = Finished /\ ids[p] \subseteq used
        BY <1>a DEF TypeOK, ListInv, ListOK
      <3> QED
        BY <1>b, <2>2, <3>1, <3>2 DEF ListOK, AfterSelect, AfterEvents, Gone
    <2> QED
      BY <2>1, <2>2
  <1>7. ThreadInv'
    <2> SUFFICES ASSUME NEW q \in Purges PROVE ThreadOK(q)'
      BY DEF ThreadInv
    <2>1. CASE q # p
      BY <1>a, <1>b, <2>1, ThreadKept DEF ThreadInv, TypeOK
    <2>2. CASE q = p
      BY <1>a, <1>b, <2>2 DEF ThreadInv, ThreadOK, TypeOK, Own
    <2> QED
      BY <2>1, <2>2
  <1>8. PendingInv'
    <2>1. ASSUME NEW t \in Tasks, NEW q \in Purges, ppc[q] = "commit", t \in ids[q]
          PROVE  ppc'[q] = "commit" /\ t \in ids'[q]
      BY <1>a, <1>b, <2>1 DEF TypeOK
    <2> QED
      BY <1>a, <1>b, <2>1 DEF PendingInv, Deleted
  <1> QED
    BY <1>1, <1>2, <1>3, <1>4, <1>5, <1>6, <1>7, <1>8

LEMMA PurgeSelectStep ==
  ASSUME RetentionInv, NEW p \in Purges, PurgeSelect(p)
  PROVE  RetentionInv'
  <1> USE RetentionAssumption DEF RetentionInv
  <1>a. /\ ppc[p] = "select"
        /\ ppc' = [ppc EXCEPT ![p] = IF Finished = {} THEN "files" ELSE "events"]
        /\ ids' = [ids EXCEPT ![p] = Finished]
    BY DEF PurgeSelect, Statement, dbVars, launchVars, pollVars, hostVars,
        TypeOK
  <1>b. UNCHANGED <<db, disk, held, lpc, active, alive, rpc, files, doomed,
                     thr, kpc, seen, up, crashes, retries, used, raced>>
    BY DEF PurgeSelect, Statement, dbVars, launchVars, pollVars, hostVars
  <1>1. TypeOK'
    BY <1>a, <1>b, ListedAre DEF TypeOK, Tables, Finished
  <1>2. TableInv(db)'
    BY <1>a, <1>b, DbKept
  <1>3. TableInv(disk)'
    BY <1>a, <1>b, DiskKept
  <1>4. TaskInv'
    BY <1>a, <1>b DEF TaskInv, TaskOK, Busy, Live, Purgeable
  <1>5. DownInv'
    BY <1>a, <1>b DEF DownInv
  <1>6. ListInv'
    <2> SUFFICES ASSUME NEW q \in Purges PROVE ListOK(q)'
      BY DEF ListInv
    <2>1. CASE q # p
      BY <1>a, <1>b, <2>1, ListKept, ListedAre DEF ListInv, TypeOK, Gone
    <2>2. CASE q = p
      <3>1. \A t \in Finished : t \in used /\ db.row[t] \in Purgeable
        BY DEF Finished, Purgeable, TableInv, Known
      <3>2. /\ ppc'[p] = IF Finished = {} THEN "files" ELSE "events"
            /\ ids'[p] = Finished
        BY <1>a DEF TypeOK
      <3>3. \A t \in doomed[p] \ raced : t \in Finished \/ db.row[t] = "absent"
        BY <1>a, ListedAre DEF ListInv, ListOK, Finished, Gone
      <3>4. doomed[p] \subseteq used
        BY DEF ListInv, ListOK
      <3> QED
        BY <1>b, <2>2, <3>1, <3>2, <3>3, <3>4 DEF ListOK, AfterSelect,
            AfterEvents, Gone
    <2> QED
      BY <2>1, <2>2
  <1>7. ThreadInv'
    <2> SUFFICES ASSUME NEW q \in Purges PROVE ThreadOK(q)'
      BY DEF ThreadInv
    <2>1. CASE q # p
      BY <1>a, <1>b, <2>1, ThreadKept DEF ThreadInv, TypeOK
    <2>2. CASE q = p
      <3>1. ppc'[p] \notin {"sweep", "checkpoints", "maps"}
        BY <1>a DEF TypeOK
      <3> QED
        BY <2>2, <3>1 DEF ThreadOK
    <2> QED
      BY <2>1, <2>2
  <1>8. PendingInv'
    <2>1. ASSUME NEW t \in Tasks, NEW q \in Purges, ppc[q] = "commit", t \in ids[q]
          PROVE  ppc'[q] = "commit" /\ t \in ids'[q]
      BY <1>a, <1>b, <2>1 DEF TypeOK
    <2> QED
      BY <1>a, <1>b, <2>1 DEF PendingInv, Deleted
  <1> QED
    BY <1>1, <1>2, <1>3, <1>4, <1>5, <1>6, <1>7, <1>8

LEMMA PurgeEventsStep ==
  ASSUME RetentionInv, NEW p \in Purges, PurgeEvents(p)
  PROVE  RetentionInv'
  <1> USE RetentionAssumption DEF RetentionInv
  <1>a. /\ ppc[p] = "events" /\ ppc' = [ppc EXCEPT ![p] = "mapped"]
        /\ held' = TRUE /\ disk' = disk /\ db' \in Tables
        /\ db'.events = db.events \ ids[p]
        /\ db'.row = db.row
        /\ db'.maps = db.maps /\ db'.cps = db.cps
    BY DEF PurgeEvents, Statement, Do, launchVars, pollVars, hostVars,
        TypeOK, Tables
  <1>b. UNCHANGED <<disk, lpc, active, alive, rpc, files, doomed, ids, thr,
                     kpc, seen, up, crashes, retries, used, raced>>
    BY DEF PurgeEvents, Statement, Do, launchVars, pollVars, hostVars
  <1>1. TypeOK'
    BY <1>a, <1>b, ListedAre DEF TypeOK, Tables, Finished
  <1>2. TableInv(db)'
    BY <1>a, <1>b DEF TableInv, Sound, Mapped, Known, Own
  <1>3. TableInv(disk)'
    BY <1>a, <1>b, DiskKept
  <1>4. TaskInv'
    BY <1>a, <1>b DEF TaskInv, TaskOK, Busy, Live, Purgeable
  <1>5. DownInv'
    BY <1>a, <1>b DEF DownInv
  <1>6. ListInv'
    <2> SUFFICES ASSUME NEW q \in Purges PROVE ListOK(q)'
      BY DEF ListInv
    <2>1. CASE q # p
      BY <1>a, <1>b, <2>1, ListKept, ListedAre DEF ListInv, TypeOK, Gone
    <2>2. CASE q = p
      BY <1>a, <1>b, <2>2, ListedAre
         DEF ListInv, ListOK, TypeOK, AfterSelect, AfterEvents, Gone, Purgeable
    <2> QED
      BY <2>1, <2>2
  <1>7. ThreadInv'
    <2> SUFFICES ASSUME NEW q \in Purges PROVE ThreadOK(q)'
      BY DEF ThreadInv
    <2>1. CASE q # p
      BY <1>a, <1>b, <2>1, ThreadKept DEF ThreadInv, TypeOK
    <2>2. CASE q = p
      BY <1>a, <1>b, <2>2 DEF ThreadInv, ThreadOK, TypeOK, Own
    <2> QED
      BY <2>1, <2>2
  <1>8. PendingInv'
    <2>1. ASSUME NEW t \in Tasks, NEW q \in Purges, ppc[q] = "commit", t \in ids[q]
          PROVE  ppc'[q] = "commit" /\ t \in ids'[q]
      BY <1>a, <1>b, <2>1 DEF TypeOK
    <2> QED
      BY <1>a, <1>b, <2>1 DEF PendingInv, Deleted
  <1> QED
    BY <1>1, <1>2, <1>3, <1>4, <1>5, <1>6, <1>7, <1>8

LEMMA PurgeMappedStep ==
  ASSUME RetentionInv, NEW p \in Purges, PurgeMapped(p)
  PROVE  RetentionInv'
  <1> USE RetentionAssumption DEF RetentionInv
  <1>a. /\ ppc[p] = "mapped" /\ ppc' = [ppc EXCEPT ![p] = "sweep"]
        /\ thr' = [thr EXCEPT ![p] =
                     {x \in Threads : \E t \in ids[p] : <<x, t>> \in db.maps}]
    BY DEF PurgeMapped, Statement, dbVars, launchVars, pollVars, hostVars,
        TypeOK
  <1>b. UNCHANGED <<db, disk, held, lpc, active, alive, rpc, files, doomed,
                     ids, kpc, seen, up, crashes, retries, used, raced>>
    BY DEF PurgeMapped, Statement, dbVars, launchVars, pollVars, hostVars
  <1>1. TypeOK'
    BY <1>a, <1>b, ListedAre DEF TypeOK, Tables, Finished
  <1>2. TableInv(db)'
    BY <1>a, <1>b, DbKept
  <1>3. TableInv(disk)'
    BY <1>a, <1>b, DiskKept
  <1>4. TaskInv'
    BY <1>a, <1>b DEF TaskInv, TaskOK, Busy, Live, Purgeable
  <1>5. DownInv'
    BY <1>a, <1>b DEF DownInv
  <1>6. ListInv'
    <2> SUFFICES ASSUME NEW q \in Purges PROVE ListOK(q)'
      BY DEF ListInv
    <2>1. CASE q # p
      BY <1>a, <1>b, <2>1, ListKept, ListedAre DEF ListInv, TypeOK, Gone
    <2>2. CASE q = p
      BY <1>a, <1>b, <2>2, ListedAre
         DEF ListInv, ListOK, TypeOK, AfterSelect, AfterEvents, Gone, Purgeable
    <2> QED
      BY <2>1, <2>2
  <1>7. ThreadInv'
    <2> SUFFICES ASSUME NEW q \in Purges PROVE ThreadOK(q)'
      BY DEF ThreadInv
    <2>1. CASE q # p
      BY <1>a, <1>b, <2>1, ThreadKept DEF ThreadInv, TypeOK
    <2>2. CASE q = p
      <3> SUFFICES ASSUME NEW t \in Tasks \ raced, Own(t)
                   PROVE  IF t \in ids[p]
                          THEN ThreadOf[t] \in db.cps => ThreadOf[t] \in thr'[p]
                          ELSE ThreadOf[t] \notin thr'[p]
        BY <1>a, <1>b, <2>2 DEF ThreadOK, Own, TypeOK
      <3>1. ThreadOf[t] \in Threads /\ ids[p] \subseteq Tasks
        BY ListedAre
      <3>2. thr'[p] = {x \in Threads : \E u \in ids[p] : <<x, u>> \in db.maps}
        BY <1>a DEF TypeOK
      <3>m. /\ \A x \in Threads, u \in Tasks :
                <<x, u>> \in db.maps => x = ThreadOf[u]
            /\ ThreadOf[t] \in db.cps => <<ThreadOf[t], t>> \in db.maps
        BY DEF TableInv, Mapped
      <3>o. \A u \in Tasks \ {t} : ThreadOf[u] # ThreadOf[t]
        BY DEF Own
      <3> HIDE DEF RetentionInv
      <3>3. CASE t \in ids[p]
        BY <3>1, <3>2, <3>3, <3>m
      <3>4. CASE t \notin ids[p]
        <4>1. \A u \in ids[p] : u \in Tasks \ {t}
          BY <3>1, <3>4
        <4>2. \A u \in ids[p] : <<ThreadOf[t], u>> \notin db.maps
          BY <3>1, <3>m, <3>o, <4>1
        <4> QED
          BY <3>2, <3>4, <4>2
      <3> QED
        BY <3>3, <3>4
    <2> QED
      BY <2>1, <2>2
  <1>8. PendingInv'
    <2>1. ASSUME NEW t \in Tasks, NEW q \in Purges, ppc[q] = "commit", t \in ids[q]
          PROVE  ppc'[q] = "commit" /\ t \in ids'[q]
      BY <1>a, <1>b, <2>1 DEF TypeOK
    <2> QED
      BY <1>a, <1>b, <2>1 DEF PendingInv, Deleted
  <1> QED
    BY <1>1, <1>2, <1>3, <1>4, <1>5, <1>6, <1>7, <1>8

LEMMA PurgeSweepStep ==
  ASSUME RetentionInv, NEW p \in Purges, PurgeSweep(p)
  PROVE  RetentionInv'
  <1> USE RetentionAssumption DEF RetentionInv
  <1>a. /\ ppc[p] = "sweep" /\ ppc' = [ppc EXCEPT ![p] = "checkpoints"]
        /\ thr' = [thr EXCEPT ![p] = thr[p] \cup
             {x \in db.cps : \A t \in Tasks \ ids[p] : <<x, t>> \notin db.maps}]
    BY DEF PurgeSweep, Statement, dbVars, launchVars, pollVars, hostVars,
        TypeOK
  <1>b. UNCHANGED <<db, disk, held, lpc, active, alive, rpc, files, doomed,
                     ids, kpc, seen, up, crashes, retries, used, raced>>
    BY DEF PurgeSweep, Statement, dbVars, launchVars, pollVars, hostVars
  <1>1. TypeOK'
    BY <1>a, <1>b, ListedAre DEF TypeOK, Tables, Finished
  <1>2. TableInv(db)'
    BY <1>a, <1>b, DbKept
  <1>3. TableInv(disk)'
    BY <1>a, <1>b, DiskKept
  <1>4. TaskInv'
    BY <1>a, <1>b DEF TaskInv, TaskOK, Busy, Live, Purgeable
  <1>5. DownInv'
    BY <1>a, <1>b DEF DownInv
  <1>6. ListInv'
    <2> SUFFICES ASSUME NEW q \in Purges PROVE ListOK(q)'
      BY DEF ListInv
    <2>1. CASE q # p
      BY <1>a, <1>b, <2>1, ListKept, ListedAre DEF ListInv, TypeOK, Gone
    <2>2. CASE q = p
      BY <1>a, <1>b, <2>2, ListedAre
         DEF ListInv, ListOK, TypeOK, AfterSelect, AfterEvents, Gone, Purgeable
    <2> QED
      BY <2>1, <2>2
  <1>7. ThreadInv'
    <2> SUFFICES ASSUME NEW q \in Purges PROVE ThreadOK(q)'
      BY DEF ThreadInv
    <2>1. CASE q # p
      BY <1>a, <1>b, <2>1, ThreadKept DEF ThreadInv, TypeOK
    <2>2. CASE q = p
      <3> SUFFICES ASSUME NEW t \in Tasks \ raced, Own(t)
                   PROVE  IF t \in ids[p]
                          THEN ThreadOf[t] \in db.cps => ThreadOf[t] \in thr'[p]
                          ELSE ThreadOf[t] \notin thr'[p]
        BY <1>a, <1>b, <2>2 DEF ThreadOK, Own, TypeOK
      <3>1. IF t \in ids[p] THEN ThreadOf[t] \in db.cps => ThreadOf[t] \in thr[p]
                            ELSE ThreadOf[t] \notin thr[p]
        BY <1>a DEF ThreadInv, ThreadOK
      <3>2. thr'[p] = thr[p] \cup
              {x \in db.cps : \A u \in Tasks \ ids[p] : <<x, u>> \notin db.maps}
        BY <1>a DEF TypeOK
      <3>3. CASE t \in ids[p]
        BY <3>1, <3>2, <3>3
      <3>4. CASE t \notin ids[p]
        <4>1. ThreadOf[t] \in db.cps => <<ThreadOf[t], t>> \in db.maps
          BY DEF TableInv, Mapped
        <4> QED
          BY <3>1, <3>2, <3>4, <4>1
      <3> QED
        BY <3>3, <3>4
    <2> QED
      BY <2>1, <2>2
  <1>8. PendingInv'
    <2>1. ASSUME NEW t \in Tasks, NEW q \in Purges, ppc[q] = "commit", t \in ids[q]
          PROVE  ppc'[q] = "commit" /\ t \in ids'[q]
      BY <1>a, <1>b, <2>1 DEF TypeOK
    <2> QED
      BY <1>a, <1>b, <2>1 DEF PendingInv, Deleted
  <1> QED
    BY <1>1, <1>2, <1>3, <1>4, <1>5, <1>6, <1>7, <1>8

LEMMA PurgeCheckpointsStep ==
  ASSUME RetentionInv, NEW p \in Purges, PurgeCheckpoints(p)
  PROVE  RetentionInv'
  <1> USE RetentionAssumption DEF RetentionInv
  <1>a. /\ ppc[p] = "checkpoints" /\ ppc' = [ppc EXCEPT ![p] = "maps"]
        /\ held' = TRUE /\ disk' = disk /\ db' \in Tables
        /\ db'.events = db.events
        /\ db'.row = db.row
        /\ db'.maps = db.maps /\ db'.cps = db.cps \ thr[p]
        /\ thr' = [thr EXCEPT ![p] = {}]
    BY DEF PurgeCheckpoints, Statement, Do, launchVars, pollVars, hostVars,
        TypeOK, Tables
  <1>b. UNCHANGED <<disk, lpc, active, alive, rpc, files, doomed, ids,
                     kpc, seen, up, crashes, retries, used, raced>>
    BY DEF PurgeCheckpoints, Statement, Do, launchVars, pollVars, hostVars
  <1>1. TypeOK'
    BY <1>a, <1>b, ListedAre DEF TypeOK, Tables, Finished
  <1>2. TableInv(db)'
    BY <1>a, <1>b DEF TableInv, Sound, Mapped, Known, Own
  <1>3. TableInv(disk)'
    BY <1>a, <1>b, DiskKept
  <1>4. TaskInv'
    BY <1>a, <1>b DEF TaskInv, TaskOK, Busy, Live, Purgeable
  <1>5. DownInv'
    BY <1>a, <1>b DEF DownInv
  <1>6. ListInv'
    <2> SUFFICES ASSUME NEW q \in Purges PROVE ListOK(q)'
      BY DEF ListInv
    <2>1. CASE q # p
      BY <1>a, <1>b, <2>1, ListKept, ListedAre DEF ListInv, TypeOK, Gone
    <2>2. CASE q = p
      BY <1>a, <1>b, <2>2, ListedAre
         DEF ListInv, ListOK, TypeOK, AfterSelect, AfterEvents, Gone, Purgeable
    <2> QED
      BY <2>1, <2>2
  <1>7. ThreadInv'
    <2> SUFFICES ASSUME NEW q \in Purges PROVE ThreadOK(q)'
      BY DEF ThreadInv
    <2>1. CASE q # p
      BY <1>a, <1>b, <2>1, ThreadKept DEF ThreadInv, TypeOK
    <2>2. CASE q = p
      BY <1>a, <1>b, <2>2 DEF ThreadInv, ThreadOK, TypeOK, Own
    <2> QED
      BY <2>1, <2>2
  <1>8. PendingInv'
    <2>1. ASSUME NEW t \in Tasks, NEW q \in Purges, ppc[q] = "commit", t \in ids[q]
          PROVE  ppc'[q] = "commit" /\ t \in ids'[q]
      BY <1>a, <1>b, <2>1 DEF TypeOK
    <2> QED
      BY <1>a, <1>b, <2>1 DEF PendingInv, Deleted
  <1> QED
    BY <1>1, <1>2, <1>3, <1>4, <1>5, <1>6, <1>7, <1>8

LEMMA PurgeMapsStep ==
  ASSUME RetentionInv, NEW p \in Purges, PurgeMaps(p)
  PROVE  RetentionInv'
  <1> USE RetentionAssumption DEF RetentionInv
  <1>a. /\ ppc[p] = "maps" /\ ppc' = [ppc EXCEPT ![p] = "rows"]
        /\ held' = TRUE /\ disk' = disk /\ db' \in Tables
        /\ db'.events = db.events
        /\ db'.row = db.row
        /\ db'.maps = db.maps \ (Threads \X ids[p]) /\ db'.cps = db.cps
    BY DEF PurgeMaps, Statement, Do, launchVars, pollVars, hostVars,
        TypeOK, Tables
  <1>b. UNCHANGED <<disk, lpc, active, alive, rpc, files, doomed, ids, thr,
                     kpc, seen, up, crashes, retries, used, raced>>
    BY DEF PurgeMaps, Statement, Do, launchVars, pollVars, hostVars
  <1>1. TypeOK'
    BY <1>a, <1>b, ListedAre DEF TypeOK, Tables, Finished
  <1>2. TableInv(db)'
    <2>1. Sound(db)' /\ Known(db)'
      BY <1>a, <1>b DEF TableInv, Sound, Known
    <2>2. ASSUME NEW t \in Tasks \ raced, Own(t), ThreadOf[t] \in db.cps
          PROVE  <<ThreadOf[t], t>> \in db'.maps
      <3>1. t \notin ids[p] /\ <<ThreadOf[t], t>> \in db.maps
        BY <1>a, <2>2 DEF TableInv, Mapped, ThreadInv, ThreadOK
      <3> QED
        BY <1>a, <3>1
    <2>3. Mapped(db)'
      BY <1>a, <1>b, <2>2 DEF TableInv, Mapped, Own
    <2> QED
      BY <2>1, <2>3 DEF TableInv
  <1>3. TableInv(disk)'
    BY <1>a, <1>b, DiskKept
  <1>4. TaskInv'
    BY <1>a, <1>b DEF TaskInv, TaskOK, Busy, Live, Purgeable
  <1>5. DownInv'
    BY <1>a, <1>b DEF DownInv
  <1>6. ListInv'
    <2> SUFFICES ASSUME NEW q \in Purges PROVE ListOK(q)'
      BY DEF ListInv
    <2>1. CASE q # p
      BY <1>a, <1>b, <2>1, ListKept, ListedAre DEF ListInv, TypeOK, Gone
    <2>2. CASE q = p
      BY <1>a, <1>b, <2>2, ListedAre
         DEF ListInv, ListOK, TypeOK, AfterSelect, AfterEvents, Gone, Purgeable
    <2> QED
      BY <2>1, <2>2
  <1>7. ThreadInv'
    <2> SUFFICES ASSUME NEW q \in Purges PROVE ThreadOK(q)'
      BY DEF ThreadInv
    <2>1. CASE q # p
      BY <1>a, <1>b, <2>1, ThreadKept DEF ThreadInv, TypeOK
    <2>2. CASE q = p
      BY <1>a, <1>b, <2>2 DEF ThreadInv, ThreadOK, TypeOK, Own
    <2> QED
      BY <2>1, <2>2
  <1>8. PendingInv'
    <2>1. ASSUME NEW t \in Tasks, NEW q \in Purges, ppc[q] = "commit", t \in ids[q]
          PROVE  ppc'[q] = "commit" /\ t \in ids'[q]
      BY <1>a, <1>b, <2>1 DEF TypeOK
    <2> QED
      BY <1>a, <1>b, <2>1 DEF PendingInv, Deleted
  <1> QED
    BY <1>1, <1>2, <1>3, <1>4, <1>5, <1>6, <1>7, <1>8

LEMMA PurgeRowsStep ==
  ASSUME RetentionInv, NEW p \in Purges, PurgeRows(p)
  PROVE  RetentionInv'
  <1> USE RetentionAssumption DEF RetentionInv
  <1>a. /\ ppc[p] = "rows" /\ ppc' = [ppc EXCEPT ![p] = "commit"]
        /\ held' = TRUE /\ disk' = disk /\ db' \in Tables
        /\ db'.events = db.events
        /\ \A u \in Tasks :
              db'.row[u] = IF u \in ids[p] THEN "absent" ELSE db.row[u]
        /\ db'.maps = db.maps /\ db'.cps = db.cps
        /\ raced' = raced \cup {t \in ids[p] : Busy(t)}
    <2>1. /\ ppc[p] = "rows" /\ ppc' = [ppc EXCEPT ![p] = "commit"]
          /\ db' = [db EXCEPT !.row = Set(@, ids[p], "absent")]
          /\ held' = TRUE /\ disk' = disk
          /\ raced' = raced \cup {t \in ids[p] : Busy(t)}
      BY DEF PurgeRows, Statement, Do, launchVars, pollVars, hostVars, Busy
    <2>2. db \in Tables /\ db.row \in [Tasks -> Rows]
      BY DEF TypeOK, Tables
    <2>3. /\ Set(db.row, ids[p], "absent") \in [Tasks -> Rows]
          /\ \A u \in Tasks : Set(db.row, ids[p], "absent")[u]
                              = IF u \in ids[p] THEN "absent" ELSE db.row[u]
      BY <2>2, SetIs DEF Rows, Live, Purgeable
    <2>4. /\ db' \in Tables
          /\ db'.row = Set(db.row, ids[p], "absent")
          /\ db'.events = db.events
          /\ db'.maps = db.maps /\ db'.cps = db.cps
      BY <2>1, <2>2, <2>3 DEF Tables
    <2> QED
      BY <2>1, <2>3, <2>4
  <1>b. UNCHANGED <<disk, lpc, active, alive, rpc, files, doomed, ids, thr,
                     kpc, seen, up, crashes, retries, used>>
    BY DEF PurgeRows, Statement, Do, launchVars, pollVars, hostVars
  <1>1. TypeOK'
    BY <1>a, <1>b, ListedAre DEF TypeOK, Tables, Finished
  <1>2. TableInv(db)'
    <2>1. ASSUME NEW t \in Tasks \ raced', db'.row[t] = "absent"
          PROVE  /\ t \notin db.events
                 /\ \A x \in Threads : <<x, t>> \notin db.maps
      <3>1. CASE t \in ids[p]
        BY <1>a, <2>1, <3>1 DEF ListInv, ListOK, AfterEvents
      <3>2. CASE t \notin ids[p]
        BY <1>a, <2>1, <3>2 DEF TableInv, Sound
      <3> QED
        BY <3>1, <3>2
    <2>2. Sound(db)'
      BY <1>a, <2>1 DEF Sound
    <2>3. Mapped(db)' /\ Known(db)'
      BY <1>a, <1>b DEF TableInv, Mapped, Known, Own
    <2> QED
      BY <2>2, <2>3 DEF TableInv
  <1>3. TableInv(disk)'
    BY <1>a, <1>b, DiskKept
  <1>4. TaskInv'
    BY <1>a, <1>b DEF TaskInv, TaskOK, Busy, Live, Purgeable
  <1>5. DownInv'
    BY <1>a, <1>b DEF DownInv
  <1>6. ListInv'
    <2> SUFFICES ASSUME NEW q \in Purges PROVE ListOK(q)'
      BY DEF ListInv
    <2>1. CASE q # p
      BY <1>a, <1>b, <2>1, ListKept, ListedAre DEF ListInv, TypeOK, Gone
    <2>2. CASE q = p
      BY <1>a, <1>b, <2>2, ListedAre
         DEF ListInv, ListOK, TypeOK, AfterSelect, AfterEvents, Gone, Purgeable
    <2> QED
      BY <2>1, <2>2
  <1>7. ThreadInv'
    <2> SUFFICES ASSUME NEW q \in Purges PROVE ThreadOK(q)'
      BY DEF ThreadInv
    <2>1. CASE q # p
      BY <1>a, <1>b, <2>1, ThreadKept DEF ThreadInv, TypeOK
    <2>2. CASE q = p
      BY <1>a, <1>b, <2>2 DEF ThreadInv, ThreadOK, TypeOK, Own
    <2> QED
      BY <2>1, <2>2
  <1>8. PendingInv'
    <2> SUFFICES ASSUME NEW t \in Tasks, Deleted(t)'
                 PROVE  \E q \in Purges : ppc'[q] = "commit" /\ t \in ids'[q]
      BY DEF PendingInv
    <2>1. CASE t \in ids[p]
      BY <1>a, <1>b, <2>1 DEF TypeOK
    <2>2. CASE t \notin ids[p]
      <3>1. PICK q \in Purges : ppc[q] = "commit" /\ t \in ids[q]
        BY <1>a, <2>2 DEF PendingInv, Deleted
      <3> QED
        BY <1>a, <1>b, <3>1 DEF TypeOK
    <2> QED
      BY <2>1, <2>2
  <1> QED
    BY <1>1, <1>2, <1>3, <1>4, <1>5, <1>6, <1>7, <1>8

LEMMA PurgeCommitStep ==
  ASSUME RetentionInv, NEW p \in Purges, PurgeCommit(p)
  PROVE  RetentionInv'
  <1> USE RetentionAssumption DEF RetentionInv
  <1>a. /\ ppc[p] = "commit" /\ ppc' = [ppc EXCEPT ![p] = "files"]
        /\ ids' = [ids EXCEPT ![p] = {}]
        /\ db' = db /\ disk' = db' /\ held' = FALSE
    BY DEF PurgeCommit, Statement, Commit, launchVars, pollVars, hostVars,
        TypeOK
  <1>b. UNCHANGED <<lpc, active, alive, rpc, files, doomed, thr, kpc, seen,
                     up, crashes, retries, used, raced>>
    BY DEF PurgeCommit, Statement, Commit, launchVars, pollVars, hostVars
  <1>1. TypeOK'
    BY <1>a, <1>b, ListedAre DEF TypeOK, Tables, Finished
  <1>2. TableInv(db)'
    BY <1>a, <1>b, DbKept
  <1>3. TableInv(disk)'
    BY <1>a, <1>2, DiskIsDb
  <1>4. TaskInv'
    BY <1>a, <1>b DEF TaskInv, TaskOK, Busy, Live, Purgeable
  <1>5. DownInv'
    BY <1>a, <1>b DEF DownInv
  <1>6. ListInv'
    <2> SUFFICES ASSUME NEW q \in Purges PROVE ListOK(q)'
      BY DEF ListInv
    <2>1. CASE q # p
      BY <1>a, <1>b, <2>1, ListKept, ListedAre DEF ListInv, TypeOK, Gone
    <2>2. CASE q = p
      BY <1>a, <1>b, <2>2, ListedAre
         DEF ListInv, ListOK, TypeOK, AfterSelect, AfterEvents, Gone, Purgeable
    <2> QED
      BY <2>1, <2>2
  <1>7. ThreadInv'
    <2> SUFFICES ASSUME NEW q \in Purges PROVE ThreadOK(q)'
      BY DEF ThreadInv
    <2>1. CASE q # p
      BY <1>a, <1>b, <2>1, ThreadKept DEF ThreadInv, TypeOK
    <2>2. CASE q = p
      BY <1>a, <1>b, <2>2 DEF ThreadInv, ThreadOK, TypeOK, Own
    <2> QED
      BY <2>1, <2>2
  <1>8. PendingInv'
    BY <1>a DEF PendingInv, Deleted
  <1> QED
    BY <1>1, <1>2, <1>3, <1>4, <1>5, <1>6, <1>7, <1>8

LEMMA PurgeFilesStep ==
  ASSUME RetentionInv, NEW p \in Purges, PurgeFiles(p)
  PROVE  RetentionInv'
  <1> USE RetentionAssumption DEF RetentionInv
  <1>a. /\ ppc[p] = "files" /\ ppc' = [ppc EXCEPT ![p] = "idle"]
        /\ files' = files \ doomed[p]
        /\ doomed' = [doomed EXCEPT ![p] = {}] /\ ids' = [ids EXCEPT ![p] = {}]
    BY DEF PurgeFiles, dbVars, launchVars, pollVars, hostVars, TypeOK
  <1>b. UNCHANGED <<db, disk, held, lpc, active, alive, rpc, thr, kpc,
                     seen, up, crashes, retries, used, raced>>
    BY DEF PurgeFiles, dbVars, launchVars, pollVars, hostVars
  <1>1. TypeOK'
    BY <1>a, <1>b, ListedAre DEF TypeOK, Tables, Finished
  <1>2. TableInv(db)'
    BY <1>a, <1>b, DbKept
  <1>3. TableInv(disk)'
    BY <1>a, <1>b, DiskKept
  <1>4. TaskInv'
    BY <1>a, <1>b DEF TaskInv, TaskOK, Busy, Live, Purgeable
  <1>5. DownInv'
    BY <1>a, <1>b DEF DownInv
  <1>6. ListInv'
    <2> SUFFICES ASSUME NEW q \in Purges PROVE ListOK(q)'
      BY DEF ListInv
    <2>1. CASE q # p
      BY <1>a, <1>b, <2>1, ListKept, ListedAre DEF ListInv, TypeOK, Gone
    <2>2. CASE q = p
      BY <1>a, <1>b, <2>2, ListedAre
         DEF ListInv, ListOK, TypeOK, AfterSelect, AfterEvents, Gone, Purgeable
    <2> QED
      BY <2>1, <2>2
  <1>7. ThreadInv'
    <2> SUFFICES ASSUME NEW q \in Purges PROVE ThreadOK(q)'
      BY DEF ThreadInv
    <2>1. CASE q # p
      BY <1>a, <1>b, <2>1, ThreadKept DEF ThreadInv, TypeOK
    <2>2. CASE q = p
      BY <1>a, <1>b, <2>2 DEF ThreadInv, ThreadOK, TypeOK, Own
    <2> QED
      BY <2>1, <2>2
  <1>8. PendingInv'
    <2>1. ASSUME NEW t \in Tasks, NEW q \in Purges, ppc[q] = "commit", t \in ids[q]
          PROVE  ppc'[q] = "commit" /\ t \in ids'[q]
      BY <1>a, <1>b, <2>1 DEF TypeOK
    <2> QED
      BY <1>a, <1>b, <2>1 DEF PendingInv, Deleted
  <1> QED
    BY <1>1, <1>2, <1>3, <1>4, <1>5, <1>6, <1>7, <1>8

LEMMA PollEventsStep ==
  ASSUME RetentionInv, NEW t \in Followed, PollEvents(t)
  PROVE  RetentionInv'
  <1> USE RetentionAssumption DEF RetentionInv
  <1>a. /\ seen' = IF t \in db.events THEN seen \cup {t} ELSE seen
        /\ kpc' = [kpc EXCEPT ![t] = "row"]
    BY DEF PollEvents, dbVars, launchVars, purgeVars, hostVars, TypeOK
  <1>b. UNCHANGED <<db, disk, held, lpc, active, alive, rpc, files, ppc,
                     doomed, ids, thr, up, crashes, retries, used, raced>>
    BY DEF PollEvents, dbVars, launchVars, purgeVars, hostVars
  <1>1. TypeOK'
    BY <1>a, <1>b DEF TypeOK
  <1>2. TableInv(db)'
    BY <1>a, <1>b, DbKept
  <1>3. TableInv(disk)'
    BY <1>a, <1>b, DiskKept
  <1>4. TaskInv'
    BY <1>a, <1>b DEF TaskInv, TaskOK, Busy, Live, Purgeable
  <1>5. DownInv'
    BY <1>a, <1>b DEF DownInv
  <1>6. ListInv'
    BY <1>a, <1>b, ListFrame DEF Gone
  <1>7. ThreadInv'
    BY <1>a, <1>b, ThreadKept DEF ThreadInv
  <1>8. PendingInv'
    BY <1>a, <1>b DEF PendingInv, Deleted
  <1> QED
    BY <1>1, <1>2, <1>3, <1>4, <1>5, <1>6, <1>7, <1>8

LEMMA PollRowStep ==
  ASSUME RetentionInv, NEW t \in Followed, PollRow(t)
  PROVE  RetentionInv'
  <1> USE RetentionAssumption DEF RetentionInv
  <1>a. /\ kpc' = [kpc EXCEPT ![t] = IF db.row[t] = "over" THEN "done" ELSE "ask"]
    BY DEF PollRow, dbVars, launchVars, purgeVars, hostVars, TypeOK
  <1>b. UNCHANGED <<db, disk, held, lpc, active, alive, rpc, files, ppc,
                     doomed, ids, thr, seen, up, crashes, retries, used,
                     raced>>
    BY DEF PollRow, dbVars, launchVars, purgeVars, hostVars
  <1>1. TypeOK'
    BY <1>a, <1>b DEF TypeOK
  <1>2. TableInv(db)'
    BY <1>a, <1>b, DbKept
  <1>3. TableInv(disk)'
    BY <1>a, <1>b, DiskKept
  <1>4. TaskInv'
    BY <1>a, <1>b DEF TaskInv, TaskOK, Busy, Live, Purgeable
  <1>5. DownInv'
    BY <1>a, <1>b DEF DownInv
  <1>6. ListInv'
    BY <1>a, <1>b, ListFrame DEF Gone
  <1>7. ThreadInv'
    BY <1>a, <1>b, ThreadKept DEF ThreadInv
  <1>8. PendingInv'
    BY <1>a, <1>b DEF PendingInv, Deleted
  <1> QED
    BY <1>1, <1>2, <1>3, <1>4, <1>5, <1>6, <1>7, <1>8

LEMMA CrashStep ==
  ASSUME RetentionInv, Crash
  PROVE  RetentionInv'
  <1> USE RetentionAssumption DEF RetentionInv
  <1>a. /\ up' = FALSE /\ db' = disk /\ disk' = disk /\ held' = FALSE
        /\ crashes' \in 0..MaxCrashes
        /\ lpc' = [t \in Tasks |-> "free"] /\ rpc' = [t \in Tasks |-> "none"]
        /\ active' = {} /\ ppc' = [p \in Purges |-> "idle"]
        /\ doomed' = [p \in Purges |-> {}] /\ ids' = [p \in Purges |-> {}]
        /\ thr' = [p \in Purges |-> {}]
        /\ kpc' = [t \in Followed |-> IF kpc[t] = "done" THEN "done" ELSE "ask"]
        /\ raced' = raced \cup alive
    BY DEF Crash, TypeOK
  <1>b. UNCHANGED <<disk, alive, files, seen, retries, used>>
    BY DEF Crash
  <1>1. TypeOK'
    BY <1>a, <1>b DEF TypeOK
  <1>2. TableInv(db)'
    BY <1>a, <1>b DEF TableInv, Sound, Mapped, Known, Own
  <1>3. TableInv(disk)'
    BY <1>a, <1>b, DiskKept
  <1>4. TaskInv'
    BY <1>a, <1>b DEF TaskInv, TaskOK, Busy, Live, Purgeable
  <1>5. DownInv'
    BY <1>a, <1>b DEF DownInv
  <1>6. ListInv'
    BY <1>a DEF ListInv, ListOK, AfterSelect, AfterEvents
  <1>7. ThreadInv'
    BY <1>a DEF ThreadInv, ThreadOK
  <1>8. PendingInv'
    BY <1>a DEF PendingInv, Deleted
  <1> QED
    BY <1>1, <1>2, <1>3, <1>4, <1>5, <1>6, <1>7, <1>8

LEMMA RestartStep ==
  ASSUME RetentionInv, Restart
  PROVE  RetentionInv'
  <1> USE RetentionAssumption DEF RetentionInv
  <1>a. /\ up' = TRUE /\ ~up
        /\ db' \in Tables /\ disk' = db' /\ held' = FALSE
        /\ db'.maps = db.maps /\ db'.cps = db.cps
        /\ db'.events = db.events \cup {t \in Tasks : db.row[t] \in Live}
        /\ \A u \in Tasks :
             db'.row[u] = IF db.row[u] \in Live THEN "over" ELSE db.row[u]
    <2>1. db \in Tables /\ db.row \in [Tasks -> Rows] /\ "over" \in Rows
      BY DEF TypeOK, Tables, Rows, Purgeable
    <2> DEFINE Lost == {t \in Tasks : db.row[t] \in Live}
    <2>2. db' = [db EXCEPT !.row = Set(db.row, Lost, "over"),
                           !.events = db.events \cup Lost]
      BY DEF Restart, Commit
    <2>3. /\ Set(db.row, Lost, "over") \in [Tasks -> Rows]
          /\ \A u \in Tasks : Set(db.row, Lost, "over")[u] =
                                IF u \in Lost THEN "over" ELSE db.row[u]
      BY <2>1, SetIs
    <2>4. Lost \subseteq Tasks
      OBVIOUS
    <2>5. db' \in Tables /\ db'.maps = db.maps /\ db'.cps = db.cps
          /\ db'.events = db.events \cup Lost
          /\ db'.row = Set(db.row, Lost, "over")
      <3> HIDE DEF Lost
      <3> QED
        BY <2>1, <2>2, <2>3, <2>4 DEF Tables
    <2> QED
      BY <2>3, <2>5 DEF Restart, Commit
  <1>b. UNCHANGED <<lpc, active, alive, rpc, files, ppc, doomed, ids, thr,
                     kpc, seen, crashes, retries, used, raced>>
    BY DEF Restart, Commit, launchVars, purgeVars, pollVars
  <1>c. (\A p \in Purges : ppc[p] = "idle")
        /\ \A t \in Tasks : /\ lpc[t] = "free" /\ rpc[t] = "none"
                            /\ t \in alive => t \in raced
    BY <1>a DEF DownInv
  <1>1. TypeOK'
    BY <1>a, <1>b DEF TypeOK
  <1>2. TableInv(db)'
    <2>1. Sound(db)'
      BY <1>a, <1>b DEF TableInv, Sound, Live
    <2>2. Mapped(db)'
      BY <1>a, <1>b DEF TableInv, Mapped, Own
    <2>3. Known(db)'
      BY <1>a, <1>b DEF TableInv, Known, Live
    <2> QED
      BY <2>1, <2>2, <2>3 DEF TableInv
  <1>3. TableInv(disk)'
    BY <1>a, <1>2, DiskIsDb
  <1>4. TaskInv'
    <2> SUFFICES ASSUME NEW u \in Tasks PROVE TaskOK(u)'
      BY DEF TaskInv
    <2>1. /\ lpc'[u] = "free" /\ rpc'[u] = "none" /\ active' = active
          /\ u \in alive' => u \in raced'
      BY <1>b, <1>c
    <2>2. Busy(u)' => u \in raced' /\ u \in used'
      BY <1>b, <2>1 DEF TaskInv, TaskOK, Busy
    <2> QED
      BY <2>1, <2>2 DEF TaskOK
  <1>5. DownInv'
    BY <1>a, <1>b DEF DownInv
  <1>6. ListInv'
    BY <1>a, <1>b, <1>c DEF ListInv, ListOK, AfterSelect, AfterEvents
  <1>7. ThreadInv'
    BY <1>a, <1>b, ThreadKept DEF ThreadInv
  <1>8. PendingInv'
    BY <1>a DEF PendingInv, Deleted
  <1> QED
    BY <1>1, <1>2, <1>3, <1>4, <1>5, <1>6, <1>7, <1>8

-----------------------------------------------------------------------------
(* The theorems.                                                           *)

LEMMA RetentionInvNext == RetentionInv /\ [Next]_vars => RetentionInv'
  <1> SUFFICES ASSUME RetentionInv, [Next]_vars PROVE RetentionInv'
    OBVIOUS
  <1>1. ASSUME NEW t \in Tasks,
               \/ Submit(t) \/ RetryCheck(t) \/ Daemon(t) \/ AddEvent(t)
               \/ Checkpoint(t) \/ DeleteThread(t) \/ StrayEnds(t)
        PROVE  RetentionInv'
    BY <1>1, SubmitStep, RetryCheckStep, RetryResetStep, SpawnStep,
       MarkRunningStep, AddEventStep, StoreStatusStep, CleanupStep,
       CheckpointStep, DeleteThreadStep, StrayEndsStep DEF Daemon
  <1>2. ASSUME Clear \/ \E p \in Purges : PurgeStart(p) \/ Purge(p)
        PROVE  RetentionInv'
    BY <1>2, ClearStep, PurgeStartStep, PurgeSelectStep, PurgeEventsStep,
       PurgeMappedStep, PurgeSweepStep, PurgeCheckpointsStep, PurgeMapsStep,
       PurgeRowsStep, PurgeCommitStep, PurgeFilesStep DEF Purge
  <1>3. ASSUME NEW t \in Followed, PollEvents(t) \/ PollRow(t)
        PROVE  RetentionInv'
    BY <1>3, PollEventsStep, PollRowStep
  <1>4. CASE Crash \/ Restart
    BY <1>4, CrashStep, RestartStep
  <1>5. CASE UNCHANGED vars
    <2>1. UNCHANGED <<db, disk, held, lpc, active, alive, rpc, files, ppc,
                      doomed, ids, thr, kpc, seen, up, crashes, retries, used,
                      raced>>
      BY <1>5 DEF vars, dbVars, launchVars, purgeVars, pollVars, hostVars
    <2> QED
      BY <2>1 DEF RetentionInv, TypeOK, TableInv, Sound, Mapped, Known, Own,
          TaskInv, TaskOK, Busy, DownInv, ListInv, ListOK, ThreadInv, ThreadOK,
          PendingInv, Deleted
  <1> QED
    BY <1>1, <1>2, <1>3, <1>4, <1>5 DEF Next

\* Any mix of launches, clears, purges, polls and crashes keeps the invariant.
THEOREM RetentionInvariant == Spec => []RetentionInv
  BY RetentionInvInit, RetentionInvNext, PTL DEF Spec

\* The tables are typed, and what is committed about a task belongs to a row,
\* whichever request commits what the purge has done so far and wherever a
\* crash cuts the purge short.
THEOREM TablesHold == Spec => []TablesInv
  <1>1. RetentionInv => TablesInv
    BY DEF RetentionInv, TableInv, Sound, TablesInv, NothingWithoutRow
  <1> QED
    BY <1>1, RetentionInvariant, PTL

\* purge_terminal_tasks never deletes the checkpoints of a task with a thread
\* of its own that is not on its list: neither of its two queries for threads
\* returns one whose mapping was written before or meanwhile.
THEOREM CheckpointsAreKept == Spec => LiveKeepsCheckpoints
  <1>1. ASSUME RetentionInv, NEW t \in Tasks, NEW p \in Purges,
               PurgeCheckpoints(p), t \notin ids[p] \cup raced,
               ThreadOf[t] \in db.cps \ Legacy,
               \A u \in Tasks \ {t} : ThreadOf[u] # ThreadOf[t]
        PROVE  ThreadOf[t] \in db'.cps
    <2>1. ThreadOf[t] \notin thr[p]
      BY <1>1 DEF RetentionInv, ThreadInv, ThreadOK, Own, PurgeCheckpoints,
          Statement
    <2>2. db'.cps = db.cps \ thr[p]
      BY <1>1 DEF PurgeCheckpoints, Do, RetentionInv, TypeOK, Tables
    <2> QED
      BY <1>1, <2>1, <2>2
  <1>2. RetentionInv =>
          [\A t \in Tasks, p \in Purges :
              /\ PurgeCheckpoints(p)
              /\ disk.row[t] \in Live /\ t \notin ids[p] \cup raced
              /\ ThreadOf[t] \in db.cps \ Legacy
              /\ \A u \in Tasks \ {t} : ThreadOf[u] # ThreadOf[t]
              => ThreadOf[t] \in db'.cps]_vars
    BY <1>1
  <1> QED
    BY <1>2, RetentionInvariant, PTL DEF LiveKeepsCheckpoints

\* The directories and logs _purge_tasks removes are those of tasks whose rows
\* are gone from the disk, although it made its list before the one that
\* purge_terminal_tasks made for the tables; or another purge that overlaps has
\* deleted the row and is about to commit.
THEOREM FilesAreLast == Spec => FilesGoLast
  <1> DEFINE Removable(t) ==
               \/ disk.row[t] = "absent" \/ t \in raced
               \/ \E p \in Purges : ppc[p] = "commit" /\ t \in ids[p]
  <1>1. ASSUME RetentionInv, Next, NEW t \in files \ files'
        PROVE  Removable(t)
    <2>1. \E p \in Purges : PurgeFiles(p)
      <3>1. ASSUME NEW u \in Tasks,
                   \/ Submit(u) \/ RetryCheck(u) \/ Daemon(u) \/ AddEvent(u)
                   \/ Checkpoint(u) \/ DeleteThread(u) \/ StrayEnds(u)
            PROVE  files \subseteq files'
        BY <3>1 DEF Submit, RetryCheck, Daemon, RetryReset, Spawn, MarkRunning,
            StoreStatus, Cleanup, AddEvent, Checkpoint, DeleteThread,
            AgentWrites, StrayEnds
      <3>2. ASSUME NEW p \in Purges, PurgeStart(p) \/ (Purge(p) /\ ~PurgeFiles(p))
            PROVE  files' = files
        BY <3>2 DEF PurgeStart, Purge, PurgeSelect, PurgeEvents,
            PurgeMapped, PurgeSweep, PurgeCheckpoints, PurgeMaps, PurgeRows,
            PurgeCommit, Statement
      <3>3. ASSUME NEW u \in Followed, PollEvents(u) \/ PollRow(u)
            PROVE  files' = files
        BY <3>3 DEF PollEvents, PollRow
      <3>4. CASE Clear \/ Crash \/ Restart
        BY <3>4 DEF Clear, Crash, Restart
      <3> QED
        BY <1>1, <3>1, <3>2, <3>3, <3>4 DEF Next
    <2>2. PICK p \in Purges : PurgeFiles(p)
      BY <2>1
    <2>3. t \in doomed[p] /\ ppc[p] = "files" /\ t \in Tasks
      BY <1>1, <2>2, ListedAre DEF PurgeFiles, RetentionInv
    <2>4. db.row[t] = "absent" \/ t \in raced
      BY <2>3, <1>1 DEF RetentionInv, ListInv, ListOK
    <2> QED
      BY <2>3, <2>4, <1>1 DEF RetentionInv, PendingInv, Deleted
  <1>2. RetentionInv /\ [Next]_vars =>
          [\A t \in files \ files' :
              \/ disk.row[t] = "absent" \/ t \in raced
              \/ \E p \in Purges : ppc[p] = "commit" /\ t \in ids[p]]_vars
    BY <1>1
  <1> QED
    BY <1>2, RetentionInvariant, PTL DEF Spec, FilesGoLast
=============================================================================
