---------------------------- MODULE TaskRetention ----------------------------
(***************************************************************************)
(* How long the data of a task lives: rows and events in the daemon's      *)
(* tables, checkpoints in tables its agent writes too, files on disk.      *)
(* Clearing hides finished tasks, a purge deletes them in one statement    *)
(* after the other, while other purges, launches, retries, late events,    *)
(* agents and followers go on, and the daemon may crash.                   *)
(*                                                                         *)
(* All of the daemon's statements go through one SQLite connection, hence  *)
(* through one transaction: a commit made for any request commits what a   *)
(* purge has done so far.  db is that connection's view, disk is what has  *)
(* been committed; an agent's write waits while the daemon has one pending.*)
(***************************************************************************)
EXTENDS FiniteSets, Naturals

CONSTANTS
    Tasks,      \* task ids
    Threads,    \* checkpoint threads
    ThreadOf,   \* the thread each task's agent writes to
    Legacy,     \* threads with checkpoints from before checkpoint_threads
    Followed,   \* the tasks somebody follows by polling
    Purges,     \* purge requests that may overlap, one after the other each
    MaxRetries, \* bound on retries
    MaxCrashes  \* bound on daemon crashes

ASSUME RetentionAssumption ==
    /\ ThreadOf \in [Tasks -> Threads]
    /\ Legacy \subseteq Threads
    /\ Followed \subseteq Tasks
    /\ MaxRetries \in Nat /\ MaxCrashes \in Nat

VARIABLES
    db,       \* the tables as the daemon's connection sees them
    disk,     \* the tables as committed
    held,     \* does the daemon hold the write lock?
    lpc,      \* where a launch or retry of each task is
    active,   \* tasks with a handle
    alive,    \* tasks with a subprocess
    rpc,      \* where the reader of each task is
    files,    \* tasks with a data directory and a log file
    ppc,      \* where each purge request is
    doomed,   \* ids its _purge_tasks reads, for the files
    ids,      \* ids its purge_terminal_tasks reads, for the tables
    thr,      \* threads whose checkpoints it is going to delete
    kpc,      \* where each follower's poll is
    seen,     \* followed tasks whose last event has been read
    up,       \* is the daemon running?
    crashes,  \* how often it crashed
    retries,  \* how many retries were made
    used,     \* task ids given out; a uuid is given out once
    raced     \* tasks purged or retried in each other's way, or with an agent
              \* that outlived the daemon

dbVars     == <<db, disk, held>>
launchVars == <<lpc, active, alive, rpc>>
purgeVars  == <<ppc, doomed, ids, thr>>
pollVars   == <<kpc, seen>>
hostVars   == <<up, crashes, retries, used>>
vars == <<dbVars, launchVars, files, purgeVars, pollVars, hostVars, raced>>

Live == {"pending", "running"}
Purgeable == {"over", "cleared"}   \* "over": completed, failed or cancelled
Rows == {"absent"} \cup Live \cup Purgeable
Tables == [row : [Tasks -> Rows],            \* tasks
           events : SUBSET Tasks,            \* tasks with their last event
           maps : SUBSET (Threads \X Tasks), \* checkpoint_threads
           cps : SUBSET Threads]             \* threads with checkpoints

TypeOK ==
    /\ db \in Tables /\ disk \in Tables
    /\ held \in BOOLEAN /\ (~held => db = disk)
    /\ lpc \in [Tasks -> {"free", "reset", "spawn", "mark"}]
    /\ \A t \in Tasks : rpc[t] # "none" => t \in active
    /\ active \subseteq Tasks /\ alive \subseteq Tasks /\ files \subseteq Tasks
    /\ rpc \in [Tasks -> {"none", "read", "store", "clean"}]
    /\ ppc \in [Purges -> {"idle", "select", "events", "mapped", "sweep",
                  "checkpoints", "maps", "rows", "commit", "files"}]
    /\ {doomed, ids} \subseteq [Purges -> SUBSET Tasks]
    /\ thr \in [Purges -> SUBSET Threads]
    /\ kpc \in [Followed -> {"ask", "row", "done"}]
    /\ seen \subseteq Followed
    /\ up \in BOOLEAN /\ crashes \in 0..MaxCrashes
    /\ retries \in 0..MaxRetries
    /\ used \subseteq Tasks /\ raced \subseteq Tasks

Empty == [row |-> [t \in Tasks |-> "absent"], events |-> {}, maps |-> {},
          cps |-> Legacy]

Init ==
    /\ db = Empty /\ disk = Empty /\ held = FALSE
    /\ lpc = [t \in Tasks |-> "free"] /\ rpc = [t \in Tasks |-> "none"]
    /\ active = {} /\ alive = {} /\ files = {}
    /\ ppc = [p \in Purges |-> "idle"] /\ thr = [p \in Purges |-> {}]
    /\ doomed = [p \in Purges |-> {}] /\ ids = [p \in Purges |-> {}]
    /\ kpc = [t \in Followed |-> "ask"] /\ seen = {}
    /\ up = TRUE /\ crashes = 0 /\ retries = 0
    /\ used = {} /\ raced = {}

\* A statement of the daemon, and one it commits.
Do(new) == db' = new /\ held' = TRUE /\ UNCHANGED disk
Commit(new) == db' = new /\ disk' = new /\ held' = FALSE

\* Tasks on a list of a purge that is not done.
Listed == UNION {ids[p] \cup doomed[p] : p \in Purges}

\* The rows r with those of the tasks ts set to s.
Set(r, ts, s) == [t \in Tasks |-> IF t \in ts THEN s ELSE r[t]]

\* UPDATE tasks SET status = s WHERE task_id = t: nothing if there is no row.
Updated(t, s) == IF db.row[t] = "absent" THEN db ELSE [db EXCEPT !.row[t] = s]

-----------------------------------------------------------------------------
(* Launches and readers.                                                   *)

\* create_task; every submission has an id of its own.
Submit(t) ==
    /\ up /\ t \notin used
    /\ used' = used \cup {t}
    /\ Commit([db EXCEPT !.row[t] = "pending"])
    /\ lpc' = [lpc EXCEPT ![t] = "spawn"]
    /\ UNCHANGED <<active, alive, rpc, files, purgeVars, pollVars, up, crashes,
                   retries, raced>>

\* _retry_from_checkpoint, from its check to its reset; what it meets in a
\* reader that is not done with the run before is TaskSupervision's subject.
RetryCheck(t) ==
    /\ up /\ lpc[t] = "free" /\ db.row[t] = "over" /\ rpc[t] = "none"
    /\ retries < MaxRetries
    /\ retries' = retries + 1
    /\ lpc' = [lpc EXCEPT ![t] = "reset"]
    /\ UNCHANGED <<dbVars, active, alive, rpc, files, purgeVars, pollVars,
                   up, crashes, used, raced>>

RetryReset(t) ==
    /\ lpc[t] = "reset"
    /\ Commit(Updated(t, "pending"))
    /\ lpc' = [lpc EXCEPT ![t] = "spawn"]
    /\ raced' = IF t \in Listed THEN raced \cup {t} ELSE raced
    /\ UNCHANGED <<active, alive, rpc, files, purgeVars, pollVars, hostVars>>

\* The log file and the subprocess; its handle; the commit of its agent row.
Spawn(t) ==
    /\ lpc[t] = "spawn"
    /\ Commit(db)
    /\ active' = active \cup {t}
    /\ alive' = alive \cup {t}
    /\ files' = files \cup {t}
    /\ lpc' = [lpc EXCEPT ![t] = "mark"]
    /\ UNCHANGED <<rpc, purgeVars, pollVars, hostVars, raced>>

MarkRunning(t) ==
    /\ lpc[t] = "mark"
    /\ Commit(Updated(t, "running"))
    /\ lpc' = [lpc EXCEPT ![t] = "free"]
    /\ rpc' = [rpc EXCEPT ![t] = "read"]
    /\ UNCHANGED <<active, alive, files, purgeVars, pollVars, hostVars, raced>>

\* The agent reports the outcome and is gone; the event is added ...
AddEvent(t) ==
    /\ rpc[t] = "read"
    /\ Commit([db EXCEPT !.events = @ \cup {t}])
    /\ alive' = alive \ {t}
    /\ rpc' = [rpc EXCEPT ![t] = "store"]
    /\ UNCHANGED <<lpc, active, files, purgeVars, pollVars, hostVars, raced>>

\* ... the status stored ...
StoreStatus(t) ==
    /\ rpc[t] = "store"
    /\ Commit(Updated(t, "over"))
    /\ rpc' = [rpc EXCEPT ![t] = "clean"]
    /\ UNCHANGED <<lpc, active, alive, files, purgeVars, pollVars, hostVars,
                   raced>>

\* ... and the handle and the agent row removed.
Cleanup(t) ==
    /\ rpc[t] = "clean"
    /\ Commit(db)
    /\ active' = active \ {t}
    /\ rpc' = [rpc EXCEPT ![t] = "none"]
    /\ UNCHANGED <<lpc, alive, files, purgeVars, pollVars, hostVars, raced>>

Daemon(t) == \/ RetryReset(t) \/ Spawn(t) \/ MarkRunning(t)
             \/ StoreStatus(t) \/ Cleanup(t)

-----------------------------------------------------------------------------
(* Agents' checkpoints, through a connection of their own.                 *)

\* An agent's committed write; it waits for the daemon's transaction.
AgentWrites(t, new) ==
    /\ t \in alive /\ ~held
    /\ Commit(new)
    /\ UNCHANGED <<launchVars, files, purgeVars, pollVars, hostVars, raced>>

\* Mutant of Checkpoint: the thread is not recorded with the checkpoint.
CheckpointUnmapped(t) ==
    AgentWrites(t, [db EXCEPT !.cps = @ \cup {ThreadOf[t]}])

\* aput: the checkpoint and the thread's mapping in one transaction.
Checkpoint(t) ==
    AgentWrites(t, [db EXCEPT !.cps = @ \cup {ThreadOf[t]},
                              !.maps = @ \cup {<<ThreadOf[t], t>>}])

\* adelete_thread, before a fresh start on the same thread.
DeleteThread(t) ==
    AgentWrites(t, [db EXCEPT !.cps = @ \ {ThreadOf[t]},
                              !.maps = @ \ ({ThreadOf[t]} \X Tasks)])

\* A stray agent, without a daemon, comes to an end.
StrayEnds(t) ==
    /\ t \in alive /\ t \notin active /\ lpc[t] = "free"
    /\ alive' = alive \ {t}
    /\ UNCHANGED <<dbVars, lpc, active, rpc, files, purgeVars, pollVars,
                   hostVars, raced>>

-----------------------------------------------------------------------------
(* Clear and purge.                                                        *)

Clear ==
    /\ up /\ \E t \in Tasks : db.row[t] = "over"
    /\ Commit([db EXCEPT !.row =
                Set(@, {t \in Tasks : db.row[t] = "over"}, "cleared")])
    /\ UNCHANGED <<launchVars, files, purgeVars, pollVars, hostVars, raced>>

Finished == {t \in Tasks : db.row[t] \in Purgeable}

\* Mutant of PurgeStart: the statuses are not looked at.
PurgeStartAll(p) ==
    /\ up /\ ppc[p] = "idle" /\ active = {}
    /\ doomed' = [doomed EXCEPT ![p] = {t \in Tasks : db.row[t] # "absent"}]
    /\ ppc' = [ppc EXCEPT ![p] = "select"]
    /\ UNCHANGED <<dbVars, launchVars, files, ids, thr, pollVars, hostVars,
                   raced>>

\* _purge_tasks: refused while there are handles.
PurgeStart(p) ==
    /\ up /\ ppc[p] = "idle" /\ active = {}
    /\ doomed' = [doomed EXCEPT ![p] = Finished]
    /\ ppc' = [ppc EXCEPT ![p] = "select"]
    /\ UNCHANGED <<dbVars, launchVars, files, ids, thr, pollVars, hostVars,
                   raced>>

\* One statement of the purge.
Statement(p, from, to) ==
    /\ ppc[p] = from /\ ppc' = [ppc EXCEPT ![p] = to]
    /\ UNCHANGED <<launchVars, files, doomed, pollVars, hostVars>>

PurgeSelect(p) ==
    /\ Statement(p, "select", IF Finished = {} THEN "files" ELSE "events")
    /\ ids' = [ids EXCEPT ![p] = Finished]
    /\ UNCHANGED <<dbVars, thr, raced>>

PurgeEvents(p) ==
    /\ Statement(p, "events", "mapped")
    /\ Do([db EXCEPT !.events = @ \ ids[p]])
    /\ UNCHANGED <<ids, thr, raced>>

\* Threads the doomed tasks wrote to.
PurgeMapped(p) ==
    /\ Statement(p, "mapped", "sweep")
    /\ thr' = [thr EXCEPT ![p] =
                 {x \in Threads : \E t \in ids[p] : <<x, t>> \in db.maps}]
    /\ UNCHANGED <<dbVars, ids, raced>>

\* Threads with checkpoints that no other task is recorded for.
PurgeSweep(p) ==
    /\ Statement(p, "sweep", "checkpoints")
    /\ thr' = [thr EXCEPT ![p] = @ \cup
         {x \in db.cps : \A t \in Tasks \ ids[p] : <<x, t>> \notin db.maps}]
    /\ UNCHANGED <<dbVars, ids, raced>>

PurgeCheckpoints(p) ==
    /\ Statement(p, "checkpoints", "maps")
    /\ Do([db EXCEPT !.cps = @ \ thr[p]])
    /\ thr' = [thr EXCEPT ![p] = {}]
    /\ UNCHANGED <<ids, raced>>

\* Mutant of PurgeMaps: the rows go with the mappings.
PurgeMapsLate(p) ==
    /\ Statement(p, "maps", "rows")
    /\ Do([db EXCEPT !.row = Set(@, ids[p], "absent")])
    /\ UNCHANGED <<ids, thr, raced>>

PurgeMaps(p) ==
    /\ Statement(p, "maps", "rows")
    /\ Do([db EXCEPT !.maps = @ \ (Threads \X ids[p])])
    /\ UNCHANGED <<ids, thr, raced>>

\* The rows, last; some may be in use again by now.
PurgeRows(p) ==
    /\ Statement(p, "rows", "commit")
    /\ Do([db EXCEPT !.row = Set(@, ids[p], "absent")])
    /\ raced' = raced \cup {t \in ids[p] : lpc[t] # "free" \/ rpc[t] # "none"
                                              \/ t \in alive}
    /\ UNCHANGED <<ids, thr>>

PurgeCommit(p) ==
    /\ Statement(p, "commit", "files")
    /\ Commit(db)
    /\ ids' = [ids EXCEPT ![p] = {}]
    /\ UNCHANGED <<thr, raced>>

\* The directories and log files, without an await in between.
PurgeFiles(p) ==
    /\ ppc[p] = "files" /\ ppc' = [ppc EXCEPT ![p] = "idle"]
    /\ files' = files \ doomed[p]
    /\ doomed' = [doomed EXCEPT ![p] = {}] /\ ids' = [ids EXCEPT ![p] = {}]
    /\ UNCHANGED <<dbVars, launchVars, thr, pollVars, hostVars, raced>>

Purge(p) == \/ PurgeSelect(p) \/ PurgeEvents(p) \/ PurgeMapped(p)
            \/ PurgeSweep(p) \/ PurgeCheckpoints(p) \/ PurgeMaps(p)
            \/ PurgeRows(p) \/ PurgeCommit(p) \/ PurgeFiles(p)

-----------------------------------------------------------------------------
(* Followers: _get_events_since and the loop of _follow_task.              *)

PollEvents(t) ==
    /\ up /\ kpc[t] = "ask"
    /\ seen' = IF t \in db.events THEN seen \cup {t} ELSE seen
    /\ kpc' = [kpc EXCEPT ![t] = "row"]
    /\ UNCHANGED <<dbVars, launchVars, files, purgeVars, hostVars, raced>>

\* Mutant of PollRow: a finished task is waited for until it is cleared.
PollRowCleared(t) ==
    /\ up /\ kpc[t] = "row"
    /\ kpc' = [kpc EXCEPT
                  ![t] = IF db.row[t] = "cleared" THEN "done" ELSE "ask"]
    /\ UNCHANGED <<dbVars, launchVars, files, purgeVars, seen, hostVars, raced>>

\* The status comes second: "unknown" if there is no row, and neither that
\* nor "cleared" ends the loop.
PollRow(t) ==
    /\ up /\ kpc[t] = "row"
    /\ kpc' = [kpc EXCEPT ![t] = IF db.row[t] = "over" THEN "done" ELSE "ask"]
    /\ UNCHANGED <<dbVars, launchVars, files, purgeVars, seen, hostVars, raced>>

-----------------------------------------------------------------------------
(* Crash and restart.                                                      *)

Crash ==
    /\ up /\ crashes < MaxCrashes
    /\ up' = FALSE
    /\ crashes' = crashes + 1
    /\ db' = disk /\ held' = FALSE /\ UNCHANGED disk
    /\ lpc' = [t \in Tasks |-> "free"] /\ rpc' = [t \in Tasks |-> "none"]
    /\ active' = {}
    /\ ppc' = [p \in Purges |-> "idle"]
    /\ doomed' = [p \in Purges |-> {}] /\ ids' = [p \in Purges |-> {}]
    /\ thr' = [p \in Purges |-> {}]
    /\ kpc' = [t \in Followed |-> IF kpc[t] = "done" THEN "done" ELSE "ask"]
    /\ raced' = raced \cup alive
    /\ UNCHANGED <<alive, files, seen, retries, used>>

\* recover_orphaned_tasks: no live row survives.
Restart ==
    /\ ~up
    /\ up' = TRUE
    /\ LET Lost == {t \in Tasks : db.row[t] \in Live} IN
       Commit([db EXCEPT !.row = Set(@, Lost, "over"), !.events = @ \cup Lost])
    /\ UNCHANGED <<launchVars, files, purgeVars, pollVars, crashes, retries,
                   used, raced>>

-----------------------------------------------------------------------------
Next == \/ \E t \in Tasks :
              \/ Submit(t) \/ RetryCheck(t) \/ Daemon(t) \/ AddEvent(t)
              \/ Checkpoint(t) \/ DeleteThread(t) \/ StrayEnds(t)
        \/ Clear
        \/ \E p \in Purges : PurgeStart(p) \/ Purge(p)
        \/ \E t \in Followed : PollEvents(t) \/ PollRow(t)
        \/ Crash \/ Restart

Spec == Init /\ [][Next]_vars

\* A follower polls again as long as it has no answer that ends its loop; no
\* launch, purge or agent has to go on for it.
Fairness == \A t \in Followed : WF_vars(PollEvents(t)) /\ WF_vars(PollRow(t))

FairSpec == Spec /\ Fairness

-----------------------------------------------------------------------------
(* What retention is to achieve.                                           *)

\* What is committed about a task belongs to a row, so that a later purge
\* finds it: a purge that is cut short by a crash, or half committed by some
\* other request, another purge included, never leaves history or mappings
\* without their row.  Only tasks somebody used in the purge's way are excepted.
NothingWithoutRow ==
    \A t \in Tasks : disk.row[t] = "absent" /\ t \notin raced
       => t \notin disk.events /\ \A x \in Threads : <<x, t>> \notin disk.maps

\* What every state of the tables is: typed, and without orphans on disk.
TablesInv == TypeOK /\ NothingWithoutRow

\* A purge does not take the checkpoints of a task that is in use, be it one
\* that was launched while the purge was running, unless the thread is shared
\* with a doomed task or has checkpoints nobody is recorded for.
LiveKeepsCheckpoints ==
    [][\A t \in Tasks, p \in Purges :
          /\ PurgeCheckpoints(p)
          /\ disk.row[t] \in Live /\ t \notin ids[p] \cup raced
          /\ ThreadOf[t] \in db.cps \ Legacy
          /\ \A u \in Tasks \ {t} : ThreadOf[u] # ThreadOf[t]
          => ThreadOf[t] \in db'.cps]_vars

\* The log and the data of a task are removed only when its row is gone for
\* good: a purge lists ids twice, for the tables and for the files, and what
\* is launched in between is on neither list.  When two purges overlap, one may
\* find a row gone that the other has deleted and is about to commit.
FilesGoLast ==
    [][\A t \in files \ files' :
          \/ disk.row[t] = "absent" \/ t \in raced
          \/ \E p \in Purges : ppc[p] = "commit" /\ t \in ids[p]]_vars

\* While the daemon runs and the task stays finished, neither cleared nor
\* purged nor retried, its follower stops.
FollowerEnds ==
    \A t \in Followed :
       up /\ db.row[t] = "over" ~> kpc[t] = "done" \/ db.row[t] # "over" \/ ~up

-----------------------------------------------------------------------------
(* Expectations the sources state and the code does not meet.              *)

\* control_plane.py, _purge_tasks: tasks that run are not purged.
PurgeSparesLive ==
    [][\A t \in Tasks : db.row[t] \in Live => db'.row[t] # "absent"]_vars

\* cli.py, _follow_task: a follower streams events until the task completes.
\* One that stops has shown the event the task ended with.
FollowerSeesEnd ==
    [][\A t \in Followed : kpc[t] # "done" /\ kpc'[t] = "done"
                             => (t \in db.events => t \in seen')]_vars
=============================================================================
