--------------------------- MODULE ReviewWorkspace ---------------------------
(***************************************************************************)
(* Review tasks of examples/quality that work on one repository: the clone *)
(* they share, a worktree for each, the file lock that serialises git, and *)
(* the LangGraph thread that says where a retry goes on.  Each task runs   *)
(* in a process of its own and reviews a pull request of its own.          *)
(*                                                                         *)
(* A git command runs while its task is at the place named after it, and   *)
(* Shell does not kill it when the task is cancelled: it then goes on as a *)
(* stray.  What the review says and posts is the subject of ReviewPosting. *)
(***************************************************************************)
EXTENDS FiniteSets, Naturals

CONSTANTS
    Task,     \* review tasks of the repository
    None,     \* no task
    MaxRuns,  \* bound on launches and retries, all tasks together
    Delays,   \* number of delays of run_git's retries
    MaxStrays \* bound on the tasks of which a command outlives a run

ASSUME WorkspaceAssumption ==
    /\ None \notin Task
    /\ MaxRuns \in Nat /\ Delays \in Nat /\ MaxStrays \in Nat

VARIABLES
    place,   \* where the run of each task is
    how,     \* how its last run ended
    runs,    \* how many runs there have been
    cause,   \* the exception that unwinds through run's finally
    ckpt,    \* the node its LangGraph thread goes on with
    error,   \* does the thread's state hold an error?
    path,    \* does the thread's state hold a worktree_path?
    head,    \* the pull request whose head rev-parse returned in this run
    tries,   \* retries left to the git command
    warned,  \* was a failed cleanup reported?
    owner,   \* who holds the file lock
    clone,   \* the clone directory
    fetched, \* the pull request FETCH_HEAD stands for
    reg,     \* worktrees git has registered
    dir,     \* worktree directories
    strays,  \* commands that outlived their runs
    strayed  \* tasks of which one ever did

runVars    == <<place, how, runs, cause>>
threadVars == <<ckpt, error, path>>
repoVars   == <<clone, fetched, reg, dir>>
strayVars  == <<strays, strayed>>
vars == <<runVars, threadVars, head, tries, warned, owner, repoVars, strayVars>>

SetupGit   == {"clone", "update", "fetch", "head", "prune", "add"}
CleanupGit == {"sweep", "remove"}
Places == SetupGit \cup CleanupGit
          \cup {"idle", "lock", "meta", "branches", "synth", "tidy", "lock2"}
Ended  == {"new", "completed", "failed", "cancelled", "crashed"}

TypeOK ==
    /\ place \in [Task -> Places]
    /\ how \in [Task -> Ended \cup {"running"}]
    /\ runs \in 0..MaxRuns
    /\ cause \in [Task -> {"none", "raised", "cancelled", "late"}]
    /\ ckpt \in [Task -> {"none", "setup", "branches", "synth", "end"}]
    /\ error \in [Task -> BOOLEAN] /\ path \in [Task -> BOOLEAN]
    /\ head \in [Task -> Task \cup {None}]
    /\ tries \in [Task -> 0..Delays]
    /\ warned \in [Task -> BOOLEAN]
    /\ owner \in Task \cup {None}
    /\ clone \in {"absent", "partial", "good"}
    /\ fetched \in Task \cup {None}
    /\ reg \subseteq Task /\ dir \subseteq Task
    /\ strays \subseteq [task: Task, cmd: SetupGit \cup CleanupGit]
    /\ strayed \subseteq Task

Init ==
    /\ place = [t \in Task |-> "idle"]
    /\ how = [t \in Task |-> "new"]
    /\ runs = 0
    /\ cause = [t \in Task |-> "none"]
    /\ ckpt = [t \in Task |-> "none"]
    /\ error = [t \in Task |-> FALSE]
    /\ path = [t \in Task |-> FALSE]
    /\ head = [t \in Task |-> None]
    /\ tries = [t \in Task |-> Delays]
    /\ warned = [t \in Task |-> FALSE]
    /\ owner = None
    /\ clone = "absent"
    /\ fetched = None
    /\ reg = {} /\ dir = {}
    /\ strays = {} /\ strayed = {}

Goto(t, p) == place' = [place EXCEPT ![t] = p]
Save(t, node) == ckpt' = [ckpt EXCEPT ![t] = node]
Fresh(t) == tries' = [tries EXCEPT ![t] = Delays]

\* Mutant of Release: the lock is never given back.
ReleaseNever(t) == owner' = owner

Release(t) == owner' = IF owner = t THEN None ELSE owner

\* What only the run's coroutines knew is gone with them.
Forget(t) ==
    /\ Goto(t, "idle") /\ Fresh(t)
    /\ head' = [head EXCEPT ![t] = None]

\* The run is over: run reports by what unwound and by the state's error.
Finish(t, err, why) ==
    /\ Forget(t)
    /\ cause' = [cause EXCEPT ![t] = why]
    /\ how' = [how EXCEPT ![t] =
                 IF why \in {"cancelled", "late"} THEN "cancelled"
                 ELSE IF why = "raised" \/ err THEN "failed" ELSE "completed"]
    /\ UNCHANGED runs

----------------------------------------------------------------------------
(* The run up to the end of setup *)

\* A launch, or a retry, which task retry allows in any final state.  run
\* passes None to the graph when the thread has a state: it goes on with the
\* next node, and with none when the graph was done.
Start(t) ==
    /\ how[t] \in Ended /\ runs < MaxRuns
    /\ runs' = runs + 1
    /\ how' = [how EXCEPT ![t] = "running"]
    /\ cause' = [cause EXCEPT ![t] = "none"]
    /\ Save(t, IF ckpt[t] = "none" THEN "setup" ELSE ckpt[t])
    /\ Goto(t, CASE ckpt[t] \in {"none", "setup"} -> "lock"
                 [] ckpt[t] = "end" -> "tidy"
                 [] OTHER -> ckpt[t])
    /\ warned' = [warned EXCEPT ![t] = FALSE]
    /\ UNCHANGED <<error, path, head, tries, owner, repoVars, strayVars>>

\* One successful poll of file_lock; clone_or_update_repo then looks at the
\* clone directory and starts its first command without a pause.
LockForSetup(t) ==
    /\ place[t] = "lock" /\ owner = None
    /\ owner' = t
    /\ IF clone = "absent" THEN Goto(t, "clone") /\ clone' = "partial"
                           ELSE Goto(t, "update") /\ UNCHANGED clone
    /\ Fresh(t)
    /\ UNCHANGED <<how, runs, cause, threadVars, head, warned, fetched, reg,
                   dir, strayVars>>

\* What a command leaves behind when it ends well.
Effect(t, cmd) ==
    /\ clone' = IF cmd = "clone" THEN "good" ELSE clone
    /\ fetched' = CASE cmd = "fetch" -> t
                    [] cmd = "update" -> None
                    [] OTHER -> fetched
    /\ reg' = CASE cmd \in {"prune", "sweep"} -> reg \cap dir
                [] cmd = "remove" -> reg \ {t}
                [] OTHER -> reg
    /\ dir' = CASE cmd = "add" -> dir \cup {t}
                [] cmd = "remove" -> dir \ {t}
                [] OTHER -> dir

\* gh repo clone, or git fetch --all, checkout and pull, ends well.
CloneEnds(t) ==
    /\ place[t] \in {"clone", "update"}
    /\ place[t] = "update" => clone = "good"
    /\ Effect(t, place[t])
    /\ Goto(t, "fetch") /\ Fresh(t)
    /\ UNCHANGED <<how, runs, cause, threadVars, head, warned, owner,
                   strayVars>>

FetchEnds(t) ==
    /\ place[t] = "fetch"
    /\ Effect(t, "fetch")
    /\ Goto(t, "head") /\ Fresh(t)
    /\ UNCHANGED <<how, runs, cause, threadVars, head, warned, owner,
                   strayVars>>

\* git rev-parse FETCH_HEAD
RevParseEnds(t) ==
    /\ place[t] = "head"
    /\ head' = [head EXCEPT ![t] = fetched]
    /\ Goto(t, "prune") /\ Fresh(t)
    /\ UNCHANGED <<how, runs, cause, threadVars, warned, owner, repoVars,
                   strayVars>>

\* git worktree prune forgets worktrees without a directory.  The add that
\* follows registers the worktree before it has a directory.
PruneEnds(t) ==
    /\ place[t] = "prune"
    /\ reg' = (reg \cap dir) \cup {t}
    /\ Goto(t, "add")
    /\ UNCHANGED <<how, runs, cause, threadVars, head, tries, warned, owner,
                   clone, fetched, dir, strayVars>>

\* The directory of an earlier run makes the add fail.  create_pr_worktree
\* returns and the lock is released.
AddEnds(t) ==
    /\ place[t] = "add" /\ t \notin dir
    /\ Effect(t, "add")
    /\ Goto(t, "meta") /\ Release(t)
    /\ UNCHANGED <<how, runs, cause, threadVars, head, tries, warned,
                   strayVars>>

\* run_git tries again after a refused ssh key, as often as it has delays.
SshRefused(t) ==
    /\ place[t] \in {"update", "fetch", "head", "add"} /\ tries[t] > 0
    /\ tries' = [tries EXCEPT ![t] = @ - 1]
    /\ UNCHANGED <<runVars, threadVars, head, warned, owner, repoVars,
                   strayVars>>

\* A command or a query of setup fails or times out: setup returns an error,
\* which ends the graph.  A clone or an add that timed out was killed and may
\* leave a part behind.
SetupFails(t) ==
    /\ place[t] \in SetupGit \cup {"meta"}
    /\ Release(t)
    /\ IF place[t] = "clone"
         THEN clone' \in {"absent", "partial"} ELSE UNCHANGED clone
    /\ IF place[t] = "add" /\ t \notin dir
         THEN \/ dir' = dir \cup {t} /\ UNCHANGED reg
              \/ reg' = reg \ {t} /\ UNCHANGED dir
         ELSE UNCHANGED <<reg, dir>>
    /\ error' = [error EXCEPT ![t] = TRUE]
    /\ Save(t, "end") /\ Goto(t, "tidy")
    /\ UNCHANGED <<how, runs, cause, path, head, tries, warned, fetched,
                   strayVars>>

\* Diff, author and user are there: setup returns.  An empty diff or an empty
\* matrix skips the branches.
SetupEnds(t) ==
    /\ place[t] = "meta"
    /\ path' = [path EXCEPT ![t] = TRUE]
    /\ \E node \in {"branches", "synth"} : Save(t, node) /\ Goto(t, node)
    /\ UNCHANGED <<how, runs, cause, error, head, tries, warned, owner,
                   repoVars, strayVars>>

----------------------------------------------------------------------------
(* The other nodes *)

\* A branch that fails returns a note, so the branches always end.
BranchesEnd(t) ==
    /\ place[t] = "branches"
    /\ Save(t, "synth") /\ Goto(t, "synth")
    /\ UNCHANGED <<how, runs, cause, error, path, head, tries, warned, owner,
                   repoVars, strayVars>>

\* synthesize_and_post returns, with an error when no branch succeeded or the
\* review could not be submitted.
SynthesisEnds(t) ==
    /\ place[t] = "synth"
    /\ \E failed \in BOOLEAN : error' = [error EXCEPT ![t] = failed]
    /\ Save(t, "end") /\ Goto(t, "tidy")
    /\ UNCHANGED <<how, runs, cause, path, head, tries, warned, owner,
                   repoVars, strayVars>>

\* synthesize_and_post raises, as when the baseline cannot be written.
SynthesisRaises(t) ==
    /\ place[t] = "synth"
    /\ cause' = [cause EXCEPT ![t] = "raised"]
    /\ Goto(t, "tidy")
    /\ UNCHANGED <<how, runs, threadVars, head, tries, warned, owner, repoVars,
                   strayVars>>

----------------------------------------------------------------------------
(* _cleanup_worktree, in the finally block of run *)

\* Mutant of FindWorktree: only a run that did not raise cleans up.
FindWorktreeUnlessRaised(t) ==
    /\ place[t] = "tidy"
    /\ IF path[t] /\ cause[t] = "none"
         THEN Goto(t, "lock2") /\ UNCHANGED <<how, runs, cause, head, tries>>
         ELSE Finish(t, error[t], cause[t])
    /\ UNCHANGED <<threadVars, warned, owner, repoVars, strayVars>>

FindWorktree(t) ==
    /\ place[t] = "tidy"
    /\ IF path[t]
         THEN Goto(t, "lock2") /\ UNCHANGED <<how, runs, cause, head, tries>>
         ELSE Finish(t, error[t], cause[t])
    /\ UNCHANGED <<threadVars, warned, owner, repoVars, strayVars>>

\* Mutant of LockForCleanup: the cleanup does not take the lock.
SweepUnlocked(t) ==
    /\ place[t] = "lock2"
    /\ Goto(t, "sweep")
    /\ UNCHANGED <<how, runs, cause, threadVars, head, tries, warned, owner,
                   repoVars, strayVars>>

LockForCleanup(t) ==
    /\ place[t] = "lock2" /\ owner = None
    /\ owner' = t
    /\ Goto(t, "sweep")
    /\ UNCHANGED <<how, runs, cause, threadVars, head, tries, warned, repoVars,
                   strayVars>>

SweepEnds(t) ==
    /\ place[t] = "sweep"
    /\ Effect(t, "sweep")
    /\ Goto(t, "remove")
    /\ UNCHANGED <<how, runs, cause, threadVars, head, tries, warned, owner,
                   strayVars>>

\* git worktree remove may fail without anybody looking: rmtree then takes the
\* directory, and the registration stays for the next prune.
RemoveEnds(t) ==
    /\ place[t] = "remove"
    /\ dir' = dir \ {t} /\ reg' \in {reg, reg \ {t}}
    /\ Release(t)
    /\ Finish(t, error[t], cause[t])
    /\ UNCHANGED <<threadVars, warned, clone, fetched, strayVars>>

\* A command timed out or the directory could not be removed.
CleanupFails(t) ==
    /\ place[t] \in CleanupGit
    /\ warned' = [warned EXCEPT ![t] = TRUE]
    /\ Release(t)
    /\ Finish(t, error[t], cause[t])
    /\ UNCHANGED <<threadVars, repoVars, strayVars>>

----------------------------------------------------------------------------
(* Cancellation and death *)

\* The command the task was waiting for is not killed.
Abandon(t) ==
    \/ UNCHANGED strayVars
    \/ /\ place[t] \in SetupGit \cup CleanupGit
       /\ Cardinality(strayed \cup {t}) <= MaxStrays
       /\ strays' = strays \cup {[task |-> t, cmd |-> place[t]]}
       /\ strayed' = strayed \cup {t}

\* CancelledError is raised where the task waits, once in a run.  The lock's
\* finally releases it; inside the cleanup nothing is left to unwind.
Cancel(t) ==
    /\ how[t] = "running" /\ cause[t] \notin {"cancelled", "late"}
    /\ Release(t) /\ Abandon(t)
    /\ IF place[t] \in CleanupGit \cup {"tidy", "lock2"}
         THEN Finish(t, error[t], "late")
         ELSE /\ cause' = [cause EXCEPT ![t] = "cancelled"]
              /\ Goto(t, "tidy")
              /\ UNCHANGED <<how, runs, head, tries>>
    /\ UNCHANGED <<threadVars, warned, repoVars>>

\* The process dies; the kernel drops its lock.
Die(t) ==
    /\ how[t] = "running"
    /\ Release(t) /\ Abandon(t)
    /\ how' = [how EXCEPT ![t] = "crashed"]
    /\ Forget(t)
    /\ UNCHANGED <<runs, cause, threadVars, warned, repoVars>>

StrayEnds(s) ==
    /\ s \in strays
    /\ strays' = strays \ {s}
    /\ Effect(s.task, s.cmd)
    /\ UNCHANGED <<strayed, runVars, threadVars, head, tries, warned, owner>>

Proceed(t) ==
    \/ LockForSetup(t) \/ CloneEnds(t) \/ FetchEnds(t) \/ RevParseEnds(t)
    \/ PruneEnds(t) \/ AddEnds(t) \/ SetupFails(t) \/ SetupEnds(t)
    \/ BranchesEnd(t) \/ SynthesisEnds(t) \/ FindWorktree(t)
    \/ LockForCleanup(t) \/ SweepEnds(t) \/ RemoveEnds(t) \/ CleanupFails(t)

Next ==
    \/ \E t \in Task :
         Start(t) \/ Proceed(t) \/ SshRefused(t) \/ SynthesisRaises(t)
         \/ Cancel(t) \/ Die(t)
    \/ \E s \in strays : StrayEnds(s)

\* A run that can go on does; commands end or time out after Shell's timeout.
Spec == Init /\ [][Next]_vars /\ \A t \in Task : WF_vars(Proceed(t))

----------------------------------------------------------------------------
(* Properties *)

\* While no command outlives its run: a run that made its worktree reviews the
\* head of its own pull request, in a directory git knows, until it removes it
\* itself, whatever the other reviews of the repository fetch, prune, add and
\* remove meanwhile.
WorktreeIntact ==
    strayed = {} => \A t \in Task :
        place[t] \in {"meta", "branches", "synth"} /\ head[t] # None =>
            head[t] = t /\ t \in reg \cap dir

\* A run whose setup had returned a worktree leaves none behind when it ends
\* in any way but its process's death, a cancel during the cleanup itself or
\* a failed cleanup, which it reports.  (A git command of an earlier run of the
\* same task that is still going could bring it back.)
CleanedUp ==
    \A t \in Task :
        how[t] \in {"completed", "failed", "cancelled"} /\ path[t]
        /\ cause[t] # "late" /\ ~warned[t] /\ t \notin strayed => t \notin dir

\* What every state of the workspace is: typed, and cleaned up after runs.
WorkspaceInv == TypeOK /\ CleanedUp

\* A run ends: it does not wait for the lock for ever, and setup's git
\* commands are not tried again for ever.
RunEnds == \A t \in Task : how[t] = "running" ~> how[t] # "running"

\* README of the example: a review that fails can be retried from the last
\* checkpoint.  So the retry of a failed review has a node to run.
RetryGoesOn ==
    [][\A t \in Task : how[t] = "failed" /\ how'[t] = "running"
           => place'[t] # "tidy"]_vars
============================================================================
