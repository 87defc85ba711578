# switchplane: a TLA+ verification project

Switchplane runs *agent tasks* in subprocesses under a per-application daemon,
the *control plane*. This directory holds TLA+ models of the parts of it where
several actors meet (the daemon's coroutines, agent processes, operators,
crashes), the TLC configurations that check them, and TLAPS proofs of the main
invariants. Paths below are relative to `src/switchplane/` of the repository,
those of the review example to `examples/quality/quality/`.

## 1. The system

| Component | Code | State it keeps | Operations | Talks to |
|---|---|---|---|---|
| Control plane | `control_plane.py` | stream subscribers, log ring, idle timer, shutdown event | submit, retry, cancel (+ cascade), notify, command, clear, purge, queries, subscriptions | everything, in one asyncio loop |
| Subprocess manager | `subprocess_manager.py` | `_handles`, `_task_to_agent`, a reader per agent | launch, send, read events, serve requests, clean up, kill all | store, agents |
| Store | `persistence.py`, `task.py` | `tasks`, `events`, `agents` tables (SQLite, a commit per call) | create, update, list, add event, recover, clear, purge | files on disk |
| Agent runtime | `agent_runtime.py`, `agent.py` | pending requests, command and notification queues, cancel flag, `_completed` | emit, request, wait, listen, run, tear down | control plane over a socketpair |
| IPC | `_util.py`, `protocol.py` | frames in flight | length-prefixed JSON | both sides |
| Daemon | `daemon.py` | PID file, socket file, idle timer | start, stop, daemonise, clean up | CLI, operating system |
| Socket server and client | `transport.py` | active connections | request and response, upgrade to a stream | CLI, TUI |
| Followers | `cli.py`, `tui.py` | last event id, status shown | poll, subscribe | socket server |
| Checkpoints | `checkpoint.py` | checkpoint, blob and write tables | put, get, delete thread | agents and daemon, one file |
| MCP manager | `mcp.py` | open sessions | preflight, start, stop | agent runtime |
| OAuth | `oauth.py` | tokens in memory and in `tokens.json` | refresh, retry on 401, retry of the transport, login | MCP clients, provider, browser |
| LLM tool loop | `llm.py`, `ratelimit.py` of the example | messages, turn and repeat counts | trim, ask, run tools until done | agent code, model |
| Review example | `agents/pr/tasks/review.py`, `gh.py`, `_concurrency.py`, `agents/pr/memory.py` | shared clone, worktrees, file lock, LangGraph thread, baseline | set up, branches, synthesis, post, clean up, retry | git, GitHub, tool loop, checkpoints |
| Set-up | `app.py`, `config.py`, `discovery.py`, `logging.py`, `scaffold.py` | none that changes | sequential start-up | |
| Shell tool | `shell.py` | none between calls | run one command | agent code |

What is hard here, and what correctness means:

* **Supervision.** Every `await` of the daemon lets another coroutine in.
  Launching (insert row, start process, enter tables, mark running, send
  `execute_task`), reading events (add event, store status, call back),
  exit handling (check, mark, clean up), retrying (check, reset, launch) and
  the cancel cascade (snapshot, send, re-read, write) all interleave, and the
  subprocess runs on its own. Correct: the two tables agree; a live row has
  somebody who will finish it; the status moves only as the life cycle allows;
  the history explains the status; children of a task that ends badly are
  stopped; an exited agent is reaped.
* **Crashes.** The daemon can die between any two commits; agents survive it.
* **Observation.** Subscribers and pollers must see every event, in order, and
  an end. **Waiting.** Notifications, input and waits for tasks must not be
  lost or stuck. **Storage.** Purge and checkpoint deletion must not take what
  somebody still uses. **Processes.** One daemon per application, which its
  files lead to; a stop that leaves nothing behind.
* **Outside services.** Tokens are refreshed by several processes at once and
  rotate; answers get lost; a model may ask for anything, for ever. Correct: a
  tool is not run twice but for a lost answer, the token file stays usable,
  prompts fit and are well formed, loops end.
* **An application.** Concurrent reviews share a clone under a file lock, are
  retried from checkpoints and post to GitHub. Correct: each works on its own
  pull request's head, cleans up, tells every finding, and tells it once.

`PROJECT.json` lists every component and, under `hazards`, the hard-to-test
situations with the properties that watch them.

## 2. Plan

| Order | Module | About | State |
|---|---|---|---|
| 1 | `TaskLifecycle` | abstract: the moves of a task row | done |
| 2 | `TaskSupervision` (`MCTaskSupervision`) | control plane, manager, agents, crash | done, implements 1; `TaskSupervisionProofs` |
| 3 | `EventStream` | publisher, subscribers, replay and sentinel | done; `EventStreamProofs` |
| 4 | `TaskRetention` (`MCTaskRetention`) | clear, purge, checkpoints, polling followers, crash inside a purge | done; `TaskRetentionProofs` |
| 5 | `AgentRuntime` (`MCAgentRuntime`) | listener, cancellation, notifications, input, requests, outcome and teardown of one agent | done; `AgentRuntimeProofs` |
| 6 | `DaemonControl` | start, stop, ensure, idle exit, against PID file and socket file | done; `DaemonControlProofs` |
| 7 | `OAuthCalls` | calls, refreshes, retries and logins of several processes | done; `OAuthCallsProofs` |
| 8 | `ToolLoop` | trimming, rate limits, tool calls, repeats | done; `ReviewPostingProofs` |
| 9 | `ReviewWorkspace` | clone, worktrees, lock, checkpoints, retries of concurrent reviews | done; `ReviewWorkspaceProofs` |
| 10 | `ReviewPosting` (`MCReviewPosting`) | branches, synthesis, verdict, posts, baseline | done; `ReviewPostingProofs` |
| 11 | IPC channel | two bounded directions, blocking writers | left |
| 12 | system log | ring, per-subscriber queues that drop | left |

Every safety property of the passing runs has a theorem (section 5); liveness is
left to TLC.

## 3. Modules

### TaskLifecycle

The abstract specification of the task table: which status a row may move to
from which, with `admitted` for retries that passed their check and have not
reset the row yet. It knows no processes, tables or messages.

### TaskSupervision

One step of the model is the code between two awaits that hand control to the
event loop. Names of variables and actions follow the code:

| Model | Code |
|---|---|
| `status`, `logged` | `tasks.status`; which terminal events are in `events` |
| `handles`, `route` | `SubprocessManager._handles`, `_task_to_agent` |
| `task`, `caller`, `pc`, `cur` | one `launch_agent` call, then its `_read_events` task: its task, the agent whose request it serves, where it is, the event in hand |
| `proc`, `said`, `heard` | the subprocess, how far its events have got, `ctx._cancelled` |
| `inbox`, `outbox`, `conn` | the socketpair's two directions and the daemon's end of it |
| `cstep`, `at`, `stack` | a `_cancel_children` walk with its recursion |
| `up`, `crashes` | the daemon |

`Submit`, `RetryCheck`, `RetryReset`, `Cancel`, `Notify` and `Clear` are the
requests; `Spawn`, `Register`, `SpawnFail`, `MarkRunning`, `SendExecute` are
`launch_agent` (the subprocess starts one await before its handle and its route
are entered); `Boot`, `Emit`, `Hear`, `Leave`, `Die` the subprocess;
`ReadEvent` to `Cleanup` the reader, with `ServeSubmit`, `ServeDone` and
`RejectSubmit` for requests it serves inline; `Expand` to `LogCancelled` the
cascade; `Crash` and `Restart` the daemon's failure and recovery.
`StoreRaises` and `WalkRaises` are statements of the store that raise: what an
event raises is logged and the reader goes on with the next frame
(`subprocess_manager.py:278-279`), so an event may be missing from the history or
its status from the row; in a launch or a reset the exception ends the request;
a cascade unwinds through all its levels.

Abstractions. Payloads are dropped; custom and progress events do not touch
task rows and are left out. An agent id stands for one launch. `Backlog`
bounds the agent's direction of the socket; a longer queue only postpones the
reader. Closing a socket with unread input may show as a reset at the other
end (`conn` "unread"), which is how Unix sockets behave. `recover_orphaned_tasks`
commits row by row, but no request is served before it has ended, so it is one
step. Parameters that say what the environment does (`Faulty`, `Asking`,
`Patient`, `MaxCrashes`, `Ops`) keep each run's question apart.
Definitions marked "Mutant of" are not part of the specification: they are
plausible wrong versions of the definition that follows, kept beside it so that
every property can be shown to fail for some bug.

### EventStream

One task, its history and the streams a full-screen interface opens on it.
A run's reader adds an event (`AddEvent`), stores the status (`StoreStatus`) and
calls back into the control plane, which cascades, takes the set of subscribers
(`Capture`) and then pushes the event and, for a terminal one, a
sentinel (`Publish`). The three ends of a run that do not go
through an event are there too: a silent exit (`Exit`, `MarkFailed`), a parent's
cascade (`CascadeCheck`, `CascadeWrite`, `CascadeLog`) and clearing.

| Model | Code |
|---|---|
| `status`, `log` | the row; `events`, each with the run that wrote it |
| `run`, `wpc`, `cur` | the launches of the task and where their readers are |
| `subs`, `hooked`, `queue` | `_stream_subscribers[task_id]`, whether a callback still holds that set, and the streams' queues |
| `spc` | where a stream's coroutine is: registered, status read, history read, replaying, forwarding |
| `gone`, `got` | the client's end: has it left, what has it been sent |
| `since`, `unpub`, `walk` | the run a stream was opened in and the entries nobody published (for the properties only); the cascade |

`Subscribe`, `ReadStatus`, `ReadHistory`, `Replay`, `Forward` are
`_stream_subscribe` between its awaits; `WriteFails` is a write to a client that
has gone. Retries are patient here (a retry starts when the reader before it is
done): without that a sentinel of the old run ends a stream of the new one.

### TaskRetention

How long a task's data lives. The daemon has one SQLite connection and no
explicit transactions, so a commit made for any request commits whatever a purge
has deleted so far: `db` is what that connection sees, `disk` what is
committed, `held` whether it has something pending (an agent's own connection
then waits). `Purges` are the purge requests that may overlap, each one purge
after the other. A purge is `PurgeStart` (the guard on handles and the list for the
files, which may be empty), then one action per statement of `purge_terminal_tasks`, then
`PurgeFiles`. `Checkpoint` and `DeleteThread` are an agent's transactions;
`Submit` to `Cleanup` are the commits of a launch and of its reader;
`PollEvents` and `PollRow` are the two reads of `_get_events_since`; a follower
goes on asking until a final status. `raced` remembers the tasks that were
retried while a purge had them listed, or whose agent outlived a crash; the
properties except them, because there the code does lose data
(`purged_retry.cfg`, section 4). The content of events and checkpoints is dropped: a task has
or has not its last event, a thread has or has not checkpoints; pending writes
go with the checkpoints.

### AgentRuntime

One agent subprocess after it has read `execute_task`: the task coroutine with
its resources, the listener, and the boundary in `agent_main` that turns what
came out into a terminal event. The control plane is an environment that sends
commands, answers requests and may go away. (`TaskSupervision` has the other
side, with the agent reduced to the events it sends.)

| Model | Code |
|---|---|
| `tpc`, `thrown` | the await `task_handle` is in, the exception it is being left with |
| `due`, `cancelling` | `task_handle.cancel()` was called and has not been raised yet; `cancelling() > 0` |
| `cancelled`, `completed` | `ctx._cancelled`, `ctx._completed` |
| `lpc`, `inbox`, `conn` | `_listen_for_commands`, the frames on their way, the other end |
| `cur`, `answer`, `asked` | `_pending_requests` (a task waits for one request at a time), its future's result, the requests at the control plane |
| `nq`, `box`, `leaked` | `_notification_queue`, what the getter of the current wait holds, the getters of waits that were given up |
| `commands` | `_command_queue` |
| `db`, `tried`, `open`, `errors` | the checkpointer; the servers that were tried, hold something on the exit stack, failed to start |
| `outcomes`, `given`, `heard`, `expired`, `swallowed` | what was sent, received and read, how many waits timed out, and whether the runtime caught a cancellation (for the properties only) |

`DbStart` to `DbClose` are `_agent_resources` with `McpManager.start` and
`stop`; `Request` to `GetInput` the context's waits; `Conclude` and `End` the
ways the task's code reports and ends; `Report` the boundary. The task's code is
any sequence of these calls. `Task.cancel()` takes effect at the next await
(`Interrupt`), or is taken by `McpManager.start` for a server's failure
(`CancelServer`), or ends a `wait_for_notification`, which then returns `None`.

Two kinds of frames that do harm are there. `HearJunk` is a command whose type the
agent does not know, as from a daemon older or newer than it is: it is logged and
skipped (`agent_runtime.py:665-668`). `HearTorn` is an answer that cannot be read,
for one because it is longer than the 64 MB a frame may have, which no sender
looks at: the exception leaves the listener (`653-658`) and nobody is told, so a
request waits for ever. A `wait_for_notification` of a task whose flag of a cancel
is set returns at once.

Assumed of the task's code: it lets a cancellation through, awaits one thing
at a time, and does not call `complete` or `fail` twice. The last is `Conclude`'s
guard on `completed`: the code has none (`agent_runtime.py:393-402`), and a task
that calls twice does send two outcomes. Left out: process
signals, the debugger hook, and log forwarding, none of which takes part in the
outcome or in the waits; the start of `agent_main`, which is sequential until
the two tasks exist (`TaskSupervision` has its failures).

### DaemonControl

The commands that start and stop the control plane (`daemon.py`, with the socket
checks of `transport.py`) and the daemons they fork. What they know of each
other is a PID file, a socket file and signals.

| Model | Code |
|---|---|
| `pidfile`, `holders` | the file at `pid_path`; daemons whose open file it is (what is written to an unlinked file is lost) |
| `sock` | whose socket the file at `sock_path` is |
| `stage`, `asked` | how far `run_daemon`, `ControlPlane.start` and `shutdown` are; the shutdown event |
| `pc`, `kind`, `target`, `child` | a command: its place, which one it is, the number it read, its fork |

`Check` to `Recheck` are `start_daemon`, `ensure_daemon` and `stop_daemon` with
a step for each look at a file, a process or the socket; `OpenPid` to `Leave` the
life of a daemon. Time is abstract: a command stops waiting whenever what it
waits for is not there. A daemon that has removed its PID file is "leaving" until
`asyncio.run` has closed its loop (`Exit`): the process is there, and `os.kill`
finds it, but it touches no file. The 10 seconds `start_daemon` waits are taken to be
enough for a daemon to write its PID file. Process identifiers are not reused.

### OAuthCalls

`DirectOIDCAuth` on top of `RetryTransport` in each agent process, the
`tokens.json` they share with `auth login`, and a provider. A token is a
generation: the n-th reply holds access token n and, unless it leaves it out,
refresh token n.

| Model | Code |
|---|---|
| `file`, `mem`, `loaded` | `tokens.json`; the tokens a `DirectOIDCAuth` holds; whether it has read the file |
| `call[c]` | one request through `async_auth_flow`: where it is, the header, `attempt` of the transport, the reply on its way, and how often the server executed it without its answer being lost |
| `issued`, `spent`, `wasted`, `lapsed`, `dead` | the provider: replies, used refresh tokens, those whose successor was lost, tokens past their `expires_in`, tokens the server rejects |
| `login`, `gift` | `run_direct_oidc_login`: waiting for the browser, exchanging |

`Start`, `Rejected`, `Refreshed`, `NotRefreshed`, `SetHeader` and `RefreshFault` are
the flow, `Throttled`, `Fault`, `Broken` and `Answered` the transport, `Kill` an
agent's end. `SetHeader` is a step of its own: after a proactive refresh its client is
closed, and the header is then the token the process holds by that time. `Fault` is
one of the exceptions `RetryTransport` lists, which are retried; `Broken` any other
(a read error), which ends the call at once. The
provider (`Grant`, `Refuse`, `Exchange`, `Expire`) and the server (`Serve`) are
external. There is no lock, neither in a process nor between processes, and the
model has none. A write of `tokens.json` is one step. Left out: the OAuth
provider of the MCP library (`DirectOIDCAuth` is the repository's own),
discovery, PKCE, and delays.

### ToolLoop

`run_tool_loop` of `llm.py` with `RateLimitRetry` of the example and the tools
of `Shell`. `messages` is the conversation, with sizes in units of the context
window; `turn`, `last`, `repeats` are the counters of the loop; `calls`, `ran`,
`slow` the calls of a turn, how often each was made and how often it timed out.
`Trim` and `GiveUp` are the trimming, `Final`, `Reply` and `AskFails` the
question, `Check` the cap and the repeats, `NotFound` to `TimedOut` one call of a
tool, `EndTurn` and `Cancel` the rest. `trim_messages` of LangChain is external.
Two calls are equal when they are of the same tool, since arguments are left out.
`LoopAssumption` asks for a limit of repeats above one, as the code's 3 is: with a
limit of one, a single turn would count as its own repetition. Its `LoopInit`,
`LoopNext`, `LoopSpec` and `loopVars` have names of their own because one module
extends it together with `ReviewPosting` (section 5).

### ReviewWorkspace

Review tasks of `examples/quality` on one repository (`agents/pr/tasks/review.py`,
`gh.py`, `_concurrency.py`): a shared clone, a worktree each, a file lock around
git, and a LangGraph thread that says where a retry goes on.

| Model | Code |
|---|---|
| `place`, `how`, `cause` | where a run of a task is; how its last one ended; what unwinds through `run`'s `finally` |
| `ckpt`, `error`, `path` | the thread: next node, `error` and `worktree_path` of its state |
| `head`, `tries`, `warned` | the commit `rev-parse` gave; retries left to `run_git`; whether a failed cleanup was reported |
| `owner` | `file_lock` |
| `clone`, `fetched`, `reg`, `dir` | the clone directory, FETCH_HEAD, registered worktrees, worktree directories |
| `strays`, `strayed` | git commands that outlived the run that started them |

Each git command is a place and an action that ends it, with the effect it has
(`Effect`). `RemoveEnds` may leave the registration: when `git worktree remove` fails,
`rmtree` takes the directory and the next prune the rest. `SshRefused` is `run_git`'s retry; `SetupFails`, `CleanupFails`,
`SynthesisRaises` are the error paths; `Cancel` and `Die` may come anywhere. What
git commands do is modelled from how the code uses them. A task reviews a pull
request of its own; two reviews of one pull request are `ReviewPosting`'s matter.

### ReviewPosting

The fan-in of a review: the branches' findings become comments, a verdict, posts
on GitHub or a local report, and a baseline (`review.py`, `agents/pr/memory.py`).
Functions are translated as operators: `Validated`, `ClusterComments`,
`Cited`, `OneIssue`, `Sources` and `Consolidate` for `_validate_sourced_comments`
and its helpers, `SynthEvent`,
`ResolveEvent`, `EffectiveEvent` for the verdict, `NewBaseline` for
`_persist_baseline`. The node `synthesize_and_post` is `FanIn` to `Persist`, a
step for each post. The model's answer is arbitrary. A finding is a number with a
line, a domain and a severity; two of them are the same issue when they are
`Twins`, which need not be transitive, as in the code. Each domain has one provider.

`LoadBaseline` is `load_baseline`: a file that cannot be read or does not hold an
object is no baseline (`agents/pr/memory.py:107-115`). The baseline that replaces it
then has nothing of the domains that failed, so `FailedDomainKept` is about passes that
could read theirs (`unread`); the other case is in `lost_baseline.cfg` (section 4).
Without findings no comment has sources: what the synthesis makes of a branch's note
is posted as it is (`Unsourced`, `review.py:1431-1433`).

A finding is the same issue as itself when `{f}` is in `Twins`. The code compares
the words of the texts, `[a-z0-9]+`, and a text without any is like no other and
not like itself. When the synthesis cites such a finding alone, its comment has no
sources, and `max()` of their severities raises (`review.py:889`): the node fails
after all branches have been paid for, and a retry fails again if the answer is the
same. `Raises` says when that is, `SynthesizeRaises` is the step. It is a fault of
the code that no documentation contradicts; the properties are checked and proved
with it as one more way in which a review ends.

## 4. Runs

All runs set `CHECK_DEADLOCK FALSE`: launches, requests, commands and crashes are
finite in number, and a system with nothing to do stops.

| Run | Instance | Shows |
|---|---|---|
| `supervision` | 1 task, 2 launches (so a retry may overlap the first run), 1 operator request, backlog 2, every fault, 1 crash | `TypeOK`, `Supervised`, `RouteFollowsHandle` |
| `lifecycle` | 1 task, 3 launches, 1 operator request, a store that fails, 1 crash, patient operator | `ImplementsLifecycle`: the detailed system refines `TaskLifecycle` |
| `family` | parent and child, 2 launches shared by submit, child and retries, deaths, fair scheduling | `OutcomeIsLogged`, `CascadeReachesChildren`, `RunsAreClosed` |
| `stream` | 1 task with one retry, 1 stream opened up to twice, at most 3 events in all, every kind of end | `StreamInv`, `EndIsComplete`, `StreamEnds` |
| `retention` | 2 tasks on two threads, 1 retry, any number of clears and purges (one at a time), 1 follower, 1 crash | `TablesInv`, `LiveKeepsCheckpoints`, `FilesGoLast`, `FollowerEnds` |
| `agent` | 1 agent, a required and an optional server, 2 commands, 2 requests, 1 expired wait, every fault, fair scheduling | `TypeOK`, `OneOutcome`, `CancelDecides`, `SessionsClosed`, `NothingLost`, `AnswersMatch`, `WaitsEnd` |
| `daemon` | 1 user, 5 commands, 5 forks, 2 crashes; daemons hang or idle out anywhere | `DirectoryInv`, `Reachable`, `StopStops`, `CommandsReturn` |
| `two_starts` | 2 users, a command each, 2 forks, no crash | violated: two daemons serve at once |
| `oauth` | 2 processes, 2 calls (one a notification), 3 replies with tokens, 1 login, 1 retry, a provider that rotates and refuses | `CallInv`, `FileUsable`, `CallsReturn` |
| `tools` | a shell tool, another tool and an unknown name, 4 turns of up to 2 calls, a window of 7 units | `PromptInv`, `CalledAgainOnlyWhenSlow`, `NoTreadmill`, `LoopEnds` |
| `workspace` | 2 tasks, 3 runs in all, 1 retry of git, commands of 1 task may outlive it | `WorkspaceInv`, `WorktreeIntact`, `RunEnds` |
| `posting` | 3 findings on a line (two alike, one without words), 2 domains, 2 reviews, 1 crash, answers of 2 comments citing 2 findings each | `ReviewInv`, `CleanIsHonest`, `VerdictCovers`, `InlineOnce`, `FailedDomainKept` |

Some properties are conjunctions of named parts that are read together and
checked in one pass:

| Property | Parts |
|---|---|
| `StreamInv` | `TypeOK`, `NoGap` |
| `TablesInv` | `TypeOK`, `NothingWithoutRow` |
| `RunsAreClosed` | `ExitedIsReaped`, `CancelEndsRun` |
| `WaitsEnd` | `RequestReturns`, `InputReturns`, `NoticeReturns`, `CancelEnds` |
| `DirectoryInv` | `TypeOK`, `OneDaemon` |
| `CallInv` | `TypeOK`, `RepeatOnlyAfterLoss`, `RejectedNotResent` |
| `PromptInv` | `LoopTypeOK`, `PromptWellFormed`, `PromptFits` |
| `WorkspaceInv` | `TypeOK`, `CleanedUp` |
| `ReviewInv` | `TypeOK`, `EveryFindingTold` |

Why the bounds are enough. The races are between two runs of one task, or
between one parent, one child and one operator: two launches give an old
reader and a new one, three give a retry of a retry. One crash separates
"before" and "after" once. Two frames of backlog are enough for an event
behind another one (a terminal event behind a progress one). Symmetry of
launches is used in runs without liveness only. `lifecycle` has the third launch and
of the faults only the failing store; two launches with every fault pass as well,
and `LifecycleHolds` is for any number of launches and all faults. In `stream`, two runs let a
stream opened in the first meet the end of the second, and a stream opened twice
meets its own leftovers. In `retention`, two tasks are the one a purge lists and
the one launched meanwhile; their threads differ, because deleting a thread that
a listed task shares is what the code documents. One purge at a time is what five
minutes allow together with a follower and its liveness; two that overlap are
checked for safety by `two_purges.cfg`, kept beside the modules (20 million states),
and the theorems are for any number. A property with an exception
names it: `Unannounced` in `EventStream` (runs that ended without anything
published), `raced` in `TaskRetention` (and for `FilesGoLast`, a task whose rows an overlapping
purge has deleted and is about to commit), `swallowed` and a broken listener in
`AgentRuntime`. In
`agent`, one required and one optional server give every mix of started,
failed and cancelled; two commands let a cancel come before or after any other
command, and two requests let a late answer to the first meet the second.

In `daemon`, one user gives commands one at a time, which is what its properties
promise anything for; five commands let a start follow a stop that followed a
start that gave up, with a daemon of each still ending. In `oauth`, a rotating
provider is the harder one; three replies are a first pair, its successor and a
third from another call or the login, which is enough for two writers that store
in the wrong order. (With 4 replies and 2 logins, safety only, 19 million states
showed nothing else.) In `tools`, the larger result fits the tail alone and two of
them do not, and the larger prompt leaves no tail at all. In `workspace`, a third
run is a retry of either task while the other is anywhere. In `posting`, all
findings share a line, since equivalence, the baseline and `already` only compare
findings of one line; two findings are alike and the third is without words, so a
comment can be merged, split or raise. (Four, with a chain that is not transitive,
passed as well but take four minutes; `ConsolidationHolds` is for every relation.) A
second review
meets the comments of the first, and the crash makes a pass of its own.
Exceptions here: `strayed` in `ReviewWorkspace` (a git command of a cancelled run
still going), `wasted` in `OAuthCalls` (a successor lost on the way), `blind` in
`ReviewPosting` (existing comments could not be listed), `unread` there (an earlier
baseline could not be read).

What these exceptions leave out is damage the code does, and no property finds it: the
row of an aborted launch or a torn reader stays live (`Supervised`); the children of
an agent that dies without a word work on (`CascadeReachesChildren` is about agents
that reported a bad end); a stream whose run ended
unannounced does not end (`StreamEnds`); a follower may miss the last event or never
stop (`FollowerEnds`); a task retried under a purge loses its row or its files
(`FilesGoLast`); an expired wait loses a notification (`NothingLost`); a request after
a cancel that was caught, or after an answer that could not be read, waits for ever
(`WaitsEnd`). The properties say that there is no other way to come to this. The
configurations below reproduce most of them, and `PROJECT.json` "hazards" has a note
at each.

`Patient` says that a retry is asked for only once the earlier agent has been
dealt with. It is TRUE where a property is about one run of a task at a time
(`lifecycle`, `family`); `supervision` and its theorems need no such help.

Fairness (`FairSpec`). Weak fairness of each coroutine of the daemon (the loop
runs every ready coroutine; store calls return), of the subprocess's start, its
listener and its exit, and of a cancelled task's end, which asyncio's
cancellation asks of task code. No fairness of requests, faults, crashes, or
of tasks that were not cancelled, which may run for ever. `stream` assumes weak
fairness of the readers and of each stream's coroutine (the
queue's `get` returns when something is in it) and none of clients; `retention`
only that a follower polls again, as its loop does every half second. `agent`
assumes that the event loop runs what is ready, that closing sessions and the
database comes to an end, and that the control plane answers a request; a
server's start need not return, and the task's code need not go on or end. `daemon`
assumes that commands go on and that a daemon gets as far as its PID file;
whatever it does later may hang, and commands still return. `oauth` assumes that
sends, refreshes and exchanges end, each having a timeout, and not that the
browser ever calls back. `tools` assumes that the model answers or fails and a
tool returns or raises. `workspace` assumes that a run that can go on does,
which for a git command means that it ends or times out; a lock that is free is
enough for a waiting task only because the other tasks stop asking (runs are
bounded), which is what polling `flock` gives in practice. `posting` has no
liveness property and no fairness.

### Disagreements found

`two_starts` gives a trace against a sentence of the repository, which
`PROJECT.json` "findings" quotes: `start_daemon` promises to start the daemon "if
not already running", and two that overlap start two, of which the second takes
the first one's socket file away.

The following are reproduced the same way, with configurations kept beside the
modules (for example `tlc -config lost_outcome.cfg MCTaskSupervision`); each
states a sentence of the repository as a property that TLC finds violated:

| Configuration | Module | The repository says | The code does |
|---|---|---|---|
| `escaped_child` | `MCTaskSupervision` | "Cancelling a parent cascades to its children" (`README.md:246`) | a child submitted during the walk (`control_plane.py:197-205`) is not in its snapshot |
| `silent_failure` | `MCTaskSupervision` | "Cascade cancellation when a task fails or is cancelled" (`control_plane.py:227`) | an exit without an event marks the row and calls nobody (`subprocess_manager.py:286-295`) |
| `lost_outcome` | `MCTaskSupervision` | an agent that exits without a terminal event has its task marked failed (`tests/test_subprocess_manager.py:391`) | a command sent before `execute_task` ends the agent (`agent_runtime.py:931-933`); the launch then fails at its write, after the row was marked running and before a reader exists (`subprocess_manager.py:136-187`) |
| `purged_retry` | `MCTaskRetention` | "Cannot purge while tasks are running" (`control_plane.py:761`) | a task retried between its statements loses its row (`persistence.py:595-651`) |
| `follower_tail` | `MCTaskRetention` | "Stream events from a task until it completes" (`cli.py:555`) | it reads events before the status and stops without the last one (`control_plane.py:739-740`, `cli.py:628`) |
| `lost_notification` | `MCAgentRuntime` | a notification wakes up the task that waits for one (`agent_runtime.py:531-532`) | the getter of a wait that timed out takes the next one (`agent_runtime.py:566-571`) |
| `retry_nothing` | `ReviewWorkspace` | a failed review is retried from the last checkpoint (`examples/quality/README.md:161`) | an error ends the graph, and the retry of an ended graph runs nothing (`review.py:283-286`, `1272`, `1564`, `1731`) |
| `lost_baseline` | `MCReviewPosting` | an unreadable baseline "just forces a fresh one. This is always safe." (`agents/pr/memory.py:95`) | a review in which a branch failed replaces it without what that domain had found (`memory.py:107-115`, `review.py:1255-1258`, `1497`, `1320`) |
| `rejected_twice` | `OAuthCalls` | a 401 is refreshed transparently (`oauth.py:213`) | of two calls rejected at once, the second refreshes with a spent token and fails although the process holds tokens that work |

Met on the way, without a configuration: two overlapping retries of one task
start two agents for it; a chain of three tasks lets a grandchild escape without
any operator (the root's walk and the child's own walk race the grandchild's
launch); an agent that survives a daemon crash goes on until its next write; a
cancelled child whose agent has not heard yet is shown cancelled while it runs;
`AgentContext.emit` documents custom event types, but `AgentEvent.type` is a
closed set of names; a stream opened before a silent exit, a cascade or a clear
is never ended, because only the event callback sends a sentinel; an event can
reach a client twice, in the replay and from the queue; the orphan sweep of a
purge keeps a thread that is only recorded for tasks that no longer exist; a
follower of a task that was purged or cleared between two polls never stops; a
parent's cascade rewrites a child that was cleared meanwhile to cancelled. In an
agent: a cancel that arrives while an MCP server starts is taken for that
server's failure, and if the server is optional the task runs on without a
listener, so that a later request waits for ever; a task cancelled in
`wait_for_notification` gets `None`, goes on, and is recorded as failed if it
then returns nothing; an answer longer than a frame may be ends the listener, and its
request never returns; a `complete` whose result cannot be serialised sets the
flag first, so that no outcome is sent at all; a cancel while the checkpointer
starts leaves its connection open; a user command with malformed parameters
fails the task; input that arrives when nobody waits for it is dropped by
`process_commands`.

In the daemon: a `stop` that gave up waiting, or a daemon on its way out, deletes
whatever files there are, also those of a newer daemon; a start while the old
daemon shuts down says that it is running. In OAuth: the refresh itself is sent
without the retrying transport; a reply without a refresh token drops the old one;
an agent reads `tokens.json` once, so a login does not reach the agents that run;
that file is not replaced atomically; a callback from an old browser tab ends the
login that waits for another. In the tool loop: only the first message is kept
when the comment speaks of the leading ones (`llm.py:315-318`); a turn whose
results exceed the window is dropped whole; a tool of `Shell` never raises
`TimeoutError`, so the loop's retry is not for it; `Shell` leaves a command
running when it is cancelled; `grep_files` reports every failure as no matches; a
conversation that ends at the cap or for repetition ends with calls nobody
answered. In the review: the worktree stays when the diff cannot be fetched after
it was added (`examples/quality/README.md:177` promises cleanup in any case); a
cancelled run's git command goes on after the lock was released; a retry after a
cancel resumes branches whose worktree is gone; a crash between the worktree and
the checkpoint makes every retry fail; a clone that was killed stays; a new issue
on a line that has a comment is not posted; a synthesis that cites only a finding
without words raises; two reviews of one pull request lose
one baseline. In the control plane: an agent launched while `kill_all` walks its
snapshot escapes it; a wait for a task that was cleared meanwhile does not end.

## 5. Proofs

`TaskSupervisionProofs` proves, for every value of the constants that satisfies
`SupervisionAssumption`:

* `TypeCorrect`: `Spec => []TypeOK`, from `TypeInv`, which adds that a reader
  about to store an event has one (`StoreHasEvent`).
* `RouteCorrect`: `Spec => []RouteFollowsHandle`. Cleanup removes a route by
  task, whoever it leads to, so the invariant is about what is left: it needs
  that every begun launch has a task and every handle belongs to a begun launch
  (`BegunHasTask`).
* `SupervisionHolds`: `Spec => []Supervised`. It needs `ReaderWaits`: a reader
  whose walk is not over is at "cascade" and nowhere else, so the end of a walk
  cannot pull it out of another step. No assumption on operators is needed:
  retries over a live agent keep the property because the new launch attends
  the row.
* `OutcomeHolds`: `Spec => []OutcomeIsLogged`, from `StoredIsLogged`: the event
  a reader is about to store is already in the history of its task.

* `LifecycleHolds`: `ASSUME Childless, Patient PROVE Spec => ImplementsLifecycle`:
  every step of the detailed system is a step of `TaskLifecycle` or leaves the
  rows and the admitted retries alone. `LifeInv` is what the mapping needs: a task
  has one active run at a time (`OneRun`), a run past its start owns a row that is
  not final but by its own hand (`RowFollows`), and of what an agent sent and the
  daemon has not stored, a terminal event is the last (`LastWord`). `Childless`
  says that no task has a parent (then there is no cascade, which writes a row
  from outside its run) and `Patient` that retries wait for the old reader; they
  are the hypotheses under which the `lifecycle` run checks it. Overlapping
  retries do move rows against the life cycle.

* `CascadeHolds`: `ASSUME TwoGenerations, Orderly PROVE Spec =>
  []CascadeReachesChildren`, for any number of families, launches, retries and
  deaths. `CascadeInv` follows a child's run from the
  moment it is submitted: its row is live, no walk is at it, the route leads to it
  while it works, and once its parent has ended badly it is still on the list of
  the parent's walk (`OnList`). So the walk can neither miss it nor overtake its
  launch. This rests on `FamilyInv` (a walk stays among the children of its task;
  the reader that serves a submit does nothing else until the launch is over, so
  no walk of the parent starts meanwhile), `ProcInv` (the socket of a working
  child takes the cancel) and `WordInv` (after its terminal event a parent asks
  for no more children). `Orderly` is what the `family` run assumes: patient
  retries, no operator's request, no crash, and of the faults only deaths. None of
  the hypotheses can go: with any one of them dropped, or with a third
  generation, TLC finds a child that escapes (`escaped_child` keeps one such run).

Each has one step per action or per group of actions that change the same
variables. `WriteType`, `SendToType` and `CloseType` are
lemmas on the socket operators the actions share.

`AgentRuntimeProofs` proves, for every set of servers and all bounds:

* `TypeCorrect`. It needs `Numbered`, because the notification read next is
  numbered one after the last (the frames on the wire are in order and complete),
  and `WaitsOnEmpty`: a task does not wait while the queue has something.
* `OneOutcomeHolds` and `CancelDecidesHolds`, from `RunInv`: an outcome is on the
  wire only with `completed` set or after the boundary, and a cancellation stops
  the listener, so the flag and `cancelling` agree from then on.
* `NotificationsHold`, from `NoteInv`: what was read is counted (`Counted`), with
  the task, in the queue or taken by an expired wait's getter, and what the
  task has is older than what it will get (`InOrder`). The lemmas on `Rising`
  and `Before` say how these pass through `Append`, `Tail` and `\o`.
* `SessionsHold` and `AnswersHold`, each one step per action.

`OAuthCallsProofs` proves, for any number of processes, calls, tokens, logins and
retries, whether the provider rotates or not:

* `CallsHold`: `Spec => []CallInv`, from `FlowInv`: besides types it says which
  tokens have been issued (`Bounded`) and where a reply can be waiting and what a
  call then holds (`Flow`), for example that a call past its 401 does not
  hold the rejected token, and that a reply granted to it does not either: the
  provider's replies are always new.
* `FileUsableHolds`: `Spec => []FileUsable`. `FileUsable` alone is not inductive:
  a process may overwrite a good token with an older reply. `Apart` says why that
  does no harm: the refresh tokens on their way (to calls or to the login) are
  unspent, are held by no process and no file, and are pairwise distinct, so
  whichever reply is stored last, the file holds one nobody has used.

`ReviewWorkspaceProofs` proves, for any set of tasks and all bounds:

* `WorktreeHolds`: `Spec => []WorktreeIntact`, from `Locked` (a task at a git
  command owns the lock), `Placed` (a task has a place while it runs, and no head
  before `rev-parse`) and `Intact` with `Got` (while nothing has strayed, what a
  task has fetched, parsed, registered and checked out so far is its own).
* `WorkspaceHolds`: `Spec => []WorkspaceInv`, the types and `CleanedUp`, proved
  in one induction with the others: its hard steps are the ends of runs and the
  setup of a later run, which brings the directory back.

`EventStreamProofs` proves, for any number of streams, retries, events and
openings, under `Patient`:

* `StreamsHaveNoGap`: `Spec => []StreamInv`. What makes it inductive is `Complete`
  (once a stream has read the history, every event is seen, in its queue, or with a
  reader that will still look for subscribers or holds their set) and `Sorted` (what
  is queued has all before it seen or queued before it). `InOrder` says that only
  one run has a reader at a time, which is where `Patient` enters: with an
  overlapping retry TLC shows an event of the new run published before an older
  one of the old reader.
* `EndsAreComplete`: `Spec => EndIsComplete`, from `StatusTold`, `EndTold` and
  `HistoryTold`: a sentinel has its terminal event before it in the queue or
  already with the client, and a task seen as finished has it in the history
  read next.

`TaskRetentionProofs` proves, without hypotheses on the environment:

* `TablesHold`: `Spec => []TablesInv`. The same invariant (`TableInv`) is kept
  for what the connection sees and for what is on disk, since any request's commit
  makes one of the other. `ListInv` says how far the purge is with the tasks of
  its lists; `TaskInv` that a task in use has a row that no purge lists.
* `CheckpointsAreKept`: `Spec => LiveKeepsCheckpoints`, from `ThreadInv` (the sweep's
  list has the thread of a listed task if it has checkpoints, and of no other)
  and `Mapped` (a checkpoint on a thread of a task's own is recorded for it).
* `FilesAreLast`: `Spec => FilesGoLast`, from `ListInv`'s last parts: the tasks
  whose files go are among those whose rows went.

`DaemonControlProofs` proves, for any number of commands, daemons and crashes:
`DirectoryHolds` (`DirectoryInv`), `ReachableHolds` (`Reachable`) and `StopHolds`
(`StopStops`), from `ControlInv`: at most one daemon works (one that has cleaned up
may still be on its way out), a daemon past a stage
has the files of that stage (`FilesOf`), and the one a command waits for or is about
to end is the one that lives (`Watched`). The hypothesis is `OneUser`, one command
at a time; without it the code does start two daemons (`two_starts`).

`ReviewPostingProofs` proves, for any findings, domains, lines, answers, reviews and
crashes:

* `CleanHolds`, `VerdictHolds`, `InlineHolds` and `FailedDomainHolds` from
  `PostingInv`: the node goes on only with something reviewed, and with the
  baseline it read, or a note that it could not (`WorkIsGrounded`), the event on its way covers the findings
  (`EventCovers`, by `VerdictIsCovered`, a lemma on the verdict's operators), and
  comments of earlier passes are on lines that this one keeps off (`PassesApart`).
* `ConsolidationHolds`: `ConsolidateCovers`, about one pure function,
  `_validate_sourced_comments`: whatever comments it is given, those it returns are
  on their findings' lines and leave none out, unless it raises.
* `FindingsAreTold`: `Spec => []ReviewInv`, from `ToldInv`: between synthesis and
  review every finding is in a comment that waits, folded into the body, or has
  reached the pull request (`NoneLost`). `ConsolidationHolds` is what brings every
  finding into the comments.

The function folds over sequences of any length. The library's induction theorems
take an operator, which these provers cannot instantiate, but its well-foundedness
of `<` is about sets: `NatMin` (a set of numbers has a least one) gives
`NatSetInduction`, an induction over a set defined for the purpose, and
`FoldExists` a function that satisfies the recursion `FoldLeft` chooses from. With
these, `CitedSteps`, `ClusterSteps` and `SizeSteps` unfold the models' folds one
element at a time, and each of `CitedType`, `ClustersAre` and `SizeOfCons` is a short
induction over the steps.

`ToolLoop` uses the same lemmas, since a prompt's size is a fold, so its theorems are
in the same module, which extends both. From `LoopInv`, for any window, prompts,
results, tools, turns, retries and repeats that `LoopAssumption` allows:

* `PromptsAreWhole`: `LoopSpec => []PromptInv`. `TurnsAnswered` makes it inductive: the
  history is of whole turns (`Whole`), but for a last one of which the first answers
  are there (`OpenTurn`). `TurnBegins`, `TurnGoesOn`, `TurnEnds` say how the loop's
  appends pass through these two; `EndIsWhole`, that an end that begins with a turn of
  the model cuts none in two; `TrimmedIsFit`, that anchor and tail share the budget.
* `SlowCallsOnly`: `LoopSpec => []CalledAgainOnlyWhenSlow`, from `RunsCounted`: of the
  call that runs, all executions but the present one timed out.
* `NoTreadmillHolds`: `LoopSpec => []NoTreadmill`, from `RepeatsCounted`: before the last
  `repeats` executed turns there is one that differs (or none at all), which is what
  breaks any longer run, and from `TurnsCounted`.

Model-checked only: the liveness properties (`RunsAreClosed`, `StreamEnds`,
`FollowerEnds`, `WaitsEnd`, `CommandsReturn`, `CallsReturn`, `LoopEnds`, `RunEnds`), for
no prover here handles fairness.

## 6. Not modelled

The command line, the full-screen interface, prompts and templates are input and
output; what they ask of the daemon is modelled as requests, polls and streams.
Application set-up (configuration, discovery, logging, scaffold) is sequential
start-up code. The website and the examples but `quality` keep no state that
meets another actor. Of the parts that are modelled, these are left out:

* writers that block on a full socket while both sides write
  (`subprocess_manager.py:382`): the models' channels are never full for good;
* the ring of log records and its subscribers (`control_plane.py:356`), which
  drop by design and promise no more;
* the steps of `kill_all`: an orderly shutdown is a crash with agents that end,
  and `DaemonControl` has its place in the daemon's end;
* `wait_for_task` (`agent_runtime.py:499`), a poll of a row that is `Request` in
  `AgentRuntime`;
* the content of reviews: diffs, prompts, the text of comments, Jira and the
  command line of the `quality` example.

`PROJECT.json` says for each component what of it is modelled.
