--------------------------- MODULE TaskSupervision ---------------------------
(***************************************************************************)
(* How the control plane supervises task subprocesses: submitting and      *)
(* retrying a task, launching its agent over a socketpair, reading the     *)
(* agent's events into the task table, cancelling a task and its children, *)
(* reaping an agent that exits, and a crash and restart of the daemon.     *)
(*                                                                         *)
(* The control plane is one asyncio loop.  A step below is the code from   *)
(* one await on the store, the socket or the child process to the next, so *)
(* steps of different coroutines interleave as they do at run time.  A     *)
(* member of Agents stands for one launch_agent call: its coroutine first  *)
(* launches the subprocess and then (pc "read" and later) is the           *)
(* _read_events task of that subprocess.                                   *)
(***************************************************************************)
EXTENDS Sequences, FiniteSets, Naturals

CONSTANTS
    Tasks,      \* task ids; each names at most one row of the task table
    Agents,     \* agent ids; every launch takes a fresh one
    Ops,        \* operator requests (cancel, notify); each is made once
    None,       \* no task, no agent
    Parent,     \* parent_task_id each task is submitted with, or None
    Backlog,    \* frames the agent's side of the socketpair can hold
    Faulty,     \* which faults of the environment happen
    Asking,     \* do tasks interrupt themselves to wait for input?
    Patient,    \* does the operator wait for the old agent before a retry?
    MaxCrashes  \* bound on daemon crashes

ASSUME SupervisionAssumption ==
    /\ None \notin Tasks \cup Agents
    /\ Agents \cap Ops = {}
    /\ Parent \in [Tasks -> Tasks \cup {None}]
    /\ Backlog \in Nat \ {0}
    /\ Faulty \subseteq {"spawn", "die", "huge", "store"}
    /\ Asking \in BOOLEAN
    /\ Patient \in BOOLEAN
    /\ MaxCrashes \in Nat

VARIABLES
    status,   \* tasks.status
    logged,   \* terminal event types in the events table, per task
    handles,  \* SubprocessManager._handles
    route,    \* SubprocessManager._task_to_agent
    task,     \* handle.task_id of each launch
    caller,   \* the agent whose submit_task request made the launch, or None
    pc,       \* where the launch coroutine, then the reader, of an agent is
    cur,      \* the last event the reader took up
    proc,     \* the subprocess
    said,     \* how far its lifecycle events have got
    heard,    \* ctx._cancelled
    inbox,    \* frames on the way to the subprocess
    outbox,   \* frames on the way from the subprocess
    conn,     \* the control plane's end of the socketpair
    cstep,    \* next step of a _cancel_children walk
    at,       \* the child that walk is at
    stack,    \* children it has still to visit, innermost call first
    up,       \* is the daemon running?
    crashes   \* how often it crashed

storeVars  == <<status, logged>>
mgrVars    == <<handles, route>>
launchVars == <<task, caller>>
agentVars  == <<proc, said, heard, outbox>>
wireVars   == <<inbox, conn>>
walkVars   == <<cstep, at, stack>>
hostVars   == <<up, crashes>>
vars == <<status, logged, handles, route, task, caller, pc, cur, proc, said,
          heard, inbox, outbox, conn, cstep, at, stack, up, crashes>>

Live == {"pending", "running", "interrupted"}
Terminal == {"completed", "failed", "cancelled"}
Statuses == {"absent", "cleared"} \cup Live \cup Terminal

Reports == {"started", "interrupted", "resumed"} \cup Terminal
Frames == Reports \cup {"submit", "huge"}          \* agent -> control plane
Commands == {"execute", "cancel", "notify", "response"} \* and back

LaunchSteps == {"spawn", "open", "mark", "send"}
ReadSteps == {"read", "store", "cascade", "serving", "eof", "fail"}
ExitSteps == {"clean", "unwind"}
Finished == {"done", "aborted", "torn", "gone"}
Voices == {"nothing", "started", "waiting", "asking", "ended"}
Places == {"free", "reset"} \cup LaunchSteps \cup ReadSteps
          \cup ExitSteps \cup Finished

Walkers == Agents \cup Ops   \* coroutines that run _cancel_children
WalkSteps == {"idle", "expand", "pick", "check", "write", "log", "over"}

TypeOK ==
    /\ status \in [Tasks -> Statuses]
    /\ logged \in [Tasks -> SUBSET Terminal]
    /\ handles \subseteq Agents
    /\ route \in [Tasks -> Agents \cup {None}]
    /\ task \in [Agents -> Tasks \cup {None}]
    /\ caller \in [Agents -> Agents \cup {None}]
    /\ pc \in [Agents -> Places]
    /\ cur \in [Agents -> Reports \cup {"none"}]
    /\ proc \in [Agents -> {"none", "boot", "run", "exited"}]
    /\ said \in [Agents -> Voices]
    /\ heard \in [Agents -> BOOLEAN]
    /\ inbox \in [Agents -> Seq(Commands)]
    /\ outbox \in [Agents -> Seq(Frames)]
    /\ conn \in [Agents -> {"open", "unread", "lost"}]
    /\ cstep \in [Walkers -> WalkSteps]
    /\ at \in [Walkers -> Tasks \cup {None}]
    /\ stack \in [Walkers -> Seq(SUBSET Tasks)]
    /\ up \in BOOLEAN
    /\ crashes \in 0..MaxCrashes

Init ==
    /\ status = [t \in Tasks |-> "absent"]
    /\ logged = [t \in Tasks |-> {}]
    /\ handles = {}
    /\ route = [t \in Tasks |-> None]
    /\ task = [a \in Agents |-> None]
    /\ caller = [a \in Agents |-> None]
    /\ pc = [a \in Agents |-> "free"]
    /\ cur = [a \in Agents |-> "none"]
    /\ proc = [a \in Agents |-> "none"]
    /\ said = [a \in Agents |-> "nothing"]
    /\ heard = [a \in Agents |-> FALSE]
    /\ inbox = [a \in Agents |-> << >>]
    /\ outbox = [a \in Agents |-> << >>]
    /\ conn = [a \in Agents |-> "open"]
    /\ cstep = [w \in Walkers |-> "idle"]
    /\ at = [w \in Walkers |-> None]
    /\ stack = [w \in Walkers |-> << >>]
    /\ up = TRUE
    /\ crashes = 0

-----------------------------------------------------------------------------
(* The socketpair.                                                         *)

\* The control plane writes frame m to agent a.  Writing to a peer that has
\* closed its end makes the transport drop the connection and everything it
\* had buffered for the reader.
Write(a, m) ==
    IF proc[a] = "exited" \/ conn[a] = "lost"
    THEN conn' = [conn EXCEPT ![a] = "lost"] /\ UNCHANGED inbox
    ELSE inbox' = [inbox EXCEPT ![a] = Append(@, m)] /\ UNCHANGED conn

\* send_cancel, send_user_command, send_notification: to the agent the two
\* tables route task t to, or to nobody.
SendTo(t, m) ==
    IF route[t] \in handles THEN Write(route[t], m) ELSE UNCHANGED wireVars

\* Subprocess a closes its end.  If it leaves frames unread the kernel may
\* report a reset to the control plane, ahead of or behind a's own frames.
Close(a) ==
    /\ proc' = [proc EXCEPT ![a] = "exited"]
    /\ inbox' = [inbox EXCEPT ![a] = << >>]
    /\ \/ UNCHANGED conn
       \/ /\ conn[a] = "open" /\ inbox[a] # << >>
          /\ conn' = [conn EXCEPT ![a] = "unread"]

-----------------------------------------------------------------------------
(* Requests that start a launch.                                           *)

SetStatus(t, s) == status' = [status EXCEPT ![t] = s]
Goto(a, p) == pc' = [pc EXCEPT ![a] = p]

\* _submit_task up to launch_agent, as agent b, for a new row t.
Create(b, t, by) ==
    /\ pc[b] = "free" /\ status[t] = "absent"
    /\ SetStatus(t, "pending")
    /\ task' = [task EXCEPT ![b] = t]
    /\ caller' = [caller EXCEPT ![b] = by]

\* A submit request from the CLI.
Submit(b, t) ==
    /\ up /\ Parent[t] = None
    /\ Create(b, t, None)
    /\ Goto(b, "spawn")
    /\ UNCHANGED <<logged, mgrVars, cur, agentVars, wireVars, walkVars, hostVars>>

\* What a patient operator makes sure of before asking for a retry.
Settled(t) == \A b \in Agents : task[b] = t =>
                 pc[b] \in Finished /\ proc[b] \in {"none", "exited"}

\* Mutant of RetryCheck: the status is not looked at.
RetryCheckAny(b, t) ==
    /\ up /\ pc[b] = "free"
    /\ status[t] # "absent"
    /\ Patient => Settled(t)
    /\ task' = [task EXCEPT ![b] = t]
    /\ Goto(b, "reset")
    /\ UNCHANGED <<storeVars, mgrVars, caller, cur, agentVars, wireVars,
                   walkVars, hostVars>>

\* _retry_from_checkpoint reads the row and accepts finished tasks only.
RetryCheck(b, t) ==
    /\ up /\ pc[b] = "free"
    /\ status[t] \in Terminal
    /\ Patient => Settled(t)
    /\ task' = [task EXCEPT ![b] = t]
    /\ Goto(b, "reset")
    /\ UNCHANGED <<storeVars, mgrVars, caller, cur, agentVars, wireVars,
                   walkVars, hostVars>>

\* It resets the row, whatever the row has become since, and launches.
RetryReset(b) ==
    /\ pc[b] = "reset"
    /\ SetStatus(task[b], "pending")
    /\ Goto(b, "spawn")
    /\ UNCHANGED <<logged, mgrVars, launchVars, cur, agentVars, wireVars,
                   walkVars, hostVars>>

-----------------------------------------------------------------------------
(* launch_agent.                                                           *)

\* create_subprocess_exec: the subprocess exists, nobody knows it yet.
Spawn(a) ==
    /\ pc[a] = "spawn"
    /\ proc' = [proc EXCEPT ![a] = "boot"]
    /\ Goto(a, "open")
    /\ UNCHANGED <<storeVars, mgrVars, launchVars, cur, said, heard, outbox,
                   wireVars, walkVars, hostVars>>

\* open_connection returns; the handle and the route are entered.
Register(a) ==
    /\ pc[a] = "open"
    /\ handles' = handles \cup {a}
    /\ route' = [route EXCEPT ![task[a]] = a]
    /\ Goto(a, "mark")
    /\ UNCHANGED <<storeVars, launchVars, cur, agentVars, wireVars, walkVars,
                   hostVars>>

\* create_subprocess_exec or open_connection raises out of launch_agent, and
\* the control plane's end of the socketpair is dropped with it.
SpawnFail(a) ==
    /\ pc[a] \in {"spawn", "open"} /\ "spawn" \in Faulty
    /\ conn' = [conn EXCEPT ![a] = "lost"]
    /\ Goto(a, "aborted")
    /\ UNCHANGED <<storeVars, mgrVars, launchVars, cur, agentVars, inbox,
                   walkVars, hostVars>>

\* upsert_agent, which writes a row nothing here reads, then update_task.
MarkRunning(a) ==
    /\ pc[a] = "mark"
    /\ SetStatus(task[a], "running")
    /\ Goto(a, "send")
    /\ UNCHANGED <<logged, mgrVars, launchVars, cur, agentVars, wireVars,
                   walkVars, hostVars>>

\* The execute_task command goes out and the reader starts; if the write
\* fails launch_agent raises, and nothing takes the handle back.
SendExecute(a) ==
    /\ pc[a] = "send"
    /\ Write(a, "execute")
    /\ Goto(a, IF proc[a] = "exited" \/ conn[a] = "lost" THEN "aborted"
                                                        ELSE "read")
    /\ UNCHANGED <<storeVars, mgrVars, launchVars, cur, agentVars,
                   walkVars, hostVars>>

Launch(a) == Spawn(a) \/ Register(a) \/ SpawnFail(a) \/ MarkRunning(a)
             \/ SendExecute(a)

-----------------------------------------------------------------------------
(* The subprocess: agent_main, AgentContext.emit, _listen_for_commands.    *)

\* The first frame decides: anything but execute_task, or a closed socket,
\* ends the subprocess without a word.
Boot(a) ==
    /\ proc[a] = "boot"
    /\ \/ /\ inbox[a] # << >> /\ Head(inbox[a]) = "execute"
          /\ proc' = [proc EXCEPT ![a] = "run"]
          /\ inbox' = [inbox EXCEPT ![a] = Tail(@)]
          /\ UNCHANGED conn
       \/ /\ inbox[a] # << >> /\ Head(inbox[a]) # "execute"
          /\ Close(a)
       \/ conn[a] = "lost" /\ Close(a)
    /\ UNCHANGED <<storeVars, mgrVars, launchVars, pc, cur, said, heard, outbox,
                   walkVars, hostVars>>

\* What the task may send next; said afterwards.
Says(a, e, s) ==
    \/ e = "started" /\ said[a] = "nothing" /\ s = "started"
    \/ e = "interrupted" /\ Asking /\ said[a] = "started" /\ s = "waiting"
    \/ e = "resumed" /\ said[a] = "waiting" /\ s = "started"
    \/ e = "submit" /\ said[a] = "started" /\ s = "asking"
       /\ \E c \in Tasks : Parent[c] = task[a]
    \/ e = "huge" /\ "huge" \in Faulty /\ said[a] = "started" /\ s = "started"
    \/ e = "completed" /\ said[a] \in {"started", "waiting"} /\ s = "ended"
    \/ e = "failed" /\ said[a] # "ended" /\ s = "ended"
    \/ e = "cancelled" /\ heard[a] /\ said[a] # "ended" /\ s = "ended"

\* emit, and _send_request for a submit: a blocking write.
Emit(a) ==
    /\ proc[a] = "run" /\ conn[a] # "lost"
    /\ Len(outbox[a]) < Backlog
    /\ \E e \in Frames, s \in Voices :
          /\ Says(a, e, s)
          /\ said' = [said EXCEPT ![a] = s]
          /\ outbox' = [outbox EXCEPT ![a] = Append(@, e)]
    /\ UNCHANGED <<storeVars, mgrVars, launchVars, pc, cur, proc, heard, wireVars,
                   walkVars, hostVars>>

\* The listener takes one frame; after a cancel it stops listening, and a
\* response lets a submit_task call go on.
Hear(a) ==
    /\ proc[a] = "run" /\ ~heard[a] /\ inbox[a] # << >>
    /\ said' = [said EXCEPT ![a] =
                  IF @ = "asking" /\ Head(inbox[a]) = "response" THEN "started" ELSE @]
    /\ heard' = [heard EXCEPT ![a] = Head(inbox[a]) = "cancel"]
    /\ inbox' = [inbox EXCEPT ![a] = Tail(@)]
    /\ UNCHANGED <<storeVars, mgrVars, launchVars, pc, cur, proc, outbox, conn,
                   walkVars, hostVars>>

\* agent_main returns after its terminal event.
Leave(a) ==
    /\ proc[a] = "run" /\ said[a] = "ended"
    /\ Close(a)
    /\ UNCHANGED <<storeVars, mgrVars, launchVars, pc, cur, said, heard, outbox,
                   walkVars, hostVars>>

\* It is killed, or run() returns None without complete() or fail(), or its
\* emit fails because the control plane's end is gone.
Die(a) ==
    /\ "die" \in Faulty \/ conn[a] = "lost"
    /\ proc[a] \in {"boot", "run"}
    /\ Close(a)
    /\ UNCHANGED <<storeVars, mgrVars, launchVars, pc, cur, said, heard, outbox,
                   walkVars, hostVars>>

-----------------------------------------------------------------------------
(* _read_events and _handle_event.                                         *)

\* One event is taken off the stream and added to the events table.
ReadEvent(a) ==
    /\ pc[a] = "read" /\ conn[a] # "lost"
    /\ outbox[a] # << >> /\ Head(outbox[a]) \in Reports
    /\ LET e == Head(outbox[a]) IN
          /\ cur' = [cur EXCEPT ![a] = e]
          /\ logged' = [logged EXCEPT ![task[a]] = @ \cup ({e} \cap Terminal)]
    /\ outbox' = [outbox EXCEPT ![a] = Tail(@)]
    /\ Goto(a, "store")
    /\ UNCHANGED <<status, mgrVars, launchVars, proc, said, heard, wireVars,
                   walkVars, hostVars>>

\* Mutant of StatusOf: the event name is stored as it is.
StatusOfRaw(e) == e

\* The status an event stands for.
StatusOf(e) == IF e \in {"started", "resumed"} THEN "running" ELSE e

\* update_task, whatever the row holds; then the callback, which cascades
\* when a task fails or is cancelled.
StoreEvent(a) ==
    /\ pc[a] = "store"
    /\ SetStatus(task[a], StatusOf(cur[a]))
    /\ IF cur[a] \in {"failed", "cancelled"}
       THEN /\ Goto(a, "cascade")
            /\ cstep' = [cstep EXCEPT ![a] = "expand"]
            /\ at' = [at EXCEPT ![a] = task[a]]
       ELSE Goto(a, "read") /\ UNCHANGED <<cstep, at>>
    /\ UNCHANGED <<logged, mgrVars, launchVars, cur, agentVars, wireVars, stack,
                   hostVars>>

\* A submit request is served inline: the reader runs _submit_task for a
\* child, as agent b, and reads nothing else until it returns.
ServeSubmit(a, b) ==
    /\ pc[a] = "read" /\ conn[a] # "lost"
    /\ outbox[a] # << >> /\ Head(outbox[a]) = "submit"
    /\ outbox' = [outbox EXCEPT ![a] = Tail(@)]
    /\ \E c \in Tasks : Parent[c] = task[a] /\ Create(b, c, a)
    /\ pc' = [pc EXCEPT ![a] = "serving", ![b] = "spawn"]
    /\ UNCHANGED <<logged, mgrVars, cur, proc, said, heard, wireVars, walkVars,
                   hostVars>>

\* Mutant of ServeDone: the request returns when the child has finished.
ServeDoneAfterChild(a) ==
    /\ pc[a] = "serving"
    /\ \A b \in Agents : caller[b] = a => pc[b] \in Finished
    /\ Write(a, "response")
    /\ Goto(a, "read")
    /\ UNCHANGED <<storeVars, mgrVars, launchVars, cur, agentVars, walkVars,
                   hostVars>>

\* The response goes back, be it the new task id or the launch's error.
ServeDone(a) ==
    /\ pc[a] = "serving"
    /\ \A b \in Agents : caller[b] = a => pc[b] \notin LaunchSteps
    /\ Write(a, "response")
    /\ Goto(a, "read")
    /\ UNCHANGED <<storeVars, mgrVars, launchVars, cur, agentVars, walkVars,
                   hostVars>>

\* A submit request that does not validate is only answered.
RejectSubmit(a) ==
    /\ pc[a] = "read" /\ conn[a] # "lost"
    /\ outbox[a] # << >> /\ Head(outbox[a]) = "submit"
    /\ outbox' = [outbox EXCEPT ![a] = Tail(@)]
    /\ Write(a, "response")
    /\ UNCHANGED <<storeVars, mgrVars, launchVars, pc, cur, proc, said, heard,
                   walkVars, hostVars>>

\* End of stream, and the process is waited for.
ReadEof(a) ==
    /\ pc[a] = "read" /\ conn[a] = "open"
    /\ outbox[a] = << >> /\ proc[a] = "exited"
    /\ Goto(a, "eof")
    /\ UNCHANGED <<storeVars, mgrVars, launchVars, cur, agentVars, wireVars,
                   walkVars, hostVars>>

\* Reading raises, on a reset or on a frame over MAX_MESSAGE_SIZE; the outer
\* handler goes straight to the cleanup.
ReadRaises(a) ==
    /\ pc[a] = "read"
    /\ \/ conn[a] # "open"
       \/ outbox[a] # << >> /\ Head(outbox[a]) = "huge"
    /\ Goto(a, "unwind")
    /\ UNCHANGED <<storeVars, mgrVars, launchVars, cur, agentVars, wireVars,
                   walkVars, hostVars>>

\* Mutant of FinalCheck: an interrupted task is taken for a finished one.
FinalCheckRunningOnly(a) ==
    /\ pc[a] = "eof"
    /\ Goto(a, IF status[task[a]] = "running" THEN "fail" ELSE "clean")
    /\ UNCHANGED <<storeVars, mgrVars, launchVars, cur, agentVars, wireVars,
                   walkVars, hostVars>>

\* get_task after the exit: did the agent leave the task running?
FinalCheck(a) ==
    /\ pc[a] = "eof"
    /\ Goto(a, IF status[task[a]] \in {"running", "interrupted"} THEN "fail"
                                                                 ELSE "clean")
    /\ UNCHANGED <<storeVars, mgrVars, launchVars, cur, agentVars, wireVars,
                   walkVars, hostVars>>

MarkFailed(a) ==
    /\ pc[a] = "fail"
    /\ SetStatus(task[a], "failed")
    /\ Goto(a, "clean")
    /\ UNCHANGED <<logged, mgrVars, launchVars, cur, agentVars, wireVars,
                   walkVars, hostVars>>

\* Mutant of Cleanup: only the handle is removed.
CleanupKeepsRoute(a) ==
    /\ pc[a] \in ExitSteps
    /\ handles' = handles \ {a}
    /\ conn' = [conn EXCEPT ![a] = "lost"]
    /\ Goto(a, IF pc[a] = "clean" THEN "done" ELSE "torn")
    /\ UNCHANGED <<storeVars, route, launchVars, cur, agentVars, inbox, walkVars,
                   hostVars>>

\* _cleanup_handle: the route goes by task, whichever agent it leads to.
Cleanup(a) ==
    /\ pc[a] \in ExitSteps
    /\ handles' = handles \ {a}
    /\ route' = [route EXCEPT ![task[a]] = None]
    /\ conn' = [conn EXCEPT ![a] = "lost"]
    /\ Goto(a, IF pc[a] = "clean" THEN "done" ELSE "torn")
    /\ UNCHANGED <<storeVars, launchVars, cur, agentVars, inbox, walkVars,
                   hostVars>>

Read(a) == \/ ReadEvent(a) \/ StoreEvent(a) \/ ReadEof(a) \/ ReadRaises(a)
           \/ FinalCheck(a) \/ MarkFailed(a) \/ Cleanup(a)
           \/ ServeDone(a) \/ RejectSubmit(a)
           \/ \E b \in Agents : ServeSubmit(a, b)

-----------------------------------------------------------------------------
(* Cancelling: _cancel_task and the recursive _cancel_children.            *)

\* An operator cancels task t: its agent first, then its children.
Cancel(o, t) ==
    /\ up /\ cstep[o] = "idle" /\ status[t] # "absent"
    /\ SendTo(t, "cancel")
    /\ cstep' = [cstep EXCEPT ![o] = "expand"]
    /\ at' = [at EXCEPT ![o] = t]
    /\ UNCHANGED <<storeVars, mgrVars, launchVars, pc, cur, agentVars, stack,
                   hostVars>>

\* An operator, or another task, sends t a command or a notification.
Notify(o, t) ==
    /\ up /\ cstep[o] = "idle" /\ status[t] # "absent"
    /\ SendTo(t, "notify")
    /\ cstep' = [cstep EXCEPT ![o] = "over"]
    /\ UNCHANGED <<storeVars, mgrVars, launchVars, pc, cur, agentVars, at, stack,
                   hostVars>>

\* get_child_tasks: the children to visit are those not terminal by now.
Expand(w) ==
    /\ cstep[w] = "expand"
    /\ stack' = [stack EXCEPT ![w] =
          << {c \in Tasks : /\ Parent[c] = at[w]
                            /\ status[c] \notin Terminal \cup {"absent"}} >> \o @]
    /\ cstep' = [cstep EXCEPT ![w] = "pick"]
    /\ UNCHANGED <<storeVars, mgrVars, launchVars, pc, cur, agentVars, wireVars,
                   at, hostVars>>

\* Mutant of Pick: the row alone is updated, the agent is not told.
PickWithoutCancel(w) ==
    /\ cstep[w] = "pick" /\ stack[w] # << >>
    /\ \E c \in Head(stack[w]) :
          /\ at' = [at EXCEPT ![w] = c]
          /\ stack' = [stack EXCEPT ![w] = << Head(@) \ {c} >> \o Tail(@)]
    /\ cstep' = [cstep EXCEPT ![w] = "check"]
    /\ UNCHANGED <<storeVars, mgrVars, launchVars, pc, cur, agentVars, wireVars,
                   hostVars>>

\* The next child: a cancel command to its agent, if it has one.
Pick(w) ==
    /\ cstep[w] = "pick" /\ stack[w] # << >>
    /\ \E c \in Head(stack[w]) :
          /\ SendTo(c, "cancel")
          /\ at' = [at EXCEPT ![w] = c]
          /\ stack' = [stack EXCEPT ![w] = << Head(@) \ {c} >> \o Tail(@)]
    /\ cstep' = [cstep EXCEPT ![w] = "check"]
    /\ UNCHANGED <<storeVars, mgrVars, launchVars, pc, cur, agentVars, hostVars>>

\* No child left at this level: return to the level above.
Pop(w) ==
    /\ cstep[w] = "pick" /\ stack[w] # << >> /\ Head(stack[w]) = {}
    /\ stack' = [stack EXCEPT ![w] = Tail(@)]
    /\ IF Len(stack[w]) = 1
       THEN /\ cstep' = [cstep EXCEPT ![w] = "over"]
            /\ IF w \in Agents THEN Goto(w, "read") ELSE UNCHANGED pc
       ELSE UNCHANGED <<cstep, pc>>
    /\ UNCHANGED <<storeVars, mgrVars, launchVars, cur, agentVars, wireVars, at,
                   hostVars>>

\* The child's row is read again ...
Recheck(w) ==
    /\ cstep[w] = "check"
    /\ cstep' = [cstep EXCEPT ![w] =
                   IF status[at[w]] \in Terminal THEN "expand" ELSE "write"]
    /\ UNCHANGED <<storeVars, mgrVars, launchVars, pc, cur, agentVars, wireVars,
                   at, stack, hostVars>>

\* ... and, if it was not terminal then, overwritten now.
MarkCancelled(w) ==
    /\ cstep[w] = "write"
    /\ SetStatus(at[w], "cancelled")
    /\ cstep' = [cstep EXCEPT ![w] = "log"]
    /\ UNCHANGED <<logged, mgrVars, launchVars, pc, cur, agentVars, wireVars, at,
                   stack, hostVars>>

\* Mutant of LogCancelled: the child's event is not written.
LogCancelledNot(w) ==
    /\ cstep[w] = "log"
    /\ cstep' = [cstep EXCEPT ![w] = "expand"]
    /\ UNCHANGED <<storeVars, mgrVars, launchVars, pc, cur, agentVars, wireVars,
                   at, stack, hostVars>>

LogCancelled(w) ==
    /\ cstep[w] = "log"
    /\ logged' = [logged EXCEPT ![at[w]] = @ \cup {"cancelled"}]
    /\ cstep' = [cstep EXCEPT ![w] = "expand"]
    /\ UNCHANGED <<status, mgrVars, launchVars, pc, cur, agentVars, wireVars, at,
                   stack, hostVars>>

Walk(w) == \/ Expand(w) \/ Pick(w) \/ Pop(w)
           \/ Recheck(w) \/ MarkCancelled(w) \/ LogCancelled(w)

-----------------------------------------------------------------------------
(* Statements of the store that raise.  The row is as it was; how far the   *)
(* exception goes depends on where the statement stands.                   *)

\* The reset of a retry and launch_agent have no handler: the request fails.
LaunchRaises(a) ==
    /\ pc[a] \in {"reset", "mark"}
    /\ Goto(a, "aborted")
    /\ UNCHANGED outbox

\* _read_events logs what an event raises and goes on with the next frame:
\* add_event (or model_validate) failed, or update_task did.
EventRaises(a) ==
    \/ /\ pc[a] = "read" /\ conn[a] # "lost"
       /\ outbox[a] # << >> /\ Head(outbox[a]) \in Reports
       /\ outbox' = [outbox EXCEPT ![a] = Tail(@)]
       /\ UNCHANGED pc
    \/ /\ pc[a] = "store"
       /\ Goto(a, "read")
       /\ UNCHANGED outbox

\* After the end of the stream the outer handler goes to the cleanup.
ExitRaises(a) ==
    /\ pc[a] \in {"eof", "fail"}
    /\ Goto(a, "unwind")
    /\ UNCHANGED outbox

StoreRaises(a) ==
    /\ "store" \in Faulty
    /\ LaunchRaises(a) \/ EventRaises(a) \/ ExitRaises(a)
    /\ UNCHANGED <<storeVars, mgrVars, launchVars, cur, proc, said, heard,
                   wireVars, walkVars, hostVars>>

\* _cancel_children unwinds through all its levels, to the request or to the
\* reader's handler for one event.
WalkRaises(w) ==
    /\ "store" \in Faulty
    /\ cstep[w] \in {"expand", "check", "write", "log"}
    /\ cstep' = [cstep EXCEPT ![w] = "over"]
    /\ stack' = [stack EXCEPT ![w] = << >>]
    /\ IF w \in Agents THEN Goto(w, "read") ELSE UNCHANGED pc
    /\ UNCHANGED <<storeVars, mgrVars, launchVars, cur, agentVars, wireVars, at,
                   hostVars>>

-----------------------------------------------------------------------------
(* Clearing, and the daemon's crash and restart.                           *)

\* clear_terminal_tasks: one statement over all rows.
Clear ==
    /\ up /\ \E t \in Tasks : status[t] \in Terminal
    /\ status' = [t \in Tasks |-> IF status[t] \in Terminal THEN "cleared"
                                                            ELSE status[t]]
    /\ UNCHANGED <<logged, mgrVars, launchVars, pc, cur, agentVars, wireVars,
                   walkVars, hostVars>>

\* The daemon dies with all it held in memory.  Its subprocesses live on.
Crash ==
    /\ up /\ crashes < MaxCrashes
    /\ up' = FALSE
    /\ crashes' = crashes + 1
    /\ handles' = {}
    /\ route' = [t \in Tasks |-> None]
    /\ pc' = [a \in Agents |-> IF pc[a] = "free" THEN "free" ELSE "gone"]
    /\ conn' = [a \in Agents |-> IF pc[a] = "free" THEN conn[a] ELSE "lost"]
    /\ cstep' = [w \in Walkers |-> IF cstep[w] = "idle" THEN "idle" ELSE "over"]
    /\ stack' = [w \in Walkers |-> << >>]
    /\ UNCHANGED <<storeVars, launchVars, cur, agentVars, inbox, at>>

\* start: recover_orphaned_tasks fails every live row before any request is
\* served, so that its separate commits show as one step.
Restart ==
    /\ ~up
    /\ up' = TRUE
    /\ status' = [t \in Tasks |-> IF status[t] \in Live THEN "failed"
                                                        ELSE status[t]]
    /\ logged' = [t \in Tasks |-> IF status[t] \in Live
                                  THEN logged[t] \cup {"failed"} ELSE logged[t]]
    /\ UNCHANGED <<mgrVars, launchVars, pc, cur, agentVars, wireVars, walkVars,
                   crashes>>

-----------------------------------------------------------------------------
Request == \/ \E a \in Agents, t \in Tasks : Submit(a, t) \/ RetryCheck(a, t)
           \/ \E o \in Ops, t \in Tasks : Cancel(o, t) \/ Notify(o, t)
           \/ Clear

Subprocess(a) == Boot(a) \/ Emit(a) \/ Hear(a) \/ Leave(a) \/ Die(a)

Next == \/ Request
        \/ \E a \in Agents : RetryReset(a) \/ Launch(a) \/ Read(a) \/ Subprocess(a)
                              \/ StoreRaises(a)
        \/ \E w \in Walkers : Walk(w) \/ WalkRaises(w)
        \/ Crash \/ Restart

Spec == Init /\ [][Next]_vars
-----------------------------------------------------------------------------
(* Fairness.  The event loop runs every ready coroutine and every process   *)
(* gets the processor; that a task ends once it is cancelled is what        *)
(* asyncio asks of task code.  Nobody has to make a request, to fail, or to *)
(* start the daemon again, and a task that is not cancelled may run on.     *)

\* A cancelled task ends, with one of the terminal events.
Quit(a) == heard[a] /\ Emit(a) /\ said'[a] = "ended"

Fairness ==
    /\ \A a \in Agents :
          /\ WF_vars(RetryReset(a)) /\ WF_vars(Launch(a)) /\ WF_vars(Read(a))
          /\ WF_vars(Boot(a)) /\ WF_vars(Hear(a)) /\ WF_vars(Quit(a))
          /\ WF_vars(Leave(a))
    /\ \A w \in Walkers : WF_vars(Walk(w))

FairSpec == Spec /\ Fairness

-----------------------------------------------------------------------------
(* What supervision is to achieve.                                         *)

\* A pending row has its launch under way, and a running or interrupted row
\* has a launch or a reader that has not made its final check: nothing is
\* left live with nobody to finish it, except where launch_agent raised or
\* reading raised ("aborted", "torn"), which the code does not repair.
Attends(a) == pc[a] \in LaunchSteps \cup ReadSteps \cup {"aborted", "unwind", "torn"}
Supervised ==
    up => \A t \in Tasks :
            /\ status[t] = "pending" =>
                 \E a \in Agents :
                    /\ task[a] = t
                    /\ pc[a] \in {"spawn", "open", "mark", "aborted"}
            /\ status[t] \in {"running", "interrupted"} =>
                 \E a \in Agents : task[a] = t /\ Attends(a)

\* The two tables of the manager agree: a task is only ever routed to an
\* agent that has a handle, and that was launched for this very task.
RouteFollowsHandle ==
    \A t \in Tasks : route[t] # None =>
        /\ route[t] \in handles
        /\ task[route[t]] = t

\* The history explains the status: a task shown completed has its
\* task.completed event, and one shown cancelled has its task.cancelled
\* event or a walk about to add it, unless the daemon died or the store
\* failed in between.
OutcomeIsLogged ==
    \A t \in Tasks :
        /\ status[t] = "completed" => "completed" \in logged[t]
        /\ status[t] = "cancelled" /\ crashes = 0 /\ "store" \notin Faulty =>
             \/ "cancelled" \in logged[t]
             \/ \E w \in Walkers : cstep[w] = "log" /\ at[w] = t

\* The reader of a has been through the cascade for a's bad end.
Cascaded(a) == /\ cur[a] \in {"failed", "cancelled"}
               /\ pc[a] \in {"read", "eof", "fail"} \cup ExitSteps \cup Finished

\* Agent b runs and has not been told to stop.
Unaware(b) == /\ proc[b] \in {"boot", "run"} /\ said[b] # "ended" /\ ~heard[b]
              /\ \A i \in 1..Len(inbox[b]) : inbox[b][i] # "cancel"

\* When the failure or cancellation of an agent has been cascaded, none of
\* the children it submitted still works unaware of it.
CascadeReachesChildren ==
    up => \A a, b \in Agents : caller[b] = a /\ Cascaded(a) => ~Unaware(b)

\* The task table only moves as TaskLifecycle says: no late answer of an
\* earlier run, no second reader and no restart ever disturbs a row, as long
\* as tasks have no children and retries are not issued over a live agent.
LC == INSTANCE TaskLifecycle
         WITH life <- status,
              admitted <- {t \in Tasks : \E a \in Agents :
                                            pc[a] = "reset" /\ task[a] = t}
ImplementsLifecycle == LC!Lifecycle

\* The handle of a subprocess that has exited goes away, unless its launch
\* raised: whatever the reader is at, a cascade or a child's launch, ends.
ExitedIsReaped ==
    \A a \in Agents : a \in handles /\ proc[a] = "exited"
                         ~> a \notin handles \/ pc[a] = "aborted"

\* A cancel that reached the task brings its run to an end in the manager's
\* books too.
CancelEndsRun ==
    \A a \in Agents : heard[a] ~> pc[a] \in Finished

\* The books are closed on every run: on one that exited, on one cancelled.
RunsAreClosed == ExitedIsReaped /\ CancelEndsRun

-----------------------------------------------------------------------------
(* Expectations the sources state and the code does not meet.              *)

\* control_plane.py, _on_agent_event: a task that fails has its children
\* cancelled.  Once every agent of a failed parent has been dealt with and no
\* walk is under way, no child it submitted works on unaware.
FailureCascades ==
    \A a, b \in Agents :
       caller[b] = a /\ status[task[a]] = "failed" /\ pc[a] = "done"
          => ~Unaware(b)

\* test_subprocess_manager.py, test_exit_while_running_marks_failed: a task
\* whose agent has exited is not left running.
ExitIsRecorded ==
    \A t \in Tasks :
       up /\ (\E a \in Agents : task[a] = t)
          /\ (\A a \in Agents : task[a] = t =>
                 pc[a] \in Finished /\ proc[a] = "exited")
          => status[t] \notin Live

=============================================================================
