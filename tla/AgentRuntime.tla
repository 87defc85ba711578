----------------------------- MODULE AgentRuntime -----------------------------
(***************************************************************************)
(* One agent subprocess from execute_task to its exit: the coroutine that  *)
(* owns the resources and runs the task's code, the listener that reads    *)
(* what the control plane sends, and the boundary that reports what came   *)
(* out.  An action of the task is the code between two awaits; the code of *)
(* the task itself may call the context in any order and raise at will.    *)
(*                                                                         *)
(* Task.cancel() does not interrupt anything at once: it makes the await   *)
(* the task is in, or comes to next, raise CancelledError (due).           *)
(***************************************************************************)
EXTENDS FiniteSets, Naturals, Sequences

CONSTANTS
    Servers,     \* MCP servers the task asks for
    Optional,    \* those it can do without
    Faulty,      \* may servers, handlers, teardown and the task's code fail?
    MaxFrames,   \* bound on the commands sent to the agent
    MaxRequests, \* bound on the requests it makes
    MaxTimeouts  \* bound on the waits for a notification that time out

ASSUME RuntimeAssumption ==
    /\ Optional \subseteq Servers
    /\ Faulty \in BOOLEAN
    /\ MaxFrames \in Nat /\ MaxRequests \in Nat /\ MaxTimeouts \in Nat

VARIABLES
    tpc,        \* the await task_handle is in
    thrown,     \* the exception it is being left with
    completed,  \* ctx._completed
    outcomes,   \* terminal events sent
    due,        \* is CancelledError to be raised at that await?
    cancelling, \* task_handle.cancelling() > 0
    cancelled,  \* ctx._cancelled
    swallowed,  \* did the runtime itself stop a CancelledError?
    lpc,        \* the listener
    inbox,      \* frames on their way to the agent
    sent,       \* commands sent so far
    conn,       \* is the control plane there?
    cur,        \* the request the task waits for, or 0
    answer,     \* the response its future has, or 0
    asked,      \* requests the control plane has not answered
    made,       \* requests made so far
    notes,      \* notifications sent so far
    heard,      \* notifications read so far
    nq,         \* _notification_queue
    box,        \* what the current wait's getter has taken
    leaked,     \* getters of given-up waits, still in line
    expired,    \* waits that timed out so far
    given,      \* notifications the task got
    commands,   \* _command_queue
    db,         \* is there a checkpointer?
    tried,      \* servers McpManager.start is done with
    open,       \* servers that have something on the exit stack
    errors      \* those that failed, while the start goes on

taskVars   == <<tpc, thrown, completed, outcomes>>
cancelVars == <<due, cancelling, cancelled, swallowed>>
wireVars   == <<lpc, inbox, sent, conn>>
reqVars    == <<cur, answer, asked, made>>
noteVars   == <<notes, heard, nq, box, leaked, expired, given>>
mcpVars    == <<tried, open, errors>>
vars == <<taskVars, cancelVars, wireVars, reqVars, noteVars, commands, db,
          mcpVars>>

Waits == {"request", "notify", "input"}
Kinds == {"cancel", "command", "input", "notify", "junk"}
Frames == (Kinds \cup {"response"}) \X Nat

TypeOK ==
    /\ tpc \in {"db", "mcp", "unwind", "body", "stop", "close", "over", "gone"}
               \cup Waits
    /\ thrown \in {"none", "cancel", "fault"}
    /\ outcomes \in Seq({"completed", "failed", "cancelled"})
    /\ {completed, due, cancelling, cancelled, swallowed} \subseteq BOOLEAN
    /\ {conn, db} \subseteq BOOLEAN
    /\ lpc \in {"on", "off", "broken"} /\ inbox \in Seq(Frames)
    /\ sent \in 0..MaxFrames /\ made \in 0..MaxRequests
    /\ cur \in 0..made /\ answer \in 0..made /\ asked \in Seq(1..made)
    /\ (cur # 0) = (tpc = "request")
    /\ notes \in 0..sent /\ heard \in 0..notes /\ leaked \in Nat
    /\ nq \in Seq(1..heard) /\ box \in Seq(1..heard) /\ given \in Seq(1..heard)
    /\ expired \in 0..MaxTimeouts
    /\ (box # <<>> => tpc = "notify") /\ (nq # <<>> => leaked = 0)
    /\ commands \in Seq({"command", "input"})
    /\ tried \subseteq Servers /\ open \subseteq tried /\ errors \subseteq tried

Init ==
    /\ tpc = "db" /\ thrown = "none" /\ completed = FALSE /\ outcomes = <<>>
    /\ due = FALSE /\ cancelling = FALSE /\ cancelled = FALSE
    /\ swallowed = FALSE
    /\ lpc = "on" /\ inbox = <<>> /\ sent = 0 /\ conn = TRUE
    /\ cur = 0 /\ answer = 0 /\ asked = <<>> /\ made = 0
    /\ notes = 0 /\ heard = 0 /\ nq = <<>> /\ box = <<>> /\ leaked = 0
    /\ expired = 0 /\ given = <<>>
    /\ commands = <<>> /\ db = FALSE
    /\ tried = {} /\ open = {} /\ errors = {}

-----------------------------------------------------------------------------
(* The control plane's end.                                                *)

\* A command is written to the agent; junk stands for one it does not know.
Send(kind) ==
    /\ conn /\ tpc # "gone" /\ sent < MaxFrames
    /\ sent' = sent + 1
    /\ notes' = IF kind = "notify" THEN notes + 1 ELSE notes
    /\ inbox' = Append(inbox, <<kind, IF kind = "notify" THEN notes' ELSE 0>>)
    /\ UNCHANGED <<taskVars, cancelVars, lpc, conn, reqVars, heard, nq, box,
                   leaked, expired, given, commands, db, mcpVars>>

\* Requests are served one after the other.
Answer ==
    /\ conn /\ asked # <<>>
    /\ asked' = Tail(asked)
    /\ inbox' = Append(inbox, <<"response", Head(asked)>>)
    /\ UNCHANGED <<taskVars, cancelVars, lpc, sent, conn, cur, answer, made,
                   noteVars, commands, db, mcpVars>>

Disconnect ==
    /\ Faulty /\ conn
    /\ conn' = FALSE
    /\ UNCHANGED <<taskVars, cancelVars, lpc, inbox, sent, reqVars, noteVars,
                   commands, db, mcpVars>>

-----------------------------------------------------------------------------
(* _listen_for_commands.                                                   *)

\* The next frame is of this kind, and the listener goes on.
Hears(kind) ==
    /\ lpc = "on" /\ inbox # <<>> /\ Head(inbox)[1] = kind
    /\ inbox' = Tail(inbox)
    /\ UNCHANGED <<sent, conn, taskVars, db, mcpVars>>

Number == Head(inbox)[2]

\* Mutant of HearResponse: whoever waits gets the response.
HearResponseAny ==
    /\ Hears("response")
    /\ answer' = IF cur # 0 /\ answer = 0 THEN Number ELSE answer
    /\ UNCHANGED <<lpc, cancelVars, cur, asked, made, noteVars, commands>>

\* The response goes to the future with its id, if there still is one.
HearResponse ==
    /\ Hears("response")
    /\ answer' = IF cur = Number THEN Number ELSE answer
    /\ UNCHANGED <<lpc, cancelVars, cur, asked, made, noteVars, commands>>

\* cancel and shutdown: the flag, task_handle.cancel(), the listener's end.
HearCancel ==
    /\ Hears("cancel")
    /\ cancelled' = TRUE
    /\ due' = (tpc # "over") /\ cancelling' = (tpc # "over")
    /\ lpc' = "off"
    /\ UNCHANGED <<swallowed, reqVars, noteVars, commands>>

HearCommand ==
    /\ \E kind \in {"command", "input"} :
          Hears(kind) /\ commands' = Append(commands, kind)
    /\ UNCHANGED <<lpc, cancelVars, reqVars, noteVars>>

\* Mutant of HearNotify: without a waiter the notification is dropped.
HearNotifyDrop ==
    /\ Hears("notify")
    /\ heard' = Number
    /\ box' = IF tpc = "notify" /\ box = <<>> THEN <<Number>> ELSE box
    /\ UNCHANGED <<lpc, cancelVars, reqVars, notes, nq, leaked, expired, given,
                   commands>>

\* A queue serves its getters in the order they came, those of waits that
\* were given up among them.
HearNotify ==
    /\ Hears("notify")
    /\ heard' = Number
    /\ \/ leaked > 0 /\ leaked' = leaked - 1 /\ UNCHANGED <<nq, box>>
       \/ /\ leaked = 0 /\ tpc = "notify" /\ box = <<>>
          /\ box' = <<Number>> /\ UNCHANGED <<nq, leaked>>
       \/ /\ leaked = 0 /\ ~(tpc = "notify" /\ box = <<>>)
          /\ nq' = Append(nq, Number) /\ UNCHANGED <<box, leaked>>
    /\ UNCHANGED <<lpc, cancelVars, reqVars, notes, expired, given, commands>>

\* Mutant of HearJunk: the listener ends with an exception.
HearJunkStops ==
    /\ Hears("junk")
    /\ lpc' = "off"
    /\ UNCHANGED <<cancelVars, reqVars, noteVars, commands>>

HearJunk ==
    /\ Hears("junk")
    /\ UNCHANGED <<lpc, cancelVars, reqVars, noteVars, commands>>

\* An answer that is longer than a frame may be, as nobody looks at the length
\* of what is sent, or that cannot be decoded: what is raised over it ends the
\* listener, and nobody is told.
HearTorn ==
    /\ Faulty /\ Hears("response")
    /\ lpc' = "broken"
    /\ UNCHANGED <<cancelVars, reqVars, noteVars, commands>>

\* The control plane is gone; the task goes on.
HearEof ==
    /\ lpc = "on" /\ ~conn /\ inbox = <<>>
    /\ lpc' = "off"
    /\ UNCHANGED <<taskVars, cancelVars, inbox, sent, conn, reqVars, noteVars,
                   commands, db, mcpVars>>

Hear == \/ HearResponse \/ HearCancel \/ HearCommand \/ HearNotify
        \/ HearJunk \/ HearTorn \/ HearEof

-----------------------------------------------------------------------------
(* task_handle: _execute_task inside _agent_resources.                     *)

\* The task's code is left, with this exception or none.
Exits == IF Servers = {} THEN "close" ELSE "stop"
Leave(exc) == tpc' = Exits /\ thrown' = exc

\* _start_checkpointer, which does without a checkpointer if it has to.
DbStart ==
    /\ tpc = "db" /\ ~due
    /\ db' \in (IF Faulty THEN BOOLEAN ELSE {TRUE})
    /\ tpc' = "mcp"
    /\ UNCHANGED <<thrown, completed, outcomes, cancelVars, wireVars, reqVars,
                   noteVars, commands, mcpVars>>

\* McpSession.start; one that fails may leave something on the stack.
StartServer(s) ==
    /\ tpc = "mcp" /\ ~due /\ s \notin tried
    /\ tried' = tried \cup {s}
    /\ \/ open' = open \cup {s} /\ UNCHANGED errors
       \/ /\ Faulty /\ errors' = errors \cup {s}
          /\ open' \in {open, open \cup {s}}
    /\ UNCHANGED <<taskVars, cancelVars, wireVars, reqVars, noteVars, commands,
                   db>>

\* McpManager.start takes a cancellation for the server's failure.
CancelServer(s) ==
    /\ tpc = "mcp" /\ due /\ s \notin tried
    /\ tried' = tried \cup {s}
    /\ open' \in {open, open \cup {s}} /\ errors' = errors \cup {s}
    /\ due' = FALSE /\ swallowed' = TRUE
    /\ UNCHANGED <<taskVars, cancelling, cancelled, wireVars, reqVars,
                   noteVars, commands, db>>

McpReady(refused) ==
    /\ tpc = "mcp" /\ tried = Servers
    /\ IF errors \subseteq Optional
       THEN IF conn THEN tpc' = "body" /\ UNCHANGED thrown ELSE Leave("fault")
       ELSE refused
    /\ errors' = {}
    /\ UNCHANGED <<completed, outcomes, cancelVars, wireVars, reqVars,
                   noteVars, commands, db, tried, open>>

\* Mutant of McpStarted: a required server's failure is raised at once.
McpStartedNoStop == McpReady(tpc' = "close" /\ thrown' = "fault")

\* The rest of _start_mcp, and task.started.
McpStarted == McpReady(tpc' = "unwind" /\ UNCHANGED thrown)

\* manager.stop() and the exception, when a required server is missing.
McpUnwind ==
    /\ tpc = "unwind" /\ ~due
    /\ open' = {}
    /\ tpc' = "close" /\ thrown' = "fault"
    /\ UNCHANGED <<completed, outcomes, cancelVars, wireVars, reqVars,
                   noteVars, commands, db, tried, errors>>

\* mgr.stop() after the task's code: a transport's fault surfaces here, in
\* the place of whatever was being thrown.
McpStop ==
    /\ tpc = "stop" /\ ~due
    /\ open' = {}
    /\ tpc' = "close"
    /\ thrown' \in {thrown} \cup IF Faulty THEN {"fault"} ELSE {}
    /\ UNCHANGED <<completed, outcomes, cancelVars, wireVars, reqVars,
                   noteVars, commands, db, tried, errors>>

DbClose ==
    /\ tpc = "close" /\ ~due
    /\ tpc' = "over" /\ db' = FALSE
    /\ UNCHANGED <<thrown, completed, outcomes, cancelVars, wireVars, reqVars,
                   noteVars, commands, mcpVars>>

\* CancelledError is raised at the await; wait_for_notification catches it,
\* and its getter stays in line.
Interrupt ==
    /\ due /\ due' = FALSE
    /\ \/ /\ tpc = "notify" /\ tpc' = "body"
          /\ leaked' = IF box = <<>> THEN leaked + 1 ELSE leaked
          /\ box' = <<>> /\ swallowed' = TRUE
          /\ UNCHANGED <<thrown, cur, answer, open>>
       \/ /\ tpc \in {"body", "request", "input"} /\ Leave("cancel")
          /\ cur' = 0 /\ answer' = 0
          /\ UNCHANGED <<leaked, box, swallowed, open>>
       \/ /\ tpc \in {"unwind", "stop"} /\ tpc' = "close" /\ thrown' = "cancel"
          /\ open' = {}
          /\ UNCHANGED <<leaked, box, swallowed, cur, answer>>
       \/ /\ tpc \in {"db", "close"} /\ tpc' = "over" /\ thrown' = "cancel"
          /\ UNCHANGED <<leaked, box, swallowed, cur, answer, open>>
    /\ UNCHANGED <<completed, outcomes, cancelling, cancelled, wireVars, asked,
                   made, notes, heard, nq, expired, given, commands, db, tried,
                   errors>>

-----------------------------------------------------------------------------
(* What the task's code may do next.                                       *)

Acts == tpc = "body" /\ ~due

\* _send_request: a future, a frame, and the wait for the response.
Request ==
    /\ Acts /\ made < MaxRequests
    /\ IF conn THEN /\ made' = made + 1 /\ cur' = made'
                    /\ asked' = Append(asked, made')
                    /\ tpc' = "request" /\ UNCHANGED thrown
       ELSE Leave("fault") /\ UNCHANGED <<made, cur, asked>>
    /\ UNCHANGED <<completed, outcomes, cancelVars, wireVars, answer, noteVars,
                   commands, db, mcpVars>>

\* The answer is returned, or raised as an error.
RequestDone ==
    /\ tpc = "request" /\ ~due /\ answer # 0
    /\ cur' = 0 /\ answer' = 0
    /\ \/ tpc' = "body" /\ UNCHANGED thrown
       \/ Faulty /\ Leave("fault")
    /\ UNCHANGED <<completed, outcomes, cancelVars, wireVars, asked, made,
                   noteVars, commands, db, mcpVars>>

\* Mutant of RequestTimeout: the future of the request given up stays.
RequestTimeoutKept ==
    /\ tpc = "request" /\ ~due
    /\ tpc' = "body"
    /\ UNCHANGED <<thrown, completed, outcomes, cancelVars, wireVars, reqVars,
                   noteVars, commands, db, mcpVars>>

RequestTimeout ==
    /\ tpc = "request" /\ ~due
    /\ cur' = 0 /\ answer' = 0 /\ tpc' = "body"
    /\ UNCHANGED <<thrown, completed, outcomes, cancelVars, wireVars, asked,
                   made, noteVars, commands, db, mcpVars>>

\* wait_for_notification: a task of its own gets from the queue.  With the flag
\* of a cancel set the wait is over at once, with what is there or nothing.
Wait ==
    /\ Acts
    /\ tpc' = IF cancelled /\ nq = <<>> THEN tpc ELSE "notify"
    /\ IF nq # <<>> THEN box' = <<Head(nq)>> /\ nq' = Tail(nq)
       ELSE UNCHANGED <<box, nq>>
    /\ UNCHANGED <<thrown, completed, outcomes, cancelVars, wireVars, reqVars,
                   notes, heard, leaked, expired, given, commands, db,
                   mcpVars>>

WaitDone ==
    /\ tpc = "notify" /\ ~due /\ box # <<>>
    /\ given' = given \o box /\ box' = <<>>
    /\ tpc' = "body"
    /\ UNCHANGED <<thrown, completed, outcomes, cancelVars, wireVars, reqVars,
                   notes, heard, nq, leaked, expired, commands, db, mcpVars>>

\* The timeout cancels the wait, and the wait does not cancel its getter.
WaitTimeout ==
    /\ tpc = "notify" /\ ~due /\ expired < MaxTimeouts
    /\ expired' = expired + 1
    /\ leaked' = IF box = <<>> THEN leaked + 1 ELSE leaked
    /\ box' = <<>>
    /\ tpc' = "body"
    /\ UNCHANGED <<thrown, completed, outcomes, cancelVars, wireVars, reqVars,
                   notes, heard, nq, given, commands, db, mcpVars>>

\* wait_for_input, which needs a checkpointer.
AskInput ==
    /\ Acts
    /\ IF db /\ conn THEN tpc' = "input" /\ UNCHANGED thrown ELSE Leave("fault")
    /\ UNCHANGED <<completed, outcomes, cancelVars, wireVars, reqVars,
                   noteVars, commands, db, mcpVars>>

\* The next command is taken by a wait or a dispatch, which goes on at place.
TakeCommand(place) ==
    /\ commands # <<>> /\ commands' = Tail(commands)
    /\ \/ conn /\ tpc' = place /\ UNCHANGED thrown
       \/ Faulty /\ Leave("fault")
    /\ UNCHANGED <<completed, outcomes, cancelVars, wireVars, reqVars,
                   noteVars, db, mcpVars>>

\* Input resumes the task, other commands are dispatched on the way.
GetInput ==
    /\ tpc = "input" /\ ~due /\ commands # <<>>
    /\ TakeCommand(IF Head(commands) = "input" THEN "body" ELSE "input")

\* process_commands; nobody waits for input here, and it is dropped.
Dispatch ==
    /\ Acts /\ commands # <<>>
    /\ \/ Head(commands) # "input" /\ TakeCommand("body")
       \/ /\ Head(commands) = "input" /\ commands' = Tail(commands)
          /\ UNCHANGED <<taskVars, cancelVars, wireVars, reqVars, noteVars, db,
                         mcpVars>>

\* ctx.complete and ctx.fail, by the task's code or for the value it
\* returned: the flag first, then the event, which may not get out.
Conclude(kind) ==
    /\ Acts /\ ~completed
    /\ completed' = TRUE
    /\ \/ /\ conn /\ outcomes' = Append(outcomes, kind)
          /\ tpc' = "body" /\ UNCHANGED thrown
       \/ Faulty /\ Leave("fault") /\ UNCHANGED outcomes
    /\ UNCHANGED <<cancelVars, wireVars, reqVars, noteVars, commands, db,
                   mcpVars>>

\* It returns, raises, or lets out a cancellation nobody asked for.
End(exc) ==
    /\ Acts /\ (exc = "none" \/ Faulty)
    /\ Leave(exc)
    /\ UNCHANGED <<completed, outcomes, cancelVars, wireVars, reqVars,
                   noteVars, commands, db, mcpVars>>

-----------------------------------------------------------------------------
(* The boundary in agent_main.                                             *)

ReportAs(event) ==
    /\ tpc = "over" /\ tpc' = "gone"
    /\ outcomes' = IF event = "none" \/ ~conn THEN outcomes
                                              ELSE Append(outcomes, event)
    /\ lpc' = "off"
    /\ UNCHANGED <<thrown, completed, cancelVars, inbox, sent, conn, reqVars,
                   noteVars, commands, db, mcpVars>>

Verdict(done, stopped) ==
    IF thrown = "none" \/ done THEN "none"
    ELSE IF stopped THEN "cancelled" ELSE "failed"

\* Mutants of Report: what the task has reported is not looked at; only the
\* flag is, not whether the task was still there to be cancelled; a fault
\* comes before a cancellation.
ReportAgain == ReportAs(Verdict(FALSE, cancelled /\ cancelling))
ReportFlag == ReportAs(Verdict(completed, cancelled))
ReportFault ==
    ReportAs(Verdict(completed, thrown = "cancel" /\ cancelled /\ cancelling))

Report == ReportAs(Verdict(completed, cancelled /\ cancelling))

-----------------------------------------------------------------------------
Runtime == \/ DbStart \/ McpStarted \/ McpUnwind \/ McpStop \/ DbClose
           \/ Interrupt \/ \E s \in Servers : CancelServer(s)
           \/ RequestDone \/ WaitDone \/ GetInput \/ Report

Code == \/ Request \/ RequestTimeout \/ Wait \/ WaitTimeout
        \/ AskInput \/ Dispatch
        \/ \E kind \in {"completed", "failed"} : Conclude(kind)
        \/ \E exc \in {"none", "cancel", "fault"} : End(exc)

Next == \/ \E kind \in Kinds : Send(kind)
        \/ Answer \/ Disconnect \/ Hear
        \/ Runtime \/ Code \/ \E s \in Servers : StartServer(s)

Spec == Init /\ [][Next]_vars

\* The event loop runs what is ready, teardown comes to an end, the control
\* plane serves requests.  Servers need not start and tasks need not end.
Fairness == WF_vars(Runtime) /\ WF_vars(Hear) /\ WF_vars(Answer)

FairSpec == Spec /\ Fairness

-----------------------------------------------------------------------------
(* What the runtime is to achieve.                                         *)

\* A run has one outcome: what the task has reported is not reported again,
\* however it was left and whatever its teardown raised.
OneOutcome == Len(outcomes) <= 1

\* A run that was interrupted before it reported an outcome is reported
\* cancelled, even if its teardown raised something else; one that was over
\* when the cancel came is not.
CancelDecides ==
    /\ \A i \in DOMAIN outcomes : outcomes[i] = "cancelled" => cancelling
    /\ tpc = "gone" /\ cancelling /\ thrown # "none" /\ ~completed /\ conn
          => outcomes = <<"cancelled">>

\* No server's session outlives the scope that opened it, be it left by a
\* fault, by a cancel, or before all servers were up.
SessionsClosed == tpc \in {"close", "over", "gone"} => open = {}

\* Unless it was cancelled, the task gets or can still get the notifications
\* that were read, once and in order, all but one at most for each wait that
\* timed out.
Received == given \o box \o nq
NothingLost ==
    \/ cancelled
    \/ /\ \A i, j \in DOMAIN Received : i < j => Received[i] < Received[j]
       /\ heard - Len(Received) <= expired

\* A late response to a request that was given up does not answer another.
AnswersMatch == answer # 0 => answer = cur

\* A request returns, unless the run is cancelled, the control plane gone, or
\* the listener broken by a frame it could not read.
RequestReturns ==
    tpc = "request" ~> tpc # "request" \/ cancelled \/ ~conn \/ lpc = "broken"

\* A wait for a notification does not outlast a cancel, caught or not.
NoticeReturns == cancelled /\ tpc = "notify" ~> tpc # "notify"

\* A task that waits for input goes on once there is some, whatever commands
\* were sent before it.
InputReturns ==
    tpc = "input" /\ (\E i \in DOMAIN commands : commands[i] = "input")
       ~> tpc # "input"

\* A cancelled run ends, unless the runtime itself has caught the
\* cancellation and left the task's code running.
CancelEnds == cancelled ~> tpc = "gone" \/ swallowed

\* Every wait of a task has an end: for an answer, for input, for a notification
\* once it was cancelled, for the end of a cancelled run.
WaitsEnd == RequestReturns /\ InputReturns /\ NoticeReturns /\ CancelEnds

-----------------------------------------------------------------------------
(* An expectation the sources state and the code does not meet.            *)

\* agent_runtime.py, notify_task: a target that is blocked in
\* wait_for_notification() wakes up immediately.
NotificationWakes ==
    [][heard' # heard /\ tpc = "notify" /\ box = <<>> => box' # <<>>]_vars
=============================================================================
