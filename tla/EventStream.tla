----------------------------- MODULE EventStream -----------------------------
(***************************************************************************)
(* How the events of one task reach those who watch it live.  Writers add  *)
(* events to the task's history and change its status; the reader of each  *)
(* run also publishes its events to the queues of the streams that are     *)
(* subscribed.  A stream registers, replays the history and then forwards  *)
(* its queue until a sentinel ends it.                                     *)
(*                                                                         *)
(* A step is the code between two awaits.  A write to a client and the     *)
(* client's handling of that frame are one step: frames are delivered in   *)
(* order or, after the client has gone, not at all.                        *)
(***************************************************************************)
EXTENDS Sequences, FiniteSets, Naturals

CONSTANTS
    Streams,    \* clients that subscribe
    MaxEvents,  \* bound on the history
    MaxRuns,    \* bound on the runs of the task: the first and its retries
    MaxOpens,   \* bound on how often a client subscribes
    Endings,    \* terminal events the runs may report
    Others,     \* endings a run does not report itself: "exit", "cascade";
                \* and "clear", which hides a finished task
    Patient     \* is a retry made only when the last reader is through?

ASSUME StreamAssumption ==
    /\ MaxEvents \in Nat /\ MaxRuns \in Nat \ {0} /\ MaxOpens \in Nat
    /\ Endings \subseteq {"completed", "failed", "cancelled"}
    /\ Others \subseteq {"exit", "cascade", "clear"}
    /\ Patient \in BOOLEAN

VARIABLES
    status,   \* the task's row
    log,      \* its events; an event's id is its place
    unpub,    \* ids of events added without being published
    walk,     \* where a cascade over this task is
    run,      \* the current run
    wpc,      \* where the reader of each run is
    cur,      \* id of the event it handles
    hooked,   \* does its callback hold the set of subscribers now in use?
    subs,     \* _stream_subscribers[task_id]
    queue,    \* each stream's queue: event ids, or End for None, the sentinel
    spc,      \* where each _stream_subscribe is
    since,    \* the run each stream was opened in
    snap,     \* the status it read first
    todo,     \* history it has still to replay
    got,      \* ids its client has shown
    cursor,   \* last_event_id of its client
    opens,    \* how often it subscribed
    gone      \* has its client left?

rowVars  == <<status, walk>>
logVars  == <<log, unpub>>
runVars  == <<run, wpc, cur>>
hubVars  == <<hooked, subs>>
subVars  == <<spc, since, snap, todo>>
tuiVars  == <<got, cursor, opens, gone>>
vars == <<rowVars, logVars, runVars, hubVars, queue, subVars, tuiVars>>

Terminal == {"completed", "failed", "cancelled"}
Statuses == {"pending", "running", "cleared"} \cup Terminal
Kinds == {"progress"} \cup Terminal
Runs == 1..MaxRuns
Ids == 1..MaxEvents
End == 0

TypeOK ==
    /\ status \in Statuses
    /\ log \in Seq([run : Runs, kind : Kinds]) /\ Len(log) <= MaxEvents
    /\ unpub \subseteq Ids
    /\ walk \in {"none", "write", "log", "done"}
    /\ run \in Runs
    /\ wpc \in [Runs -> {"unborn", "launch", "read", "added", "stored",
                         "publish", "mark", "over"}]
    /\ cur \in [Runs -> 0..MaxEvents]
    /\ hooked \in [Runs -> BOOLEAN]
    /\ subs \subseteq Streams
    /\ queue \in [Streams -> Seq(Ids \cup {End})]
    /\ spc \in [Streams -> {"off", "status", "events", "replay", "live",
                           "ending"}]
    /\ since \in [Streams -> Runs]
    /\ snap \in [Streams -> Statuses]
    /\ todo \in [Streams -> SUBSET Ids]
    /\ got \in [Streams -> SUBSET Ids]
    /\ cursor \in [Streams -> 0..MaxEvents]
    /\ opens \in [Streams -> 0..MaxOpens]
    /\ gone \in [Streams -> BOOLEAN]

Init ==
    /\ status = "pending" /\ walk = "none"
    /\ log = << >> /\ unpub = {}
    /\ run = 1
    /\ wpc = [r \in Runs |-> IF r = 1 THEN "launch" ELSE "unborn"]
    /\ cur = [r \in Runs |-> 0]
    /\ hooked = [r \in Runs |-> FALSE]
    /\ subs = {}
    /\ queue = [f \in Streams |-> << >>]
    /\ spc = [f \in Streams |-> "off"]
    /\ since = [f \in Streams |-> 1]
    /\ snap = [f \in Streams |-> "pending"]
    /\ todo = [f \in Streams |-> {}]
    /\ got = [f \in Streams |-> {}]
    /\ cursor = [f \in Streams |-> 0]
    /\ opens = [f \in Streams |-> 0]
    /\ gone = [f \in Streams |-> FALSE]

-----------------------------------------------------------------------------
(* The reader of run r: launch, then _handle_event and _on_agent_event.    *)

At(r, p) == wpc' = [wpc EXCEPT ![r] = p]

MarkRunning(r) ==
    /\ wpc[r] = "launch"
    /\ status' = "running"
    /\ At(r, "read")
    /\ UNCHANGED <<walk, logVars, run, cur, hubVars, queue, subVars, tuiVars>>

\* An event of the run goes into the events table first ...
AddEvent(r) ==
    /\ wpc[r] = "read" /\ Len(log) < MaxEvents
    /\ \E e \in {"progress"} \cup Endings :
          log' = Append(log, [run |-> r, kind |-> e])
    /\ cur' = [cur EXCEPT ![r] = Len(log) + 1]
    /\ At(r, "added")
    /\ UNCHANGED <<rowVars, unpub, run, hubVars, queue, subVars, tuiVars>>

Kind(r) == log[cur[r]].kind

\* ... then, if it is a terminal one, its status into the row.
StoreStatus(r) ==
    /\ wpc[r] = "added"
    /\ status' = IF Kind(r) \in Terminal THEN Kind(r) ELSE status
    /\ At(r, "stored")
    /\ UNCHANGED <<walk, logVars, run, cur, hubVars, queue, subVars, tuiVars>>

NextUp(r) == IF Kind(r) \in Terminal THEN "over" ELSE "read"

\* After the cascade over the task's children the callback looks up the
\* subscribers; with none it is done.
Capture(r) ==
    /\ wpc[r] = "stored"
    /\ IF subs = {} THEN At(r, NextUp(r)) /\ UNCHANGED hooked
       ELSE At(r, "publish") /\ hooked' = [hooked EXCEPT ![r] = TRUE]
    /\ UNCHANGED <<rowVars, logVars, run, cur, subs, queue, subVars, tuiVars>>

Push(r, Who, items) ==
    /\ wpc[r] = "publish"
    /\ queue' = [f \in Streams |->
                   IF f \in Who THEN queue[f] \o items ELSE queue[f]]
    /\ hooked' = [hooked EXCEPT ![r] = FALSE]
    /\ At(r, NextUp(r))
    /\ UNCHANGED <<rowVars, logVars, run, cur, subs, subVars, tuiVars>>

Audience(r) == IF hooked[r] THEN subs ELSE {}
WithEnd(r) == IF Kind(r) \in Terminal THEN <<cur[r], End>> ELSE <<cur[r]>>

\* Mutants of Publish: only streams past their replay are served; the
\* sentinel is forgotten.
PublishToLive(r) == Push(r, {f \in Audience(r) : spc[f] = "live"}, WithEnd(r))
PublishNoEnd(r) == Push(r, Audience(r), <<cur[r]>>)

\* After one more look at the row the event goes to those who are in that
\* set now, and after a terminal one the sentinel.
Publish(r) == Push(r, Audience(r), WithEnd(r))

\* The agent exits without a terminal event: the final check ...
Exit(r) ==
    /\ wpc[r] = "read" /\ "exit" \in Others
    /\ At(r, IF status = "running" THEN "mark" ELSE "over")
    /\ UNCHANGED <<rowVars, logVars, run, cur, hubVars, queue, subVars,
                   tuiVars>>

\* ... and a new status that is neither an event nor published.
MarkFailed(r) ==
    /\ wpc[r] = "mark"
    /\ status' = "failed"
    /\ At(r, "over")
    /\ UNCHANGED <<walk, logVars, run, cur, hubVars, queue, subVars, tuiVars>>

Reader(r) == \/ MarkRunning(r) \/ StoreStatus(r) \/ Capture(r) \/ Publish(r)
             \/ MarkFailed(r)

-----------------------------------------------------------------------------
(* Other writers.                                                          *)

\* A parent's cascade, at most one: it reads the row, ...
CascadeCheck ==
    /\ walk = "none" /\ "cascade" \in Others
    /\ status \notin Terminal
    /\ walk' = "write"
    /\ UNCHANGED <<status, logVars, runVars, hubVars, queue, subVars, tuiVars>>

\* ... writes it, ...
CascadeWrite ==
    /\ walk = "write"
    /\ status' = "cancelled"
    /\ walk' = "log"
    /\ UNCHANGED <<logVars, runVars, hubVars, queue, subVars, tuiVars>>

\* ... and adds an event, which nobody publishes.
CascadeLog ==
    /\ walk = "log" /\ Len(log) < MaxEvents
    /\ log' = Append(log, [run |-> run, kind |-> "cancelled"])
    /\ unpub' = unpub \cup {Len(log) + 1}
    /\ walk' = "done"
    /\ UNCHANGED <<status, runVars, hubVars, queue, subVars, tuiVars>>

Clear ==
    /\ "clear" \in Others /\ status \in Terminal
    /\ status' = "cleared"
    /\ UNCHANGED <<walk, logVars, runVars, hubVars, queue, subVars, tuiVars>>

\* A retry: the finished task's row is reset and a new run launched.
Retry ==
    /\ status \in Terminal /\ run < MaxRuns
    /\ Patient => wpc[run] = "over" /\ walk \in {"none", "done"}
    /\ run' = run + 1
    /\ status' = "pending"
    /\ wpc' = [wpc EXCEPT ![run + 1] = "launch"]
    /\ UNCHANGED <<walk, logVars, cur, hubVars, queue, subVars, tuiVars>>

-----------------------------------------------------------------------------
(* _stream_subscribe for client f, and the client's _stream_loop.          *)

\* The stream is registered before anything is read.
Subscribe(f) ==
    /\ spc[f] = "off" /\ ~gone[f] /\ opens[f] < MaxOpens
    /\ subs' = subs \cup {f}
    /\ queue' = [queue EXCEPT ![f] = << >>]
    /\ spc' = [spc EXCEPT ![f] = "status"]
    /\ since' = [since EXCEPT ![f] = run]
    /\ opens' = [opens EXCEPT ![f] = @ + 1]
    /\ UNCHANGED <<rowVars, logVars, runVars, hooked, snap, todo, got, cursor,
                   gone>>

ReadStatus(f) ==
    /\ spc[f] = "status"
    /\ snap' = [snap EXCEPT ![f] = status]
    /\ spc' = [spc EXCEPT ![f] = "events"]
    /\ UNCHANGED <<rowVars, logVars, runVars, hubVars, queue, since, todo,
                   tuiVars>>

\* get_events_since the last event id the client sent along.
ReadHistory(f) ==
    /\ spc[f] = "events"
    /\ todo' = [todo EXCEPT ![f] = (cursor[f] + 1)..Len(log)]
    /\ spc' = [spc EXCEPT ![f] = "replay"]
    /\ UNCHANGED <<rowVars, logVars, runVars, hubVars, queue, since, snap,
                   tuiVars>>

\* The client shows event i and remembers it as its last.
Show(f, i) ==
    /\ got' = [got EXCEPT ![f] = @ \cup {i}]
    /\ cursor' = [cursor EXCEPT ![f] = i]
    /\ UNCHANGED <<opens, gone>>

\* The finally clause: an emptied set is dropped, and a callback that holds
\* it publishes to nobody.  The coroutine's locals go with it.
Leave(f) ==
    /\ spc' = [spc EXCEPT ![f] = "off"]
    /\ since' = [since EXCEPT ![f] = 1]
    /\ snap' = [snap EXCEPT ![f] = "pending"]
    /\ todo' = [todo EXCEPT ![f] = {}]
    /\ queue' = [queue EXCEPT ![f] = << >>]
    /\ subs' = subs \ {f}
    /\ hooked' = [r \in Runs |-> hooked[r] /\ subs \ {f} # {}]

Replay(f) ==
    /\ spc[f] = "replay" /\ ~gone[f] /\ todo[f] # {}
    /\ LET i == CHOOSE j \in todo[f] : \A k \in todo[f] : j <= k IN
          /\ todo' = [todo EXCEPT ![f] = @ \ {i}]
          /\ Show(f, i)
    /\ UNCHANGED <<rowVars, logVars, runVars, hubVars, queue, spc, since, snap>>

\* Mutant of Replayed: the task is looked up again to see if it is over.
ReplayedFresh(f) ==
    /\ spc[f] = "replay" /\ todo[f] = {}
    /\ IF status \in Terminal THEN Leave(f)
       ELSE /\ spc' = [spc EXCEPT ![f] = "live"]
            /\ UNCHANGED <<hubVars, queue, since, snap, todo>>
    /\ UNCHANGED <<rowVars, logVars, runVars, tuiVars>>

\* After the replay: the task was over at the start, or live events follow.
Replayed(f) ==
    /\ spc[f] = "replay" /\ todo[f] = {}
    /\ IF snap[f] \in Terminal THEN Leave(f)
       ELSE /\ spc' = [spc EXCEPT ![f] = "live"]
            /\ UNCHANGED <<hubVars, queue, since, snap, todo>>
    /\ UNCHANGED <<rowVars, logVars, runVars, tuiVars>>

Forward(f) ==
    /\ spc[f] = "live" /\ ~gone[f]
    /\ queue[f] # << >> /\ Head(queue[f]) # End
    /\ Show(f, Head(queue[f]))
    /\ queue' = [queue EXCEPT ![f] = Tail(@)]
    /\ UNCHANGED <<rowVars, logVars, runVars, hubVars, subVars>>

Sentinel(f) ==
    /\ spc[f] = "live" /\ queue[f] # << >> /\ Head(queue[f]) = End
    /\ queue' = [queue EXCEPT ![f] = Tail(@)]
    /\ spc' = [spc EXCEPT ![f] = "ending"]
    /\ UNCHANGED <<rowVars, logVars, runVars, hubVars, since, snap, todo,
                   tuiVars>>

\* The row is read once more, for the closing frame; the client, if it is
\* still there, closes the stream.
Finish(f) ==
    /\ spc[f] = "ending"
    /\ Leave(f)
    /\ UNCHANGED <<rowVars, logVars, runVars, tuiVars>>

\* The client is closed; the server finds out when it writes next.
Quit(f) ==
    /\ ~gone[f]
    /\ gone' = [gone EXCEPT ![f] = TRUE]
    /\ UNCHANGED <<rowVars, logVars, runVars, hubVars, queue, subVars, got,
                   cursor, opens>>

WriteFails(f) ==
    /\ gone[f]
    /\ \/ spc[f] = "replay" /\ (todo[f] # {} \/ snap[f] \in Terminal)
       \/ spc[f] = "live" /\ queue[f] # << >> /\ Head(queue[f]) # End
    /\ Leave(f)
    /\ UNCHANGED <<rowVars, logVars, runVars, tuiVars>>

Serve(f) == \/ ReadStatus(f) \/ ReadHistory(f) \/ Replay(f) \/ Replayed(f)
            \/ Forward(f) \/ Sentinel(f) \/ Finish(f) \/ WriteFails(f)

-----------------------------------------------------------------------------
Write == \/ \E r \in Runs : Reader(r) \/ AddEvent(r) \/ Exit(r)
         \/ CascadeCheck \/ CascadeWrite \/ CascadeLog \/ Clear \/ Retry

Watch == \/ \E f \in Streams : Subscribe(f) \/ Serve(f) \/ Quit(f)

Next == Write \/ Watch

Spec == Init /\ [][Next]_vars

\* The loop runs every ready coroutine, and a poller asks again after its
\* sleep.  Nobody has to send an event, to exit, to subscribe or to retry.
Fairness ==
    /\ \A r \in Runs : WF_vars(Reader(r))
    /\ \A f \in Streams : WF_vars(Serve(f))

FairSpec == Spec /\ Fairness

-----------------------------------------------------------------------------
(* What watching is to achieve.                                            *)

\* A client that shows an event has been shown every event before it, save
\* those that nobody publishes: between history and queue nothing is lost.
NoGap ==
    \A f \in Streams : \A j \in got[f] : \A i \in 1..j : i \in got[f] \cup unpub

\* What every state of a stream is: typed, and without a gap.
StreamInv == TypeOK /\ NoGap

\* Since run n, some run was ended by an exit or a cascade, or the finished
\* task was hidden: nobody is told of such an end.
Unannounced(n) ==
    \/ status = "cleared" \/ walk = "log"
    \/ \E i \in unpub : log[i].run >= n
    \/ \E r \in n..MaxRuns : /\ wpc[r] \in {"mark", "over"}
                           /\ (cur[r] = 0 \/ Kind(r) \notin Terminal)

\* A stream that is ended has shown how the run it was opened in, or a later
\* one, came out.
EndIsComplete ==
    [][\A f \in Streams :
          spc[f] # "off" /\ spc'[f] = "off" /\ ~gone[f] /\ ~Unannounced(since[f])
             => \E i \in got[f] : /\ log[i].kind \in Terminal
                                  /\ log[i].run >= since[f]]_vars

\* The last run is over and its reader has told whom it had to tell.
Settled == wpc[run] = "over"

\* While the task stays over, every stream to a client is ended, unless the
\* run was ended by something that does not publish.
StreamEnds ==
    \A f \in Streams :
       Settled /\ spc[f] # "off" /\ ~gone[f]
          ~> spc[f] = "off" \/ gone[f] \/ ~Settled \/ Unannounced(since[f])
=============================================================================
