---------------------------- MODULE DaemonControl ----------------------------
(***************************************************************************)
(* The commands that start and stop the control plane, and the daemon      *)
(* processes they start and stop: what they tell each other by a PID file, *)
(* a socket file and signals.  A daemon also ends by itself when it is     *)
(* idle, and may die at any time.  Time is abstract: a command's patience  *)
(* may end whenever what it waits for is not there.                        *)
(***************************************************************************)
EXTENDS FiniteSets, Naturals

CONSTANTS
    Command,    \* users of the command line, each runs one command at a time
    None,       \* no process, no file
    MaxDaemons, \* bound on daemons forked
    MaxCalls,   \* bound on commands run
    MaxCrashes  \* bound on deaths without a cause here

ASSUME ControlAssumption ==
    /\ {MaxDaemons, MaxCalls, MaxCrashes} \subseteq Nat
    /\ None \notin 0..MaxDaemons

Daemon == 1..MaxDaemons \* process identifiers, in the order of the forks

VARIABLES
    pidfile, \* no file (None), an empty one (0) or the identifier it holds
    holders, \* daemons that have the file at pid_path open for writing
    sock,    \* whose server socket the file at sock_path is
    stage,   \* how far a daemon is
    asked,   \* is its shutdown event set?
    pc,      \* where a command is
    kind,    \* which command it is
    target,  \* the process identifier it read
    child,   \* the daemon it forked
    calls, crashes

files == <<pidfile, holders, sock>>
daemonVars == <<stage, asked, crashes>>
commandVars == <<pc, kind, target, child, calls>>
vars == <<files, daemonVars, commandVars>>

Steps  == {"check", "read", "poll", "term", "dying", "cleansock", "cleanpid",
           "fork", "await", "recheck"}
Young  == {"forked", "opened", "written"}
Armed  == {"loading", "unlinked", "serving", "stopping", "closed", "unbound",
           "cleaning"}

TypeOK ==
    /\ pidfile \in Daemon \cup {0, None}
    /\ holders \subseteq Daemon
    /\ sock \in Daemon \cup {None}
    /\ stage \in [Daemon -> Young \cup Armed \cup {"none", "leaving", "gone"}]
    /\ asked \in [Daemon -> BOOLEAN]
    /\ pc \in [Command -> Steps \cup {"idle"}]
    /\ kind \in [Command -> {"start", "ensure", "stop"}]
    /\ target \in [Command -> Daemon \cup {None}]
    /\ child \in [Command -> Daemon \cup {None}]
    /\ calls \in 0..MaxCalls /\ crashes \in 0..MaxCrashes

Init ==
    /\ pidfile = None /\ holders = {} /\ sock = None
    /\ stage = [d \in Daemon |-> "none"] /\ asked = [d \in Daemon |-> FALSE]
    /\ pc = [c \in Command |-> "idle"]
    /\ kind = [c \in Command |-> "start"]
    /\ target = [c \in Command |-> None] /\ child = [c \in Command |-> None]
    /\ calls = 0 /\ crashes = 0

\* os.kill(pid, 0) finds the process.
Alive(d) == stage[d] \in Young \cup Armed \cup {"leaving"}

\* A daemon that still has files or a socket to make, use or remove.
Working(d) == stage[d] \in Young \cup Armed

\* is_alive: somebody listens on the socket file.
Reached == sock # None /\ stage[sock] \in {"serving", "stopping"}

Busy(c) == pc[c] \in Steps
Goto(c, p) ==
    pc' = [pc EXCEPT ![c] = p] /\ UNCHANGED <<target, child>>
Return(c) ==
    /\ pc' = [pc EXCEPT ![c] = "idle"]
    /\ target' = [target EXCEPT ![c] = None]
    /\ child' = [child EXCEPT ![c] = None]
Grow(d, s) == stage' = [stage EXCEPT ![d] = s]

----------------------------------------------------------------------------
(* Commands *)

\* ensure_daemon looks at the socket first.
Begin(c) ==
    /\ pc[c] = "idle" /\ calls < MaxCalls
    /\ calls' = calls + 1
    /\ \E k \in {"start", "ensure", "stop"} :
          /\ k = "ensure" => ~Reached
          /\ kind' = [kind EXCEPT ![c] = k]
    /\ Goto(c, "check")
    /\ UNCHANGED <<files, daemonVars>>

Check(c) ==
    /\ pc[c] = "check"
    /\ IF pidfile # None THEN Goto(c, "read")
       ELSE IF kind[c] = "stop" THEN Return(c) ELSE Goto(c, "fork")
    /\ UNCHANGED <<files, daemonVars, kind, calls>>

\* No file, no number in it, or no process of that number: clean up.
Read(c) ==
    /\ pc[c] = "read"
    /\ IF pidfile \in Daemon /\ Alive(pidfile)
         THEN /\ target' = [target EXCEPT ![c] = pidfile]
              /\ pc' = [pc EXCEPT ![c] = IF kind[c] = "stop" THEN "term" ELSE "poll"]
              /\ UNCHANGED child
         ELSE Goto(c, "cleansock")
    /\ UNCHANGED <<files, daemonVars, kind, calls>>

Found(c) == IF kind[c] = "ensure" THEN Goto(c, "recheck") ELSE Return(c)

\* Mutant of Poll: a daemon that does not answer is not killed.
PollNoKill(c) ==
    /\ pc[c] = "poll"
    /\ IF Reached THEN Found(c) ELSE Goto(c, "cleansock")
    /\ UNCHANGED <<files, daemonVars, kind, calls>>

\* start: the daemon that is there answers within 2 seconds, or is killed.
Poll(c) ==
    /\ pc[c] = "poll"
    /\ IF Reached THEN Found(c) ELSE Goto(c, "term")
    /\ UNCHANGED <<files, daemonVars, kind, calls>>

\* SIGTERM ends a process that has no handler for it yet.
Term(c) ==
    /\ pc[c] = "term"
    /\ IF Alive(target[c])
         THEN /\ Goto(c, "dying")
              /\ IF stage[target[c]] \in Young
                   THEN Grow(target[c], "gone") /\ UNCHANGED asked
                   ELSE /\ asked' = [asked EXCEPT ![target[c]] = TRUE]
                        /\ UNCHANGED stage
         ELSE Goto(c, "cleansock") /\ UNCHANGED <<stage, asked>>
    /\ UNCHANGED <<files, crashes, kind, calls>>

\* Mutant of Dying: nobody waits for the end of the daemon.
DyingNoWait(c) ==
    /\ pc[c] = "dying"
    /\ Goto(c, "cleansock")
    /\ UNCHANGED <<files, daemonVars, kind, calls>>

\* It is gone in time, or SIGKILL ends it.
Dying(c) ==
    /\ pc[c] = "dying"
    /\ Grow(target[c], "gone")
    /\ Goto(c, "cleansock")
    /\ UNCHANGED <<files, asked, crashes, kind, calls>>

CleanSock(c) ==
    /\ pc[c] = "cleansock"
    /\ sock' = None
    /\ Goto(c, "cleanpid")
    /\ UNCHANGED <<pidfile, holders, daemonVars, kind, calls>>

CleanPid(c) ==
    /\ pc[c] = "cleanpid"
    /\ pidfile' = None /\ holders' = {}
    /\ IF kind[c] = "stop" THEN Return(c) ELSE Goto(c, "fork")
    /\ UNCHANGED <<sock, daemonVars, kind, calls>>

Fork(c) ==
    /\ pc[c] = "fork"
    /\ \E d \in Daemon :
          /\ stage[d] = "none" /\ \A e \in Daemon : stage[e] = "none" => d <= e
          /\ Grow(d, "forked")
          /\ child' = [child EXCEPT ![c] = d]
    /\ pc' = [pc EXCEPT ![c] = "await"]
    /\ UNCHANGED <<files, asked, crashes, kind, target, calls>>

\* Mutant of Await: without a limit.
AwaitForever(c) ==
    /\ pc[c] = "await" /\ Reached /\ Found(c)
    /\ UNCHANGED <<files, daemonVars, kind, calls>>

\* start waits 10 seconds for an answer, which is taken to be long enough for
\* a daemon to write its PID file.
Await(c) ==
    /\ pc[c] = "await"
    /\ \/ Reached /\ Found(c)
       \/ /\ ~Reached /\ stage[child[c]] \notin {"forked", "opened"}
          /\ Return(c)
    /\ UNCHANGED <<files, daemonVars, kind, calls>>

\* ensure_daemon looks once more, and says so when there is no answer.
Recheck(c) ==
    /\ pc[c] = "recheck"
    /\ Return(c)
    /\ UNCHANGED <<files, daemonVars, kind, calls>>

----------------------------------------------------------------------------
(* Daemons *)

\* open(pid_path, "w") makes the file or empties the one that is there.
OpenPid(d) ==
    /\ stage[d] = "forked"
    /\ pidfile' = 0 /\ holders' = holders \cup {d}
    /\ Grow(d, "opened")
    /\ UNCHANGED <<sock, asked, crashes, commandVars>>

\* What is written to a file that was unlinked is lost.
WritePid(d) ==
    /\ stage[d] = "opened"
    /\ pidfile' = IF d \in holders THEN d ELSE pidfile
    /\ Grow(d, "written")
    /\ UNCHANGED <<holders, sock, asked, crashes, commandVars>>

Arm(d) ==
    /\ stage[d] = "written"
    /\ Grow(d, "loading")
    /\ UNCHANGED <<files, asked, crashes, commandVars>>

\* SocketServer.start takes away whatever socket file there is.
Unlink(d) ==
    /\ stage[d] = "loading"
    /\ sock' = None
    /\ Grow(d, "unlinked")
    /\ UNCHANGED <<pidfile, holders, asked, crashes, commandVars>>

\* The bind of a second daemon fails, and start with it.
Bind(d) ==
    /\ stage[d] = "unlinked"
    /\ IF sock = None THEN sock' = d /\ Grow(d, "serving")
                      ELSE Grow(d, "gone") /\ UNCHANGED sock
    /\ UNCHANGED <<pidfile, holders, asked, crashes, commandVars>>

\* _on_idle
Idle(d) ==
    /\ stage[d] = "serving" /\ ~asked[d]
    /\ asked' = [asked EXCEPT ![d] = TRUE]
    /\ UNCHANGED <<files, stage, crashes, commandVars>>

\* ControlPlane.shutdown begins; the server still takes connections.
Shutdown(d) ==
    /\ stage[d] = "serving" /\ asked[d]
    /\ Grow(d, "stopping")
    /\ UNCHANGED <<files, asked, crashes, commandVars>>

CloseServer(d) ==
    /\ stage[d] = "stopping"
    /\ Grow(d, "closed")
    /\ UNCHANGED <<files, asked, crashes, commandVars>>

\* SocketServer.stop, and then cleanup: whatever files there are.
UnlinkSock(d) ==
    /\ stage[d] \in {"closed", "unbound"}
    /\ sock' = None
    /\ Grow(d, IF stage[d] = "closed" THEN "unbound" ELSE "cleaning")
    /\ UNCHANGED <<pidfile, holders, asked, crashes, commandVars>>

\* Without its PID file the process is there for as long as asyncio.run takes
\* to close the loop; it touches no file any more.
Leave(d) ==
    /\ stage[d] = "cleaning"
    /\ pidfile' = None /\ holders' = {}
    /\ Grow(d, "leaving")
    /\ UNCHANGED <<sock, asked, crashes, commandVars>>

Exit(d) ==
    /\ stage[d] = "leaving"
    /\ Grow(d, "gone")
    /\ UNCHANGED <<files, asked, crashes, commandVars>>

\* start failed, or the process was killed: the files stay.
Crash(d) ==
    /\ Alive(d) /\ crashes < MaxCrashes
    /\ crashes' = crashes + 1
    /\ Grow(d, "gone")
    /\ UNCHANGED <<files, asked, commandVars>>

CommandStep(c) ==
    \/ Check(c) \/ Read(c) \/ Poll(c) \/ Term(c) \/ Dying(c) \/ CleanSock(c)
    \/ CleanPid(c) \/ Fork(c) \/ Await(c) \/ Recheck(c)

Startup(d) == OpenPid(d) \/ WritePid(d)

Next ==
    \/ \E c \in Command : Begin(c) \/ CommandStep(c)
    \/ \E d \in Daemon :
         \/ Startup(d) \/ Arm(d) \/ Unlink(d) \/ Bind(d) \/ Idle(d)
         \/ Shutdown(d) \/ CloseServer(d) \/ UnlinkSock(d) \/ Leave(d) \/ Exit(d)
         \/ Crash(d)

\* Commands go on, and a daemon gets as far as its PID file.  Whatever it does
\* later may hang.
Spec ==
    /\ Init /\ [][Next]_vars
    /\ \A c \in Command : WF_vars(CommandStep(c))
    /\ \A d \in Daemon : WF_vars(Startup(d))

----------------------------------------------------------------------------
(* Properties *)

\* With one command at a time the runtime directory has one daemon at most that
\* has not cleaned up, whatever it does meanwhile: start leaves none behind that
\* works, and gives up on none that the next start would not find.  A daemon that
\* has cleaned up may still be on its way out.
OneDaemon == Cardinality({d \in Daemon : Working(d)}) <= 1

\* What every state of a runtime directory is: typed, with one daemon at most.
DirectoryInv == TypeOK /\ OneDaemon

\* start_daemon: "Start the control plane daemon if not already running."  So
\* no two serve, whoever calls it.
OneServer == Cardinality({d \in Daemon : stage[d] = "serving"}) <= 1

\* Between commands, a daemon that serves is the one both files lead to, so
\* the next command finds it.
Reachable ==
    (\A c \in Command : ~Busy(c)) =>
        \A d \in Daemon : stage[d] = "serving" => pidfile = d /\ sock = d

\* When stop returns, no file is left, and no process but those that had cleaned
\* up by themselves and are on their way out.
StopStops ==
    [][\A c \in Command : kind[c] = "stop" /\ Busy(c) /\ ~Busy(c)' =>
          /\ pidfile' = None /\ sock' = None
          /\ \A d \in Daemon : ~Working(d)']_vars

\* Every command returns, also when the daemon hangs: there is a fork left.
CommandsReturn ==
    \A c \in Command : Busy(c) ~> ~Busy(c)
============================================================================
