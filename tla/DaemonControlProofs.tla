------------------------- MODULE DaemonControlProofs -------------------------
(* Theorems of DaemonControl and their proofs.                             *)
EXTENDS DaemonControl, FiniteSetTheorems, TLAPS

-----------------------------------------------------------------------------
(* The invariant.                                                          *)

\* Commands are run one after the other.
OneUser == \A b, c \in Command : b = c

\* One daemon works at most.
Alone == \A d, e \in Daemon : Working(d) /\ Working(e) => d = e

\* What the files say of a daemon that works.
FilesOf(d) ==
    /\ stage[d] = "opened" => d \in holders
    /\ stage[d] \in {"written"} \cup Armed => pidfile = d
    /\ stage[d] \in {"unlinked", "unbound", "cleaning"} => sock = None
    /\ stage[d] \in {"serving", "stopping", "closed"} => sock = d

\* There is no socket file without a PID file.
SockHasPid == sock # None => pidfile # None

\* A daemon that has not written its file yet is waited for; the one a command
\* is about to end is the one that works; and when it cleans up or forks, there
\* is none.
Watched(c) ==
    /\ pc[c] \in {"poll", "term", "dying"} =>
          /\ target[c] \in Daemon
          /\ \A d \in Daemon : Working(d) => d = target[c]
    /\ pc[c] \in {"cleansock", "cleanpid", "fork"} =>
          \A d \in Daemon : ~Working(d)
    /\ pc[c] = "cleanpid" => sock = None
    /\ pc[c] = "await" => child[c] \in Daemon
    /\ \A d \in Daemon : stage[d] \in {"forked", "opened"} =>
          pc[c] = "await" /\ child[c] = d
    /\ pc[c] \in {"poll", "fork", "await", "recheck"} => kind[c] # "stop"

ControlInv ==
    /\ TypeOK /\ Alone /\ SockHasPid
    /\ \A d \in Daemon : FilesOf(d)
    /\ \A c \in Command : Watched(c)

LEMMA ControlInvInit == Init => ControlInv
  BY ControlAssumption DEF Init, ControlInv, TypeOK, Young, Armed, Steps, Daemon,
     Alone, Working, SockHasPid, FilesOf, Watched

-----------------------------------------------------------------------------
(* The actions.                                                            *)

LEMMA BeginStep ==
  ASSUME OneUser, ControlInv, NEW c \in Command, Begin(c)
  PROVE  ControlInv'
  <1> USE ControlAssumption DEF ControlInv
  <1>1. TypeOK'
    BY DEF Begin, Goto, Reached, files, daemonVars, TypeOK, Steps, Young,
        Armed
  <1>2. Alone'
    BY DEF Begin, Goto, Reached, files, daemonVars, Alone, Working, Young,
        Armed, TypeOK
  <1>3. SockHasPid'
    BY DEF Begin, Goto, Reached, files, daemonVars, SockHasPid, FilesOf,
        Watched, TypeOK, Daemon
  <1>4. ASSUME NEW e \in Daemon PROVE FilesOf(e)'
    BY DEF Begin, Goto, Reached, files, daemonVars, FilesOf, Alone, Working,
        Young, Armed, TypeOK, Watched
  <1>5. ASSUME NEW b \in Command PROVE Watched(b)'
    <2>1. b = c
      BY DEF OneUser
    <2> QED
      BY <2>1 DEF Begin, Goto, Reached, files, daemonVars, Watched, Alone,
          Working, Young, Armed, TypeOK, Steps
  <1> QED
    BY <1>1, <1>2, <1>3, <1>4, <1>5

LEMMA CheckStep ==
  ASSUME OneUser, ControlInv, NEW c \in Command, Check(c)
  PROVE  ControlInv'
  <1> USE ControlAssumption DEF ControlInv
  <1>1. TypeOK'
    BY DEF Check, Goto, Return, files, daemonVars, TypeOK, Steps, Young,
        Armed
  <1>2. Alone'
    BY DEF Check, Goto, Return, files, daemonVars, Alone, Working, Young,
        Armed, TypeOK
  <1>3. SockHasPid'
    BY DEF Check, Goto, Return, files, daemonVars, SockHasPid, FilesOf,
        Watched, TypeOK, Daemon
  <1>4. ASSUME NEW e \in Daemon PROVE FilesOf(e)'
    BY DEF Check, Goto, Return, files, daemonVars, FilesOf, Alone, Working,
        Young, Armed, TypeOK, Watched
  <1>5. ASSUME NEW b \in Command PROVE Watched(b)'
    <2>1. b = c
      BY DEF OneUser
    <2>2. \A d \in Daemon : Working(d) => pidfile = d /\ pidfile # None
      BY DEF Check, Watched, FilesOf, Working, Young, Armed, Daemon
    <2> QED
      BY <2>1, <2>2 DEF Check, Goto, Return, files, daemonVars, Watched,
          Working, TypeOK
  <1> QED
    BY <1>1, <1>2, <1>3, <1>4, <1>5

LEMMA ReadStep ==
  ASSUME OneUser, ControlInv, NEW c \in Command, Read(c)
  PROVE  ControlInv'
  <1> USE ControlAssumption DEF ControlInv
  <1>1. TypeOK'
    BY DEF Read, Goto, Working, Alive, files, daemonVars, TypeOK, Steps, Young, Armed
  <1>2. Alone'
    BY DEF Read, Goto, Working, Alive, files, daemonVars, Alone, Young, Armed, TypeOK
  <1>3. SockHasPid'
    BY DEF Read, Goto, Working, Alive, files, daemonVars, SockHasPid, FilesOf,
        Watched, TypeOK, Daemon
  <1>4. ASSUME NEW e \in Daemon PROVE FilesOf(e)'
    BY DEF Read, Goto, Working, Alive, files, daemonVars, FilesOf, Alone, Young,
        Armed, TypeOK, Watched
  <1>5. ASSUME NEW b \in Command PROVE Watched(b)'
    <2>1. b = c
      BY DEF OneUser
    <2>2. \A d \in Daemon : Working(d) => pidfile = d /\ pidfile # None
      BY DEF Read, Watched, FilesOf, Working, Alive, Young, Armed, Daemon
    <2>3. CASE pidfile \in Daemon /\ Alive(pidfile)
      <3>1. /\ target' = [target EXCEPT ![c] = pidfile]
            /\ pc' = [pc EXCEPT ![c] = IF kind[c] = "stop" THEN "term"
                                                          ELSE "poll"]
            /\ UNCHANGED <<stage, sock, child, kind>>
        BY <2>3 DEF Read, files, daemonVars
      <3>2. \A d \in Daemon : stage[d] \notin {"forked", "opened"}
        BY DEF Read, Watched
      <3> QED
        BY <2>1, <2>2, <2>3, <3>1, <3>2 DEF Watched, Working, Alive, TypeOK
    <2>4. CASE ~(pidfile \in Daemon /\ Alive(pidfile))
      <3>1. \A d \in Daemon : ~Working(d)
        BY <2>2, <2>4 DEF Working, Alive
      <3> QED
        BY <2>1, <2>4, <3>1 DEF Read, Goto, files, daemonVars, Watched,
            Working, Alive, Young, TypeOK
    <2> QED
      BY <2>3, <2>4
  <1> QED
    BY <1>1, <1>2, <1>3, <1>4, <1>5

LEMMA PollStep ==
  ASSUME OneUser, ControlInv, NEW c \in Command, Poll(c)
  PROVE  ControlInv'
  <1> USE ControlAssumption DEF ControlInv
  <1>1. TypeOK'
    BY DEF Poll, Goto, Found, Reached, Return, files, daemonVars, TypeOK,
        Steps, Young, Armed
  <1>2. Alone'
    BY DEF Poll, Goto, Found, Reached, Return, files, daemonVars, Alone,
        Working, Young, Armed, TypeOK
  <1>3. SockHasPid'
    BY DEF Poll, Goto, Found, Reached, Return, files, daemonVars,
        SockHasPid, FilesOf, Watched, TypeOK, Daemon
  <1>4. ASSUME NEW e \in Daemon PROVE FilesOf(e)'
    BY DEF Poll, Goto, Found, Reached, Return, files, daemonVars, FilesOf,
        Alone, Working, Young, Armed, TypeOK, Watched
  <1>5. ASSUME NEW b \in Command PROVE Watched(b)'
    <2>1. b = c
      BY DEF OneUser
    <2> QED
      BY <2>1 DEF Poll, Goto, Found, Reached, Return, files, daemonVars,
          Watched, Alone, Working, Young, Armed, TypeOK, Steps
  <1> QED
    BY <1>1, <1>2, <1>3, <1>4, <1>5

LEMMA TermStep ==
  ASSUME OneUser, ControlInv, NEW c \in Command, Term(c)
  PROVE  ControlInv'
  <1> USE ControlAssumption DEF ControlInv
  <1>1. TypeOK'
    BY DEF Term, Goto, Grow, Working, Alive, files, TypeOK, Steps, Young, Armed
  <1>2. Alone'
    BY DEF Term, Goto, Grow, Working, Alive, files, Alone, Young, Armed, TypeOK
  <1>3. SockHasPid'
    BY DEF Term, Goto, Grow, Working, Alive, files, SockHasPid, FilesOf, Watched,
        TypeOK, Daemon
  <1>4. ASSUME NEW e \in Daemon PROVE FilesOf(e)'
    BY DEF Term, Goto, Grow, Working, Alive, files, FilesOf, Alone, Young, Armed,
        TypeOK, Watched
  <1>5. ASSUME NEW b \in Command PROVE Watched(b)'
    <2>1. b = c
      BY DEF OneUser
    <2> QED
      BY <2>1 DEF Term, Goto, Grow, Working, Alive, files, Watched, Alone, Young,
          Armed, TypeOK, Steps
  <1> QED
    BY <1>1, <1>2, <1>3, <1>4, <1>5

LEMMA DyingStep ==
  ASSUME OneUser, ControlInv, NEW c \in Command, Dying(c)
  PROVE  ControlInv'
  <1> USE ControlAssumption DEF ControlInv
  <1>1. TypeOK'
    BY DEF Dying, Goto, Grow, files, TypeOK, Steps, Young, Armed
  <1>2. Alone'
    BY DEF Dying, Goto, Grow, files, Alone, Working, Young, Armed, TypeOK
  <1>3. SockHasPid'
    BY DEF Dying, Goto, Grow, files, SockHasPid, FilesOf, Watched, TypeOK,
        Daemon
  <1>4. ASSUME NEW e \in Daemon PROVE FilesOf(e)'
    BY DEF Dying, Goto, Grow, files, FilesOf, Alone, Working, Young, Armed,
        TypeOK, Watched
  <1>5. ASSUME NEW b \in Command PROVE Watched(b)'
    <2>1. b = c
      BY DEF OneUser
    <2> QED
      BY <2>1 DEF Dying, Goto, Grow, files, Watched, Alone, Working, Young,
          Armed, TypeOK, Steps
  <1> QED
    BY <1>1, <1>2, <1>3, <1>4, <1>5

LEMMA CleanSockStep ==
  ASSUME OneUser, ControlInv, NEW c \in Command, CleanSock(c)
  PROVE  ControlInv'
  <1> USE ControlAssumption DEF ControlInv
  <1>1. TypeOK'
    BY DEF CleanSock, Goto, daemonVars, TypeOK, Steps, Young, Armed
  <1>2. Alone'
    BY DEF CleanSock, Goto, daemonVars, Alone, Working, Young, Armed, TypeOK
  <1>3. SockHasPid'
    BY DEF CleanSock, Goto, daemonVars, SockHasPid, FilesOf, Watched,
        TypeOK, Daemon
  <1>4. ASSUME NEW e \in Daemon PROVE FilesOf(e)'
    BY DEF CleanSock, Goto, daemonVars, FilesOf, Alone, Working, Young, Armed,
        TypeOK, Watched
  <1>5. ASSUME NEW b \in Command PROVE Watched(b)'
    <2>1. b = c
      BY DEF OneUser
    <2> QED
      BY <2>1 DEF CleanSock, Goto, daemonVars, Watched, Alone, Working, Young,
          Armed, TypeOK, Steps
  <1> QED
    BY <1>1, <1>2, <1>3, <1>4, <1>5

LEMMA CleanPidStep ==
  ASSUME OneUser, ControlInv, NEW c \in Command, CleanPid(c)
  PROVE  ControlInv'
  <1> USE ControlAssumption DEF ControlInv
  <1>1. TypeOK'
    BY DEF CleanPid, Goto, Return, daemonVars, TypeOK, Steps, Young, Armed
  <1>2. Alone'
    BY DEF CleanPid, Goto, Return, daemonVars, Alone, Working, Young, Armed,
        TypeOK
  <1>3. SockHasPid'
    BY DEF CleanPid, Goto, Return, daemonVars, SockHasPid, FilesOf, Watched,
        TypeOK, Daemon
  <1>4. ASSUME NEW e \in Daemon PROVE FilesOf(e)'
    BY DEF CleanPid, Goto, Return, daemonVars, FilesOf, Alone, Working, Young,
        Armed, TypeOK, Watched
  <1>5. ASSUME NEW b \in Command PROVE Watched(b)'
    <2>1. b = c
      BY DEF OneUser
    <2> QED
      BY <2>1 DEF CleanPid, Goto, Return, daemonVars, Watched, Alone, Working,
          Young, Armed, TypeOK, Steps
  <1> QED
    BY <1>1, <1>2, <1>3, <1>4, <1>5

LEMMA ForkStep ==
  ASSUME OneUser, ControlInv, NEW c \in Command, Fork(c)
  PROVE  ControlInv'
  <1> USE ControlAssumption DEF ControlInv
  <1>1. TypeOK'
    BY DEF Fork, Grow, files, TypeOK, Steps, Young, Armed
  <1>2. Alone'
    <2>1. \A d \in Daemon : ~Working(d)
      BY DEF Fork, Watched
    <2>2. PICK d \in Daemon : Grow(d, "forked")
      BY DEF Fork
    <2> QED
      BY <2>1, <2>2 DEF Alone, Working, Grow, Young, Armed, TypeOK
  <1>3. SockHasPid'
    BY DEF Fork, Grow, files, SockHasPid, FilesOf, Watched, TypeOK, Daemon
  <1>4. ASSUME NEW e \in Daemon PROVE FilesOf(e)'
    BY DEF Fork, Grow, files, FilesOf, Alone, Working, Young, Armed, TypeOK,
        Watched
  <1>5. ASSUME NEW b \in Command PROVE Watched(b)'
    <2>1. b = c
      BY DEF OneUser
    <2> QED
      BY <2>1 DEF Fork, Grow, files, Watched, Alone, Working, Young, Armed,
          TypeOK, Steps
  <1> QED
    BY <1>1, <1>2, <1>3, <1>4, <1>5

LEMMA AwaitStep ==
  ASSUME OneUser, ControlInv, NEW c \in Command, Await(c)
  PROVE  ControlInv'
  <1> USE ControlAssumption DEF ControlInv
  <1>1. TypeOK'
    BY DEF Await, Return, Found, Reached, Goto, files, daemonVars, TypeOK,
        Steps, Young, Armed
  <1>2. Alone'
    BY DEF Await, Return, Found, Reached, Goto, files, daemonVars, Alone,
        Working, Young, Armed, TypeOK
  <1>3. SockHasPid'
    BY DEF Await, Return, Found, Reached, Goto, files, daemonVars,
        SockHasPid, FilesOf, Watched, TypeOK, Daemon
  <1>4. ASSUME NEW e \in Daemon PROVE FilesOf(e)'
    BY DEF Await, Return, Found, Reached, Goto, files, daemonVars, FilesOf,
        Alone, Working, Young, Armed, TypeOK, Watched
  <1>5. ASSUME NEW b \in Command PROVE Watched(b)'
    <2>1. b = c
      BY DEF OneUser
    <2> QED
      BY <2>1 DEF Await, Return, Found, Reached, Goto, files, daemonVars,
          Watched, Alone, Working, Young, Armed, TypeOK, Steps
  <1> QED
    BY <1>1, <1>2, <1>3, <1>4, <1>5

LEMMA RecheckStep ==
  ASSUME OneUser, ControlInv, NEW c \in Command, Recheck(c)
  PROVE  ControlInv'
  <1> USE ControlAssumption DEF ControlInv
  <1>1. TypeOK'
    BY DEF Recheck, Return, files, daemonVars, TypeOK, Steps, Young, Armed
  <1>2. Alone'
    BY DEF Recheck, Return, files, daemonVars, Alone, Working, Young, Armed,
        TypeOK
  <1>3. SockHasPid'
    BY DEF Recheck, Return, files, daemonVars, SockHasPid, FilesOf, Watched,
        TypeOK, Daemon
  <1>4. ASSUME NEW e \in Daemon PROVE FilesOf(e)'
    BY DEF Recheck, Return, files, daemonVars, FilesOf, Alone, Working, Young,
        Armed, TypeOK, Watched
  <1>5. ASSUME NEW b \in Command PROVE Watched(b)'
    <2>1. b = c
      BY DEF OneUser
    <2> QED
      BY <2>1 DEF Recheck, Return, files, daemonVars, Watched, Alone, Working,
          Young, Armed, TypeOK, Steps
  <1> QED
    BY <1>1, <1>2, <1>3, <1>4, <1>5

LEMMA OpenPidStep ==
  ASSUME OneUser, ControlInv, NEW d \in Daemon, OpenPid(d)
  PROVE  ControlInv'
  <1> USE ControlAssumption DEF ControlInv
  <1>1. TypeOK'
    BY DEF OpenPid, Grow, commandVars, TypeOK, Steps, Young, Armed
  <1>2. Alone'
    BY DEF OpenPid, Grow, commandVars, Alone, Working, Young, Armed, TypeOK
  <1>3. SockHasPid'
    BY DEF OpenPid, Grow, commandVars, SockHasPid, FilesOf, Watched, TypeOK,
        Daemon
  <1>4. ASSUME NEW e \in Daemon PROVE FilesOf(e)'
    BY DEF OpenPid, Grow, commandVars, FilesOf, Alone, Working, Young, Armed,
        TypeOK
  <1>5. ASSUME NEW b \in Command PROVE Watched(b)'
    BY DEF OpenPid, Grow, commandVars, Watched, Alone, Working, Young, Armed,
        TypeOK, FilesOf
  <1> QED
    BY <1>1, <1>2, <1>3, <1>4, <1>5

LEMMA WritePidStep ==
  ASSUME OneUser, ControlInv, NEW d \in Daemon, WritePid(d)
  PROVE  ControlInv'
  <1> USE ControlAssumption DEF ControlInv
  <1>1. TypeOK'
    BY DEF WritePid, Grow, commandVars, TypeOK, Steps, Young, Armed
  <1>2. Alone'
    BY DEF WritePid, Grow, commandVars, Alone, Working, Young, Armed, TypeOK
  <1>3. SockHasPid'
    BY DEF WritePid, Grow, commandVars, SockHasPid, FilesOf, Watched,
        TypeOK, Daemon
  <1>4. ASSUME NEW e \in Daemon PROVE FilesOf(e)'
    BY DEF WritePid, Grow, commandVars, FilesOf, Alone, Working, Young, Armed,
        TypeOK
  <1>5. ASSUME NEW b \in Command PROVE Watched(b)'
    BY DEF WritePid, Grow, commandVars, Watched, Alone, Working, Young, Armed,
        TypeOK, FilesOf
  <1> QED
    BY <1>1, <1>2, <1>3, <1>4, <1>5

LEMMA ArmStep ==
  ASSUME OneUser, ControlInv, NEW d \in Daemon, Arm(d)
  PROVE  ControlInv'
  <1> USE ControlAssumption DEF ControlInv
  <1>1. TypeOK'
    BY DEF Arm, Grow, files, commandVars, TypeOK, Steps, Young, Armed
  <1>2. Alone'
    BY DEF Arm, Grow, files, commandVars, Alone, Working, Young, Armed, TypeOK
  <1>3. SockHasPid'
    BY DEF Arm, Grow, files, commandVars, SockHasPid, FilesOf, Watched,
        TypeOK, Daemon
  <1>4. ASSUME NEW e \in Daemon PROVE FilesOf(e)'
    BY DEF Arm, Grow, files, commandVars, FilesOf, Alone, Working, Young,
        Armed, TypeOK
  <1>5. ASSUME NEW b \in Command PROVE Watched(b)'
    BY DEF Arm, Grow, files, commandVars, Watched, Alone, Working, Young,
        Armed, TypeOK, FilesOf
  <1> QED
    BY <1>1, <1>2, <1>3, <1>4, <1>5

LEMMA UnlinkStep ==
  ASSUME OneUser, ControlInv, NEW d \in Daemon, Unlink(d)
  PROVE  ControlInv'
  <1> USE ControlAssumption DEF ControlInv
  <1>1. TypeOK'
    BY DEF Unlink, Grow, commandVars, TypeOK, Steps, Young, Armed
  <1>2. Alone'
    BY DEF Unlink, Grow, commandVars, Alone, Working, Young, Armed, TypeOK
  <1>3. SockHasPid'
    BY DEF Unlink, Grow, commandVars, SockHasPid, FilesOf, Watched, TypeOK,
        Daemon
  <1>4. ASSUME NEW e \in Daemon PROVE FilesOf(e)'
    BY DEF Unlink, Grow, commandVars, FilesOf, Alone, Working, Young, Armed,
        TypeOK
  <1>5. ASSUME NEW b \in Command PROVE Watched(b)'
    BY DEF Unlink, Grow, commandVars, Watched, Alone, Working, Young, Armed,
        TypeOK, FilesOf
  <1> QED
    BY <1>1, <1>2, <1>3, <1>4, <1>5

LEMMA BindStep ==
  ASSUME OneUser, ControlInv, NEW d \in Daemon, Bind(d)
  PROVE  ControlInv'
  <1> USE ControlAssumption DEF ControlInv
  <1>1. TypeOK'
    BY DEF Bind, Grow, commandVars, TypeOK, Steps, Young, Armed
  <1>2. Alone'
    BY DEF Bind, Grow, commandVars, Alone, Working, Young, Armed, TypeOK
  <1>3. SockHasPid'
    <2>1. pidfile = d /\ pidfile # None
      BY DEF Bind, FilesOf, Armed, Daemon
    <2> QED
      BY <2>1 DEF Bind, SockHasPid
  <1>4. ASSUME NEW e \in Daemon PROVE FilesOf(e)'
    BY DEF Bind, Grow, commandVars, FilesOf, Alone, Working, Young, Armed,
        TypeOK
  <1>5. ASSUME NEW b \in Command PROVE Watched(b)'
    BY DEF Bind, Grow, commandVars, Watched, Alone, Working, Young, Armed,
        TypeOK, FilesOf
  <1> QED
    BY <1>1, <1>2, <1>3, <1>4, <1>5

LEMMA IdleStep ==
  ASSUME OneUser, ControlInv, NEW d \in Daemon, Idle(d)
  PROVE  ControlInv'
  <1> USE ControlAssumption DEF ControlInv
  <1>1. TypeOK'
    BY DEF Idle, files, commandVars, TypeOK, Steps, Young, Armed
  <1>2. Alone'
    BY DEF Idle, files, commandVars, Alone, Working, Young, Armed, TypeOK
  <1>3. SockHasPid'
    BY DEF Idle, files, commandVars, SockHasPid, FilesOf, Watched, TypeOK,
        Daemon
  <1>4. ASSUME NEW e \in Daemon PROVE FilesOf(e)'
    BY DEF Idle, files, commandVars, FilesOf, Alone, Working, Young, Armed,
        TypeOK
  <1>5. ASSUME NEW b \in Command PROVE Watched(b)'
    BY DEF Idle, files, commandVars, Watched, Alone, Working, Young, Armed,
        TypeOK, FilesOf
  <1> QED
    BY <1>1, <1>2, <1>3, <1>4, <1>5

LEMMA ShutdownStep ==
  ASSUME OneUser, ControlInv, NEW d \in Daemon, Shutdown(d)
  PROVE  ControlInv'
  <1> USE ControlAssumption DEF ControlInv
  <1>1. TypeOK'
    BY DEF Shutdown, Grow, files, commandVars, TypeOK, Steps, Young, Armed
  <1>2. Alone'
    BY DEF Shutdown, Grow, files, commandVars, Alone, Working, Young, Armed,
        TypeOK
  <1>3. SockHasPid'
    BY DEF Shutdown, Grow, files, commandVars, SockHasPid, FilesOf, Watched,
        TypeOK, Daemon
  <1>4. ASSUME NEW e \in Daemon PROVE FilesOf(e)'
    BY DEF Shutdown, Grow, files, commandVars, FilesOf, Alone, Working, Young,
        Armed, TypeOK
  <1>5. ASSUME NEW b \in Command PROVE Watched(b)'
    BY DEF Shutdown, Grow, files, commandVars, Watched, Alone, Working, Young,
        Armed, TypeOK, FilesOf
  <1> QED
    BY <1>1, <1>2, <1>3, <1>4, <1>5

LEMMA CloseServerStep ==
  ASSUME OneUser, ControlInv, NEW d \in Daemon, CloseServer(d)
  PROVE  ControlInv'
  <1> USE ControlAssumption DEF ControlInv
  <1>1. TypeOK'
    BY DEF CloseServer, Grow, files, commandVars, TypeOK, Steps, Young,
        Armed
  <1>2. Alone'
    BY DEF CloseServer, Grow, files, commandVars, Alone, Working, Young,
        Armed, TypeOK
  <1>3. SockHasPid'
    BY DEF CloseServer, Grow, files, commandVars, SockHasPid, FilesOf,
        Watched, TypeOK, Daemon
  <1>4. ASSUME NEW e \in Daemon PROVE FilesOf(e)'
    BY DEF CloseServer, Grow, files, commandVars, FilesOf, Alone, Working,
        Young, Armed, TypeOK
  <1>5. ASSUME NEW b \in Command PROVE Watched(b)'
    BY DEF CloseServer, Grow, files, commandVars, Watched, Alone, Working,
        Young, Armed, TypeOK, FilesOf
  <1> QED
    BY <1>1, <1>2, <1>3, <1>4, <1>5

LEMMA UnlinkSockStep ==
  ASSUME OneUser, ControlInv, NEW d \in Daemon, UnlinkSock(d)
  PROVE  ControlInv'
  <1> USE ControlAssumption DEF ControlInv
  <1>1. TypeOK'
    BY DEF UnlinkSock, Grow, commandVars, TypeOK, Steps, Young, Armed
  <1>2. Alone'
    BY DEF UnlinkSock, Grow, commandVars, Alone, Working, Young, Armed, TypeOK
  <1>3. SockHasPid'
    BY DEF UnlinkSock, Grow, commandVars, SockHasPid, FilesOf, Watched,
        TypeOK, Daemon
  <1>4. ASSUME NEW e \in Daemon PROVE FilesOf(e)'
    BY DEF UnlinkSock, Grow, commandVars, FilesOf, Alone, Working, Young,
        Armed, TypeOK
  <1>5. ASSUME NEW b \in Command PROVE Watched(b)'
    BY DEF UnlinkSock, Grow, commandVars, Watched, Alone, Working, Young,
        Armed, TypeOK, FilesOf
  <1> QED
    BY <1>1, <1>2, <1>3, <1>4, <1>5

LEMMA LeaveStep ==
  ASSUME OneUser, ControlInv, NEW d \in Daemon, Leave(d)
  PROVE  ControlInv'
  <1> USE ControlAssumption DEF ControlInv
  <1>1. TypeOK'
    BY DEF Leave, Grow, commandVars, TypeOK, Steps, Young, Armed
  <1>2. Alone'
    BY DEF Leave, Grow, commandVars, Alone, Working, Young, Armed, TypeOK
  <1>3. SockHasPid'
    BY DEF Leave, Grow, commandVars, SockHasPid, FilesOf, Watched, TypeOK,
        Daemon
  <1>4. ASSUME NEW e \in Daemon PROVE FilesOf(e)'
    BY DEF Leave, Grow, commandVars, FilesOf, Alone, Working, Young, Armed,
        TypeOK
  <1>5. ASSUME NEW b \in Command PROVE Watched(b)'
    BY DEF Leave, Grow, commandVars, Watched, Alone, Working, Young, Armed,
        TypeOK, FilesOf
  <1> QED
    BY <1>1, <1>2, <1>3, <1>4, <1>5

LEMMA ExitStep ==
  ASSUME OneUser, ControlInv, NEW d \in Daemon, Exit(d)
  PROVE  ControlInv'
  <1> USE ControlAssumption DEF ControlInv
  <1>1. TypeOK'
    BY DEF Exit, Grow, files, commandVars, TypeOK, Steps, Young, Armed
  <1>2. Alone'
    BY DEF Exit, Grow, files, commandVars, Alone, Working, Young, Armed, TypeOK
  <1>3. SockHasPid'
    BY DEF Exit, Grow, files, commandVars, SockHasPid, FilesOf, Watched, TypeOK,
        Daemon
  <1>4. ASSUME NEW e \in Daemon PROVE FilesOf(e)'
    BY DEF Exit, Grow, files, commandVars, FilesOf, Alone, Working, Young, Armed,
        TypeOK
  <1>5. ASSUME NEW b \in Command PROVE Watched(b)'
    BY DEF Exit, Grow, files, commandVars, Watched, Alone, Working, Young, Armed,
        TypeOK, FilesOf
  <1> QED
    BY <1>1, <1>2, <1>3, <1>4, <1>5

LEMMA CrashStep ==
  ASSUME OneUser, ControlInv, NEW d \in Daemon, Crash(d)
  PROVE  ControlInv'
  <1> USE ControlAssumption DEF ControlInv
  <1>1. TypeOK'
    BY DEF Crash, Grow, Working, Alive, files, commandVars, TypeOK, Steps, Young,
        Armed
  <1>2. Alone'
    BY DEF Crash, Grow, Working, Alive, files, commandVars, Alone, Young, Armed,
        TypeOK
  <1>3. SockHasPid'
    BY DEF Crash, Grow, Working, Alive, files, commandVars, SockHasPid, FilesOf,
        Watched, TypeOK, Daemon
  <1>4. ASSUME NEW e \in Daemon PROVE FilesOf(e)'
    BY DEF Crash, Grow, Working, Alive, files, commandVars, FilesOf, Alone, Young,
        Armed, TypeOK
  <1>5. ASSUME NEW b \in Command PROVE Watched(b)'
    BY DEF Crash, Grow, Working, Alive, files, commandVars, Watched, Alone, Young,
        Armed, TypeOK, FilesOf
  <1> QED
    BY <1>1, <1>2, <1>3, <1>4, <1>5

-----------------------------------------------------------------------------
(* The theorems.                                                           *)

LEMMA ControlInvNext ==
  ASSUME OneUser, ControlInv, [Next]_vars
  PROVE  ControlInv'
  <1>1. ASSUME NEW c \in Command, Begin(c) \/ CommandStep(c)
        PROVE  ControlInv'
    BY <1>1, BeginStep, CheckStep, ReadStep, PollStep, TermStep, DyingStep,
       CleanSockStep, CleanPidStep, ForkStep, AwaitStep, RecheckStep
       DEF CommandStep
  <1>2. ASSUME NEW d \in Daemon,
               \/ Startup(d) \/ Arm(d) \/ Unlink(d) \/ Bind(d) \/ Idle(d)
               \/ Shutdown(d) \/ CloseServer(d) \/ UnlinkSock(d) \/ Leave(d)
               \/ Exit(d) \/ Crash(d)
        PROVE  ControlInv'
    BY <1>2, OpenPidStep, WritePidStep, ArmStep, UnlinkStep, BindStep,
       IdleStep, ShutdownStep, CloseServerStep, UnlinkSockStep, LeaveStep,
       ExitStep, CrashStep DEF Startup
  <1>3. CASE UNCHANGED vars
    BY <1>3 DEF vars, files, daemonVars, commandVars, ControlInv, TypeOK,
        Alone, Working, SockHasPid, FilesOf, Watched
  <1> QED
    BY <1>1, <1>2, <1>3 DEF Next

\* With one user the strengthened invariant holds of every behaviour of the
\* commands and the daemons they start.
THEOREM ControlInvariant ==
  ASSUME OneUser
  PROVE  Spec => []ControlInv
  <1>1. ControlInv /\ [Next]_vars => ControlInv'
    BY ControlInvNext
  <1> QED
    BY <1>1, ControlInvInit, PTL DEF Spec

\* With one command at a time the runtime directory is typed and has one daemon
\* at most that works: neither start_daemon nor stop_daemon leaves one behind,
\* wherever the daemon is with its start, its shutdown or its death.
THEOREM DirectoryHolds ==
  ASSUME OneUser
  PROVE  Spec => []DirectoryInv
  <1>1. ASSUME ControlInv PROVE OneDaemon
    <2> DEFINE S == {d \in Daemon : Working(d)}
    <2>1. CASE S = {}
      BY <2>1, FS_EmptySet DEF OneDaemon
    <2>2. CASE S # {}
      <3>1. PICK d \in S : TRUE
        BY <2>2
      <3>2. S = {d}
        BY <1>1, <3>1 DEF ControlInv, Alone
      <3>3. Cardinality({d}) = 1
        BY FS_Singleton
      <3> QED
        BY <3>2, <3>3 DEF OneDaemon
    <2> QED
      BY <2>1, <2>2
  <1>2. ControlInv => DirectoryInv
    BY <1>1 DEF ControlInv, DirectoryInv
  <1> QED
    BY <1>2, ControlInvariant, PTL

\* Between commands of one user both files lead to the daemon that serves.
THEOREM ReachableHolds ==
  ASSUME OneUser
  PROVE  Spec => []Reachable
  <1>1. ControlInv => Reachable
    BY DEF ControlInv, FilesOf, Armed, Reachable
  <1> QED
    BY <1>1, ControlInvariant, PTL

\* A stop that returns leaves no daemon that works and no file, whichever way it
\* took: no PID file, a stale one, SIGTERM or SIGKILL.
THEOREM StopHolds ==
  ASSUME OneUser
  PROVE  Spec => StopStops
  <1>1. ASSUME ControlInv, Next, NEW c \in Command,
               kind[c] = "stop", Busy(c), ~Busy(c)'
        PROVE  /\ pidfile' = None /\ sock' = None
               /\ \A d \in Daemon : ~Working(d)'
    <2> USE ControlAssumption DEF ControlInv
    <2>1. Check(c) \/ CleanPid(c)
      <3>1. ~Begin(c) /\ ~Poll(c) /\ ~Fork(c) /\ ~Await(c) /\ ~Recheck(c)
        BY <1>1 DEF Begin, Poll, Fork, Await, Recheck, Busy, Steps, Watched
      <3>2. ~Read(c) /\ ~Term(c) /\ ~Dying(c) /\ ~CleanSock(c)
        BY <1>1 DEF Read, Term, Dying, CleanSock, Goto, Busy, Steps, TypeOK
      <3>3. \A b \in Command : b = c
        BY <1>1 DEF OneUser
      <3>4. \A d \in Daemon :
              ~(\/ Startup(d) \/ Arm(d) \/ Unlink(d) \/ Bind(d) \/ Idle(d)
                \/ Shutdown(d) \/ CloseServer(d) \/ UnlinkSock(d) \/ Leave(d)
                \/ Exit(d) \/ Crash(d))
        BY <1>1 DEF Startup, OpenPid, WritePid, Arm, Unlink, Bind, Idle,
            Shutdown, CloseServer, UnlinkSock, Leave, Exit, Crash,
            commandVars, Busy
      <3> QED
        BY <1>1, <3>1, <3>2, <3>3, <3>4 DEF Next, CommandStep
    <2>2. CASE Check(c)
      <3>1. pidfile = None /\ UNCHANGED <<pidfile, sock, stage>>
        BY <1>1, <2>2 DEF Check, Goto, Busy, Steps, TypeOK, files, daemonVars
      <3>2. \A d \in Daemon : ~Working(d)
        BY <2>2, <3>1, <1>1 DEF Check, Watched, FilesOf, Working, Young, Armed,
            Daemon
      <3> QED
        BY <3>1, <3>2, <1>1 DEF SockHasPid, Working
    <2>3. CASE CleanPid(c)
      BY <1>1, <2>3 DEF CleanPid, Watched, Working, daemonVars
    <2> QED
      BY <2>1, <2>2, <2>3
  <1>2. ControlInv /\ [Next]_vars =>
          [\A c \in Command : kind[c] = "stop" /\ Busy(c) /\ ~Busy(c)' =>
              /\ pidfile' = None /\ sock' = None
              /\ \A d \in Daemon : ~Working(d)']_vars
    BY <1>1
  <1> QED
    BY <1>2, ControlInvariant, PTL DEF Spec, StopStops
==============================================================================
