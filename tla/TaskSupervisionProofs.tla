------------------------ MODULE TaskSupervisionProofs ------------------------
(* Theorems of TaskSupervision and their proofs.                           *)
EXTENDS TaskSupervision, TLAPS, SequenceTheorems

\* An event being stored is one that was read.
StoreHasEvent == \A a \in Agents : pc[a] = "store" => cur[a] \in Reports

\* What a step of the store leaves of the type invariant.
LEMMA StatusOfReport == \A e \in Reports : StatusOf(e) \in Statuses
  BY DEF Reports, StatusOf, Statuses, Live, Terminal

\* Writing to an agent keeps the type of the wires.
LEMMA WriteType ==
  ASSUME TypeOK, NEW a \in Agents, NEW m \in Commands, Write(a, m)
  PROVE  /\ inbox' \in [Agents -> Seq(Commands)]
         /\ conn' \in [Agents -> {"open", "unread", "lost"}]
  <1>1. /\ inbox \in [Agents -> Seq(Commands)]
        /\ conn \in [Agents -> {"open", "unread", "lost"}]
    BY DEF TypeOK
  <1>2. Append(inbox[a], m) \in Seq(Commands)
    BY <1>1, AppendProperties
  <1> QED
    BY <1>1, <1>2 DEF Write

LEMMA SendToType ==
  ASSUME TypeOK, NEW t \in Tasks, NEW m \in Commands, SendTo(t, m)
  PROVE  /\ inbox' \in [Agents -> Seq(Commands)]
         /\ conn' \in [Agents -> {"open", "unread", "lost"}]
  BY WriteType DEF TypeOK, SendTo, wireVars

LEMMA CloseType ==
  ASSUME TypeOK, NEW a \in Agents, Close(a)
  PROVE  /\ inbox' \in [Agents -> Seq(Commands)]
         /\ conn' \in [Agents -> {"open", "unread", "lost"}]
         /\ proc' \in [Agents -> {"none", "boot", "run", "exited"}]
  <1>1. << >> \in Seq(Commands)
    BY EmptySeq
  <1> QED
    BY <1>1 DEF TypeOK, Close

\* Taking the first frame off a queue.
LEMMA TailType ==
  ASSUME NEW D, NEW S, NEW f \in [D -> Seq(S)], NEW x \in D, f[x] # << >>
  PROVE  [f EXCEPT ![x] = Tail(@)] \in [D -> Seq(S)]
  <1>1. Tail(f[x]) \in Seq(S)
    BY HeadTailProperties
  <1> QED
    BY <1>1

TypeInv == TypeOK /\ StoreHasEvent

\* A daemon starts in the types.
THEOREM TypeInvInit == Init => TypeInv
  BY SupervisionAssumption DEF Init, TypeInv, TypeOK, StoreHasEvent, Statuses,
    Places, Voices, WalkSteps

LEMMA TypeInvNext == TypeInv /\ [Next]_vars => TypeInv'
  <1> SUFFICES ASSUME TypeInv, [Next]_vars PROVE TypeInv'
    OBVIOUS
  <1> USE DEF TypeInv
  <1>1. ASSUME NEW a \in Agents, NEW t \in Tasks, Submit(a, t)
        PROVE  TypeInv'
    BY <1>1 DEF Submit, Goto, Create, SetStatus, mgrVars, agentVars, wireVars,
       walkVars, hostVars, TypeOK, StoreHasEvent, Places, LaunchSteps,
       Statuses, Live
  <1>2. ASSUME NEW a \in Agents, NEW t \in Tasks, RetryCheck(a, t)
        PROVE  TypeInv'
    BY <1>2 DEF RetryCheck, Goto, storeVars, mgrVars, agentVars, wireVars,
       walkVars, hostVars, TypeOK, StoreHasEvent, Places
  <1>3. ASSUME NEW o \in Ops, NEW t \in Tasks, Cancel(o, t)
        PROVE  TypeInv'
    <2>1. /\ inbox' \in [Agents -> Seq(Commands)]
          /\ conn' \in [Agents -> {"open", "unread", "lost"}]
      BY <1>3, SendToType DEF Cancel, Commands, TypeOK
    <2> QED
      BY <1>3, <2>1 DEF Cancel, storeVars, mgrVars, launchVars, agentVars,
         hostVars, TypeOK, StoreHasEvent, WalkSteps
  <1>4. ASSUME NEW o \in Ops, NEW t \in Tasks, Notify(o, t)
        PROVE  TypeInv'
    <2>1. /\ inbox' \in [Agents -> Seq(Commands)]
          /\ conn' \in [Agents -> {"open", "unread", "lost"}]
      BY <1>4, SendToType DEF Notify, Commands, TypeOK
    <2> QED
      BY <1>4, <2>1 DEF Notify, storeVars, mgrVars, launchVars, agentVars,
         hostVars, TypeOK, StoreHasEvent, WalkSteps
  <1>5. CASE Clear
    BY <1>5 DEF Clear, mgrVars, launchVars, agentVars, wireVars, walkVars,
       hostVars, TypeOK, StoreHasEvent, Statuses
  <1>6. ASSUME NEW a \in Agents, RetryReset(a)
        PROVE  TypeInv'
    BY <1>6 DEF RetryReset, SetStatus, Goto, mgrVars, launchVars, agentVars,
       wireVars, walkVars, hostVars, TypeOK, StoreHasEvent, Places,
       LaunchSteps, Statuses, Live
  <1>7. ASSUME NEW a \in Agents, Spawn(a)
        PROVE  TypeInv'
    BY <1>7 DEF Spawn, Goto, storeVars, mgrVars, launchVars, wireVars, walkVars,
       hostVars, TypeOK, StoreHasEvent, Places, LaunchSteps
  <1>8. ASSUME NEW a \in Agents, SpawnFail(a)
        PROVE  TypeInv'
    BY <1>8 DEF SpawnFail, Goto, storeVars, mgrVars, launchVars, agentVars,
       wireVars, walkVars, hostVars, TypeOK, StoreHasEvent, Places, Finished
  <1>9. ASSUME NEW a \in Agents, MarkRunning(a)
        PROVE  TypeInv'
    BY <1>9 DEF MarkRunning, SetStatus, Goto, mgrVars, launchVars, agentVars,
       wireVars, walkVars, hostVars, TypeOK, StoreHasEvent, Places,
       LaunchSteps, Statuses, Live
  <1>10. ASSUME NEW a \in Agents, SendExecute(a)
        PROVE  TypeInv'
    <2>1. /\ inbox' \in [Agents -> Seq(Commands)]
          /\ conn' \in [Agents -> {"open", "unread", "lost"}]
      BY <1>10, WriteType DEF SendExecute, Commands, TypeOK
    <2> QED
      BY <1>10, <2>1 DEF SendExecute, Goto, storeVars, mgrVars, launchVars,
         agentVars, walkVars, hostVars, TypeOK, StoreHasEvent, Places,
         ReadSteps, Finished
  <1>11. ASSUME NEW a \in Agents, ReadEvent(a)
        PROVE  TypeInv'
    <2>1. outbox' \in [Agents -> Seq(Frames)]
      BY <1>11, TailType DEF ReadEvent, TypeOK
    <2> QED
      BY <1>11, <2>1 DEF ReadEvent, Goto, mgrVars, launchVars, wireVars,
         walkVars, hostVars, TypeOK, StoreHasEvent, Places, ReadSteps
  <1>12. ASSUME NEW a \in Agents, StoreEvent(a)
        PROVE  TypeInv'
    <2>1. StatusOf(cur[a]) \in Statuses /\ a \in Walkers
      BY <1>12, StatusOfReport DEF StoreEvent, StoreHasEvent, Walkers
    <2> QED
      BY <1>12, <2>1 DEF StoreEvent, SetStatus, Goto, mgrVars, launchVars,
         agentVars, wireVars, hostVars, TypeOK, StoreHasEvent, Places,
         ReadSteps, WalkSteps
  <1>13. ASSUME NEW a \in Agents, ReadEof(a)
        PROVE  TypeInv'
    BY <1>13 DEF ReadEof, Goto, storeVars, mgrVars, launchVars, agentVars,
       wireVars, walkVars, hostVars, TypeOK, StoreHasEvent, Places, ReadSteps
  <1>14. ASSUME NEW a \in Agents, ReadRaises(a)
        PROVE  TypeInv'
    BY <1>14 DEF ReadRaises, Goto, storeVars, mgrVars, launchVars, agentVars,
       wireVars, walkVars, hostVars, TypeOK, StoreHasEvent, Places, ExitSteps
  <1>15. ASSUME NEW a \in Agents, FinalCheck(a)
        PROVE  TypeInv'
    BY <1>15 DEF FinalCheck, Goto, storeVars, mgrVars, launchVars, agentVars,
       wireVars, walkVars, hostVars, TypeOK, StoreHasEvent, Places, ReadSteps,
       ExitSteps
  <1>16. ASSUME NEW a \in Agents, MarkFailed(a)
        PROVE  TypeInv'
    BY <1>16 DEF MarkFailed, SetStatus, Goto, mgrVars, launchVars, agentVars,
       wireVars, walkVars, hostVars, TypeOK, StoreHasEvent, Places, ExitSteps,
       Statuses, Terminal
  <1>17. ASSUME NEW a \in Agents, Cleanup(a)
        PROVE  TypeInv'
    BY <1>17 DEF Cleanup, Goto, storeVars, launchVars, agentVars, walkVars,
       hostVars, TypeOK, StoreHasEvent, Places, Finished, ExitSteps
  <1>18. ASSUME NEW a \in Agents, ServeDone(a)
        PROVE  TypeInv'
    <2>1. /\ inbox' \in [Agents -> Seq(Commands)]
          /\ conn' \in [Agents -> {"open", "unread", "lost"}]
      BY <1>18, WriteType DEF ServeDone, Commands, TypeOK
    <2> QED
      BY <1>18, <2>1 DEF ServeDone, Goto, storeVars, mgrVars, launchVars,
         agentVars, walkVars, hostVars, TypeOK, StoreHasEvent, Places,
         ReadSteps
  <1>19. ASSUME NEW a \in Agents, RejectSubmit(a)
        PROVE  TypeInv'
    <2>1. /\ inbox' \in [Agents -> Seq(Commands)]
          /\ conn' \in [Agents -> {"open", "unread", "lost"}]
      BY <1>19, WriteType DEF RejectSubmit, Commands, TypeOK
    <2>2. outbox' \in [Agents -> Seq(Frames)]
      BY <1>19, TailType DEF RejectSubmit, TypeOK
    <2> QED
      BY <1>19, <2>1, <2>2 DEF RejectSubmit, storeVars, mgrVars, launchVars,
         walkVars, hostVars, TypeOK, StoreHasEvent
  <1>20. ASSUME NEW a \in Agents, NEW b \in Agents, ServeSubmit(a, b)
        PROVE  TypeInv'
    <2>1. outbox' \in [Agents -> Seq(Frames)]
      BY <1>20, TailType DEF ServeSubmit, TypeOK
    <2> QED
      BY <1>20, <2>1 DEF ServeSubmit, Create, SetStatus, mgrVars, wireVars,
         walkVars, hostVars, TypeOK, StoreHasEvent, Places, ReadSteps,
         LaunchSteps, Statuses, Live
  <1>21. ASSUME NEW a \in Agents, Boot(a)
        PROVE  TypeInv'
    <2>1. CASE Close(a)
      BY <1>21, <2>1, CloseType DEF Boot, storeVars, mgrVars, launchVars,
         walkVars, hostVars, TypeOK, StoreHasEvent
    <2>2. CASE ~Close(a)
      <3>0. inbox[a] # << >> /\ inbox' = [inbox EXCEPT ![a] = Tail(@)]
        BY <1>21, <2>2 DEF Boot
      <3>1. inbox' \in [Agents -> Seq(Commands)]
        BY <3>0, TailType DEF TypeOK
      <3>2. proc' = [proc EXCEPT ![a] = "run"] /\ UNCHANGED conn
        BY <1>21, <2>2 DEF Boot
      <3>3. UNCHANGED <<storeVars, mgrVars, launchVars, pc, cur, said, heard,
                        outbox, walkVars, hostVars>>
        BY <1>21 DEF Boot
      <3> QED
        BY <3>1, <3>2, <3>3 DEF storeVars, mgrVars, launchVars, walkVars,
           hostVars, TypeOK, StoreHasEvent
    <2> QED
      BY <2>1, <2>2
  <1>22. ASSUME NEW a \in Agents, Emit(a)
        PROVE  TypeInv'
    BY <1>22 DEF Emit, storeVars, mgrVars, launchVars, wireVars, walkVars,
       hostVars, TypeOK, StoreHasEvent, Voices
  <1>23. ASSUME NEW a \in Agents, Hear(a)
        PROVE  TypeInv'
    BY <1>23 DEF Hear, storeVars, mgrVars, launchVars, walkVars, hostVars,
       TypeOK, StoreHasEvent, Voices
  <1>24. ASSUME NEW a \in Agents, Leave(a)
        PROVE  TypeInv'
    <2>1. /\ inbox' \in [Agents -> Seq(Commands)]
          /\ conn' \in [Agents -> {"open", "unread", "lost"}]
          /\ proc' \in [Agents -> {"none", "boot", "run", "exited"}]
      BY <1>24, CloseType DEF Leave
    <2> QED
      BY <1>24, <2>1 DEF Leave, storeVars, mgrVars, launchVars, walkVars,
         hostVars, TypeOK, StoreHasEvent
  <1>25. ASSUME NEW a \in Agents, Die(a)
        PROVE  TypeInv'
    <2>1. /\ inbox' \in [Agents -> Seq(Commands)]
          /\ conn' \in [Agents -> {"open", "unread", "lost"}]
          /\ proc' \in [Agents -> {"none", "boot", "run", "exited"}]
      BY <1>25, CloseType DEF Die
    <2> QED
      BY <1>25, <2>1 DEF Die, storeVars, mgrVars, launchVars, walkVars,
         hostVars, TypeOK, StoreHasEvent
  <1>26. ASSUME NEW w \in Walkers, Expand(w)
        PROVE  TypeInv'
    BY <1>26 DEF Expand, storeVars, mgrVars, launchVars, agentVars, wireVars,
       hostVars, TypeOK, StoreHasEvent, WalkSteps
  <1>27. ASSUME NEW w \in Walkers, Pick(w)
        PROVE  TypeInv'
    <2>1. /\ inbox' \in [Agents -> Seq(Commands)]
          /\ conn' \in [Agents -> {"open", "unread", "lost"}]
      BY <1>27, SendToType DEF Pick, Commands, TypeOK
    <2> QED
      BY <1>27, <2>1 DEF Pick, storeVars, mgrVars, launchVars, agentVars,
         hostVars, TypeOK, StoreHasEvent, WalkSteps
  <1>28. ASSUME NEW w \in Walkers, Pop(w)
        PROVE  TypeInv'
    <2>1. stack' \in [Walkers -> Seq(SUBSET Tasks)]
      BY <1>28, TailType DEF Pop, TypeOK
    <2> QED
      BY <1>28, <2>1 DEF Pop, Goto, storeVars, mgrVars, launchVars, agentVars,
         wireVars, hostVars, TypeOK, StoreHasEvent, Places, ReadSteps,
         WalkSteps
  <1>29. ASSUME NEW w \in Walkers, Recheck(w)
        PROVE  TypeInv'
    BY <1>29 DEF Recheck, storeVars, mgrVars, launchVars, agentVars, wireVars,
       hostVars, TypeOK, StoreHasEvent, WalkSteps
  <1>30. ASSUME NEW w \in Walkers, MarkCancelled(w)
        PROVE  TypeInv'
    BY <1>30 DEF MarkCancelled, SetStatus, mgrVars, launchVars, agentVars,
       wireVars, hostVars, TypeOK, StoreHasEvent, Statuses, Terminal,
       WalkSteps
  <1>31. ASSUME NEW w \in Walkers, LogCancelled(w)
        PROVE  TypeInv'
    BY <1>31 DEF LogCancelled, mgrVars, launchVars, agentVars, wireVars,
       hostVars, TypeOK, StoreHasEvent, Terminal, WalkSteps
  <1>32. CASE Crash
    <2>1. stack' \in [Walkers -> Seq(SUBSET Tasks)]
      BY <1>32, EmptySeq DEF Crash
    <2>2. crashes' \in 0..MaxCrashes
      BY <1>32, SupervisionAssumption DEF Crash, TypeOK
    <2> QED
      BY <1>32, <2>1, <2>2 DEF Crash, storeVars, launchVars, agentVars,
         TypeOK, StoreHasEvent, Places, Finished, WalkSteps
  <1>33. CASE Restart
    BY <1>33 DEF Restart, mgrVars, launchVars, agentVars, wireVars, walkVars,
       TypeOK, StoreHasEvent, Statuses, Terminal
  <1>34. CASE UNCHANGED vars
    BY <1>34 DEF vars, TypeOK, StoreHasEvent
  <1>35. ASSUME NEW a \in Agents, Register(a)
        PROVE  TypeInv'
    BY <1>35 DEF Register, Goto, storeVars, launchVars, agentVars, wireVars,
       walkVars, hostVars, TypeOK, StoreHasEvent, Places, LaunchSteps
  <1>36. ASSUME NEW a \in Agents, StoreRaises(a)
        PROVE  TypeInv'
    <2>1. UNCHANGED <<storeVars, mgrVars, launchVars, cur, proc, said, heard,
                      wireVars, walkVars, hostVars>>
      BY <1>36 DEF StoreRaises
    <2>2. outbox' \in [Agents -> Seq(Frames)]
      <3>1. CASE outbox' = outbox
        BY <3>1 DEF TypeOK
      <3>2. CASE /\ outbox[a] # << >>
                 /\ outbox' = [outbox EXCEPT ![a] = Tail(@)]
        BY <3>2, TailType DEF TypeOK
      <3> QED
        BY <1>36, <3>1, <3>2 DEF StoreRaises, LaunchRaises, EventRaises, ExitRaises
    <2>3. pc' \in [Agents -> Places] /\ \A b \in Agents : pc'[b] = "store" => pc[b] = "store"
      BY <1>36 DEF StoreRaises, LaunchRaises, EventRaises, ExitRaises, Goto,
         TypeOK, Places, ReadSteps, ExitSteps, Finished
    <2> QED
      BY <2>1, <2>2, <2>3 DEF storeVars, mgrVars, launchVars, wireVars, walkVars,
         hostVars, TypeOK, StoreHasEvent
  <1>37. ASSUME NEW w \in Walkers, WalkRaises(w)
        PROVE  TypeInv'
    <2>1. stack' \in [Walkers -> Seq(SUBSET Tasks)]
      BY <1>37, EmptySeq DEF WalkRaises, TypeOK
    <2> QED
      BY <1>37, <2>1 DEF WalkRaises, Goto, storeVars, mgrVars, launchVars,
         agentVars, wireVars, hostVars, TypeOK, StoreHasEvent, Places, ReadSteps,
         WalkSteps
  <1> QED
    BY <1>1, <1>2, <1>3, <1>4, <1>5, <1>6, <1>7, <1>8, <1>9, <1>10, <1>11,
       <1>12, <1>13, <1>14, <1>15, <1>16, <1>17, <1>18, <1>19, <1>20, <1>21,
       <1>22, <1>23, <1>24, <1>25, <1>26, <1>27, <1>28, <1>29, <1>30, <1>31,
       <1>32, <1>33, <1>34, <1>35, <1>36, <1>37
       DEF Next, Request, Launch, Read, Subprocess, Walk

\* Type correctness: every variable stays in its range, and the event a
\* reader is about to store is one it has read.
THEOREM TypeCorrect == Spec => []TypeOK
  <1>1. TypeInv => TypeOK
    BY DEF TypeInv
  <1> QED
    BY TypeInvInit, TypeInvNext, <1>1, PTL DEF Spec

\* No request, launch, event, exit or crash leaves them.
THEOREM TypeInvariant == Spec => []TypeInv
  BY TypeInvInit, TypeInvNext, PTL DEF Spec

-----------------------------------------------------------------------------
(* A reader does nothing else while it walks its task's children.          *)

ReaderWaits == \A a \in Agents :
                  cstep[a] \notin {"idle", "over"} => pc[a] = "cascade"

LEMMA WalkInit == Init => ReaderWaits
  BY DEF Init, ReaderWaits, Walkers

LEMMA WalkNext == TypeInv /\ ReaderWaits /\ [Next]_vars => ReaderWaits'
  <1> SUFFICES ASSUME TypeInv, ReaderWaits, [Next]_vars PROVE ReaderWaits'
    OBVIOUS
  <1>0. /\ pc \in [Agents -> Places] /\ cstep \in [Walkers -> WalkSteps]
        /\ Agents \subseteq Walkers /\ Ops \subseteq Walkers
        /\ Agents \cap Ops = {}
    BY SupervisionAssumption DEF TypeInv, TypeOK, Walkers
  <1>1. ASSUME NEW a \in Agents, NEW t \in Tasks, Submit(a, t)
        PROVE  ReaderWaits'
    BY <1>1, <1>0 DEF Submit, Goto, Create, SetStatus, mgrVars, agentVars,
       wireVars, walkVars, hostVars, ReaderWaits
  <1>2. ASSUME NEW a \in Agents, NEW t \in Tasks, RetryCheck(a, t)
        PROVE  ReaderWaits'
    BY <1>2, <1>0 DEF RetryCheck, Goto, storeVars, mgrVars, agentVars,
       wireVars, walkVars, hostVars, ReaderWaits
  <1>3. ASSUME NEW o \in Ops, NEW t \in Tasks, Cancel(o, t)
        PROVE  ReaderWaits'
    BY <1>3, <1>0 DEF Cancel, storeVars, mgrVars, launchVars, agentVars,
       hostVars, ReaderWaits
  <1>4. ASSUME NEW o \in Ops, NEW t \in Tasks, Notify(o, t)
        PROVE  ReaderWaits'
    BY <1>4, <1>0 DEF Notify, storeVars, mgrVars, launchVars, agentVars,
       hostVars, ReaderWaits
  <1>5. CASE Clear
    BY <1>5, <1>0 DEF Clear, mgrVars, launchVars, agentVars, wireVars,
       walkVars, hostVars, ReaderWaits
  <1>6. ASSUME NEW a \in Agents, RetryReset(a)
        PROVE  ReaderWaits'
    BY <1>6, <1>0 DEF RetryReset, SetStatus, Goto, mgrVars, launchVars,
       agentVars, wireVars, walkVars, hostVars, ReaderWaits
  <1>7. ASSUME NEW a \in Agents, Spawn(a)
        PROVE  ReaderWaits'
    BY <1>7, <1>0 DEF Spawn, Goto, storeVars, mgrVars, launchVars, wireVars, walkVars,
       hostVars, ReaderWaits
  <1>8. ASSUME NEW a \in Agents, SpawnFail(a)
        PROVE  ReaderWaits'
    BY <1>8, <1>0 DEF SpawnFail, Goto, storeVars, mgrVars, launchVars,
       agentVars, wireVars, walkVars, hostVars, ReaderWaits
  <1>9. ASSUME NEW a \in Agents, MarkRunning(a)
        PROVE  ReaderWaits'
    BY <1>9, <1>0 DEF MarkRunning, SetStatus, Goto, mgrVars, launchVars,
       agentVars, wireVars, walkVars, hostVars, ReaderWaits
  <1>10. ASSUME NEW a \in Agents, SendExecute(a)
        PROVE  ReaderWaits'
    BY <1>10, <1>0 DEF SendExecute, Goto, storeVars, mgrVars, launchVars,
       agentVars, walkVars, hostVars, ReaderWaits
  <1>11. ASSUME NEW a \in Agents, ReadEvent(a)
        PROVE  ReaderWaits'
    BY <1>11, <1>0 DEF ReadEvent, Goto, mgrVars, launchVars, wireVars,
       walkVars, hostVars, ReaderWaits
  <1>12. ASSUME NEW a \in Agents, StoreEvent(a)
        PROVE  ReaderWaits'
    BY <1>12, <1>0 DEF StoreEvent, SetStatus, Goto, mgrVars, launchVars,
       agentVars, wireVars, hostVars, ReaderWaits
  <1>13. ASSUME NEW a \in Agents, ReadEof(a)
        PROVE  ReaderWaits'
    BY <1>13, <1>0 DEF ReadEof, Goto, storeVars, mgrVars, launchVars,
       agentVars, wireVars, walkVars, hostVars, ReaderWaits
  <1>14. ASSUME NEW a \in Agents, ReadRaises(a)
        PROVE  ReaderWaits'
    BY <1>14, <1>0 DEF ReadRaises, Goto, storeVars, mgrVars, launchVars,
       agentVars, wireVars, walkVars, hostVars, ReaderWaits
  <1>15. ASSUME NEW a \in Agents, FinalCheck(a)
        PROVE  ReaderWaits'
    BY <1>15, <1>0 DEF FinalCheck, Goto, storeVars, mgrVars, launchVars,
       agentVars, wireVars, walkVars, hostVars, ReaderWaits
  <1>16. ASSUME NEW a \in Agents, MarkFailed(a)
        PROVE  ReaderWaits'
    BY <1>16, <1>0 DEF MarkFailed, SetStatus, Goto, mgrVars, launchVars,
       agentVars, wireVars, walkVars, hostVars, ReaderWaits
  <1>17. ASSUME NEW a \in Agents, Cleanup(a)
        PROVE  ReaderWaits'
    BY <1>17, <1>0 DEF Cleanup, Goto, storeVars, launchVars, agentVars,
       walkVars, hostVars, ReaderWaits, ExitSteps
  <1>18. ASSUME NEW a \in Agents, ServeDone(a)
        PROVE  ReaderWaits'
    BY <1>18, <1>0 DEF ServeDone, Goto, storeVars, mgrVars, launchVars,
       agentVars, walkVars, hostVars, ReaderWaits
  <1>19. ASSUME NEW a \in Agents, RejectSubmit(a)
        PROVE  ReaderWaits'
    BY <1>19, <1>0 DEF RejectSubmit, storeVars, mgrVars, launchVars, walkVars,
       hostVars, ReaderWaits
  <1>20. ASSUME NEW a \in Agents, NEW b \in Agents, ServeSubmit(a, b)
        PROVE  ReaderWaits'
    BY <1>20, <1>0 DEF ServeSubmit, Create, SetStatus, mgrVars, wireVars,
       walkVars, hostVars, ReaderWaits
  <1>21. ASSUME NEW a \in Agents, Boot(a)
        PROVE  ReaderWaits'
    BY <1>21, <1>0 DEF Boot, storeVars, mgrVars, launchVars, walkVars,
       hostVars, ReaderWaits
  <1>22. ASSUME NEW a \in Agents, Emit(a)
        PROVE  ReaderWaits'
    BY <1>22, <1>0 DEF Emit, storeVars, mgrVars, launchVars, wireVars,
       walkVars, hostVars, ReaderWaits
  <1>23. ASSUME NEW a \in Agents, Hear(a)
        PROVE  ReaderWaits'
    BY <1>23, <1>0 DEF Hear, storeVars, mgrVars, launchVars, walkVars,
       hostVars, ReaderWaits
  <1>24. ASSUME NEW a \in Agents, Leave(a)
        PROVE  ReaderWaits'
    BY <1>24, <1>0 DEF Leave, storeVars, mgrVars, launchVars, walkVars,
       hostVars, ReaderWaits
  <1>25. ASSUME NEW a \in Agents, Die(a)
        PROVE  ReaderWaits'
    BY <1>25, <1>0 DEF Die, storeVars, mgrVars, launchVars, walkVars,
       hostVars, ReaderWaits
  <1>26. ASSUME NEW w \in Walkers, Expand(w)
        PROVE  ReaderWaits'
    BY <1>26, <1>0 DEF Expand, storeVars, mgrVars, launchVars, agentVars,
       wireVars, hostVars, ReaderWaits
  <1>27. ASSUME NEW w \in Walkers, Pick(w)
        PROVE  ReaderWaits'
    BY <1>27, <1>0 DEF Pick, storeVars, mgrVars, launchVars, agentVars,
       hostVars, ReaderWaits
  <1>28. ASSUME NEW w \in Walkers, Pop(w)
        PROVE  ReaderWaits'
    BY <1>28, <1>0 DEF Pop, Goto, storeVars, mgrVars, launchVars, agentVars,
       wireVars, hostVars, ReaderWaits
  <1>29. ASSUME NEW w \in Walkers, Recheck(w)
        PROVE  ReaderWaits'
    BY <1>29, <1>0 DEF Recheck, storeVars, mgrVars, launchVars, agentVars,
       wireVars, hostVars, ReaderWaits
  <1>30. ASSUME NEW w \in Walkers, MarkCancelled(w)
        PROVE  ReaderWaits'
    BY <1>30, <1>0 DEF MarkCancelled, SetStatus, mgrVars, launchVars,
       agentVars, wireVars, hostVars, ReaderWaits
  <1>31. ASSUME NEW w \in Walkers, LogCancelled(w)
        PROVE  ReaderWaits'
    BY <1>31, <1>0 DEF LogCancelled, mgrVars, launchVars, agentVars, wireVars,
       hostVars, ReaderWaits
  <1>32. CASE Crash
    BY <1>32, <1>0 DEF Crash, storeVars, launchVars, agentVars, ReaderWaits
  <1>33. CASE Restart
    BY <1>33, <1>0 DEF Restart, mgrVars, launchVars, agentVars, wireVars,
       walkVars, ReaderWaits
  <1>34. CASE UNCHANGED vars
    BY <1>34, <1>0 DEF vars, ReaderWaits
  <1>35. ASSUME NEW a \in Agents, Register(a)
        PROVE  ReaderWaits'
    BY <1>35, <1>0 DEF Register, Goto, storeVars, launchVars, agentVars,
       wireVars, walkVars, hostVars, ReaderWaits
  <1>36. ASSUME NEW a \in Agents, StoreRaises(a)
        PROVE  ReaderWaits'
    BY <1>36, <1>0 DEF StoreRaises, LaunchRaises, EventRaises, ExitRaises,
       Goto, storeVars, mgrVars, launchVars, wireVars, walkVars, hostVars,
       ReaderWaits
  <1>37. ASSUME NEW w \in Walkers, WalkRaises(w)
        PROVE  ReaderWaits'
    BY <1>37, <1>0 DEF WalkRaises, Goto, storeVars, mgrVars, launchVars,
       agentVars, wireVars, hostVars, ReaderWaits
  <1> QED
    BY <1>1, <1>2, <1>3, <1>4, <1>5, <1>6, <1>7, <1>8, <1>9, <1>10, <1>11,
       <1>12, <1>13, <1>14, <1>15, <1>16, <1>17, <1>18, <1>19, <1>20, <1>21,
       <1>22, <1>23, <1>24, <1>25, <1>26, <1>27, <1>28, <1>29, <1>30, <1>31,
       <1>32, <1>33, <1>34, <1>35, <1>36, <1>37
       DEF Next, Request, Launch, Read, Subprocess, Walk

-----------------------------------------------------------------------------
(* The manager's two tables.                                               *)

\* A launch that has begun is for a task, and only a launch that has begun
\* has a handle.
BegunHasTask == \A a \in Agents :
                   /\ pc[a] # "free" => task[a] \in Tasks
                   /\ a \in handles => pc[a] # "free"
RouteInv == BegunHasTask /\ RouteFollowsHandle

LEMMA RouteInit == Init => RouteInv
  BY DEF Init, RouteInv, BegunHasTask, RouteFollowsHandle

LEMMA RouteNext ==
  TypeInv /\ ReaderWaits /\ RouteInv /\ [Next]_vars => RouteInv'
  <1> SUFFICES ASSUME TypeInv, ReaderWaits, RouteInv, [Next]_vars PROVE RouteInv'
    OBVIOUS
  <1>0. /\ pc \in [Agents -> Places] /\ task \in [Agents -> Tasks \cup {None}]
        /\ route \in [Tasks -> Agents \cup {None}] /\ handles \subseteq Agents
        /\ None \notin Tasks \cup Agents
    BY SupervisionAssumption DEF TypeInv, TypeOK
  <1>1. ASSUME NEW a \in Agents, NEW t \in Tasks, Submit(a, t)
        PROVE  RouteInv'
    BY <1>1, <1>0 DEF Submit, Goto, Create, SetStatus, mgrVars, agentVars,
       wireVars, walkVars, hostVars, RouteInv, BegunHasTask,
       RouteFollowsHandle
  <1>2. ASSUME NEW a \in Agents, NEW t \in Tasks, RetryCheck(a, t)
        PROVE  RouteInv'
    BY <1>2, <1>0 DEF RetryCheck, Goto, storeVars, mgrVars, agentVars,
       wireVars, walkVars, hostVars, RouteInv, BegunHasTask,
       RouteFollowsHandle
  <1>3. ASSUME NEW o \in Ops, NEW t \in Tasks, Cancel(o, t)
        PROVE  RouteInv'
    BY <1>3, <1>0 DEF Cancel, storeVars, mgrVars, launchVars, agentVars,
       hostVars, RouteInv, BegunHasTask, RouteFollowsHandle
  <1>4. ASSUME NEW o \in Ops, NEW t \in Tasks, Notify(o, t)
        PROVE  RouteInv'
    BY <1>4, <1>0 DEF Notify, storeVars, mgrVars, launchVars, agentVars,
       hostVars, RouteInv, BegunHasTask, RouteFollowsHandle
  <1>5. CASE Clear
    BY <1>5, <1>0 DEF Clear, mgrVars, launchVars, agentVars, wireVars,
       walkVars, hostVars, RouteInv, BegunHasTask, RouteFollowsHandle
  <1>6. ASSUME NEW a \in Agents, RetryReset(a)
        PROVE  RouteInv'
    BY <1>6, <1>0 DEF RetryReset, SetStatus, Goto, mgrVars, launchVars,
       agentVars, wireVars, walkVars, hostVars, RouteInv, BegunHasTask,
       RouteFollowsHandle
  <1>7. ASSUME NEW a \in Agents, Spawn(a)
        PROVE  RouteInv'
    BY <1>7, <1>0 DEF Spawn, Goto, storeVars, mgrVars, launchVars, wireVars, walkVars,
       hostVars, RouteInv, BegunHasTask, RouteFollowsHandle
  <1>8. ASSUME NEW a \in Agents, SpawnFail(a)
        PROVE  RouteInv'
    BY <1>8, <1>0 DEF SpawnFail, Goto, storeVars, mgrVars, launchVars,
       agentVars, wireVars, walkVars, hostVars, RouteInv, BegunHasTask,
       RouteFollowsHandle
  <1>9. ASSUME NEW a \in Agents, MarkRunning(a)
        PROVE  RouteInv'
    BY <1>9, <1>0 DEF MarkRunning, SetStatus, Goto, mgrVars, launchVars,
       agentVars, wireVars, walkVars, hostVars, RouteInv, BegunHasTask,
       RouteFollowsHandle
  <1>10. ASSUME NEW a \in Agents, SendExecute(a)
        PROVE  RouteInv'
    BY <1>10, <1>0 DEF SendExecute, Goto, storeVars, mgrVars, launchVars,
       agentVars, walkVars, hostVars, RouteInv, BegunHasTask,
       RouteFollowsHandle
  <1>11. ASSUME NEW a \in Agents, ReadEvent(a)
        PROVE  RouteInv'
    BY <1>11, <1>0 DEF ReadEvent, Goto, mgrVars, launchVars, wireVars,
       walkVars, hostVars, RouteInv, BegunHasTask, RouteFollowsHandle
  <1>12. ASSUME NEW a \in Agents, StoreEvent(a)
        PROVE  RouteInv'
    BY <1>12, <1>0 DEF StoreEvent, SetStatus, Goto, mgrVars, launchVars,
       agentVars, wireVars, hostVars, RouteInv, BegunHasTask,
       RouteFollowsHandle
  <1>13. ASSUME NEW a \in Agents, ReadEof(a)
        PROVE  RouteInv'
    BY <1>13, <1>0 DEF ReadEof, Goto, storeVars, mgrVars, launchVars,
       agentVars, wireVars, walkVars, hostVars, RouteInv, BegunHasTask,
       RouteFollowsHandle
  <1>14. ASSUME NEW a \in Agents, ReadRaises(a)
        PROVE  RouteInv'
    BY <1>14, <1>0 DEF ReadRaises, Goto, storeVars, mgrVars, launchVars,
       agentVars, wireVars, walkVars, hostVars, RouteInv, BegunHasTask,
       RouteFollowsHandle
  <1>15. ASSUME NEW a \in Agents, FinalCheck(a)
        PROVE  RouteInv'
    BY <1>15, <1>0 DEF FinalCheck, Goto, storeVars, mgrVars, launchVars,
       agentVars, wireVars, walkVars, hostVars, RouteInv, BegunHasTask,
       RouteFollowsHandle
  <1>16. ASSUME NEW a \in Agents, MarkFailed(a)
        PROVE  RouteInv'
    BY <1>16, <1>0 DEF MarkFailed, SetStatus, Goto, mgrVars, launchVars,
       agentVars, wireVars, walkVars, hostVars, RouteInv, BegunHasTask,
       RouteFollowsHandle
  <1>17. ASSUME NEW a \in Agents, Cleanup(a)
        PROVE  RouteInv'
    <2>1. /\ handles' = handles \ {a} /\ route' = [route EXCEPT ![task[a]] = None]
          /\ task' = task /\ pc[a] # "free"
          /\ pc' = [pc EXCEPT ![a] = IF pc[a] = "clean" THEN "done" ELSE "torn"]
      BY <1>17 DEF Cleanup, ExitSteps, Goto, launchVars
    <2>2. BegunHasTask'
      BY <2>1, <1>0 DEF RouteInv, BegunHasTask
    <2>3. ASSUME NEW t \in Tasks, route'[t] # None
          PROVE  route'[t] \in handles' /\ task'[route'[t]] = t
      <3>1. t # task[a] /\ route'[t] = route[t]
        BY <2>1, <2>3, <1>0
      <3> QED
        BY <2>1, <2>3, <3>1, <1>0 DEF RouteInv, RouteFollowsHandle
    <2> QED
      BY <2>2, <2>3 DEF RouteInv, RouteFollowsHandle
  <1>18. ASSUME NEW a \in Agents, ServeDone(a)
        PROVE  RouteInv'
    BY <1>18, <1>0 DEF ServeDone, Goto, storeVars, mgrVars, launchVars,
       agentVars, walkVars, hostVars, RouteInv, BegunHasTask,
       RouteFollowsHandle
  <1>19. ASSUME NEW a \in Agents, RejectSubmit(a)
        PROVE  RouteInv'
    BY <1>19, <1>0 DEF RejectSubmit, storeVars, mgrVars, launchVars, walkVars,
       hostVars, RouteInv, BegunHasTask, RouteFollowsHandle
  <1>20. ASSUME NEW a \in Agents, NEW b \in Agents, ServeSubmit(a, b)
        PROVE  RouteInv'
    BY <1>20, <1>0 DEF ServeSubmit, Create, SetStatus, mgrVars, wireVars,
       walkVars, hostVars, RouteInv, BegunHasTask, RouteFollowsHandle
  <1>21. ASSUME NEW a \in Agents, Boot(a)
        PROVE  RouteInv'
    BY <1>21, <1>0 DEF Boot, storeVars, mgrVars, launchVars, walkVars,
       hostVars, RouteInv, BegunHasTask, RouteFollowsHandle
  <1>22. ASSUME NEW a \in Agents, Emit(a)
        PROVE  RouteInv'
    BY <1>22, <1>0 DEF Emit, storeVars, mgrVars, launchVars, wireVars,
       walkVars, hostVars, RouteInv, BegunHasTask, RouteFollowsHandle
  <1>23. ASSUME NEW a \in Agents, Hear(a)
        PROVE  RouteInv'
    BY <1>23, <1>0 DEF Hear, storeVars, mgrVars, launchVars, walkVars,
       hostVars, RouteInv, BegunHasTask, RouteFollowsHandle
  <1>24. ASSUME NEW a \in Agents, Leave(a)
        PROVE  RouteInv'
    BY <1>24, <1>0 DEF Leave, storeVars, mgrVars, launchVars, walkVars,
       hostVars, RouteInv, BegunHasTask, RouteFollowsHandle
  <1>25. ASSUME NEW a \in Agents, Die(a)
        PROVE  RouteInv'
    BY <1>25, <1>0 DEF Die, storeVars, mgrVars, launchVars, walkVars,
       hostVars, RouteInv, BegunHasTask, RouteFollowsHandle
  <1>26. ASSUME NEW w \in Walkers, Expand(w)
        PROVE  RouteInv'
    BY <1>26, <1>0 DEF Expand, storeVars, mgrVars, launchVars, agentVars,
       wireVars, hostVars, RouteInv, BegunHasTask, RouteFollowsHandle
  <1>27. ASSUME NEW w \in Walkers, Pick(w)
        PROVE  RouteInv'
    BY <1>27, <1>0 DEF Pick, storeVars, mgrVars, launchVars, agentVars,
       hostVars, RouteInv, BegunHasTask, RouteFollowsHandle
  <1>28. ASSUME NEW w \in Walkers, Pop(w)
        PROVE  RouteInv'
    BY <1>28, <1>0 DEF Pop, Goto, storeVars, mgrVars, launchVars, agentVars,
       wireVars, hostVars, RouteInv, BegunHasTask, RouteFollowsHandle,
       ReaderWaits
  <1>29. ASSUME NEW w \in Walkers, Recheck(w)
        PROVE  RouteInv'
    BY <1>29, <1>0 DEF Recheck, storeVars, mgrVars, launchVars, agentVars,
       wireVars, hostVars, RouteInv, BegunHasTask, RouteFollowsHandle
  <1>30. ASSUME NEW w \in Walkers, MarkCancelled(w)
        PROVE  RouteInv'
    BY <1>30, <1>0 DEF MarkCancelled, SetStatus, mgrVars, launchVars,
       agentVars, wireVars, hostVars, RouteInv, BegunHasTask,
       RouteFollowsHandle
  <1>31. ASSUME NEW w \in Walkers, LogCancelled(w)
        PROVE  RouteInv'
    BY <1>31, <1>0 DEF LogCancelled, mgrVars, launchVars, agentVars, wireVars,
       hostVars, RouteInv, BegunHasTask, RouteFollowsHandle
  <1>32. CASE Crash
    BY <1>32, <1>0 DEF Crash, storeVars, launchVars, agentVars, RouteInv,
       BegunHasTask, RouteFollowsHandle
  <1>33. CASE Restart
    BY <1>33, <1>0 DEF Restart, mgrVars, launchVars, agentVars, wireVars,
       walkVars, RouteInv, BegunHasTask, RouteFollowsHandle
  <1>34. CASE UNCHANGED vars
    BY <1>34, <1>0 DEF vars, RouteInv, BegunHasTask, RouteFollowsHandle
  <1>35. ASSUME NEW a \in Agents, Register(a)
        PROVE  RouteInv'
    BY <1>35, <1>0 DEF Register, Goto, storeVars, launchVars, agentVars,
       wireVars, walkVars, hostVars, RouteInv, BegunHasTask,
       RouteFollowsHandle, ReaderWaits
  <1>36. ASSUME NEW a \in Agents, StoreRaises(a)
        PROVE  RouteInv'
    BY <1>36, <1>0 DEF StoreRaises, LaunchRaises, EventRaises, ExitRaises,
       Goto, storeVars, mgrVars, launchVars, wireVars, walkVars, hostVars,
       RouteInv, BegunHasTask, RouteFollowsHandle, ReaderWaits
  <1>37. ASSUME NEW w \in Walkers, WalkRaises(w)
        PROVE  RouteInv'
    BY <1>37, <1>0 DEF WalkRaises, Goto, storeVars, mgrVars, launchVars,
       agentVars, wireVars, hostVars, RouteInv, BegunHasTask,
       RouteFollowsHandle, ReaderWaits
  <1> QED
    BY <1>1, <1>2, <1>3, <1>4, <1>5, <1>6, <1>7, <1>8, <1>9, <1>10, <1>11,
       <1>12, <1>13, <1>14, <1>15, <1>16, <1>17, <1>18, <1>19, <1>20, <1>21,
       <1>22, <1>23, <1>24, <1>25, <1>26, <1>27, <1>28, <1>29, <1>30, <1>31,
       <1>32, <1>33, <1>34, <1>35, <1>36, <1>37
       DEF Next, Request, Launch, Read, Subprocess, Walk

\* A task is only ever routed to an agent that has a handle and that was
\* launched for it, however launches, retries and cleanups overlap.
THEOREM RouteCorrect == Spec => []RouteFollowsHandle
  <1>1. RouteInv => RouteFollowsHandle
    BY DEF RouteInv
  <1> QED
    BY RouteInit, RouteNext, WalkInit, WalkNext, TypeInvariant, <1>1, PTL
       DEF Spec

-----------------------------------------------------------------------------
(* Supervision.                                                            *)

LEMMA SupervisedInit == Init => Supervised
  BY DEF Init, Supervised

LEMMA SupervisedNext ==
  TypeInv /\ ReaderWaits /\ RouteInv /\ Supervised /\ [Next]_vars => Supervised'
  <1> SUFFICES ASSUME TypeInv, ReaderWaits, RouteInv, Supervised, [Next]_vars
               PROVE  Supervised'
    OBVIOUS
  <1>0. /\ pc \in [Agents -> Places] /\ task \in [Agents -> Tasks \cup {None}]
        /\ status \in [Tasks -> Statuses] /\ up \in BOOLEAN
        /\ \A a \in Agents : pc[a] = "store" => cur[a] \in Reports
        /\ \A a \in Agents : pc[a] # "free" => task[a] \in Tasks
    BY DEF TypeInv, TypeOK, StoreHasEvent, RouteInv, BegunHasTask
  <1> USE DEF LaunchSteps, ReadSteps
  <1>1. ASSUME NEW a \in Agents, NEW t \in Tasks, Submit(a, t)
        PROVE  Supervised'
    BY <1>1, <1>0 DEF Submit, Goto, Create, SetStatus, mgrVars, agentVars,
       wireVars, walkVars, hostVars, Supervised, Attends
  <1>2. ASSUME NEW a \in Agents, NEW t \in Tasks, RetryCheck(a, t)
        PROVE  Supervised'
    BY <1>2, <1>0 DEF RetryCheck, Goto, storeVars, mgrVars, agentVars,
       wireVars, walkVars, hostVars, Supervised, Attends
  <1>3. ASSUME NEW o \in Ops, NEW t \in Tasks, Cancel(o, t)
        PROVE  Supervised'
    BY <1>3, <1>0 DEF Cancel, storeVars, mgrVars, launchVars, agentVars,
       hostVars, Supervised, Attends
  <1>4. ASSUME NEW o \in Ops, NEW t \in Tasks, Notify(o, t)
        PROVE  Supervised'
    BY <1>4, <1>0 DEF Notify, storeVars, mgrVars, launchVars, agentVars,
       hostVars, Supervised, Attends
  <1>5. CASE Clear
    BY <1>5, <1>0 DEF Clear, mgrVars, launchVars, agentVars, wireVars,
       walkVars, hostVars, Supervised, Attends, Terminal
  <1>6. ASSUME NEW a \in Agents, RetryReset(a)
        PROVE  Supervised'
    BY <1>6, <1>0 DEF RetryReset, SetStatus, Goto, mgrVars, launchVars,
       agentVars, wireVars, walkVars, hostVars, Supervised, Attends
  <1>7. ASSUME NEW a \in Agents, Spawn(a)
        PROVE  Supervised'
    BY <1>7, <1>0 DEF Spawn, Goto, storeVars, mgrVars, launchVars, wireVars, walkVars,
       hostVars, Supervised, Attends
  <1>8. ASSUME NEW a \in Agents, SpawnFail(a)
        PROVE  Supervised'
    BY <1>8, <1>0 DEF SpawnFail, Goto, storeVars, mgrVars, launchVars,
       agentVars, wireVars, walkVars, hostVars, Supervised, Attends
  <1>9. ASSUME NEW a \in Agents, MarkRunning(a)
        PROVE  Supervised'
    BY <1>9, <1>0 DEF MarkRunning, SetStatus, Goto, mgrVars, launchVars,
       agentVars, wireVars, walkVars, hostVars, Supervised, Attends
  <1>10. ASSUME NEW a \in Agents, SendExecute(a)
        PROVE  Supervised'
    BY <1>10, <1>0 DEF SendExecute, Goto, storeVars, mgrVars, launchVars,
       agentVars, walkVars, hostVars, Supervised, Attends
  <1>11. ASSUME NEW a \in Agents, ReadEvent(a)
        PROVE  Supervised'
    BY <1>11, <1>0 DEF ReadEvent, Goto, mgrVars, launchVars, wireVars,
       walkVars, hostVars, Supervised, Attends
  <1>12. ASSUME NEW a \in Agents, StoreEvent(a)
        PROVE  Supervised'
    BY <1>12, <1>0 DEF StoreEvent, SetStatus, Goto, mgrVars, launchVars,
       agentVars, wireVars, hostVars, Supervised, Attends, StatusOf, Reports,
       Terminal
  <1>13. ASSUME NEW a \in Agents, ReadEof(a)
        PROVE  Supervised'
    BY <1>13, <1>0 DEF ReadEof, Goto, storeVars, mgrVars, launchVars,
       agentVars, wireVars, walkVars, hostVars, Supervised, Attends
  <1>14. ASSUME NEW a \in Agents, ReadRaises(a)
        PROVE  Supervised'
    BY <1>14, <1>0 DEF ReadRaises, Goto, storeVars, mgrVars, launchVars,
       agentVars, wireVars, walkVars, hostVars, Supervised, Attends
  <1>15. ASSUME NEW a \in Agents, FinalCheck(a)
        PROVE  Supervised'
    BY <1>15, <1>0 DEF FinalCheck, Goto, storeVars, mgrVars, launchVars,
       agentVars, wireVars, walkVars, hostVars, Supervised, Attends
  <1>16. ASSUME NEW a \in Agents, MarkFailed(a)
        PROVE  Supervised'
    BY <1>16, <1>0 DEF MarkFailed, SetStatus, Goto, mgrVars, launchVars,
       agentVars, wireVars, walkVars, hostVars, Supervised, Attends
  <1>17. ASSUME NEW a \in Agents, Cleanup(a)
        PROVE  Supervised'
    BY <1>17, <1>0 DEF Cleanup, Goto, storeVars, launchVars, agentVars,
       walkVars, hostVars, Supervised, Attends, ExitSteps
  <1>18. ASSUME NEW a \in Agents, ServeDone(a)
        PROVE  Supervised'
    BY <1>18, <1>0 DEF ServeDone, Goto, storeVars, mgrVars, launchVars,
       agentVars, walkVars, hostVars, Supervised, Attends
  <1>19. ASSUME NEW a \in Agents, RejectSubmit(a)
        PROVE  Supervised'
    BY <1>19, <1>0 DEF RejectSubmit, storeVars, mgrVars, launchVars, walkVars,
       hostVars, Supervised, Attends
  <1>20. ASSUME NEW a \in Agents, NEW b \in Agents, ServeSubmit(a, b)
        PROVE  Supervised'
    BY <1>20, <1>0 DEF ServeSubmit, Create, SetStatus, mgrVars, wireVars,
       walkVars, hostVars, Supervised, Attends
  <1>21. ASSUME NEW a \in Agents, Boot(a)
        PROVE  Supervised'
    BY <1>21, <1>0 DEF Boot, storeVars, mgrVars, launchVars, walkVars,
       hostVars, Supervised, Attends
  <1>22. ASSUME NEW a \in Agents, Emit(a)
        PROVE  Supervised'
    BY <1>22, <1>0 DEF Emit, storeVars, mgrVars, launchVars, wireVars,
       walkVars, hostVars, Supervised, Attends
  <1>23. ASSUME NEW a \in Agents, Hear(a)
        PROVE  Supervised'
    BY <1>23, <1>0 DEF Hear, storeVars, mgrVars, launchVars, walkVars,
       hostVars, Supervised, Attends
  <1>24. ASSUME NEW a \in Agents, Leave(a)
        PROVE  Supervised'
    BY <1>24, <1>0 DEF Leave, storeVars, mgrVars, launchVars, walkVars,
       hostVars, Supervised, Attends
  <1>25. ASSUME NEW a \in Agents, Die(a)
        PROVE  Supervised'
    BY <1>25, <1>0 DEF Die, storeVars, mgrVars, launchVars, walkVars,
       hostVars, Supervised, Attends
  <1>26. ASSUME NEW w \in Walkers, Expand(w)
        PROVE  Supervised'
    BY <1>26, <1>0 DEF Expand, storeVars, mgrVars, launchVars, agentVars,
       wireVars, hostVars, Supervised, Attends
  <1>27. ASSUME NEW w \in Walkers, Pick(w)
        PROVE  Supervised'
    BY <1>27, <1>0 DEF Pick, storeVars, mgrVars, launchVars, agentVars,
       hostVars, Supervised, Attends
  <1>28. ASSUME NEW w \in Walkers, Pop(w)
        PROVE  Supervised'
    BY <1>28, <1>0 DEF Pop, Goto, storeVars, mgrVars, launchVars, agentVars,
       wireVars, hostVars, Supervised, Attends, ReaderWaits
  <1>29. ASSUME NEW w \in Walkers, Recheck(w)
        PROVE  Supervised'
    BY <1>29, <1>0 DEF Recheck, storeVars, mgrVars, launchVars, agentVars,
       wireVars, hostVars, Supervised, Attends
  <1>30. ASSUME NEW w \in Walkers, MarkCancelled(w)
        PROVE  Supervised'
    BY <1>30, <1>0 DEF MarkCancelled, SetStatus, mgrVars, launchVars,
       agentVars, wireVars, hostVars, Supervised, Attends
  <1>31. ASSUME NEW w \in Walkers, LogCancelled(w)
        PROVE  Supervised'
    BY <1>31, <1>0 DEF LogCancelled, mgrVars, launchVars, agentVars, wireVars,
       hostVars, Supervised, Attends
  <1>32. CASE Crash
    BY <1>32, <1>0 DEF Crash, storeVars, launchVars, agentVars, Supervised,
       Attends
  <1>33. CASE Restart
    BY <1>33, <1>0 DEF Restart, mgrVars, launchVars, agentVars, wireVars,
       walkVars, Supervised, Attends, Live, Statuses, Terminal
  <1>34. CASE UNCHANGED vars
    BY <1>34, <1>0 DEF vars, Supervised, Attends
  <1>35. ASSUME NEW a \in Agents, Register(a)
        PROVE  Supervised'
    BY <1>35, <1>0 DEF Register, Goto, storeVars, launchVars, agentVars,
       wireVars, walkVars, hostVars, Supervised, Attends, ReaderWaits
  <1>36. ASSUME NEW a \in Agents, StoreRaises(a)
        PROVE  Supervised'
    BY <1>36, <1>0 DEF StoreRaises, LaunchRaises, EventRaises, ExitRaises,
       Goto, storeVars, mgrVars, launchVars, wireVars, walkVars, hostVars,
       Supervised, Attends, ReaderWaits
  <1>37. ASSUME NEW w \in Walkers, WalkRaises(w)
        PROVE  Supervised'
    BY <1>37, <1>0 DEF WalkRaises, Goto, storeVars, mgrVars, launchVars,
       agentVars, wireVars, hostVars, Supervised, Attends, ReaderWaits
  <1> QED
    BY <1>1, <1>2, <1>3, <1>4, <1>5, <1>6, <1>7, <1>8, <1>9, <1>10, <1>11,
       <1>12, <1>13, <1>14, <1>15, <1>16, <1>17, <1>18, <1>19, <1>20, <1>21,
       <1>22, <1>23, <1>24, <1>25, <1>26, <1>27, <1>28, <1>29, <1>30, <1>31,
       <1>32, <1>33, <1>34, <1>35, <1>36, <1>37
       DEF Next, Request, Launch, Read, Subprocess, Walk

\* No task is left live with nobody to finish it, except where launch_agent
\* or the reader was ended by an exception.
THEOREM SupervisionHolds == Spec => []Supervised
  BY SupervisedInit, SupervisedNext, RouteInit, RouteNext, WalkInit, WalkNext,
     TypeInvariant, PTL DEF Spec


-----------------------------------------------------------------------------
(* The history of a task.                                                  *)

\* The terminal event a reader is about to store is in the history already.
StoredIsLogged == \A a \in Agents :
   pc[a] = "store" /\ cur[a] \in Terminal => cur[a] \in logged[task[a]]
HistoryInv == StoredIsLogged /\ OutcomeIsLogged

LEMMA HistoryInit == Init => HistoryInv
  BY DEF Init, HistoryInv, StoredIsLogged, OutcomeIsLogged

LEMMA HistoryNext ==
  TypeInv /\ ReaderWaits /\ RouteInv /\ HistoryInv /\ [Next]_vars => HistoryInv'
  <1> SUFFICES ASSUME TypeInv, ReaderWaits, RouteInv, HistoryInv, [Next]_vars
               PROVE  HistoryInv'
    OBVIOUS
  <1>0. /\ pc \in [Agents -> Places] /\ task \in [Agents -> Tasks \cup {None}]
        /\ status \in [Tasks -> Statuses] /\ cur \in [Agents -> Reports \cup {"none"}]
        /\ logged \in [Tasks -> SUBSET Terminal] /\ at \in [Walkers -> Tasks \cup {None}]
        /\ cstep \in [Walkers -> WalkSteps] /\ crashes \in Nat
        /\ Agents \subseteq Walkers /\ Ops \subseteq Walkers
        /\ \A a \in Agents : pc[a] = "store" => cur[a] \in Reports
        /\ \A a \in Agents : pc[a] # "free" => task[a] \in Tasks
        /\ \A a \in Agents : cstep[a] \notin {"idle", "over"} => pc[a] = "cascade"
    BY SupervisionAssumption DEF TypeInv, TypeOK, StoreHasEvent, RouteInv,
       BegunHasTask, ReaderWaits, Walkers
  <1>1. ASSUME NEW a \in Agents, NEW t \in Tasks, Submit(a, t)
        PROVE  HistoryInv'
    BY <1>1, <1>0 DEF Submit, Goto, Create, SetStatus, mgrVars, agentVars,
       wireVars, walkVars, hostVars, HistoryInv, StoredIsLogged,
       OutcomeIsLogged
  <1>2. ASSUME NEW a \in Agents, NEW t \in Tasks, RetryCheck(a, t)
        PROVE  HistoryInv'
    BY <1>2, <1>0 DEF RetryCheck, Goto, storeVars, mgrVars, agentVars,
       wireVars, walkVars, hostVars, HistoryInv, StoredIsLogged,
       OutcomeIsLogged
  <1>3. ASSUME NEW o \in Ops, NEW t \in Tasks, Cancel(o, t)
        PROVE  HistoryInv'
    BY <1>3, <1>0 DEF Cancel, storeVars, mgrVars, launchVars, agentVars,
       hostVars, HistoryInv, StoredIsLogged, OutcomeIsLogged
  <1>4. ASSUME NEW o \in Ops, NEW t \in Tasks, Notify(o, t)
        PROVE  HistoryInv'
    BY <1>4, <1>0 DEF Notify, storeVars, mgrVars, launchVars, agentVars,
       hostVars, HistoryInv, StoredIsLogged, OutcomeIsLogged
  <1>5. CASE Clear
    BY <1>5, <1>0 DEF Clear, mgrVars, launchVars, agentVars, wireVars,
       walkVars, hostVars, HistoryInv, StoredIsLogged, OutcomeIsLogged,
       Terminal
  <1>6. ASSUME NEW a \in Agents, RetryReset(a)
        PROVE  HistoryInv'
    BY <1>6, <1>0 DEF RetryReset, SetStatus, Goto, mgrVars, launchVars,
       agentVars, wireVars, walkVars, hostVars, HistoryInv, StoredIsLogged,
       OutcomeIsLogged
  <1>7. ASSUME NEW a \in Agents, Spawn(a)
        PROVE  HistoryInv'
    BY <1>7, <1>0 DEF Spawn, Goto, storeVars, mgrVars, launchVars, wireVars, walkVars,
       hostVars, HistoryInv, StoredIsLogged, OutcomeIsLogged
  <1>8. ASSUME NEW a \in Agents, SpawnFail(a)
        PROVE  HistoryInv'
    BY <1>8, <1>0 DEF SpawnFail, Goto, storeVars, mgrVars, launchVars,
       agentVars, wireVars, walkVars, hostVars, HistoryInv, StoredIsLogged,
       OutcomeIsLogged
  <1>9. ASSUME NEW a \in Agents, MarkRunning(a)
        PROVE  HistoryInv'
    BY <1>9, <1>0 DEF MarkRunning, SetStatus, Goto, mgrVars, launchVars,
       agentVars, wireVars, walkVars, hostVars, HistoryInv, StoredIsLogged,
       OutcomeIsLogged
  <1>10. ASSUME NEW a \in Agents, SendExecute(a)
        PROVE  HistoryInv'
    BY <1>10, <1>0 DEF SendExecute, Goto, storeVars, mgrVars, launchVars,
       agentVars, walkVars, hostVars, HistoryInv, StoredIsLogged,
       OutcomeIsLogged
  <1>11. ASSUME NEW a \in Agents, ReadEvent(a)
        PROVE  HistoryInv'
    <2> DEFINE e == Head(outbox[a])
    <2>1. /\ pc[a] = "read" /\ e \in Reports
          /\ cur' = [cur EXCEPT ![a] = e]
          /\ logged' = [logged EXCEPT ![task[a]] = @ \cup ({e} \cap Terminal)]
          /\ pc' = [pc EXCEPT ![a] = "store"]
          /\ UNCHANGED <<status, task, cstep, at, crashes>>
      BY <1>11 DEF ReadEvent, Goto, launchVars, walkVars, hostVars
    <2>2. \A t \in Tasks : logged[t] \subseteq logged'[t]
      BY <2>1, <1>0
    <2>3. e \in Terminal => e \in logged'[task[a]]
      BY <2>1, <1>0
    <2>4. StoredIsLogged'
      BY <2>1, <2>2, <2>3, <1>0 DEF HistoryInv, StoredIsLogged
    <2>5. OutcomeIsLogged'
      BY <2>1, <2>2 DEF HistoryInv, OutcomeIsLogged
    <2> QED
      BY <2>4, <2>5 DEF HistoryInv
  <1>12. ASSUME NEW a \in Agents, StoreEvent(a)
        PROVE  HistoryInv'
    BY <1>12, <1>0 DEF StoreEvent, SetStatus, Goto, mgrVars, launchVars,
       agentVars, wireVars, hostVars, HistoryInv, StoredIsLogged,
       OutcomeIsLogged, StatusOf, Reports, Terminal
  <1>13. ASSUME NEW a \in Agents, ReadEof(a)
        PROVE  HistoryInv'
    BY <1>13, <1>0 DEF ReadEof, Goto, storeVars, mgrVars, launchVars,
       agentVars, wireVars, walkVars, hostVars, HistoryInv, StoredIsLogged,
       OutcomeIsLogged
  <1>14. ASSUME NEW a \in Agents, ReadRaises(a)
        PROVE  HistoryInv'
    BY <1>14, <1>0 DEF ReadRaises, Goto, storeVars, mgrVars, launchVars,
       agentVars, wireVars, walkVars, hostVars, HistoryInv, StoredIsLogged,
       OutcomeIsLogged
  <1>15. ASSUME NEW a \in Agents, FinalCheck(a)
        PROVE  HistoryInv'
    BY <1>15, <1>0 DEF FinalCheck, Goto, storeVars, mgrVars, launchVars,
       agentVars, wireVars, walkVars, hostVars, HistoryInv, StoredIsLogged,
       OutcomeIsLogged
  <1>16. ASSUME NEW a \in Agents, MarkFailed(a)
        PROVE  HistoryInv'
    BY <1>16, <1>0 DEF MarkFailed, SetStatus, Goto, mgrVars, launchVars,
       agentVars, wireVars, walkVars, hostVars, HistoryInv, StoredIsLogged,
       OutcomeIsLogged
  <1>17. ASSUME NEW a \in Agents, Cleanup(a)
        PROVE  HistoryInv'
    BY <1>17, <1>0 DEF Cleanup, Goto, storeVars, launchVars, agentVars,
       walkVars, hostVars, HistoryInv, StoredIsLogged, OutcomeIsLogged,
       ExitSteps
  <1>18. ASSUME NEW a \in Agents, ServeDone(a)
        PROVE  HistoryInv'
    BY <1>18, <1>0 DEF ServeDone, Goto, storeVars, mgrVars, launchVars,
       agentVars, walkVars, hostVars, HistoryInv, StoredIsLogged,
       OutcomeIsLogged
  <1>19. ASSUME NEW a \in Agents, RejectSubmit(a)
        PROVE  HistoryInv'
    BY <1>19, <1>0 DEF RejectSubmit, storeVars, mgrVars, launchVars, walkVars,
       hostVars, HistoryInv, StoredIsLogged, OutcomeIsLogged
  <1>20. ASSUME NEW a \in Agents, NEW b \in Agents, ServeSubmit(a, b)
        PROVE  HistoryInv'
    BY <1>20, <1>0 DEF ServeSubmit, Create, SetStatus, mgrVars, wireVars,
       walkVars, hostVars, HistoryInv, StoredIsLogged, OutcomeIsLogged
  <1>21. ASSUME NEW a \in Agents, Boot(a)
        PROVE  HistoryInv'
    BY <1>21, <1>0 DEF Boot, storeVars, mgrVars, launchVars, walkVars,
       hostVars, HistoryInv, StoredIsLogged, OutcomeIsLogged
  <1>22. ASSUME NEW a \in Agents, Emit(a)
        PROVE  HistoryInv'
    BY <1>22, <1>0 DEF Emit, storeVars, mgrVars, launchVars, wireVars,
       walkVars, hostVars, HistoryInv, StoredIsLogged, OutcomeIsLogged
  <1>23. ASSUME NEW a \in Agents, Hear(a)
        PROVE  HistoryInv'
    BY <1>23, <1>0 DEF Hear, storeVars, mgrVars, launchVars, walkVars,
       hostVars, HistoryInv, StoredIsLogged, OutcomeIsLogged
  <1>24. ASSUME NEW a \in Agents, Leave(a)
        PROVE  HistoryInv'
    BY <1>24, <1>0 DEF Leave, storeVars, mgrVars, launchVars, walkVars,
       hostVars, HistoryInv, StoredIsLogged, OutcomeIsLogged
  <1>25. ASSUME NEW a \in Agents, Die(a)
        PROVE  HistoryInv'
    BY <1>25, <1>0 DEF Die, storeVars, mgrVars, launchVars, walkVars,
       hostVars, HistoryInv, StoredIsLogged, OutcomeIsLogged
  <1>26. ASSUME NEW w \in Walkers, Expand(w)
        PROVE  HistoryInv'
    BY <1>26, <1>0 DEF Expand, storeVars, mgrVars, launchVars, agentVars,
       wireVars, hostVars, HistoryInv, StoredIsLogged, OutcomeIsLogged
  <1>27. ASSUME NEW w \in Walkers, Pick(w)
        PROVE  HistoryInv'
    BY <1>27, <1>0 DEF Pick, storeVars, mgrVars, launchVars, agentVars,
       hostVars, HistoryInv, StoredIsLogged, OutcomeIsLogged
  <1>28. ASSUME NEW w \in Walkers, Pop(w)
        PROVE  HistoryInv'
    BY <1>28, <1>0 DEF Pop, Goto, storeVars, mgrVars, launchVars, agentVars,
       wireVars, hostVars, HistoryInv, StoredIsLogged, OutcomeIsLogged
  <1>29. ASSUME NEW w \in Walkers, Recheck(w)
        PROVE  HistoryInv'
    BY <1>29, <1>0 DEF Recheck, storeVars, mgrVars, launchVars, agentVars,
       wireVars, hostVars, HistoryInv, StoredIsLogged, OutcomeIsLogged
  <1>30. ASSUME NEW w \in Walkers, MarkCancelled(w)
        PROVE  HistoryInv'
    BY <1>30, <1>0 DEF MarkCancelled, SetStatus, mgrVars, launchVars,
       agentVars, wireVars, hostVars, HistoryInv, StoredIsLogged,
       OutcomeIsLogged
  <1>31. ASSUME NEW w \in Walkers, LogCancelled(w)
        PROVE  HistoryInv'
    BY <1>31, <1>0 DEF LogCancelled, mgrVars, launchVars, agentVars, wireVars,
       hostVars, HistoryInv, StoredIsLogged, OutcomeIsLogged, Terminal
  <1>32. CASE Crash
    BY <1>32, <1>0 DEF Crash, storeVars, launchVars, agentVars, HistoryInv,
       StoredIsLogged, OutcomeIsLogged
  <1>33. CASE Restart
    BY <1>33, <1>0 DEF Restart, mgrVars, launchVars, agentVars, wireVars,
       walkVars, HistoryInv, StoredIsLogged, OutcomeIsLogged, Live, Terminal
  <1>34. CASE UNCHANGED vars
    BY <1>34, <1>0 DEF vars, HistoryInv, StoredIsLogged, OutcomeIsLogged
  <1>35. ASSUME NEW a \in Agents, Register(a)
        PROVE  HistoryInv'
    BY <1>35, <1>0 DEF Register, Goto, storeVars, launchVars, agentVars,
       wireVars, walkVars, hostVars, HistoryInv, StoredIsLogged,
       OutcomeIsLogged
  <1>36. ASSUME NEW a \in Agents, StoreRaises(a)
        PROVE  HistoryInv'
    BY <1>36, <1>0 DEF StoreRaises, LaunchRaises, EventRaises, ExitRaises,
       Goto, storeVars, mgrVars, launchVars, wireVars, walkVars, hostVars,
       HistoryInv, StoredIsLogged, OutcomeIsLogged
  <1>37. ASSUME NEW w \in Walkers, WalkRaises(w)
        PROVE  HistoryInv'
    BY <1>37, <1>0 DEF WalkRaises, Goto, storeVars, mgrVars, launchVars,
       agentVars, wireVars, hostVars, HistoryInv, StoredIsLogged,
       OutcomeIsLogged
  <1> QED
    BY <1>1, <1>2, <1>3, <1>4, <1>5, <1>6, <1>7, <1>8, <1>9, <1>10, <1>11,
       <1>12, <1>13, <1>14, <1>15, <1>16, <1>17, <1>18, <1>19, <1>20, <1>21,
       <1>22, <1>23, <1>24, <1>25, <1>26, <1>27, <1>28, <1>29, <1>30, <1>31,
       <1>32, <1>33, <1>34, <1>35, <1>36, <1>37
       DEF Next, Request, Launch, Read, Subprocess, Walk

\* A completed task has the event that says so in its history, and so has a
\* cancelled one, or will in a step, unless the daemon died or the store failed.
THEOREM OutcomeHolds == Spec => []OutcomeIsLogged
  <1>1. HistoryInv => OutcomeIsLogged
    BY DEF HistoryInv
  <1> QED
    BY HistoryInit, HistoryNext, RouteInit, RouteNext, WalkInit, WalkNext,
       TypeInvariant, <1>1, PTL DEF Spec

-----------------------------------------------------------------------------
(* The rows only move as TaskLifecycle says.                               *)

\* Tasks have no children.
Childless == \A t \in Tasks : Parent[t] = None

\* A run that is under way in the daemon.
Active(a) == pc[a] \notin Finished \cup {"free"}

\* Every task has one run at most under way, none before it is submitted, and
\* none while the daemon is down.
OneRun ==
    /\ \A a, b \in Agents :
          Active(a) /\ Active(b) /\ task[a] = task[b] => a = b
    /\ \A a \in Agents :
          /\ pc[a] # "free" => status[task[a]] # "absent"
          /\ Active(a) => up

\* A walk finds no child to visit.
NoChild ==
    /\ \A w \in Walkers :
          /\ cstep[w] \in {"idle", "expand", "pick", "over"}
          /\ cstep[w] = "expand" => at[w] # None
          /\ \A i \in 1..Len(stack[w]) : stack[w][i] = {}
    /\ \A a \in Agents : pc[a] # "serving"

\* An agent says nothing after its terminal event.
LastWord(a) ==
    /\ \A i \in 1..Len(outbox[a]) : outbox[a][i] \in Terminal =>
          i = Len(outbox[a]) /\ said[a] = "ended"
    /\ pc[a] = "store" /\ cur[a] \in Terminal =>
          outbox[a] = << >> /\ said[a] = "ended"

\* What the row of a run says while it is under way; once the row is final
\* there is nothing more to read.
Open(a) == status[task[a]] \in {"running", "interrupted"}
RowFollows(a) ==
    /\ pc[a] \in {"spawn", "open", "mark"} => status[task[a]] = "pending"
    /\ pc[a] \in {"send", "store", "fail"} => Open(a)
    /\ pc[a] \in {"read", "cascade", "eof"} /\ ~Open(a) =>
          outbox[a] = << >> /\ said[a] = "ended"

LifeInv ==
    /\ OneRun /\ NoChild
    /\ \A a \in Agents : LastWord(a) /\ RowFollows(a)

LEMMA LifeInvInit == Init => LifeInv
  BY DEF Init, LifeInv, OneRun, NoChild, LastWord, RowFollows, Active, Open,
     Finished, Walkers

\* A step of a run leaves the other runs alone, and their rows with them.
LEMMA RunStep ==
  ASSUME TypeInv, BegunHasTask, LifeInv, NEW a \in Agents, Active(a),
         NEW p, p # "free", pc' = [pc EXCEPT ![a] = p],
         \A t \in Tasks : t # task[a] => status'[t] = status[t],
         status'[task[a]] # "absent", task' = task, up' = up,
         \A b \in Agents : b # a => /\ outbox'[b] = outbox[b]
                                   /\ said'[b] = said[b] /\ cur'[b] = cur[b]
  PROVE  /\ OneRun'
         /\ \A b \in Agents : b # a => LastWord(b)' /\ RowFollows(b)'
  <1>1. pc \in [Agents -> Places] /\ task[a] \in Tasks
    BY DEF TypeInv, TypeOK, BegunHasTask, Active
  <1>2. OneRun'
    BY <1>1 DEF LifeInv, OneRun, Active, BegunHasTask
  <1>3. ASSUME NEW b \in Agents, b # a
        PROVE  LastWord(b)' /\ RowFollows(b)'
    <2>1. pc'[b] = pc[b] /\ LastWord(b) /\ RowFollows(b)
      BY <1>1, <1>3 DEF LifeInv
    <2>2. LastWord(b)'
      BY <2>1, <1>3 DEF LastWord
    <2>3. CASE Active(b)
      <3>1. task[b] \in Tasks /\ task[b] # task[a]
        BY <2>3, <1>3 DEF LifeInv, OneRun, BegunHasTask, Active
      <3> QED
        BY <2>1, <2>2, <3>1, <1>3 DEF RowFollows, Open
    <2>4. CASE ~Active(b)
      BY <2>1, <2>2, <2>4 DEF RowFollows, Active, Finished
    <2> QED
      BY <2>3, <2>4
  <1> QED
    BY <1>2, <1>3

\* A step that leaves the runs and the rows alone, and takes back no last word.
LEMMA QuietStep ==
  ASSUME LifeInv, UNCHANGED <<status, task, pc, cur, outbox, up>>,
         \A a \in Agents : said[a] = "ended" => said'[a] = "ended"
  PROVE  OneRun' /\ \A a \in Agents : LastWord(a)' /\ RowFollows(a)'
  <1>1. OneRun'
    BY DEF LifeInv, OneRun, Active
  <1>2. ASSUME NEW a \in Agents PROVE LastWord(a)' /\ RowFollows(a)'
    BY DEF LifeInv, LastWord, RowFollows, Open
  <1> QED
    BY <1>1, <1>2

\* Without children no walk gets to a child, and no launch is served.
LEMMA NotTaken ==
  ASSUME TypeInv, BegunHasTask, LifeInv, Childless
  PROVE  /\ \A a \in Agents : ~ServeDone(a)
         /\ \A a, b \in Agents : ~ServeSubmit(a, b)
         /\ \A w \in Walkers : /\ ~Pick(w) /\ ~Recheck(w)
                               /\ ~MarkCancelled(w) /\ ~LogCancelled(w)
  <1>1. \A a \in Agents : ~ServeDone(a)
    BY DEF LifeInv, NoChild, ServeDone
  <1>2. \A a, b \in Agents : ~ServeSubmit(a, b)
    BY SupervisionAssumption DEF ServeSubmit, BegunHasTask, Childless
  <1>3. ASSUME NEW w \in Walkers, Pick(w) PROVE FALSE
    <2>1. stack[w] \in Seq(SUBSET Tasks) /\ stack[w] # << >>
      BY <1>3 DEF Pick, TypeInv, TypeOK
    <2>2. 1 \in 1..Len(stack[w]) /\ Head(stack[w]) = stack[w][1]
      BY <2>1
    <2> QED
      BY <2>2, <1>3 DEF Pick, LifeInv, NoChild
  <1>4. \A w \in Walkers : ~Recheck(w) /\ ~MarkCancelled(w) /\ ~LogCancelled(w)
    BY DEF LifeInv, NoChild, Recheck, MarkCancelled, LogCancelled
  <1> QED
    BY <1>1, <1>2, <1>3, <1>4

LEMMA LifeInvNext ==
  ASSUME TypeInv, BegunHasTask, ReaderWaits, LifeInv, Childless, Patient,
         [Next]_vars
  PROVE  LifeInv'
  <1>0. /\ pc \in [Agents -> Places] /\ task \in [Agents -> Tasks \cup {None}]
        /\ status \in [Tasks -> Statuses] /\ outbox \in [Agents -> Seq(Frames)]
        /\ said \in [Agents -> Voices]
        /\ cur \in [Agents -> Reports \cup {"none"}]
        /\ cstep \in [Walkers -> WalkSteps]
        /\ at \in [Walkers -> Tasks \cup {None}]
        /\ stack \in [Walkers -> Seq(SUBSET Tasks)]
        /\ Agents \subseteq Walkers /\ Ops \subseteq Walkers
        /\ \A a \in Agents : pc[a] # "free" => task[a] \in Tasks
        /\ None \notin Tasks
    BY SupervisionAssumption DEF TypeInv, TypeOK, BegunHasTask, Walkers
  <1> USE DEF LifeInv
  <1>1. ASSUME NEW a \in Agents, NEW t \in Tasks, Submit(a, t)
        PROVE  LifeInv'
    <2>1. /\ pc[a] = "free" /\ status[t] = "absent" /\ up
          /\ pc' = [pc EXCEPT ![a] = "spawn"]
          /\ status' = [status EXCEPT ![t] = "pending"]
          /\ task' = [task EXCEPT ![a] = t]
          /\ UNCHANGED <<cur, said, outbox, cstep, at, stack, up>>
      BY <1>1 DEF Submit, Create, SetStatus, Goto, agentVars, walkVars, hostVars
    <2>2. \A b \in Agents : pc[b] # "free" => task[b] # t
      BY <2>1 DEF OneRun
    <2>3. OneRun'
      BY <2>1, <2>2, <1>0 DEF OneRun, Active
    <2>4. NoChild'
      BY <2>1, <1>0 DEF NoChild
    <2>5. ASSUME NEW b \in Agents PROVE LastWord(b)' /\ RowFollows(b)'
      BY <2>1, <2>2, <1>0 DEF LastWord, RowFollows, Open
    <2> QED
      BY <2>3, <2>4, <2>5
  <1>2. ASSUME NEW a \in Agents, NEW t \in Tasks, RetryCheck(a, t)
        PROVE  LifeInv'
    <2>1. /\ pc[a] = "free" /\ status[t] \in Terminal /\ up /\ Settled(t)
          /\ pc' = [pc EXCEPT ![a] = "reset"]
          /\ task' = [task EXCEPT ![a] = t]
          /\ UNCHANGED <<status, cur, said, outbox, cstep, at, stack, up>>
      BY <1>2 DEF RetryCheck, Goto, storeVars, agentVars, walkVars, hostVars
    <2>2. \A b \in Agents : Active(b) => task[b] # t
      BY <2>1 DEF Settled, Active
    <2>3. OneRun'
      BY <2>1, <2>2, <1>0 DEF OneRun, Active, Terminal
    <2>4. NoChild'
      BY <2>1, <1>0 DEF NoChild
    <2>5. ASSUME NEW b \in Agents PROVE LastWord(b)' /\ RowFollows(b)'
      BY <2>1, <1>0 DEF LastWord, RowFollows, Open
    <2> QED
      BY <2>3, <2>4, <2>5
  <1>3. ASSUME NEW o \in Ops, NEW t \in Tasks, Cancel(o, t)
        PROVE  LifeInv'
    <2>1. /\ UNCHANGED <<status, task, pc, cur, outbox, up>>
          /\ \A b \in Agents : said[b] = "ended" => said'[b] = "ended"
      BY <1>3, <1>0 DEF Cancel, storeVars, mgrVars, launchVars, agentVars,
          wireVars, walkVars, hostVars
    <2>2. NoChild'
      BY <1>3, <2>1, <1>0 DEF NoChild, Cancel, storeVars, mgrVars, launchVars,
          agentVars, wireVars, walkVars, hostVars
    <2> QED
      BY <2>1, <2>2, QuietStep
  <1>4. ASSUME NEW o \in Ops, NEW t \in Tasks, Notify(o, t)
        PROVE  LifeInv'
    <2>1. /\ UNCHANGED <<status, task, pc, cur, outbox, up>>
          /\ \A b \in Agents : said[b] = "ended" => said'[b] = "ended"
      BY <1>4, <1>0 DEF Notify, storeVars, mgrVars, launchVars, agentVars,
          wireVars, walkVars, hostVars
    <2>2. NoChild'
      BY <1>4, <2>1, <1>0 DEF NoChild, Notify, storeVars, mgrVars, launchVars,
          agentVars, wireVars, walkVars, hostVars
    <2> QED
      BY <2>1, <2>2, QuietStep
  <1>5. ASSUME NEW a \in Agents, Boot(a)
        PROVE  LifeInv'
    <2>1. /\ UNCHANGED <<status, task, pc, cur, outbox, up>>
          /\ \A b \in Agents : said[b] = "ended" => said'[b] = "ended"
      BY <1>5, <1>0 DEF Boot, storeVars, mgrVars, launchVars, agentVars,
          wireVars, walkVars, hostVars
    <2>2. NoChild'
      BY <1>5, <2>1, <1>0 DEF NoChild, Boot, storeVars, mgrVars, launchVars,
          agentVars, wireVars, walkVars, hostVars
    <2> QED
      BY <2>1, <2>2, QuietStep
  <1>6. ASSUME NEW a \in Agents, Hear(a)
        PROVE  LifeInv'
    <2>1. /\ UNCHANGED <<status, task, pc, cur, outbox, up>>
          /\ \A b \in Agents : said[b] = "ended" => said'[b] = "ended"
      BY <1>6, <1>0 DEF Hear, storeVars, mgrVars, launchVars, agentVars,
          wireVars, walkVars, hostVars
    <2>2. NoChild'
      BY <1>6, <2>1, <1>0 DEF NoChild, Hear, storeVars, mgrVars, launchVars,
          agentVars, wireVars, walkVars, hostVars
    <2> QED
      BY <2>1, <2>2, QuietStep
  <1>7. ASSUME NEW a \in Agents, Leave(a)
        PROVE  LifeInv'
    <2>1. /\ UNCHANGED <<status, task, pc, cur, outbox, up>>
          /\ \A b \in Agents : said[b] = "ended" => said'[b] = "ended"
      BY <1>7, <1>0 DEF Leave, storeVars, mgrVars, launchVars, agentVars,
          wireVars, walkVars, hostVars
    <2>2. NoChild'
      BY <1>7, <2>1, <1>0 DEF NoChild, Leave, storeVars, mgrVars, launchVars,
          agentVars, wireVars, walkVars, hostVars
    <2> QED
      BY <2>1, <2>2, QuietStep
  <1>8. ASSUME NEW a \in Agents, Die(a)
        PROVE  LifeInv'
    <2>1. /\ UNCHANGED <<status, task, pc, cur, outbox, up>>
          /\ \A b \in Agents : said[b] = "ended" => said'[b] = "ended"
      BY <1>8, <1>0 DEF Die, storeVars, mgrVars, launchVars, agentVars,
          wireVars, walkVars, hostVars
    <2>2. NoChild'
      BY <1>8, <2>1, <1>0 DEF NoChild, Die, storeVars, mgrVars, launchVars,
          agentVars, wireVars, walkVars, hostVars
    <2> QED
      BY <2>1, <2>2, QuietStep
  <1>9. ASSUME NEW w \in Walkers, Expand(w)
        PROVE  LifeInv'
    <2>1. /\ UNCHANGED <<status, task, pc, cur, outbox, said, up>>
          /\ cstep' = [cstep EXCEPT ![w] = "pick"]
          /\ stack' = [stack EXCEPT ![w] =
             << {c \in Tasks : /\ Parent[c] = at[w]
                               /\ status[c] \notin Terminal \cup {"absent"}} >>
             \o @]
          /\ at' = at /\ cstep[w] = "expand"
      BY <1>9 DEF Expand, storeVars, launchVars, agentVars, hostVars
    <2>2. {c \in Tasks : /\ Parent[c] = at[w]
                         /\ status[c] \notin Terminal \cup {"absent"}} = {}
      BY <2>1, <1>0 DEF NoChild, Childless
    <2>3. NoChild'
      <3>1. /\ stack'[w] = << {} >> \o stack[w]
            /\ stack[w] \in Seq(SUBSET Tasks)
            /\ \A v \in Walkers : v # w => stack'[v] = stack[v]
        BY <2>1, <2>2, <1>0
      <3>2. \A i \in 1..Len(stack[w]) : stack[w][i] = {}
        BY DEF NoChild
      <3>3. \A i \in 1..Len(stack'[w]) : stack'[w][i] = {}
        BY <3>1, <3>2
      <3> QED
        BY <2>1, <3>1, <3>3, <1>0 DEF NoChild
    <2> QED
      BY <2>1, <2>3, QuietStep
  <1>10. ASSUME NEW a \in Agents, RetryReset(a)
        PROVE  LifeInv'
    <2>1. /\ pc[a] = "reset" /\ pc' = [pc EXCEPT ![a] = "spawn"]
          /\ status' = [status EXCEPT ![task[a]] = "pending"]
          /\ UNCHANGED <<task, cur, said, outbox, cstep, at, stack, up>>
      BY <1>10 DEF RetryReset, Goto, SetStatus, storeVars, mgrVars, launchVars,
          agentVars, wireVars, walkVars, hostVars
    <2>2. Active(a) /\ task[a] \in Tasks
      BY <2>1, <1>0 DEF Active, Finished, ExitSteps
    <2>3. /\ OneRun'
          /\ \A b \in Agents : b # a => LastWord(b)' /\ RowFollows(b)'
      BY <2>1, <2>2, <1>0, RunStep DEF OneRun
    <2>4. NoChild'
      BY <2>1, <1>0 DEF NoChild
    <2>5. LastWord(a)' /\ RowFollows(a)'
      BY <2>1, <2>2, <1>0 DEF LastWord, RowFollows, Open, ExitSteps
    <2> QED
      BY <2>3, <2>4, <2>5
  <1>11. ASSUME NEW a \in Agents, Spawn(a)
        PROVE  LifeInv'
    <2>1. /\ pc[a] = "spawn" /\ pc' = [pc EXCEPT ![a] = "open"]
          /\ status' = status
          /\ UNCHANGED <<task, cur, said, outbox, cstep, at, stack, up>>
      BY <1>11 DEF Spawn, Goto, storeVars, mgrVars, launchVars, agentVars,
          wireVars, walkVars, hostVars
    <2>2. Active(a) /\ task[a] \in Tasks
      BY <2>1, <1>0 DEF Active, Finished, ExitSteps
    <2>3. /\ OneRun'
          /\ \A b \in Agents : b # a => LastWord(b)' /\ RowFollows(b)'
      BY <2>1, <2>2, <1>0, RunStep DEF OneRun
    <2>4. NoChild'
      BY <2>1, <1>0 DEF NoChild
    <2>5. LastWord(a)' /\ RowFollows(a)'
      BY <2>1, <2>2, <1>0 DEF LastWord, RowFollows, Open, ExitSteps
    <2> QED
      BY <2>3, <2>4, <2>5
  <1>12. ASSUME NEW a \in Agents, SpawnFail(a)
        PROVE  LifeInv'
    <2>1. /\ pc[a] \in {"spawn", "open"}
          /\ pc' = [pc EXCEPT ![a] = "aborted"]
          /\ status' = status
          /\ UNCHANGED <<task, cur, said, outbox, cstep, at, stack, up>>
      BY <1>12 DEF SpawnFail, Goto, storeVars, mgrVars, launchVars, agentVars,
          wireVars, walkVars, hostVars
    <2>2. Active(a) /\ task[a] \in Tasks
      BY <2>1, <1>0 DEF Active, Finished, ExitSteps
    <2>3. /\ OneRun'
          /\ \A b \in Agents : b # a => LastWord(b)' /\ RowFollows(b)'
      BY <2>1, <2>2, <1>0, RunStep DEF OneRun
    <2>4. NoChild'
      BY <2>1, <1>0 DEF NoChild
    <2>5. LastWord(a)' /\ RowFollows(a)'
      BY <2>1, <2>2, <1>0 DEF LastWord, RowFollows, Open, ExitSteps
    <2> QED
      BY <2>3, <2>4, <2>5
  <1>13. ASSUME NEW a \in Agents, MarkRunning(a)
        PROVE  LifeInv'
    <2>1. /\ pc[a] = "mark" /\ pc' = [pc EXCEPT ![a] = "send"]
          /\ status' = [status EXCEPT ![task[a]] = "running"]
          /\ UNCHANGED <<task, cur, said, outbox, cstep, at, stack, up>>
      BY <1>13 DEF MarkRunning, Goto, SetStatus, storeVars, mgrVars, launchVars,
          agentVars, wireVars, walkVars, hostVars
    <2>2. Active(a) /\ task[a] \in Tasks
      BY <2>1, <1>0 DEF Active, Finished, ExitSteps
    <2>3. /\ OneRun'
          /\ \A b \in Agents : b # a => LastWord(b)' /\ RowFollows(b)'
      BY <2>1, <2>2, <1>0, RunStep DEF OneRun
    <2>4. NoChild'
      BY <2>1, <1>0 DEF NoChild
    <2>5. LastWord(a)' /\ RowFollows(a)'
      BY <2>1, <2>2, <1>0 DEF LastWord, RowFollows, Open, ExitSteps
    <2> QED
      BY <2>3, <2>4, <2>5
  <1>14. ASSUME NEW a \in Agents, SendExecute(a)
        PROVE  LifeInv'
    <2>1. /\ pc[a] = "send"
          /\ pc' = [pc EXCEPT ![a] = IF proc[a] = "exited" \/ conn[a] = "lost"
                                     THEN "aborted" ELSE "read"]
          /\ status' = status
          /\ UNCHANGED <<task, cur, said, outbox, cstep, at, stack, up>>
      BY <1>14 DEF SendExecute, Goto, storeVars, mgrVars, launchVars, agentVars,
          wireVars, walkVars, hostVars
    <2>2. Active(a) /\ task[a] \in Tasks
      BY <2>1, <1>0 DEF Active, Finished, ExitSteps
    <2>3. /\ OneRun'
          /\ \A b \in Agents : b # a => LastWord(b)' /\ RowFollows(b)'
      BY <2>1, <2>2, <1>0, RunStep DEF OneRun
    <2>4. NoChild'
      BY <2>1, <1>0 DEF NoChild
    <2>5. LastWord(a)' /\ RowFollows(a)'
      BY <2>1, <2>2, <1>0 DEF LastWord, RowFollows, Open, ExitSteps
    <2> QED
      BY <2>3, <2>4, <2>5
  <1>15. ASSUME NEW a \in Agents, ReadEof(a)
        PROVE  LifeInv'
    <2>1. /\ pc[a] = "read" /\ outbox[a] = << >>
          /\ pc' = [pc EXCEPT ![a] = "eof"]
          /\ status' = status
          /\ UNCHANGED <<task, cur, said, outbox, cstep, at, stack, up>>
      BY <1>15 DEF ReadEof, Goto, storeVars, mgrVars, launchVars, agentVars,
          wireVars, walkVars, hostVars
    <2>2. Active(a) /\ task[a] \in Tasks
      BY <2>1, <1>0 DEF Active, Finished, ExitSteps
    <2>3. /\ OneRun'
          /\ \A b \in Agents : b # a => LastWord(b)' /\ RowFollows(b)'
      BY <2>1, <2>2, <1>0, RunStep DEF OneRun
    <2>4. NoChild'
      BY <2>1, <1>0 DEF NoChild
    <2>5. LastWord(a)' /\ RowFollows(a)'
      BY <2>1, <2>2, <1>0 DEF LastWord, RowFollows, Open, ExitSteps
    <2> QED
      BY <2>3, <2>4, <2>5
  <1>16. ASSUME NEW a \in Agents, ReadRaises(a)
        PROVE  LifeInv'
    <2>1. /\ pc[a] = "read" /\ pc' = [pc EXCEPT ![a] = "unwind"]
          /\ status' = status
          /\ UNCHANGED <<task, cur, said, outbox, cstep, at, stack, up>>
      BY <1>16 DEF ReadRaises, Goto, storeVars, mgrVars, launchVars, agentVars,
          wireVars, walkVars, hostVars
    <2>2. Active(a) /\ task[a] \in Tasks
      BY <2>1, <1>0 DEF Active, Finished, ExitSteps
    <2>3. /\ OneRun'
          /\ \A b \in Agents : b # a => LastWord(b)' /\ RowFollows(b)'
      BY <2>1, <2>2, <1>0, RunStep DEF OneRun
    <2>4. NoChild'
      BY <2>1, <1>0 DEF NoChild
    <2>5. LastWord(a)' /\ RowFollows(a)'
      BY <2>1, <2>2, <1>0 DEF LastWord, RowFollows, Open, ExitSteps
    <2> QED
      BY <2>3, <2>4, <2>5
  <1>17. ASSUME NEW a \in Agents, FinalCheck(a)
        PROVE  LifeInv'
    <2>1. /\ pc[a] = "eof"
          /\ pc' = [pc EXCEPT ![a] = IF Open(a) THEN "fail" ELSE "clean"]
          /\ status' = status
          /\ UNCHANGED <<task, cur, said, outbox, cstep, at, stack, up>>
      BY <1>17 DEF FinalCheck, Goto, Open, storeVars, mgrVars, launchVars,
          agentVars, wireVars, walkVars, hostVars
    <2>2. Active(a) /\ task[a] \in Tasks
      BY <2>1, <1>0 DEF Active, Finished, ExitSteps
    <2>3. /\ OneRun'
          /\ \A b \in Agents : b # a => LastWord(b)' /\ RowFollows(b)'
      BY <2>1, <2>2, <1>0, RunStep DEF OneRun
    <2>4. NoChild'
      BY <2>1, <1>0 DEF NoChild
    <2>5. LastWord(a)' /\ RowFollows(a)'
      BY <2>1, <2>2, <1>0 DEF LastWord, RowFollows, Open, ExitSteps
    <2> QED
      BY <2>3, <2>4, <2>5
  <1>18. ASSUME NEW a \in Agents, MarkFailed(a)
        PROVE  LifeInv'
    <2>1. /\ pc[a] = "fail" /\ pc' = [pc EXCEPT ![a] = "clean"]
          /\ status' = [status EXCEPT ![task[a]] = "failed"]
          /\ UNCHANGED <<task, cur, said, outbox, cstep, at, stack, up>>
      BY <1>18 DEF MarkFailed, Goto, SetStatus, storeVars, mgrVars, launchVars,
          agentVars, wireVars, walkVars, hostVars
    <2>2. Active(a) /\ task[a] \in Tasks
      BY <2>1, <1>0 DEF Active, Finished, ExitSteps
    <2>3. /\ OneRun'
          /\ \A b \in Agents : b # a => LastWord(b)' /\ RowFollows(b)'
      BY <2>1, <2>2, <1>0, RunStep DEF OneRun
    <2>4. NoChild'
      BY <2>1, <1>0 DEF NoChild
    <2>5. LastWord(a)' /\ RowFollows(a)'
      BY <2>1, <2>2, <1>0 DEF LastWord, RowFollows, Open, ExitSteps
    <2> QED
      BY <2>3, <2>4, <2>5
  <1>19. ASSUME NEW a \in Agents, Cleanup(a)
        PROVE  LifeInv'
    <2> DEFINE p == IF pc[a] = "clean" THEN "done" ELSE "torn"
    <2>1. /\ pc[a] \in ExitSteps /\ pc' = [pc EXCEPT ![a] = p]
          /\ UNCHANGED <<status, task, cur, said, outbox, cstep, at, stack, up>>
      BY <1>19 DEF Cleanup, Goto, storeVars, mgrVars, launchVars, agentVars,
          wireVars, walkVars, hostVars
    <2>2. Active(a) /\ task[a] \in Tasks /\ p \in Finished
      BY <2>1, <1>0 DEF Active, Finished, ExitSteps
    <2> HIDE DEF p
    <2>3. /\ OneRun'
          /\ \A b \in Agents : b # a => LastWord(b)' /\ RowFollows(b)'
      <3>1. status[task[a]] # "absent" /\ p # "free"
        BY <2>1, <2>2 DEF OneRun, ExitSteps, Finished
      <3> QED
        BY <2>1, <2>2, <3>1, RunStep
    <2>4. NoChild'
      BY <2>1, <2>2, <1>0 DEF NoChild, Finished
    <2>5. LastWord(a)' /\ RowFollows(a)'
      BY <2>1, <2>2, <1>0 DEF LastWord, RowFollows, Finished
    <2> QED
      BY <2>3, <2>4, <2>5
  <1>20. ASSUME NEW a \in Agents, ReadEvent(a)
        PROVE  LifeInv'
    <2>1. /\ pc[a] = "read" /\ pc' = [pc EXCEPT ![a] = "store"]
          /\ outbox[a] # << >> /\ outbox' = [outbox EXCEPT ![a] = Tail(@)]
          /\ cur' = [cur EXCEPT ![a] = Head(outbox[a])]
          /\ UNCHANGED <<status, task, said, cstep, at, stack, up>>
      BY <1>20 DEF ReadEvent, Goto, storeVars, mgrVars, launchVars, agentVars,
          wireVars, walkVars, hostVars
    <2>2. Active(a) /\ task[a] \in Tasks
      BY <2>1, <1>0 DEF Active, Finished
    <2>3. /\ OneRun'
          /\ \A b \in Agents : b # a => LastWord(b)' /\ RowFollows(b)'
      BY <2>1, <2>2, <1>0, RunStep DEF OneRun
    <2>4. NoChild'
      BY <2>1, <1>0 DEF NoChild
    <2>5. RowFollows(a)'
      BY <2>1, <2>2, <1>0 DEF RowFollows, Open
    <2>6. LastWord(a)'
      <3>1. /\ outbox'[a] = Tail(outbox[a]) /\ cur'[a] = outbox[a][1]
            /\ outbox[a] \in Seq(Frames) /\ Len(outbox[a]) \in Nat \ {0}
        BY <2>1, <1>0
      <3>2. /\ Len(outbox'[a]) = Len(outbox[a]) - 1
            /\ \A i \in 1..Len(outbox'[a]) : outbox'[a][i] = outbox[a][i + 1]
        BY <3>1
      <3>3. cur'[a] \in Terminal => Len(outbox'[a]) = 0 /\ said'[a] = "ended"
        <4>1. LastWord(a) /\ 1 \in 1..Len(outbox[a])
          BY <3>1
        <4>2. outbox[a][1] \in Terminal => 1 = Len(outbox[a]) /\ said[a] = "ended"
          BY <4>1 DEF LastWord
        <4> QED
          BY <2>1, <3>1, <3>2, <4>2
      <3>4. Len(outbox'[a]) = 0 => outbox'[a] = << >>
        <4>1. Tail(outbox[a]) \in Seq(Frames)
          BY <3>1, <2>1, HeadTailProperties
        <4> QED
          BY <3>1, <4>1, EmptySeq
      <3>5. ASSUME NEW i \in 1..Len(outbox'[a]), outbox'[a][i] \in Terminal
            PROVE  i = Len(outbox'[a]) /\ said'[a] = "ended"
        <4>1. i + 1 \in 1..Len(outbox[a]) /\ outbox[a][i + 1] \in Terminal
          BY <3>1, <3>2, <3>5
        <4> QED
          BY <2>1, <3>1, <3>2, <4>1 DEF LastWord
      <3> QED
        BY <3>3, <3>4, <3>5 DEF LastWord
    <2> QED
      BY <2>3, <2>4, <2>5, <2>6
  <1>21. ASSUME NEW a \in Agents, StoreEvent(a)
        PROVE  LifeInv'
    <2> DEFINE p == IF cur[a] \in {"failed", "cancelled"} THEN "cascade"
                                                          ELSE "read"
    <2>1. /\ pc[a] = "store" /\ pc' = [pc EXCEPT ![a] = p]
          /\ status' = [status EXCEPT ![task[a]] = StatusOf(cur[a])]
          /\ UNCHANGED <<task, cur, said, outbox, stack, up>>
          /\ \/ /\ cstep' = [cstep EXCEPT ![a] = "expand"]
                /\ at' = [at EXCEPT ![a] = task[a]]
             \/ UNCHANGED <<cstep, at>>
      BY <1>21 DEF StoreEvent, Goto, SetStatus, storeVars, mgrVars, launchVars,
          agentVars, wireVars, walkVars, hostVars
    <2>2. Active(a) /\ task[a] \in Tasks /\ cur[a] \in Reports
      BY <2>1, <1>0 DEF Active, Finished, TypeInv, StoreHasEvent
    <2>3. status'[task[a]] = StatusOf(cur[a]) /\ StatusOf(cur[a]) # "absent"
      BY <2>1, <2>2, <1>0 DEF StatusOf, Reports, Terminal
    <2>4. /\ OneRun'
          /\ \A b \in Agents : b # a => LastWord(b)' /\ RowFollows(b)'
      <3>1. p # "free" /\ \A t \in Tasks : t # task[a] => status'[t] = status[t]
        BY <2>1, <1>0
      <3> HIDE DEF p
      <3> QED
        BY <2>1, <2>2, <2>3, <3>1, RunStep
    <2>5. NoChild'
      <3>1. p # "serving" /\ task[a] # None /\ a \in Walkers
        BY <2>2, <1>0
      <3> HIDE DEF p
      <3> QED
        BY <2>1, <3>1, <1>0 DEF NoChild
    <2>6. LastWord(a)'
      BY <2>1, <1>0 DEF LastWord
    <2>7. RowFollows(a)'
      <3>1. Open(a)' \/ cur[a] \in Terminal
        BY <2>1, <2>2, <2>3 DEF StatusOf, Reports, Terminal, Open
      <3>2. cur[a] \in Terminal => outbox'[a] = << >> /\ said'[a] = "ended"
        BY <2>1 DEF LastWord
      <3>3. pc'[a] \in {"read", "cascade"}
        BY <2>1, <1>0
      <3> QED
        BY <3>1, <3>2, <3>3 DEF RowFollows
    <2> QED
      BY <2>4, <2>5, <2>6, <2>7
  <1>22. ASSUME NEW a \in Agents, RejectSubmit(a)
        PROVE  LifeInv'
    <2>1. /\ pc[a] = "read" /\ outbox[a] # << >>
          /\ outbox' = [outbox EXCEPT ![a] = Tail(@)]
          /\ UNCHANGED <<status, task, pc, cur, said, cstep, at, stack, up>>
      BY <1>22 DEF RejectSubmit, storeVars, mgrVars, launchVars, agentVars,
          wireVars, walkVars, hostVars
    <2>2. OneRun' /\ NoChild'
      BY <2>1, <1>0 DEF OneRun, NoChild, Active
    <2>3. /\ outbox'[a] = Tail(outbox[a]) /\ outbox[a] \in Seq(Frames)
          /\ Len(outbox[a]) \in Nat \ {0}
      BY <2>1, <1>0
    <2>4. /\ Len(outbox'[a]) = Len(outbox[a]) - 1
          /\ \A i \in 1..Len(outbox'[a]) : outbox'[a][i] = outbox[a][i + 1]
      BY <2>3
    <2>5. LastWord(a)'
      BY <2>1, <2>3, <2>4 DEF LastWord
    <2>6. RowFollows(a)'
      BY <2>1 DEF RowFollows, Open
    <2>7. ASSUME NEW b \in Agents, b # a PROVE LastWord(b)' /\ RowFollows(b)'
      <3>1. outbox'[b] = outbox[b]
        BY <2>1, <2>7, <1>0
      <3> QED
        BY <2>1, <3>1 DEF LastWord, RowFollows, Open
    <2> QED
      BY <2>2, <2>5, <2>6, <2>7
  <1>23. ASSUME NEW a \in Agents, Emit(a)
        PROVE  LifeInv'
    <2>1. PICK e \in Frames, s \in Voices :
             /\ Says(a, e, s)
             /\ said' = [said EXCEPT ![a] = s]
             /\ outbox' = [outbox EXCEPT ![a] = Append(@, e)]
      BY <1>23 DEF Emit
    <2>2. UNCHANGED <<status, task, pc, cur, cstep, at, stack, up>>
      BY <1>23 DEF Emit, storeVars, mgrVars, launchVars, agentVars, wireVars,
          walkVars, hostVars
    <2>3. said[a] # "ended" /\ (e \in Terminal => s = "ended")
      BY <2>1 DEF Says, Terminal
    <2>4. OneRun' /\ NoChild'
      BY <2>2 DEF OneRun, NoChild, Active
    <2>5. /\ outbox[a] \in Seq(Frames) /\ Len(outbox[a]) \in Nat
          /\ outbox'[a] = Append(outbox[a], e) /\ said'[a] = s
      BY <2>1, <1>0
    <2>6. /\ Len(outbox'[a]) = Len(outbox[a]) + 1
          /\ \A i \in 1..Len(outbox[a]) : outbox'[a][i] = outbox[a][i]
          /\ outbox'[a][Len(outbox[a]) + 1] = e
      BY <2>5
    <2>7. LastWord(a)'
      <3>1. \A i \in 1..Len(outbox[a]) : outbox[a][i] \notin Terminal
        BY <2>3 DEF LastWord
      <3>2. ~(pc[a] = "store" /\ cur[a] \in Terminal)
        BY <2>3 DEF LastWord
      <3> QED
        BY <2>2, <2>3, <2>5, <2>6, <3>1, <3>2 DEF LastWord
    <2>8. RowFollows(a)'
      BY <2>2, <2>3 DEF RowFollows, Open
    <2>9. ASSUME NEW b \in Agents, b # a PROVE LastWord(b)' /\ RowFollows(b)'
      <3>1. outbox'[b] = outbox[b] /\ said'[b] = said[b]
        BY <2>1, <2>9, <1>0
      <3> QED
        BY <2>2, <3>1 DEF LastWord, RowFollows, Open
    <2> QED
      BY <2>4, <2>7, <2>8, <2>9
  <1>24. ASSUME NEW w \in Walkers, Pop(w)
        PROVE  LifeInv'
    <2>1. /\ stack' = [stack EXCEPT ![w] = Tail(@)] /\ stack[w] # << >>
          /\ UNCHANGED <<status, task, cur, said, outbox, at, up>>
          /\ cstep' \in {cstep, [cstep EXCEPT ![w] = "over"]}
          /\ \/ pc' = pc
             \/ w \in Agents /\ pc' = [pc EXCEPT ![w] = "read"]
          /\ cstep[w] = "pick"
      BY <1>24 DEF Pop, Goto, storeVars, mgrVars, launchVars, agentVars,
          wireVars, walkVars, hostVars
    <2>2. NoChild'
      <3>1. /\ stack'[w] = Tail(stack[w]) /\ stack[w] \in Seq(SUBSET Tasks)
            /\ \A v \in Walkers : v # w => stack'[v] = stack[v]
        BY <2>1, <1>0
      <3>2. /\ Len(stack'[w]) = Len(stack[w]) - 1 /\ Len(stack[w]) \in Nat
            /\ \A i \in 1..Len(stack'[w]) : stack'[w][i] = stack[w][i + 1]
        BY <3>1, <2>1
      <3>3. \A i \in 1..Len(stack'[w]) : stack'[w][i] = {}
        BY <3>2 DEF NoChild
      <3> QED
        BY <2>1, <3>1, <3>3, <1>0 DEF NoChild
    <2>3. CASE pc' = pc
      BY <2>1, <2>2, <2>3, QuietStep
    <2>4. CASE w \in Agents /\ pc' = [pc EXCEPT ![w] = "read"]
      <3>1. pc[w] = "cascade"
        BY <2>1, <2>4 DEF ReaderWaits
      <3>2. Active(w) /\ task[w] \in Tasks
        BY <2>4, <3>1, <1>0 DEF Active, Finished
      <3>3. /\ OneRun'
            /\ \A b \in Agents : b # w => LastWord(b)' /\ RowFollows(b)'
        <4>1. status[task[w]] # "absent"
          BY <2>4, <3>1 DEF OneRun
        <4> QED
          BY <2>1, <2>4, <3>2, <4>1, RunStep
      <3>4. LastWord(w)' /\ RowFollows(w)'
        BY <2>1, <2>4, <3>1, <1>0 DEF LastWord, RowFollows, Open
      <3> QED
        BY <2>2, <2>4, <3>3, <3>4
    <2> QED
      BY <2>1, <2>3, <2>4
  <1>25. CASE Clear
    <2>1. /\ \A t \in Tasks :
                status'[t] = IF status[t] \in Terminal THEN "cleared"
                                                       ELSE status[t]
          /\ UNCHANGED <<task, pc, cur, said, outbox, cstep, at, stack, up>>
      BY <1>25 DEF Clear, storeVars, mgrVars, launchVars, agentVars, wireVars,
          walkVars, hostVars
    <2>2. ASSUME NEW a \in Agents, pc[a] # "free"
          PROVE  /\ status'[task[a]] = "absent" <=> status[task[a]] = "absent"
                 /\ status'[task[a]] = "pending" <=> status[task[a]] = "pending"
                 /\ Open(a)' <=> Open(a)
      BY <2>1, <2>2, <1>0 DEF Open, Terminal
    <2>3. OneRun' /\ NoChild'
      BY <2>1, <2>2 DEF OneRun, NoChild, Active, Finished
    <2>4. ASSUME NEW a \in Agents PROVE LastWord(a)' /\ RowFollows(a)'
      BY <2>1, <2>2 DEF LastWord, RowFollows
    <2> QED
      BY <2>3, <2>4
  <1>26. CASE Crash
    <2>1. /\ \A a \in Agents : pc'[a] = IF pc[a] = "free" THEN "free" ELSE "gone"
          /\ \A w \in Walkers : /\ cstep'[w] \in {"idle", "over"}
                                /\ stack'[w] = << >>
          /\ UNCHANGED <<status, task, cur, said, outbox>>
      BY <1>26 DEF Crash, storeVars, mgrVars, launchVars, agentVars, wireVars,
          walkVars, hostVars
    <2>2. OneRun' /\ NoChild'
      BY <2>1 DEF OneRun, NoChild, Active, Finished
    <2>3. ASSUME NEW a \in Agents PROVE LastWord(a)' /\ RowFollows(a)'
      BY <2>1 DEF LastWord, RowFollows
    <2> QED
      BY <2>2, <2>3
  <1>27. CASE Restart
    <2>1. /\ ~up
          /\ \A t \in Tasks : status'[t] = IF status[t] \in Live THEN "failed"
                                                              ELSE status[t]
          /\ UNCHANGED <<task, pc, cur, said, outbox, cstep, at, stack>>
      BY <1>27 DEF Restart, storeVars, mgrVars, launchVars, agentVars, wireVars,
          walkVars, hostVars
    <2>2. \A a \in Agents : pc[a] \in Finished \cup {"free"}
      BY <2>1 DEF OneRun, Active
    <2>3. OneRun'
      BY <2>1, <2>2, <1>0 DEF OneRun, Active, Live
    <2>4. NoChild'
      BY <2>1 DEF NoChild
    <2>5. ASSUME NEW a \in Agents PROVE LastWord(a)' /\ RowFollows(a)'
      BY <2>1, <2>2 DEF LastWord, RowFollows, Finished
    <2> QED
      BY <2>3, <2>4, <2>5
  <1>28. CASE UNCHANGED vars
    BY <1>28 DEF vars, OneRun, NoChild, LastWord, RowFollows, Active, Open
  <1>29. ASSUME NEW a \in Agents, Register(a)
        PROVE  LifeInv'
    <2>1. /\ pc[a] = "open" /\ pc' = [pc EXCEPT ![a] = "mark"]
          /\ status' = status
          /\ UNCHANGED <<task, cur, said, outbox, cstep, at, stack, up>>
      BY <1>29 DEF Register, Goto, storeVars, mgrVars, launchVars, agentVars,
          wireVars, walkVars, hostVars
    <2>2. Active(a) /\ task[a] \in Tasks
      BY <2>1, <1>0 DEF Active, Finished, ExitSteps
    <2>3. /\ OneRun'
          /\ \A b \in Agents : b # a => LastWord(b)' /\ RowFollows(b)'
      BY <2>1, <2>2, <1>0, RunStep DEF OneRun
    <2>4. NoChild'
      BY <2>1, <1>0 DEF NoChild
    <2>5. LastWord(a)' /\ RowFollows(a)'
      BY <2>1, <2>2, <1>0 DEF LastWord, RowFollows, Open, ExitSteps
    <2> QED
      BY <2>3, <2>4, <2>5
  <1>30. ASSUME NEW a \in Agents, StoreRaises(a)
        PROVE  LifeInv'
    <2>1. UNCHANGED <<status, task, cur, said, cstep, at, stack, up>>
      BY <1>30 DEF StoreRaises, storeVars, launchVars, walkVars, hostVars
    <2>2. CASE LaunchRaises(a) \/ ExitRaises(a) \/ pc[a] = "store"
      <3>1. PICK q \in {"aborted", "unwind", "read"} :
               /\ pc' = [pc EXCEPT ![a] = q]
               /\ q = "read" => pc[a] = "store"
        BY <1>30, <2>2 DEF StoreRaises, LaunchRaises, EventRaises, ExitRaises, Goto
      <3>2. outbox' = outbox /\ pc[a] \in {"reset", "mark", "eof", "fail", "store"}
        BY <1>30, <2>2 DEF StoreRaises, LaunchRaises, EventRaises, ExitRaises
      <3>3. Active(a) /\ task[a] \in Tasks /\ status[task[a]] # "absent"
        BY <3>2, <1>0 DEF Active, Finished, OneRun
      <3>4. /\ OneRun'
            /\ \A b \in Agents : b # a => LastWord(b)' /\ RowFollows(b)'
        BY <2>1, <3>1, <3>2, <3>3, RunStep
      <3>5. NoChild'
        BY <2>1, <3>1, <1>0 DEF NoChild
      <3>6. LastWord(a)' /\ RowFollows(a)'
        BY <2>1, <3>1, <3>2, <3>3, <1>0 DEF LastWord, RowFollows, Open
      <3> QED
        BY <3>4, <3>5, <3>6
    <2>3. CASE EventRaises(a) /\ pc[a] = "read"
      <3>1. /\ outbox[a] # << >> /\ outbox' = [outbox EXCEPT ![a] = Tail(@)]
            /\ pc' = pc
        BY <2>3 DEF EventRaises
      <3>2. OneRun' /\ NoChild'
        BY <2>1, <3>1 DEF OneRun, NoChild, Active
      <3>3. /\ outbox'[a] = Tail(outbox[a]) /\ outbox[a] \in Seq(Frames)
            /\ Len(outbox[a]) \in Nat \ {0}
        BY <3>1, <1>0
      <3>4. /\ Len(outbox'[a]) = Len(outbox[a]) - 1
            /\ \A i \in 1..Len(outbox'[a]) : outbox'[a][i] = outbox[a][i + 1]
        BY <3>3
      <3>5. LastWord(a)'
        BY <2>1, <2>3, <3>1, <3>3, <3>4 DEF LastWord
      <3>6. RowFollows(a)'
        BY <2>1, <2>3, <3>1 DEF RowFollows, Open
      <3>7. ASSUME NEW b \in Agents, b # a PROVE LastWord(b)' /\ RowFollows(b)'
        <4>1. outbox'[b] = outbox[b]
          BY <3>1, <3>7, <1>0
        <4> QED
          BY <2>1, <3>1, <4>1 DEF LastWord, RowFollows, Open
      <3> QED
        BY <3>2, <3>5, <3>6, <3>7
    <2> QED
      BY <1>30, <2>2, <2>3 DEF StoreRaises, EventRaises
  <1>31. ASSUME NEW w \in Walkers, WalkRaises(w)
        PROVE  LifeInv'
    <2>1. /\ stack' = [stack EXCEPT ![w] = << >>]
          /\ cstep' = [cstep EXCEPT ![w] = "over"] /\ cstep[w] = "expand"
          /\ UNCHANGED <<status, task, cur, said, outbox, at, up>>
          /\ \/ pc' = pc
             \/ w \in Agents /\ pc' = [pc EXCEPT ![w] = "read"]
      BY <1>31 DEF WalkRaises, NoChild, Goto, storeVars, launchVars, agentVars,
          hostVars
    <2>2. NoChild'
      BY <2>1, <1>0 DEF NoChild
    <2>3. CASE pc' = pc
      BY <2>1, <2>2, <2>3, QuietStep
    <2>4. CASE w \in Agents /\ pc' = [pc EXCEPT ![w] = "read"]
      <3>1. pc[w] = "cascade"
        BY <2>1, <2>4 DEF ReaderWaits
      <3>2. Active(w) /\ task[w] \in Tasks /\ status[task[w]] # "absent"
        BY <2>4, <3>1, <1>0 DEF Active, Finished, OneRun
      <3>3. /\ OneRun'
            /\ \A b \in Agents : b # w => LastWord(b)' /\ RowFollows(b)'
        BY <2>1, <2>4, <3>2, RunStep
      <3>4. LastWord(w)' /\ RowFollows(w)'
        BY <2>1, <2>4, <3>1, <1>0 DEF LastWord, RowFollows, Open
      <3> QED
        BY <2>2, <2>4, <3>3, <3>4
    <2> QED
      BY <2>1, <2>3, <2>4
  <1> QED
    BY NotTaken, <1>1, <1>2, <1>3, <1>4, <1>5, <1>6, <1>7, <1>8, <1>9, <1>10,
        <1>11, <1>12, <1>13, <1>14, <1>15, <1>16, <1>17, <1>18, <1>19, <1>20,
        <1>21, <1>22, <1>23, <1>24, <1>25, <1>26, <1>27, <1>28, <1>29, <1>30, <1>31
       DEF Next, Request, Launch, Read, Subprocess, Walk

\* What TaskLifecycle knows as an admitted retry.
Admitted == {t \in Tasks : \E a \in Agents : pc[a] = "reset" /\ task[a] = t}

\* An admitted retry is one the daemon is about to reset the row for.
LEMMA SameAdmitted ==
  ASSUME \A a \in Agents : /\ pc'[a] = "reset" <=> pc[a] = "reset"
                           /\ pc[a] = "reset" => task'[a] = task[a]
  PROVE  Admitted' = Admitted
  BY DEF Admitted

\* A step that changes neither a row nor a retry is one TaskLifecycle allows.
LEMMA LifeStutter ==
  ASSUME UNCHANGED status,
         \A a \in Agents : /\ pc'[a] = "reset" <=> pc[a] = "reset"
                           /\ pc[a] = "reset" => task'[a] = task[a]
  PROVE  UNCHANGED <<status, Admitted>>
  BY SameAdmitted

\* Every step is one of TaskLifecycle's, or changes nothing it sees.
LEMMA LifeStep ==
  ASSUME TypeInv, BegunHasTask, ReaderWaits, LifeInv, Childless, Patient, Next
  PROVE  LC!LifeNext \/ UNCHANGED <<status, Admitted>>
  <1>0. /\ pc \in [Agents -> Places] /\ task \in [Agents -> Tasks \cup {None}]
        /\ status \in [Tasks -> Statuses]
        /\ \A a \in Agents : pc[a] # "free" => task[a] \in Tasks
    BY DEF TypeInv, TypeOK, BegunHasTask
  <1> USE DEF LifeInv
  <1>1. ASSUME NEW a \in Agents, NEW t \in Tasks, Submit(a, t)
        PROVE  LC!LifeNext
    <2>1. /\ pc[a] = "free" /\ status[t] = "absent"
          /\ pc' = [pc EXCEPT ![a] = "spawn"]
          /\ status' = [status EXCEPT ![t] = "pending"]
          /\ task' = [task EXCEPT ![a] = t]
      BY <1>1 DEF Submit, Create, SetStatus, Goto
    <2>2. Admitted' = Admitted
      BY <2>1, <1>0, SameAdmitted
    <2> QED
      BY <2>1, <2>2 DEF LC!LifeNext, LC!Create, LC!Move, Admitted
  <1>2. ASSUME NEW a \in Agents, NEW t \in Tasks, RetryCheck(a, t)
        PROVE  LC!LifeNext
    <2>1. /\ pc[a] = "free" /\ status[t] \in Terminal /\ status' = status
          /\ pc' = [pc EXCEPT ![a] = "reset"]
          /\ task' = [task EXCEPT ![a] = t]
      BY <1>2 DEF RetryCheck, Goto, storeVars
    <2>2. Admitted' = Admitted \cup {t}
      BY <2>1, <1>0 DEF Admitted
    <2> QED
      BY <2>1, <2>2 DEF LC!LifeNext, LC!Admit, LC!Terminal, Terminal, Admitted
  <1>3. ASSUME NEW a \in Agents, RetryReset(a)
        PROVE  LC!LifeNext
    <2>1. /\ pc[a] = "reset" /\ pc' = [pc EXCEPT ![a] = "spawn"]
          /\ status' = [status EXCEPT ![task[a]] = "pending"] /\ task' = task
      BY <1>3 DEF RetryReset, SetStatus, Goto, launchVars
    <2>2. task[a] \in Admitted
      BY <2>1, <1>0 DEF Admitted
    <2>3. \A b \in Agents : pc[b] = "reset" /\ task[b] = task[a] => b = a
      BY <2>1 DEF OneRun, Active, Finished
    <2>4. Admitted' = Admitted \ {task[a]}
      BY <2>1, <2>3, <1>0 DEF Admitted
    <2> QED
      BY <2>1, <2>2, <2>4, <1>0 DEF LC!LifeNext, LC!Relaunch, Admitted
  <1>4. ASSUME NEW a \in Agents, MarkRunning(a)
        PROVE  LC!LifeNext
    <2>1. /\ pc[a] = "mark" /\ pc' = [pc EXCEPT ![a] = "send"]
          /\ status' = [status EXCEPT ![task[a]] = "running"] /\ task' = task
      BY <1>4 DEF MarkRunning, SetStatus, Goto, launchVars
    <2>2. Admitted' = Admitted
      BY <2>1, <1>0, SameAdmitted
    <2>3. status[task[a]] = "pending" /\ task[a] \in Tasks
      BY <2>1, <1>0 DEF RowFollows
    <2> QED
      BY <2>1, <2>2, <2>3 DEF LC!LifeNext, LC!Launch, LC!Move, Admitted
  <1>5. ASSUME NEW a \in Agents, MarkFailed(a)
        PROVE  LC!LifeNext
    <2>1. /\ pc[a] = "fail" /\ pc' = [pc EXCEPT ![a] = "clean"]
          /\ status' = [status EXCEPT ![task[a]] = "failed"] /\ task' = task
      BY <1>5 DEF MarkFailed, SetStatus, Goto, launchVars
    <2>2. Admitted' = Admitted
      BY <2>1, <1>0, SameAdmitted
    <2>3. Open(a) /\ task[a] \in Tasks
      BY <2>1, <1>0 DEF RowFollows
    <2> QED
      BY <2>1, <2>2, <2>3 DEF LC!LifeNext, LC!Finish, LC!Move, LC!Terminal, Open,
         Admitted
  <1>6. ASSUME NEW a \in Agents, StoreEvent(a)
        PROVE  LC!LifeNext \/ UNCHANGED <<status, Admitted>>
    <2> DEFINE t == task[a]
    <2>1. /\ pc[a] = "store" /\ pc'[a] # "reset"
          /\ \A b \in Agents : b # a => pc'[b] = pc[b]
          /\ status' = [status EXCEPT ![t] = StatusOf(cur[a])] /\ task' = task
      BY <1>6, <1>0 DEF StoreEvent, SetStatus, Goto, launchVars
    <2>2. Admitted' = Admitted
      BY <2>1, SameAdmitted
    <2>3. /\ status[t] \in {"running", "interrupted"} /\ t \in Tasks
          /\ cur[a] \in Reports
      BY <2>1, <1>0 DEF RowFollows, Open, TypeInv, StoreHasEvent
    <2>4. CASE StatusOf(cur[a]) = status[t]
      BY <2>1, <2>2, <2>4, <1>0
    <2>5. CASE StatusOf(cur[a]) # status[t] /\ cur[a] \in {"started", "resumed"}
      <3>1. status[t] = "interrupted" /\ StatusOf(cur[a]) = "running"
        BY <2>3, <2>5 DEF StatusOf
      <3> QED
        BY <2>1, <2>2, <2>3, <3>1 DEF LC!LifeNext, LC!Resume, LC!Move, Admitted
    <2>6. CASE StatusOf(cur[a]) # status[t] /\ cur[a] = "interrupted"
      <3>1. status[t] = "running" /\ StatusOf(cur[a]) = "interrupted"
        BY <2>3, <2>6 DEF StatusOf
      <3> QED
        BY <2>1, <2>2, <2>3, <3>1 DEF LC!LifeNext, LC!Interrupt, LC!Move, Admitted
    <2>7. CASE cur[a] \in Terminal
      <3>1. StatusOf(cur[a]) = cur[a] /\ cur[a] \in LC!Terminal
        BY <2>7 DEF StatusOf, Terminal, LC!Terminal
      <3> QED
        BY <2>1, <2>2, <2>3, <3>1 DEF LC!LifeNext, LC!Finish, LC!Move, Admitted
    <2> QED
      BY <2>3, <2>4, <2>5, <2>6, <2>7 DEF Reports
  <1>7. ASSUME Clear PROVE LC!LifeNext
    <2>1. Admitted' = Admitted
      BY <1>7, SameAdmitted DEF Clear, launchVars
    <2> QED
      BY <1>7, <2>1 DEF Clear, Terminal, LC!LifeNext, LC!Hide, LC!Terminal, Admitted
  <1>8. ASSUME Crash PROVE LC!LifeNext
    <2>1. Admitted' = {} /\ status' = status
      BY <1>8 DEF Crash, Admitted, storeVars
    <2> QED
      BY <2>1 DEF LC!LifeNext, LC!Forget, Admitted
  <1>9. ASSUME Restart PROVE LC!LifeNext
    <2>1. Admitted' = Admitted
      BY <1>9, SameAdmitted DEF Restart, launchVars
    <2> QED
      BY <1>9, <2>1 DEF Restart, Live, LC!LifeNext, LC!Recover, LC!Live, Admitted
  <1>10. ASSUME NEW a \in Agents, Spawn(a)
        PROVE  UNCHANGED <<status, Admitted>>
    BY <1>10, <1>0, LifeStutter DEF Spawn, Goto, storeVars, mgrVars, launchVars,
        agentVars, wireVars, walkVars, hostVars
  <1>11. ASSUME NEW a \in Agents, SpawnFail(a)
        PROVE  UNCHANGED <<status, Admitted>>
    BY <1>11, <1>0, LifeStutter DEF SpawnFail, Goto, storeVars, mgrVars,
        launchVars, agentVars, wireVars, walkVars, hostVars
  <1>12. ASSUME NEW a \in Agents, SendExecute(a)
        PROVE  UNCHANGED <<status, Admitted>>
    BY <1>12, <1>0, LifeStutter DEF SendExecute, Goto, storeVars, mgrVars,
        launchVars, agentVars, wireVars, walkVars, hostVars
  <1>13. ASSUME NEW a \in Agents, ReadEvent(a)
        PROVE  UNCHANGED <<status, Admitted>>
    BY <1>13, <1>0, LifeStutter DEF ReadEvent, Goto, storeVars, mgrVars,
        launchVars, agentVars, wireVars, walkVars, hostVars
  <1>14. ASSUME NEW a \in Agents, ReadEof(a)
        PROVE  UNCHANGED <<status, Admitted>>
    BY <1>14, <1>0, LifeStutter DEF ReadEof, Goto, storeVars, mgrVars,
        launchVars, agentVars, wireVars, walkVars, hostVars
  <1>15. ASSUME NEW a \in Agents, ReadRaises(a)
        PROVE  UNCHANGED <<status, Admitted>>
    BY <1>15, <1>0, LifeStutter DEF ReadRaises, Goto, storeVars, mgrVars,
        launchVars, agentVars, wireVars, walkVars, hostVars
  <1>16. ASSUME NEW a \in Agents, FinalCheck(a)
        PROVE  UNCHANGED <<status, Admitted>>
    BY <1>16, <1>0, LifeStutter DEF FinalCheck, Goto, storeVars, mgrVars,
        launchVars, agentVars, wireVars, walkVars, hostVars
  <1>17. ASSUME NEW a \in Agents, Cleanup(a)
        PROVE  UNCHANGED <<status, Admitted>>
    BY <1>17, <1>0, LifeStutter DEF Cleanup, Goto, ExitSteps, storeVars,
        mgrVars, launchVars, agentVars, wireVars, walkVars, hostVars
  <1>18. ASSUME NEW a \in Agents, RejectSubmit(a)
        PROVE  UNCHANGED <<status, Admitted>>
    BY <1>18, <1>0, LifeStutter DEF RejectSubmit, storeVars, mgrVars,
        launchVars, agentVars, wireVars, walkVars, hostVars
  <1>19. ASSUME NEW a \in Agents, Boot(a)
        PROVE  UNCHANGED <<status, Admitted>>
    BY <1>19, <1>0, LifeStutter DEF Boot, storeVars, mgrVars, launchVars,
        agentVars, wireVars, walkVars, hostVars
  <1>20. ASSUME NEW a \in Agents, Emit(a)
        PROVE  UNCHANGED <<status, Admitted>>
    BY <1>20, <1>0, LifeStutter DEF Emit, storeVars, mgrVars, launchVars,
        agentVars, wireVars, walkVars, hostVars
  <1>21. ASSUME NEW a \in Agents, Hear(a)
        PROVE  UNCHANGED <<status, Admitted>>
    BY <1>21, <1>0, LifeStutter DEF Hear, storeVars, mgrVars, launchVars,
        agentVars, wireVars, walkVars, hostVars
  <1>22. ASSUME NEW a \in Agents, Leave(a)
        PROVE  UNCHANGED <<status, Admitted>>
    BY <1>22, <1>0, LifeStutter DEF Leave, storeVars, mgrVars, launchVars,
        agentVars, wireVars, walkVars, hostVars
  <1>23. ASSUME NEW a \in Agents, Die(a)
        PROVE  UNCHANGED <<status, Admitted>>
    BY <1>23, <1>0, LifeStutter DEF Die, storeVars, mgrVars, launchVars,
        agentVars, wireVars, walkVars, hostVars
  <1>24. ASSUME NEW o \in Ops, NEW t \in Tasks, Cancel(o, t)
        PROVE  UNCHANGED <<status, Admitted>>
    BY <1>24, <1>0, LifeStutter DEF Cancel, storeVars, mgrVars, launchVars,
        agentVars, wireVars, walkVars, hostVars
  <1>25. ASSUME NEW o \in Ops, NEW t \in Tasks, Notify(o, t)
        PROVE  UNCHANGED <<status, Admitted>>
    BY <1>25, <1>0, LifeStutter DEF Notify, storeVars, mgrVars, launchVars,
        agentVars, wireVars, walkVars, hostVars
  <1>26. ASSUME NEW w \in Walkers, Expand(w)
        PROVE  UNCHANGED <<status, Admitted>>
    BY <1>26, <1>0, LifeStutter DEF Expand, storeVars, mgrVars, launchVars,
        agentVars, wireVars, walkVars, hostVars
  <1>27. ASSUME NEW w \in Walkers, Pop(w)
        PROVE  UNCHANGED <<status, Admitted>>
    BY <1>27, <1>0, LifeStutter DEF Pop, Goto, ReaderWaits, storeVars, mgrVars,
        launchVars, agentVars, wireVars, walkVars, hostVars
  <1>28. ASSUME NEW a \in Agents, Register(a)
        PROVE  UNCHANGED <<status, Admitted>>
    BY <1>28, <1>0, LifeStutter DEF Register, Goto, storeVars, launchVars
  <1>29. ASSUME NEW a \in Agents, StoreRaises(a)
        PROVE  LC!LifeNext \/ UNCHANGED <<status, Admitted>>
    <2>1. status' = status /\ task' = task
      BY <1>29 DEF StoreRaises, storeVars, launchVars
    <2>2. CASE pc[a] = "reset"
      <3>1. pc' = [pc EXCEPT ![a] = "aborted"]
        BY <1>29, <2>2 DEF StoreRaises, LaunchRaises, EventRaises, ExitRaises, Goto
      <3>2. \A b \in Agents : pc[b] = "reset" /\ task[b] = task[a] => b = a
        BY <2>2 DEF OneRun, Active, Finished
      <3>3. task[a] \in Tasks /\ Admitted' = Admitted \ {task[a]}
        BY <2>1, <2>2, <3>1, <3>2, <1>0 DEF Admitted
      <3> QED
        BY <2>1, <3>3 DEF LC!LifeNext, LC!Withdraw, Admitted
    <2>3. CASE pc[a] # "reset"
      BY <1>29, <2>1, <2>3, <1>0, LifeStutter DEF StoreRaises, LaunchRaises,
          EventRaises, ExitRaises, Goto
    <2> QED
      BY <2>2, <2>3
  <1>30. ASSUME NEW w \in Walkers, WalkRaises(w)
        PROVE  UNCHANGED <<status, Admitted>>
    BY <1>30, <1>0, LifeStutter DEF WalkRaises, Goto, ReaderWaits, storeVars,
        launchVars
  <1> QED
    BY NotTaken, <1>1, <1>2, <1>3, <1>4, <1>5, <1>6, <1>7, <1>8, <1>9, <1>10,
        <1>11, <1>12, <1>13, <1>14, <1>15, <1>16, <1>17, <1>18, <1>19, <1>20,
        <1>21, <1>22, <1>23, <1>24, <1>25, <1>26, <1>27, <1>28, <1>29, <1>30
       DEF Next, Request, Launch, Read, Subprocess, Walk

\* The task table only makes the moves of TaskLifecycle, for any number of
\* tasks, runs, requests, crashes and faults, as long as tasks have no children
\* and the operator lets a run settle before asking for the next: no event of
\* an earlier run, no second reader and no restart disturbs a row.
THEOREM LifecycleHolds ==
  ASSUME Childless, Patient
  PROVE  Spec => ImplementsLifecycle
  <1>1. Init => LC!LifeInit
    BY DEF Init, LC!LifeInit
  <1>2. Init => TypeInv /\ ReaderWaits /\ RouteInv /\ LifeInv
    BY TypeInvInit, WalkInit, RouteInit, LifeInvInit
  <1>3. TypeInv /\ ReaderWaits /\ RouteInv /\ LifeInv /\ [Next]_vars =>
          /\ (TypeInv /\ ReaderWaits /\ RouteInv /\ LifeInv)'
          /\ [LC!LifeNext]_(LC!lifeVars)
    <2> SUFFICES ASSUME TypeInv, ReaderWaits, RouteInv, LifeInv, [Next]_vars
                 PROVE  /\ (TypeInv /\ ReaderWaits /\ RouteInv /\ LifeInv)'
                        /\ [LC!LifeNext]_(LC!lifeVars)
      OBVIOUS
    <2>1. TypeInv' /\ ReaderWaits' /\ RouteInv' /\ LifeInv'
      BY TypeInvNext, WalkNext, RouteNext, LifeInvNext DEF RouteInv
    <2>2. CASE Next
      <3>1. LC!LifeNext \/ UNCHANGED <<status, Admitted>>
        BY <2>2, LifeStep DEF RouteInv
      <3> QED
        BY <2>1, <3>1 DEF LC!lifeVars, Admitted
    <2>3. CASE UNCHANGED vars
      <3>1. UNCHANGED <<status, Admitted>>
        BY <2>3, LifeStutter DEF vars
      <3> QED
        BY <2>1, <3>1 DEF LC!lifeVars, Admitted
    <2> QED
      BY <2>1, <2>2, <2>3
  <1> QED
    BY <1>1, <1>2, <1>3, PTL DEF Spec, ImplementsLifecycle, LC!Lifecycle

-----------------------------------------------------------------------------
(* The cascade reaches the children of a run that ends badly, in families   *)
(* of two generations and as long as nothing disturbs the family: no retry  *)
(* over a live agent, no operator's request, no crash, no launch that fails,*)
(* no statement of the store that raises, no frame that is too large.  None *)
(* of these can be left out: TLC finds a child that escapes when any one of *)
(* them is allowed, or a third generation is.                               *)

TwoGenerations ==
    \A t \in Tasks : Parent[t] # None => Parent[Parent[t]] = None
Orderly == Patient /\ Ops = {} /\ MaxCrashes = 0 /\ Faulty \subseteq {"die"}

\* A subprocess that runs has a launch or a reader at work on it, and the
\* socket breaks only after it has exited.
Manned == {"open", "mark", "send", "read", "store", "cascade", "serving"}
Running(a) == proc[a] \in {"boot", "run"}
ProcInv ==
    \A a \in Agents :
        /\ Running(a) => pc[a] \in Manned
        /\ pc[a] \in {"free", "reset", "spawn"} => proc[a] = "none"
        /\ pc[a] \in {"eof", "fail"} \cup ExitSteps => proc[a] = "exited"
        /\ proc[a] # "exited" => conn[a] = "open"

\* An agent's terminal event is its last frame, and no frame is too large.
WordOK(a) ==
    /\ \A i \in 1..Len(outbox[a]) :
          /\ outbox[a][i] # "huge"
          /\ outbox[a][i] \in Terminal =>
                i = Len(outbox[a]) /\ said[a] = "ended"
    /\ cur[a] \in Terminal =>
          outbox[a] = << >> /\ said[a] = "ended" /\ pc[a] # "serving"
WordInv == \A a \in Agents : WordOK(a)

\* A walk visits the children of its own task, and a child is launched by its
\* parent's reader, which does nothing else meanwhile.
ChildOf(c, a) == c \in Tasks /\ Parent[c] = task[a]
Visiting(w) == cstep[w] \in {"check", "write", "log"}
WalkOK(w) ==
    /\ cstep[w] \in {"idle", "over"} => stack[w] = << >>
    /\ cstep[w] = "expand" => at[w] = task[w] \/ ChildOf(at[w], w)
    /\ Visiting(w) => ChildOf(at[w], w)
    /\ \A i \in 1..Len(stack[w]) : \A c \in stack[w][i] : ChildOf(c, w)
LaunchOK(b) ==
    caller[b] # None =>
        /\ pc[b] \notin {"free", "reset"} /\ pc[caller[b]] # "free"
        /\ ChildOf(task[b], caller[b])
        /\ pc[b] \in LaunchSteps => pc[caller[b]] = "serving"
FamilyInv ==
    /\ up /\ OneRun
    /\ \A w \in Agents : WalkOK(w)
    /\ \A b \in Agents : LaunchOK(b)

\* A child's run that is starting, or runs and has not been told, is one the
\* walk of its parent's reader can reach: its row is live, it is routed to, and
\* once the parent has ended badly it is still on the walk's list.
Owed(b) == caller[b] # None /\ (pc[b] = "spawn" \/ Unaware(b))
OnList(c, a) ==
    /\ pc[a] = "cascade"
    /\ \/ cstep[a] = "expand" /\ at[a] = task[a]
       \/ \E i \in 1..Len(stack[a]) : c \in stack[a][i]
InReach(b) ==
    /\ status[task[b]] \in Live
    /\ \A w \in Agents : Visiting(w) => at[w] # task[b]
    /\ Unaware(b) /\ pc[b] # "open" => b \in handles /\ route[task[b]] = b
    /\ cur[caller[b]] \in {"failed", "cancelled"} =>
          pc[caller[b]] = "store" \/ OnList(task[b], caller[b])
CascadeInv == \A b \in Agents : Owed(b) => InReach(b)

\* What a step is known to start from.
FamilyBase == TypeInv /\ ReaderWaits /\ BegunHasTask /\ FamilyInv

\* What is left of the steps: the daemon stays up, readers alone walk.
LEMMA OrderlySteps ==
  ASSUME Orderly, FamilyBase, Next
  PROVE  \/ \E a \in Agents, t \in Tasks : Submit(a, t) \/ RetryCheck(a, t)
         \/ Clear
         \/ \E a \in Agents : \/ RetryReset(a) \/ Read(a) \/ Subprocess(a)
                              \/ Walk(a)
                              \/ Launch(a) /\ ~SpawnFail(a)
  <1>1. ~Crash /\ ~Restart
    BY DEF Orderly, FamilyBase, FamilyInv, TypeInv, TypeOK, Crash, Restart
  <1>2. Ops = {} /\ Walkers = Agents
    BY DEF Orderly, Walkers
  <1>3. /\ \A a \in Agents : ~StoreRaises(a)
        /\ \A w \in Walkers : ~WalkRaises(w)
    BY DEF Orderly, StoreRaises, WalkRaises
  <1>4. \A a \in Agents : ~SpawnFail(a)
    BY DEF Orderly, SpawnFail
  <1> QED
    BY <1>1, <1>2, <1>3, <1>4 DEF Next, Request

\* A launch that waits for its connection goes on when it has it.
LEMMA OpenWaits ==
  ASSUME Orderly, FamilyBase, Next, NEW b \in Agents, pc[b] = "open",
         pc'[b] # "open"
  PROVE  Register(b)
  <1>0. /\ ReaderWaits /\ pc \in [Agents -> Places] /\ Agents \subseteq Walkers
    BY DEF FamilyBase, TypeInv, TypeOK, Walkers
  <1> DEFINE Busy(a) ==
               \/ \E t \in Tasks : Submit(a, t) \/ RetryCheck(a, t)
               \/ RetryReset(a) \/ Spawn(a) \/ MarkRunning(a) \/ SendExecute(a)
               \/ ReadEvent(a) \/ StoreEvent(a) \/ ReadEof(a) \/ ReadRaises(a)
               \/ FinalCheck(a) \/ MarkFailed(a) \/ Cleanup(a) \/ ServeDone(a)
               \/ RejectSubmit(a) \/ Subprocess(a)
  <1>1. ASSUME NEW a \in Agents, Busy(a)
        PROVE  pc'[b] = "open"
    BY <1>1, <1>0 DEF Submit, RetryCheck, RetryReset, Spawn, MarkRunning,
      SendExecute, ReadEvent, StoreEvent, ReadEof, ReadRaises, FinalCheck,
      MarkFailed, Cleanup, ServeDone, RejectSubmit, Subprocess, Boot, Emit, Hear,
      Leave, Die, Create, Goto, ExitSteps
  <1>2. ASSUME NEW a \in Agents, NEW d \in Agents, ServeSubmit(a, d)
        PROVE  pc'[b] = "open"
    BY <1>2, <1>0 DEF ServeSubmit, Create
  <1>3. ASSUME NEW w \in Agents, Walk(w)
        PROVE  pc'[b] = "open"
    BY <1>3, <1>0 DEF Walk, Expand, Pick, Pop, Recheck, MarkCancelled,
      LogCancelled, Goto, ReaderWaits
  <1>4. CASE Clear
    BY <1>4 DEF Clear
  <1>5. ASSUME NEW a \in Agents, Register(a), a # b
        PROVE  pc'[b] = "open"
    BY <1>5, <1>0 DEF Register, Goto
  <1> QED
    BY <1>1, <1>2, <1>3, <1>4, <1>5, OrderlySteps DEF Launch, Read

\* No cancel is on its way to b.
Spared(b) == \A i \in 1..Len(inbox[b]) : inbox[b][i] # "cancel"

\* Writing a frame breaks a socket only if its peer is gone, takes no frame
\* back, and delivers a cancel to a peer that is there.
LEMMA WriteWire ==
  ASSUME TypeInv, NEW a \in Agents, NEW m \in Commands, Write(a, m)
  PROVE  /\ \A b \in Agents : conn'[b] # conn[b] =>
               b = a /\ (proc[a] = "exited" \/ conn[a] = "lost")
         /\ \A b \in Agents : Spared(b)' => Spared(b)
         /\ m = "cancel" /\ proc[a] # "exited" /\ conn[a] = "open" =>
               ~Spared(a)'
  <1>1. /\ inbox \in [Agents -> Seq(Commands)]
        /\ conn \in [Agents -> {"open", "unread", "lost"}]
    BY DEF TypeInv, TypeOK
  <1>2. CASE proc[a] = "exited" \/ conn[a] = "lost"
    BY <1>1, <1>2 DEF Write, Spared
  <1>3. CASE ~(proc[a] = "exited" \/ conn[a] = "lost")
    <2>1. /\ inbox' = [inbox EXCEPT ![a] = Append(inbox[a], m)] /\ conn' = conn
          /\ inbox'[a] = Append(inbox[a], m) /\ inbox[a] \in Seq(Commands)
          /\ Len(inbox[a]) \in Nat
      BY <1>1, <1>3 DEF Write
    <2>2. /\ Len(inbox'[a]) = Len(inbox[a]) + 1
          /\ \A i \in 1..Len(inbox[a]) : inbox'[a][i] = inbox[a][i]
          /\ inbox'[a][Len(inbox[a]) + 1] = m
      BY <2>1
    <2>3. Spared(a)' => Spared(a) /\ m # "cancel"
      BY <2>1, <2>2 DEF Spared
    <2>4. \A b \in Agents : b # a => inbox'[b] = inbox[b]
      BY <2>1, <1>1
    <2> QED
      BY <2>1, <2>3, <2>4 DEF Spared
  <1> QED
    BY <1>2, <1>3

\* An exit leaves the other subprocesses' sockets alone.
LEMMA CloseWire ==
  ASSUME TypeInv, NEW a \in Agents, Close(a)
  PROVE  /\ proc'[a] = "exited"
         /\ \A b \in Agents : b # a => /\ proc'[b] = proc[b]
                                       /\ conn'[b] = conn[b]
                                       /\ inbox'[b] = inbox[b]
  BY DEF Close, TypeInv, TypeOK

\* A running subprocess is manned, and its socket holds until it exits.
LEMMA ProcInvNext ==
  ASSUME Orderly, FamilyBase, ProcInv, WordInv, Next
  PROVE  ProcInv'
  <1>0. /\ FamilyBase /\ ProcInv /\ WordInv /\ TypeInv /\ ReaderWaits
        /\ pc \in [Agents -> Places] /\ cstep \in [Walkers -> WalkSteps]
        /\ proc \in [Agents -> {"none", "boot", "run", "exited"}]
        /\ conn \in [Agents -> {"open", "unread", "lost"}]
        /\ outbox \in [Agents -> Seq(Frames)]
        /\ stack \in [Walkers -> Seq(SUBSET Tasks)]
        /\ handles \subseteq Agents /\ Agents \subseteq Walkers
    BY DEF FamilyBase, TypeInv, TypeOK, Walkers
  <1>1. ASSUME NEW a \in Agents,
               \/ \E t \in Tasks : Submit(a, t) \/ RetryCheck(a, t)
               \/ RetryReset(a) \/ Spawn(a) \/ Register(a) \/ MarkRunning(a)
               \/ \E b \in Agents : ServeSubmit(b, a)
        PROVE  ProcInv'
    BY <1>1, <1>0 DEF Submit, RetryCheck, RetryReset, Spawn, Register,
      MarkRunning, ServeSubmit, Create, Goto, agentVars, wireVars, ProcInv,
      Running, Manned, ExitSteps
  <1>2. ASSUME NEW a \in Agents,
               \/ ReadEvent(a) \/ StoreEvent(a) \/ ReadEof(a) \/ FinalCheck(a)
               \/ MarkFailed(a) \/ Cleanup(a)
        PROVE  ProcInv'
    BY <1>2, <1>0 DEF ReadEvent, StoreEvent, ReadEof, FinalCheck, MarkFailed,
      Cleanup, Goto, agentVars, wireVars, ProcInv, Running, Manned, ExitSteps
  <1>3. ASSUME NEW w \in Agents,
               \/ Expand(w) \/ Pop(w) \/ Recheck(w) \/ MarkCancelled(w)
               \/ LogCancelled(w)
        PROVE  ProcInv'
    BY <1>3, <1>0 DEF Expand, Pop, Recheck, MarkCancelled, LogCancelled, Goto,
      agentVars, wireVars, ReaderWaits, ProcInv, Running, Manned, ExitSteps
  <1>4. CASE Clear \/ \E a \in Agents : Emit(a) \/ Hear(a)
    BY <1>4, <1>0 DEF Clear, Emit, Hear, agentVars, wireVars, ProcInv, Running,
      Manned, ExitSteps
  <1>5. ASSUME NEW a \in Agents,
               SendExecute(a) \/ ServeDone(a) \/ RejectSubmit(a)
        PROVE  ProcInv'
    <2>1. Write(a, "execute") \/ Write(a, "response")
      BY <1>5 DEF SendExecute, ServeDone, RejectSubmit
    <2>2. \A b \in Agents : conn'[b] # conn[b] =>
             b = a /\ (proc[a] = "exited" \/ conn[a] = "lost")
      BY <2>1, <1>0, WriteWire DEF Commands
    <2> QED
      BY <1>5, <1>0, <2>2 DEF SendExecute, ServeDone, RejectSubmit, Goto,
        agentVars, ProcInv, Running, Manned, ExitSteps
  <1>6. ASSUME NEW a \in Agents, ReadRaises(a)
        PROVE  ProcInv'
    <2>1. /\ pc' = [pc EXCEPT ![a] = "unwind"] /\ UNCHANGED <<proc, conn>>
          /\ pc[a] = "read"
      BY <1>6 DEF ReadRaises, Goto, agentVars, wireVars
    <2>2. conn[a] # "open" \/ (outbox[a] # << >> /\ Head(outbox[a]) = "huge")
      BY <1>6 DEF ReadRaises
    <2>3. ~(outbox[a] # << >> /\ Head(outbox[a]) = "huge")
      <3>1. \A i \in 1..Len(outbox[a]) : outbox[a][i] # "huge"
        BY <1>0 DEF WordInv, WordOK
      <3>2. outbox[a] \in Seq(Frames)
        BY <1>0
      <3> QED
        BY <3>1, <3>2
    <2> QED
      BY <2>1, <2>2, <2>3, <1>0 DEF ProcInv, Running, Manned, ExitSteps
  <1>7. ASSUME NEW a \in Agents, Boot(a) \/ Leave(a) \/ Die(a)
        PROVE  ProcInv'
    <2>1. UNCHANGED pc /\ Running(a)
      BY <1>7, <1>0 DEF Boot, Leave, Die, Running
    <2>2. CASE Close(a)
      BY <2>1, <2>2, <1>0, CloseWire DEF ProcInv, Running, Manned, ExitSteps
    <2>3. CASE proc' = [proc EXCEPT ![a] = "run"] /\ UNCHANGED conn
      BY <2>1, <2>3, <1>0 DEF ProcInv, Running, Manned, ExitSteps
    <2> QED
      BY <1>7, <2>2, <2>3 DEF Boot, Leave, Die
  <1>8. ASSUME NEW w \in Agents, Pick(w)
        PROVE  ProcInv'
    <2>1. UNCHANGED <<pc, proc>>
      BY <1>8 DEF Pick, agentVars
    <2>2. PICK c \in Tasks : SendTo(c, "cancel")
      <3>1. stack[w] \in Seq(SUBSET Tasks) /\ stack[w] # << >>
        BY <1>8, <1>0 DEF Pick
      <3>2. Head(stack[w]) \subseteq Tasks
        BY <3>1
      <3> QED
        BY <1>8, <3>2 DEF Pick
    <2>3. CASE route[c] \in handles
      <3>1. route[c] \in Agents /\ Write(route[c], "cancel")
        BY <2>2, <2>3, <1>0 DEF SendTo
      <3>2. \A b \in Agents : conn'[b] # conn[b] =>
               \/ proc[b] = "exited" \/ conn[b] = "lost"
        BY <3>1, <1>0, WriteWire DEF Commands
      <3> QED
        BY <2>1, <3>2, <1>0 DEF ProcInv, Running, Manned, ExitSteps
    <2>4. CASE route[c] \notin handles
      BY <2>1, <2>2, <2>4, <1>0 DEF SendTo, wireVars, ProcInv, Running, Manned,
        ExitSteps
    <2> QED
      BY <2>3, <2>4
  <1> QED
    BY <1>1, <1>2, <1>3, <1>4, <1>5, <1>6, <1>7, <1>8, OrderlySteps
    DEF Launch, Read, Subprocess, Walk

\* Nothing is said after a terminal event, and its reader asks nothing more.
LEMMA WordInvNext ==
  ASSUME Orderly, FamilyBase, WordInv, Next
  PROVE  WordInv'
  <1>0. /\ FamilyBase /\ WordInv
        /\ pc \in [Agents -> Places] /\ said \in [Agents -> Voices]
        /\ cur \in [Agents -> Reports \cup {"none"}]
        /\ outbox \in [Agents -> Seq(Frames)]
    BY DEF FamilyBase, TypeInv, TypeOK
  <1> DEFINE Mute(a) ==
               \/ \E t \in Tasks : Submit(a, t) \/ RetryCheck(a, t)
               \/ RetryReset(a) \/ Spawn(a) \/ Register(a) \/ MarkRunning(a)
               \/ SendExecute(a) \/ StoreEvent(a) \/ ReadEof(a) \/ ReadRaises(a)
               \/ FinalCheck(a) \/ MarkFailed(a) \/ Cleanup(a) \/ ServeDone(a)
               \/ Boot(a) \/ Leave(a) \/ Die(a)
               \/ Walk(a)
  <1>1. ASSUME NEW a \in Agents, Mute(a)
        PROVE  WordInv'
    <2>1. /\ UNCHANGED <<cur, said, outbox>>
          /\ \A b \in Agents : pc'[b] = "serving" => pc[b] = "serving"
      BY <1>1, <1>0 DEF Submit, Create, RetryCheck, RetryReset, Spawn,
        Register, MarkRunning, SendExecute, StoreEvent, ReadEof, ReadRaises,
        FinalCheck, MarkFailed, Cleanup, ServeDone, Boot, Leave, Die, Walk,
        Expand, Pick, Pop, Recheck, MarkCancelled, LogCancelled, Goto,
        agentVars
    <2> QED
      BY <2>1, <1>0 DEF WordInv, WordOK
  <1>2. ASSUME NEW a \in Agents, Hear(a)
        PROVE  WordInv'
    <2>1. /\ UNCHANGED <<cur, pc, outbox>>
          /\ \A b \in Agents : said[b] = "ended" => said'[b] = "ended"
      BY <1>2, <1>0 DEF Hear
    <2> QED
      BY <2>1, <1>0 DEF WordInv, WordOK
  <1>3. CASE Clear
    BY <1>3, <1>0 DEF Clear, agentVars, WordInv, WordOK
  <1>4. ASSUME NEW a \in Agents, outbox[a] # << >>,
               outbox' = [outbox EXCEPT ![a] = Tail(@)], UNCHANGED said
        PROVE  /\ \A i \in 1..Len(outbox'[a]) :
                     /\ outbox'[a][i] # "huge"
                     /\ outbox'[a][i] \in Terminal =>
                           i = Len(outbox'[a]) /\ said'[a] = "ended"
               /\ Head(outbox[a]) \in Terminal =>
                     outbox'[a] = << >> /\ said'[a] = "ended"
               /\ cur[a] \notin Terminal
    <2>1. /\ outbox'[a] = Tail(outbox[a]) /\ Head(outbox[a]) = outbox[a][1]
          /\ outbox[a] \in Seq(Frames) /\ Len(outbox[a]) \in Nat \ {0}
      BY <1>4, <1>0
    <2>2. /\ Len(outbox'[a]) = Len(outbox[a]) - 1
          /\ \A i \in 1..Len(outbox'[a]) : outbox'[a][i] = outbox[a][i + 1]
      BY <2>1
    <2>3. Len(outbox'[a]) = 0 => outbox'[a] = << >>
      <3>1. Tail(outbox[a]) \in Seq(Frames)
        BY <2>1, <1>4, HeadTailProperties
      <3> QED
        BY <2>1, <3>1, EmptySeq
    <2>4. WordOK(a) /\ 1 \in 1..Len(outbox[a])
      BY <2>1, <1>0 DEF WordInv
    <2>5. Head(outbox[a]) \in Terminal => Len(outbox'[a]) = 0 /\ said'[a] = "ended"
      <3>1. outbox[a][1] \in Terminal => 1 = Len(outbox[a]) /\ said[a] = "ended"
        BY <2>4 DEF WordOK
      <3> QED
        BY <2>1, <2>2, <3>1, <1>4
    <2>6. ASSUME NEW i \in 1..Len(outbox'[a])
          PROVE  /\ outbox'[a][i] # "huge"
                 /\ outbox'[a][i] \in Terminal =>
                       i = Len(outbox'[a]) /\ said'[a] = "ended"
      <3>1. i + 1 \in 1..Len(outbox[a]) /\ outbox'[a][i] = outbox[a][i + 1]
        BY <2>1, <2>2
      <3> QED
        BY <2>1, <2>2, <2>4, <3>1, <1>4 DEF WordOK
    <2> QED
      BY <2>3, <2>4, <2>5, <2>6, <1>4 DEF WordOK
  <1>5. ASSUME NEW a \in Agents, ReadEvent(a)
        PROVE  WordInv'
    <2>1. /\ pc' = [pc EXCEPT ![a] = "store"] /\ outbox[a] # << >>
          /\ outbox' = [outbox EXCEPT ![a] = Tail(@)]
          /\ cur' = [cur EXCEPT ![a] = Head(outbox[a])]
          /\ UNCHANGED said
      BY <1>5 DEF ReadEvent, Goto
    <2>2. WordOK(a)'
      BY <2>1, <1>0, <1>4 DEF WordOK
    <2>3. \A b \in Agents : b # a => WordOK(b)'
      BY <2>1, <1>0 DEF WordInv, WordOK
    <2> QED
      BY <2>2, <2>3 DEF WordInv
  <1>6. ASSUME NEW a \in Agents,
               RejectSubmit(a) \/ \E b \in Agents : ServeSubmit(a, b)
        PROVE  WordInv'
    <2>1. /\ outbox[a] # << >> /\ outbox' = [outbox EXCEPT ![a] = Tail(@)]
          /\ UNCHANGED <<cur, said>>
          /\ \A b \in Agents : b # a /\ pc'[b] = "serving" => pc[b] = "serving"
      BY <1>6, <1>0 DEF RejectSubmit, ServeSubmit, Create
    <2>2. WordOK(a)'
      BY <2>1, <1>0, <1>4 DEF WordOK
    <2>3. \A b \in Agents : b # a => WordOK(b)'
      BY <2>1, <1>0 DEF WordInv, WordOK
    <2> QED
      BY <2>2, <2>3 DEF WordInv
  <1>7. ASSUME NEW a \in Agents, Emit(a)
        PROVE  WordInv'
    <2>1. PICK e \in Frames, s \in Voices :
             /\ Says(a, e, s)
             /\ said' = [said EXCEPT ![a] = s]
             /\ outbox' = [outbox EXCEPT ![a] = Append(@, e)]
      BY <1>7 DEF Emit
    <2>2. UNCHANGED <<pc, cur>>
      BY <1>7 DEF Emit
    <2>3. said[a] # "ended" /\ e # "huge" /\ (e \in Terminal => s = "ended")
      BY <2>1 DEF Says, Terminal, Orderly
    <2>4. /\ outbox[a] \in Seq(Frames) /\ Len(outbox[a]) \in Nat
          /\ outbox'[a] = Append(outbox[a], e) /\ said'[a] = s
      BY <2>1, <1>0
    <2>5. /\ Len(outbox'[a]) = Len(outbox[a]) + 1
          /\ \A i \in 1..Len(outbox[a]) : outbox'[a][i] = outbox[a][i]
          /\ outbox'[a][Len(outbox[a]) + 1] = e
      BY <2>4
    <2>6. /\ cur[a] \notin Terminal
          /\ \A i \in 1..Len(outbox[a]) : /\ outbox[a][i] # "huge"
                                          /\ outbox[a][i] \notin Terminal
      BY <2>3, <1>0 DEF WordInv, WordOK
    <2>7. WordOK(a)'
      BY <2>2, <2>3, <2>4, <2>5, <2>6 DEF WordOK
    <2>8. \A b \in Agents : b # a => WordOK(b)'
      BY <2>1, <2>2, <1>0 DEF WordInv, WordOK
    <2> QED
      BY <2>7, <2>8 DEF WordInv
  <1> QED
    BY <1>1, <1>2, <1>3, <1>5, <1>6, <1>7, OrderlySteps
    DEF Launch, Read, Subprocess

\* Rows are not unmade, runs end or go on, and a new run has its task to itself.
LEMMA FamilyRuns ==
  ASSUME Orderly, FamilyBase, Next
  PROVE  (up /\ OneRun)'
  <1>0. /\ FamilyBase /\ TypeInv /\ up /\ OneRun
        /\ pc \in [Agents -> Places] /\ status \in [Tasks -> Statuses]
        /\ task \in [Agents -> Tasks \cup {None}]
        /\ \A a \in Agents : pc[a] = "store" => cur[a] \in Reports
        /\ \A a \in Agents : pc[a] # "free" => task[a] \in Tasks
    BY DEF FamilyBase, FamilyInv, TypeInv, TypeOK, StoreHasEvent, BegunHasTask
  <1>1. ASSUME NEW b \in Agents, NEW t \in Tasks, status[t] = "absent",
               status' = [status EXCEPT ![t] = "pending"],
               task' = [task EXCEPT ![b] = t], up' = up, pc[b] = "free",
               \A d \in Agents \ {b} : Active(d)' => Active(d),
               \A d \in Agents \ {b} : pc[d] = "free" => pc'[d] = "free"
        PROVE  OneRun'
    <2>1. \A d \in Agents : pc[d] # "free" => task[d] # t
      BY <1>1, <1>0 DEF OneRun
    <2>2. \A d \in Agents : d # b => task'[d] = task[d]
      BY <1>1, <1>0
    <2> QED
      BY <1>1, <1>0, <2>1, <2>2 DEF OneRun, Active
  <1>2. ASSUME NEW b \in Agents, NEW t \in Tasks, Submit(b, t)
        PROVE  (up /\ OneRun)'
    <2>1. /\ status[t] = "absent" /\ status' = [status EXCEPT ![t] = "pending"]
          /\ task' = [task EXCEPT ![b] = t] /\ up' = up /\ pc[b] = "free"
          /\ pc' = [pc EXCEPT ![b] = "spawn"]
      BY <1>2 DEF Submit, Create, SetStatus, Goto, hostVars
    <2> QED
      BY <2>1, <1>0, <1>1 DEF Active
  <1>3. ASSUME NEW a \in Agents, NEW b \in Agents, ServeSubmit(a, b)
        PROVE  (up /\ OneRun)'
    <2>1. PICK t \in Tasks : Create(b, t, a)
      BY <1>3 DEF ServeSubmit
    <2>2. /\ status[t] = "absent" /\ status' = [status EXCEPT ![t] = "pending"]
          /\ task' = [task EXCEPT ![b] = t] /\ up' = up /\ pc[b] = "free"
          /\ pc' = [pc EXCEPT ![a] = "serving", ![b] = "spawn"] /\ pc[a] = "read"
      BY <1>3, <2>1 DEF ServeSubmit, Create, SetStatus, hostVars
    <2> QED
      BY <2>2, <1>0, <1>1 DEF Active, Finished
  <1>4. ASSUME NEW b \in Agents, NEW t \in Tasks, RetryCheck(b, t)
        PROVE  (up /\ OneRun)'
    <2>1. /\ Settled(t) /\ status[t] \in Terminal /\ UNCHANGED <<status, up>>
          /\ task' = [task EXCEPT ![b] = t] /\ pc' = [pc EXCEPT ![b] = "reset"]
      BY <1>4 DEF Orderly, RetryCheck, Goto, storeVars, hostVars
    <2>2. \A d \in Agents : Active(d) => task[d] # t
      BY <2>1 DEF Settled, Active
    <2> QED
      BY <2>1, <2>2, <1>0 DEF OneRun, Active, Terminal
  <1> DEFINE Going(a) ==
               \/ RetryReset(a) \/ Spawn(a) \/ Register(a) \/ MarkRunning(a)
               \/ SendExecute(a) \/ ReadEvent(a) \/ StoreEvent(a) \/ ReadEof(a)
               \/ ReadRaises(a) \/ FinalCheck(a) \/ MarkFailed(a) \/ Cleanup(a)
               \/ ServeDone(a) \/ RejectSubmit(a) \/ Boot(a) \/ Emit(a)
               \/ Hear(a) \/ Leave(a) \/ Die(a)
               \/ Walk(a)
  <1>5. ASSUME NEW a \in Agents, Going(a)
        PROVE  (up /\ OneRun)'
    <2>1. task' = task /\ up' = up
      BY <1>5 DEF RetryReset, Spawn, Register, MarkRunning, SendExecute,
        ReadEvent, StoreEvent, ReadEof, ReadRaises, FinalCheck, MarkFailed,
        Cleanup, ServeDone, RejectSubmit, Boot, Emit, Hear, Leave, Die, Walk,
        Expand, Pick, Pop, Recheck, MarkCancelled, LogCancelled, launchVars,
        hostVars
    <2>2. \A b \in Agents : /\ pc'[b] = "free" <=> pc[b] = "free"
                            /\ Active(b)' => Active(b)
      BY <1>5, <1>0 DEF RetryReset, Spawn, Register, MarkRunning, SendExecute,
        ReadEvent, StoreEvent, ReadEof, ReadRaises, FinalCheck, MarkFailed,
        Cleanup, ServeDone, RejectSubmit, Boot, Emit, Hear, Leave, Die, Walk,
        Expand, Pick, Pop, Recheck, MarkCancelled, LogCancelled, Goto, Active,
        Finished, ExitSteps, FamilyBase, ReaderWaits
    <2>3. \A t \in Tasks : status[t] # "absent" => status'[t] # "absent"
      <3>1. \A e \in Reports : StatusOf(e) # "absent"
        BY DEF StatusOf, Reports, Terminal
      <3> QED
        BY <1>5, <1>0, <3>1 DEF RetryReset, Spawn, Register, MarkRunning,
          SendExecute, ReadEvent, StoreEvent, ReadEof, ReadRaises, FinalCheck,
          MarkFailed, Cleanup, ServeDone, RejectSubmit, Boot, Emit, Hear,
          Leave, Die, Walk, Expand, Pick, Pop, Recheck, MarkCancelled,
          LogCancelled, SetStatus, storeVars
    <2> QED
      BY <2>1, <2>2, <2>3, <1>0 DEF OneRun
  <1>6. CASE Clear
    <2>1. UNCHANGED <<pc, task, up>>
      BY <1>6 DEF Clear, launchVars, hostVars
    <2>2. \A t \in Tasks : status[t] # "absent" => status'[t] # "absent"
      BY <1>6, <1>0 DEF Clear
    <2> QED
      BY <2>1, <2>2, <1>0 DEF OneRun, Active
  <1> QED
    BY <1>2, <1>3, <1>4, <1>5, <1>6, OrderlySteps
    DEF Launch, Read, Subprocess

\* A walk a step leaves alone is where it was.
LEMMA SameWalk ==
  ASSUME NEW w \in Agents, WalkOK(w), task'[w] = task[w], cstep'[w] = cstep[w],
         at'[w] = at[w], stack'[w] = stack[w]
  PROVE  WalkOK(w)'
  BY DEF WalkOK, Visiting, ChildOf

\* A walk never leaves the family of its reader's task.
LEMMA FamilyWalks ==
  ASSUME TwoGenerations, Orderly, FamilyBase, Next
  PROVE  \A w \in Agents : WalkOK(w)'
  <1>0. /\ TypeInv /\ ReaderWaits /\ Agents \subseteq Walkers
        /\ None \notin Tasks /\ \A w \in Agents : WalkOK(w)
        /\ pc \in [Agents -> Places] /\ task \in [Agents -> Tasks \cup {None}]
        /\ cstep \in [Walkers -> WalkSteps]
        /\ at \in [Walkers -> Tasks \cup {None}]
        /\ stack \in [Walkers -> Seq(SUBSET Tasks)]
        /\ \A a \in Agents : pc[a] # "free" => task[a] \in Tasks
    BY SupervisionAssumption DEF FamilyBase, FamilyInv, TypeInv, TypeOK,
      BegunHasTask, Walkers
  <1>1. ASSUME NEW b \in Agents, UNCHANGED walkVars, pc[b] = "free",
               \A d \in Agents \ {b} : task'[d] = task[d]
        PROVE  \A w \in Agents : WalkOK(w)'
    <2>1. stack[b] = << >> /\ cstep[b] \in {"idle", "over"}
      BY <1>1, <1>0 DEF ReaderWaits, WalkOK
    <2>2. WalkOK(b)'
      BY <2>1, <1>1 DEF WalkOK, Visiting, walkVars
    <2>3. \A w \in Agents \ {b} : WalkOK(w)'
      BY <1>0, <1>1, SameWalk DEF walkVars
    <2> QED
      BY <2>2, <2>3
  <1>2. ASSUME NEW b \in Agents,
               \/ \E t \in Tasks : Submit(b, t) \/ RetryCheck(b, t)
               \/ \E a \in Agents : ServeSubmit(a, b)
        PROVE  \A w \in Agents : WalkOK(w)'
    <2>1. UNCHANGED walkVars /\ pc[b] = "free"
      BY <1>2 DEF Submit, RetryCheck, ServeSubmit, Create
    <2>2. \A d \in Agents \ {b} : task'[d] = task[d]
      BY <1>2, <1>0 DEF Submit, RetryCheck, ServeSubmit, Create
    <2> QED
      BY <2>1, <2>2, <1>1
  <1> DEFINE Going(a) ==
               \/ RetryReset(a) \/ Spawn(a) \/ Register(a) \/ MarkRunning(a)
               \/ SendExecute(a) \/ ReadEvent(a) \/ ReadEof(a)
               \/ ReadRaises(a) \/ FinalCheck(a) \/ MarkFailed(a) \/ Cleanup(a)
               \/ ServeDone(a) \/ RejectSubmit(a) \/ Boot(a) \/ Emit(a)
               \/ Hear(a) \/ Leave(a) \/ Die(a)
  <1>3. ASSUME Clear \/ \E a \in Agents : Going(a)
        PROVE  \A w \in Agents : WalkOK(w)'
    <2>1. task' = task /\ UNCHANGED walkVars
      BY <1>3 DEF RetryReset, Spawn, Register, MarkRunning, SendExecute,
        ReadEvent, ReadEof, ReadRaises, FinalCheck, MarkFailed, Cleanup,
        ServeDone, RejectSubmit, Boot, Emit, Hear, Leave, Die, Clear,
        launchVars
    <2> QED
      BY <2>1, <1>0, SameWalk DEF walkVars
  <1>4. ASSUME NEW a \in Agents, StoreEvent(a)
        PROVE  \A w \in Agents : WalkOK(w)'
    <2>1. /\ task' = task /\ stack' = stack
          /\ \/ /\ cstep' = [cstep EXCEPT ![a] = "expand"]
                /\ at' = [at EXCEPT ![a] = task[a]]
             \/ UNCHANGED <<cstep, at>>
      BY <1>4 DEF StoreEvent, launchVars
    <2>2. \A w \in Agents : at'[w] # at[w] \/ cstep'[w] # cstep[w] =>
             cstep'[w] = "expand" /\ at'[w] = task[w]
      BY <2>1, <1>0
    <2> QED
      BY <2>1, <2>2, <1>0 DEF WalkOK, Visiting, ChildOf
  <1>5. ASSUME NEW w \in Agents, task' = task, cstep[w] \notin {"idle", "over"},
               \A v \in Walkers \ {w} : /\ stack'[v] = stack[v] /\ at'[v] = at[v]
                                        /\ cstep'[v] = cstep[v],
               WalkOK(w)'
        PROVE  \A v \in Agents : WalkOK(v)'
    BY <1>5, <1>0, SameWalk
  <1>6. ASSUME NEW w \in Agents, Expand(w)
        PROVE  \A v \in Agents : WalkOK(v)'
    <2> DEFINE kids == {c \in Tasks : /\ Parent[c] = at[w]
                                      /\ status[c] \notin Terminal \cup {"absent"}}
    <2>1. /\ cstep[w] = "expand" /\ cstep' = [cstep EXCEPT ![w] = "pick"]
          /\ stack' = [stack EXCEPT ![w] = << kids >> \o @]
          /\ task' = task /\ at' = at
      BY <1>6 DEF Expand, launchVars
    <2>2. task[w] \in Tasks /\ stack[w] \in Seq(SUBSET Tasks)
      BY <2>1, <1>0 DEF ReaderWaits
    <2>3. at[w] = task[w] \/ ChildOf(at[w], w)
      BY <2>1, <1>0 DEF WalkOK
    <2>4. \A c \in kids : ChildOf(c, w)
      <3>1. ASSUME NEW c \in kids, ChildOf(at[w], w) PROVE FALSE
        <4>1. /\ c \in Tasks /\ Parent[c] = at[w] /\ at[w] \in Tasks
              /\ Parent[at[w]] = task[w]
          BY <3>1 DEF ChildOf
        <4> QED
          BY <4>1, <2>2, <1>0 DEF TwoGenerations
      <3> QED
        BY <3>1, <2>3 DEF ChildOf
    <2>5. /\ Len(stack'[w]) = Len(stack[w]) + 1 /\ stack'[w][1] = kids
          /\ \A i \in 1..Len(stack[w]) : stack'[w][i + 1] = stack[w][i]
      <3>1. stack'[w] = << kids >> \o stack[w]
        BY <2>1, <1>0
      <3> QED
        BY <3>1, <2>2
    <2>6. \A i \in 1..Len(stack'[w]) : \A c \in stack'[w][i] : ChildOf(c, w)
      <3>1. TAKE i \in 1..Len(stack'[w])
      <3>2. CASE i = 1
        BY <3>2, <2>4, <2>5
      <3>3. CASE i # 1
        <4>1. i - 1 \in 1..Len(stack[w]) /\ stack'[w][i] = stack[w][i - 1]
          BY <3>3, <2>2, <2>5
        <4> QED
          BY <4>1, <1>0 DEF WalkOK
      <3> QED
        BY <3>2, <3>3
    <2>7. WalkOK(w)'
      BY <2>1, <2>6, <1>0 DEF WalkOK, Visiting, ChildOf
    <2> QED
      BY <2>1, <2>7, <1>0, <1>5
  <1>7. ASSUME NEW w \in Agents, Pick(w)
        PROVE  \A v \in Agents : WalkOK(v)'
    <2>1. /\ cstep[w] = "pick" /\ stack[w] # << >>
          /\ cstep' = [cstep EXCEPT ![w] = "check"] /\ task' = task
      BY <1>7 DEF Pick, launchVars
    <2>2. PICK c \in Head(stack[w]) :
             /\ at' = [at EXCEPT ![w] = c]
             /\ stack' = [stack EXCEPT ![w] = << Head(@) \ {c} >> \o Tail(@)]
      BY <1>7 DEF Pick
    <2>3. stack[w] \in Seq(SUBSET Tasks) /\ Len(stack[w]) \in Nat \ {0}
      BY <2>1, <1>0
    <2>4. ChildOf(c, w)
      <3>1. Head(stack[w]) = stack[w][1] /\ 1 \in 1..Len(stack[w])
        BY <2>3
      <3> QED
        BY <3>1, <2>2, <1>0 DEF WalkOK
    <2>5. /\ Len(stack'[w]) = Len(stack[w])
          /\ \A i \in 1..Len(stack[w]) : stack'[w][i] \subseteq stack[w][i]
      <3>1. stack'[w] = << Head(stack[w]) \ {c} >> \o Tail(stack[w])
        BY <2>2, <1>0
      <3> QED
        BY <3>1, <2>3
    <2>6. WalkOK(w)'
      BY <2>1, <2>2, <2>3, <2>4, <2>5, <1>0 DEF WalkOK, Visiting, ChildOf
    <2> QED
      BY <2>1, <2>2, <2>6, <1>0, <1>5
  <1>8. ASSUME NEW w \in Agents, Pop(w)
        PROVE  \A v \in Agents : WalkOK(v)'
    <2>1. /\ cstep[w] = "pick" /\ stack[w] # << >> /\ task' = task /\ at' = at
          /\ stack' = [stack EXCEPT ![w] = Tail(@)]
          /\ IF Len(stack[w]) = 1 THEN cstep' = [cstep EXCEPT ![w] = "over"]
                                  ELSE cstep' = cstep
      BY <1>8 DEF Pop, launchVars
    <2>2. stack[w] \in Seq(SUBSET Tasks) /\ Len(stack[w]) \in Nat \ {0}
      BY <2>1, <1>0
    <2>3. /\ stack'[w] = Tail(stack[w]) /\ Len(stack'[w]) = Len(stack[w]) - 1
          /\ \A i \in 1..Len(stack'[w]) : stack'[w][i] = stack[w][i + 1]
      BY <2>1, <2>2, <1>0
    <2>4. Len(stack[w]) = 1 => stack'[w] = << >>
      <3>1. Tail(stack[w]) \in Seq(SUBSET Tasks)
        BY <2>1, <2>2, HeadTailProperties
      <3>2. stack'[w] \in Seq(SUBSET Tasks)
        BY <2>3, <3>1
      <3>3. Len(stack[w]) = 1 => Len(stack'[w]) = 0
        BY <2>2, <2>3
      <3> QED
        BY <3>2, <3>3, EmptySeq
    <2>5. \A i \in 1..Len(stack'[w]) : \A c \in stack'[w][i] : ChildOf(c, w)
      <3>1. TAKE i \in 1..Len(stack'[w])
      <3>2. i + 1 \in 1..Len(stack[w]) /\ stack'[w][i] = stack[w][i + 1]
        BY <2>2, <2>3
      <3> QED
        BY <3>2, <1>0 DEF WalkOK
    <2>6. WalkOK(w)'
      BY <2>1, <2>4, <2>5, <1>0 DEF WalkOK, Visiting, ChildOf
    <2> QED
      BY <2>1, <2>6, <1>0, <1>5
  <1>9. ASSUME NEW w \in Agents,
               Recheck(w) \/ MarkCancelled(w) \/ LogCancelled(w)
        PROVE  \A v \in Agents : WalkOK(v)'
    <2>1. /\ UNCHANGED <<task, at, stack>> /\ Visiting(w)
          /\ \E s \in {"expand", "write", "log"} : cstep' = [cstep EXCEPT ![w] = s]
      BY <1>9 DEF Recheck, MarkCancelled, LogCancelled, Visiting, launchVars
    <2>2. WalkOK(w)'
      BY <2>1, <1>0 DEF WalkOK, Visiting, ChildOf
    <2> QED
      BY <2>1, <2>2, <1>0, <1>5 DEF Visiting
  <1> QED
    BY <1>2, <1>3, <1>4, <1>6, <1>7, <1>8, <1>9, OrderlySteps
    DEF Launch, Read, Subprocess, Walk

\* The reader that serves a submit request waits for the launch it started.
LEMMA FamilyLaunches ==
  ASSUME Orderly, FamilyBase, Next
  PROVE  \A b \in Agents : LaunchOK(b)'
  <1>0. /\ TypeInv /\ ReaderWaits /\ \A b \in Agents : LaunchOK(b)
        /\ None \notin Tasks \cup Agents
        /\ pc \in [Agents -> Places] /\ task \in [Agents -> Tasks \cup {None}]
        /\ caller \in [Agents -> Agents \cup {None}] /\ Agents \subseteq Walkers
    BY SupervisionAssumption DEF FamilyBase, FamilyInv, TypeInv, TypeOK, Walkers
  <1>1. ASSUME NEW b \in Agents, NEW t \in Tasks,
               Submit(b, t) \/ RetryCheck(b, t)
        PROVE  \A d \in Agents : LaunchOK(d)'
    <2>1. /\ pc[b] = "free" /\ caller[b] = None
          /\ \A d \in Agents : caller[d] # b
      <3>1. pc[b] = "free"
        BY <1>1 DEF Submit, RetryCheck, Create
      <3> QED
        BY <3>1, <1>0 DEF LaunchOK
    <2>2. /\ task' = [task EXCEPT ![b] = t] /\ caller' = caller
          /\ \E p \in {"spawn", "reset"} : pc' = [pc EXCEPT ![b] = p]
      BY <1>1, <2>1, <1>0 DEF Submit, RetryCheck, Create, Goto
    <2> QED
      BY <2>1, <2>2, <1>0 DEF LaunchOK, ChildOf
  <1>2. ASSUME NEW a \in Agents, NEW b \in Agents, ServeSubmit(a, b)
        PROVE  \A d \in Agents : LaunchOK(d)'
    <2>1. PICK c \in Tasks : Parent[c] = task[a] /\ Create(b, c, a)
      BY <1>2 DEF ServeSubmit
    <2>2. /\ pc[b] = "free" /\ pc[a] = "read"
          /\ task' = [task EXCEPT ![b] = c] /\ caller' = [caller EXCEPT ![b] = a]
          /\ pc' = [pc EXCEPT ![a] = "serving", ![b] = "spawn"]
      BY <1>2, <2>1 DEF ServeSubmit, Create
    <2>3. \A d \in Agents : caller[d] # b
      BY <2>2, <1>0 DEF LaunchOK
    <2>4. LaunchOK(b)'
      BY <2>1, <2>2, <1>0 DEF LaunchOK, ChildOf
    <2>5. \A d \in Agents \ {b} : LaunchOK(d)'
      BY <2>2, <2>3, <1>0 DEF LaunchOK, ChildOf, LaunchSteps
    <2> QED
      BY <2>4, <2>5
  <1> DEFINE Going(a) ==
               \/ RetryReset(a) \/ Spawn(a) \/ Register(a) \/ MarkRunning(a)
               \/ SendExecute(a) \/ ReadEvent(a) \/ StoreEvent(a) \/ ReadEof(a)
               \/ ReadRaises(a) \/ FinalCheck(a) \/ MarkFailed(a) \/ Cleanup(a)
               \/ RejectSubmit(a) \/ Boot(a) \/ Emit(a)
               \/ Hear(a) \/ Leave(a) \/ Die(a) \/ Walk(a)
  <1>3. ASSUME Clear \/ \E a \in Agents : Going(a)
        PROVE  \A d \in Agents : LaunchOK(d)'
    <2>1. task' = task /\ caller' = caller
      BY <1>3 DEF RetryReset, Spawn, Register, MarkRunning, SendExecute,
        ReadEvent, StoreEvent, ReadEof, ReadRaises, FinalCheck, MarkFailed,
        Cleanup, RejectSubmit, Boot, Emit, Hear, Leave, Die, Clear, Walk,
        Expand, Pick, Pop, Recheck, MarkCancelled, LogCancelled, launchVars
    <2>2. ASSUME NEW d \in Agents
          PROVE  /\ pc[d] # "free" => pc'[d] # "free"
                 /\ pc[d] \notin {"free", "reset"} => pc'[d] # "reset"
                 /\ pc'[d] \in LaunchSteps => pc[d] \in LaunchSteps \cup {"reset"}
                 /\ pc[d] = "serving" => pc'[d] = "serving"
      BY <1>3, <1>0 DEF RetryReset, Spawn, Register, MarkRunning, SendExecute,
        ReadEvent, StoreEvent, ReadEof, ReadRaises, FinalCheck, MarkFailed,
        Cleanup, RejectSubmit, Boot, Emit, Hear, Leave, Die, Clear, Walk,
        Expand, Pick, Pop, Recheck, MarkCancelled, LogCancelled, Goto,
        LaunchSteps, ExitSteps, ReaderWaits
    <2> QED
      BY <2>1, <2>2, <1>0 DEF LaunchOK, ChildOf
  <1>4. ASSUME NEW a \in Agents, ServeDone(a)
        PROVE  \A d \in Agents : LaunchOK(d)'
    <2>1. /\ task' = task /\ caller' = caller
          /\ pc[a] = "serving" /\ pc' = [pc EXCEPT ![a] = "read"]
          /\ \A d \in Agents : caller[d] = a => pc[d] \notin LaunchSteps
      BY <1>4 DEF ServeDone, Goto, launchVars
    <2> QED
      BY <2>1, <1>0 DEF LaunchOK, ChildOf, LaunchSteps
  <1> QED
    BY <1>1, <1>2, <1>3, <1>4, OrderlySteps
    DEF Launch, Read, Subprocess

\* No step breaks a family up.
LEMMA FamilyInvNext ==
  ASSUME TwoGenerations, Orderly, FamilyBase, Next
  PROVE  FamilyInv'
  BY FamilyRuns, FamilyWalks, FamilyLaunches DEF FamilyInv

\* A child's run comes to be owed a cancel only when it is submitted.
LEMMA OwedBefore ==
  ASSUME Orderly, FamilyBase, ProcInv, Next, NEW b \in Agents, Owed(b)'
  PROVE  \/ \E a \in Agents : ServeSubmit(a, b)
         \/ /\ Owed(b) /\ task'[b] = task[b] /\ caller'[b] = caller[b]
            /\ task'[caller[b]] = task[caller[b]]
            /\ Unaware(b)' => Unaware(b) \/ Spawn(b)
  <1>0. /\ TypeInv /\ ReaderWaits /\ LaunchOK(b) /\ ProcInv
        /\ None \notin Tasks \cup Agents
        /\ pc \in [Agents -> Places] /\ task \in [Agents -> Tasks \cup {None}]
        /\ caller \in [Agents -> Agents \cup {None}] /\ Agents \subseteq Walkers
        /\ proc \in [Agents -> {"none", "boot", "run", "exited"}]
        /\ said \in [Agents -> Voices] /\ heard \in [Agents -> BOOLEAN]
        /\ inbox \in [Agents -> Seq(Commands)]
        /\ stack \in [Walkers -> Seq(SUBSET Tasks)] /\ handles \subseteq Agents
    BY SupervisionAssumption DEF FamilyBase, FamilyInv, TypeInv, TypeOK, Walkers
  <1> DEFINE Kept == /\ Owed(b) /\ task'[b] = task[b] /\ caller'[b] = caller[b]
                     /\ task'[caller[b]] = task[caller[b]]
                     /\ Unaware(b)' => Unaware(b) \/ Spawn(b)
             Same == proc'[b] = proc[b] /\ said'[b] = said[b] /\ heard'[b] = heard[b]
  <1>1. ASSUME NEW x \in Agents, NEW t \in Tasks, Submit(x, t) \/ RetryCheck(x, t)
        PROVE  Kept
    <2>1. /\ pc[x] = "free" /\ UNCHANGED <<proc, said, heard, inbox>>
          /\ \E p \in {"spawn", "reset"} : pc' = [pc EXCEPT ![x] = p]
          /\ task' = [task EXCEPT ![x] = t]
          /\ caller' = caller \/ caller' = [caller EXCEPT ![x] = None]
      BY <1>1 DEF Submit, RetryCheck, Create, Goto, agentVars, wireVars
    <2>2. caller'[b] # None
      BY DEF Owed
    <2>3. x # b /\ x # caller[b]
      BY <2>1, <2>2, <1>0 DEF LaunchOK
    <2> QED
      BY <2>1, <2>3, <1>0 DEF Owed, Unaware
  <1>2. ASSUME NEW a \in Agents, NEW x \in Agents, ServeSubmit(a, x), x # b
        PROVE  Kept
    <2>1. PICK t \in Tasks : Create(x, t, a)
      BY <1>2 DEF ServeSubmit
    <2>2. /\ pc[x] = "free" /\ UNCHANGED <<proc, said, heard, inbox>>
          /\ pc' = [pc EXCEPT ![a] = "serving", ![x] = "spawn"]
          /\ task' = [task EXCEPT ![x] = t]
          /\ caller' = [caller EXCEPT ![x] = a]
      BY <1>2, <2>1 DEF ServeSubmit, Create, wireVars
    <2>3. caller[b] # None /\ x # caller[b]
      BY <2>2, <1>2, <1>0 DEF Owed, LaunchOK
    <2> QED
      BY <2>2, <2>3, <1>2, <1>0 DEF Owed, Unaware
  <1>3. ASSUME UNCHANGED <<task, caller>>, pc'[b] = "spawn" => pc[b] = "spawn",
               Unaware(b)' => Unaware(b) \/ Spawn(b)
        PROVE  Kept
    BY <1>3 DEF Owed, Spawn
  <1> DEFINE Still(a) ==
               \/ Spawn(a) \/ Register(a) \/ MarkRunning(a) \/ RetryReset(a)
               \/ ReadEvent(a) \/ StoreEvent(a) \/ ReadEof(a)
               \/ ReadRaises(a) \/ FinalCheck(a) \/ MarkFailed(a) \/ Cleanup(a)
               \/ Expand(a) \/ Pop(a) \/ Recheck(a) \/ MarkCancelled(a)
               \/ LogCancelled(a)
  <1>4. ASSUME Clear \/ \E a \in Agents : Still(a)
        PROVE  Kept
    <2>1. UNCHANGED <<task, caller, said, heard, inbox>>
      BY <1>4 DEF Spawn, Register, MarkRunning, RetryReset, ReadEvent,
        StoreEvent, ReadEof, ReadRaises, FinalCheck, MarkFailed, Cleanup,
        Expand, Pop, Recheck, MarkCancelled, LogCancelled, Clear, launchVars,
        agentVars, wireVars
    <2>2. proc'[b] = proc[b] \/ Spawn(b)
      BY <1>4, <1>0 DEF Spawn, Register, MarkRunning, RetryReset, ReadEvent,
        StoreEvent, ReadEof, ReadRaises, FinalCheck, MarkFailed, Cleanup,
        Expand, Pop, Recheck, MarkCancelled, LogCancelled, Clear, agentVars
    <2>3. pc'[b] = "spawn" => pc[b] \in {"spawn", "reset"}
      BY <1>4, <1>0 DEF Spawn, Register, MarkRunning, RetryReset, ReadEvent,
        StoreEvent, ReadEof, ReadRaises, FinalCheck, MarkFailed, Cleanup,
        Expand, Pop, Recheck, MarkCancelled, LogCancelled, Clear, Goto
    <2>4. caller[b] # None
      BY <2>1 DEF Owed
    <2>5. pc[b] # "reset"
      BY <2>4, <1>0 DEF LaunchOK
    <2> QED
      BY <2>1, <2>2, <2>3, <2>5, <1>3 DEF Unaware
  <1>5. ASSUME UNCHANGED <<task, caller, proc, said, heard>>,
               pc'[b] = "spawn" => pc[b] = "spawn", Spared(b)' => Spared(b)
        PROVE  Kept
    BY <1>3, <1>5 DEF Unaware, Spared
  <1>6. ASSUME NEW a \in Agents, SendExecute(a) \/ ServeDone(a) \/ RejectSubmit(a)
        PROVE  Kept
    <2>1. Write(a, "execute") \/ Write(a, "response")
      BY <1>6 DEF SendExecute, ServeDone, RejectSubmit
    <2>2. Spared(b)' => Spared(b)
      BY <2>1, <1>0, WriteWire DEF Commands
    <2>3. /\ UNCHANGED <<task, caller, proc, said, heard>>
          /\ pc'[b] = "spawn" => pc[b] = "spawn"
      BY <1>6, <1>0 DEF SendExecute, ServeDone, RejectSubmit, Goto, launchVars,
        agentVars
    <2> QED
      BY <2>2, <2>3, <1>5
  <1>7. ASSUME NEW w \in Agents, Pick(w)
        PROVE  Kept
    <2>1. UNCHANGED <<task, caller, pc, proc, said, heard>>
      BY <1>7 DEF Pick, launchVars, agentVars
    <2>2. PICK c \in Head(stack[w]) : SendTo(c, "cancel")
      BY <1>7 DEF Pick
    <2>3. Spared(b)' => Spared(b)
      BY <2>2, <1>0, WriteWire DEF SendTo, Commands, wireVars, Spared
    <2> QED
      BY <2>1, <2>3, <1>5
  <1>8. ASSUME NEW a \in Agents, Subprocess(a)
        PROVE  Kept
    <2>1. /\ UNCHANGED <<task, caller, pc>>
          /\ \A d \in Agents \ {a} : /\ proc'[d] = proc[d] /\ said'[d] = said[d]
                                     /\ heard'[d] = heard[d] /\ inbox'[d] = inbox[d]
      BY <1>8, <1>0 DEF Subprocess, Boot, Emit, Hear, Leave, Die, Close,
        launchVars, wireVars
    <2>2. CASE a # b
      BY <2>1, <2>2, <1>3 DEF Unaware
    <2>3. ASSUME a = b, Close(a), Unaware(b)'
          PROVE  FALSE
      BY <2>3, <1>0 DEF Close, Unaware
    <2>4. ASSUME a = b, inbox[b] # << >>, inbox' = [inbox EXCEPT ![b] = Tail(@)],
                 Head(inbox[b]) # "cancel", Spared(b)'
          PROVE  Spared(b)
      <3>1. /\ inbox'[b] = Tail(inbox[b]) /\ inbox[b] \in Seq(Commands)
            /\ Head(inbox[b]) = inbox[b][1] /\ Len(inbox[b]) \in Nat \ {0}
        BY <2>4, <1>0
      <3>2. /\ Len(inbox'[b]) = Len(inbox[b]) - 1
            /\ \A i \in 1..Len(inbox'[b]) : inbox'[b][i] = inbox[b][i + 1]
        BY <3>1
      <3>3. ASSUME NEW i \in 1..Len(inbox[b]), i # 1
            PROVE  inbox[b][i] # "cancel"
        <4>1. i - 1 \in 1..Len(inbox'[b]) /\ inbox'[b][i - 1] = inbox[b][i]
          BY <3>1, <3>2, <3>3
        <4> QED
          BY <4>1, <2>4 DEF Spared
      <3> QED
        BY <3>1, <3>3, <2>4 DEF Spared
    <2>5. ASSUME a = b, Boot(a), ~Close(a), Unaware(b)'
          PROVE  Unaware(b)
      <3>1. /\ proc[b] = "boot" /\ inbox[b] # << >> /\ Head(inbox[b]) # "cancel"
            /\ inbox' = [inbox EXCEPT ![b] = Tail(@)] /\ UNCHANGED <<said, heard>>
        BY <2>5 DEF Boot
      <3> QED
        BY <3>1, <2>4, <2>5 DEF Unaware, Spared
    <2>6. ASSUME a = b, Hear(a), Unaware(b)'
          PROVE  Unaware(b)
      <3>1. /\ proc[b] = "run" /\ ~heard[b] /\ inbox[b] # << >> /\ proc' = proc
            /\ inbox' = [inbox EXCEPT ![b] = Tail(@)]
            /\ said[b] = "ended" => said'[b] = "ended"
            /\ heard'[b] = (Head(inbox[b]) = "cancel")
        BY <2>6, <1>0 DEF Hear
      <3> QED
        BY <3>1, <2>4, <2>6 DEF Unaware, Spared
    <2>7. ASSUME a = b, Emit(a), Unaware(b)'
          PROVE  Unaware(b)
      <3>1. PICK e \in Frames, s \in Voices :
               Says(a, e, s) /\ said' = [said EXCEPT ![a] = s]
        BY <2>7 DEF Emit
      <3>2. said[b] # "ended"
        BY <3>1, <2>7 DEF Says
      <3> QED
        BY <3>2, <2>7 DEF Emit, Unaware, wireVars
    <2> QED
      BY <1>8, <2>1, <2>2, <2>3, <2>5, <2>6, <2>7, <1>3
      DEF Subprocess, Leave, Die
  <1> QED
    BY <1>1, <1>2, <1>4, <1>6, <1>7, <1>8, OrderlySteps
    DEF Launch, Read, Walk

\* A child that has just been submitted is one its parent's walk can reach.
LEMMA CascadeNew ==
  ASSUME FamilyBase, ProcInv, WordInv, NEW a \in Agents, NEW b \in Agents,
         ServeSubmit(a, b)
  PROVE  InReach(b)'
  <1>0. /\ TypeInv /\ ReaderWaits /\ None \notin Tasks \cup Agents
        /\ OneRun /\ \A w \in Agents : WalkOK(w)
        /\ pc \in [Agents -> Places] /\ task \in [Agents -> Tasks \cup {None}]
        /\ status \in [Tasks -> Statuses]
        /\ caller \in [Agents -> Agents \cup {None}] /\ Agents \subseteq Walkers
        /\ outbox \in [Agents -> Seq(Frames)]
    BY SupervisionAssumption DEF FamilyBase, FamilyInv, TypeInv, TypeOK, Walkers
  <1>1. PICK c \in Tasks : Parent[c] = task[a] /\ Create(b, c, a)
    BY DEF ServeSubmit
  <1>2. /\ pc[b] = "free" /\ pc[a] = "read" /\ outbox[a] # << >>
        /\ status' = [status EXCEPT ![c] = "pending"]
        /\ task' = [task EXCEPT ![b] = c] /\ caller' = [caller EXCEPT ![b] = a]
        /\ UNCHANGED <<cur, proc, at, cstep>>
    BY <1>1 DEF ServeSubmit, Create, SetStatus, walkVars
  <1>3. task'[b] = c /\ caller'[b] = a /\ status'[c] = "pending"
    BY <1>2, <1>0
  <1>4. \A w \in Agents : ~(Visiting(w) /\ at[w] = c)
    <2>1. ASSUME NEW w \in Agents, Visiting(w), at[w] = c PROVE FALSE
      <3>1. pc[w] = "cascade" /\ task[w] = task[a]
        BY <2>1, <1>0, <1>1 DEF Visiting, ReaderWaits, WalkOK, ChildOf
      <3>2. w = a
        BY <3>1, <1>2, <1>0 DEF OneRun, Active, Finished
      <3> QED
        BY <3>1, <3>2, <1>2
    <2> QED
      BY <2>1
  <1>5. ~Unaware(b)'
    BY <1>2 DEF ProcInv, Unaware
  <1>6. cur[a] \notin Terminal
    BY <1>2 DEF WordInv, WordOK
  <1> QED
    BY <1>2, <1>3, <1>4, <1>5, <1>6 DEF InReach, Live, Terminal, Visiting

\* No step takes a child its parent's walk is to reach out of its reach.
LEMMA CascadeKept ==
  ASSUME Orderly, FamilyBase, ProcInv, WordInv, Next, NEW b \in Agents,
         Owed(b), InReach(b), Owed(b)',
         task'[b] = task[b], caller'[b] = caller[b],
         task'[caller[b]] = task[caller[b]],
         Unaware(b)' => Unaware(b) \/ Spawn(b)
  PROVE  InReach(b)'
  <1> DEFINE k == task[b]
             p == caller[b]
  <1>0. /\ TypeInv /\ ReaderWaits /\ None \notin Tasks \cup Agents
        /\ OneRun /\ LaunchOK(b) /\ \A w \in Agents : WalkOK(w)
        /\ \A a \in Agents : pc[a] # "free" => task[a] \in Tasks
        /\ \A a \in Agents : pc[a] = "store" => cur[a] \in Reports
        /\ pc \in [Agents -> Places] /\ task \in [Agents -> Tasks \cup {None}]
        /\ status \in [Tasks -> Statuses]
        /\ cur \in [Agents -> Reports \cup {"none"}]
        /\ cstep \in [Walkers -> WalkSteps]
        /\ at \in [Walkers -> Tasks \cup {None}]
        /\ stack \in [Walkers -> Seq(SUBSET Tasks)]
        /\ route \in [Tasks -> Agents \cup {None}] /\ handles \subseteq Agents
        /\ caller \in [Agents -> Agents \cup {None}] /\ Agents \subseteq Walkers
    BY SupervisionAssumption DEF FamilyBase, FamilyInv, TypeInv, TypeOK, Walkers,
      StoreHasEvent, BegunHasTask
  <1>1. /\ pc[b] = "spawn" \/ (Running(b) /\ pc[b] \in Manned /\ said[b] # "ended")
        /\ p \in Agents /\ pc[p] # "free" /\ ChildOf(k, p) /\ k \in Tasks
        /\ status[k] \in Live
    BY <1>0 DEF Owed, Unaware, ProcInv, Running, LaunchOK, ChildOf, InReach
  <1>2. \A x \in Agents : Active(x) /\ task[x] = k => x = b
    BY <1>0, <1>1 DEF OneRun, Active, Finished, Manned
  \* The row of b stays live.
  <1>3. status'[k] \in Live
    <2> DEFINE Quiet(a) ==
                 \/ \E t \in Tasks : RetryCheck(a, t)
                 \/ Spawn(a) \/ Register(a) \/ SendExecute(a) \/ ReadEvent(a)
                 \/ ReadEof(a) \/ ReadRaises(a) \/ FinalCheck(a) \/ Cleanup(a)
                 \/ ServeDone(a) \/ RejectSubmit(a) \/ Subprocess(a)
                 \/ Expand(a) \/ Pick(a) \/ Pop(a) \/ Recheck(a)
                 \/ LogCancelled(a)
    <2>1. ASSUME NEW a \in Agents, Quiet(a)
          PROVE  status'[k] \in Live
      <3>1. status' = status
        BY <2>1 DEF RetryCheck, Spawn, Register, SendExecute, ReadEvent,
          ReadEof, ReadRaises, FinalCheck, Cleanup, ServeDone, RejectSubmit,
          Subprocess, Boot, Emit, Hear, Leave, Die, Expand, Pick, Pop, Recheck,
          LogCancelled, storeVars
      <3> QED
        BY <3>1, <1>1
    <2>2. ASSUME NEW a \in Agents,
                 \/ \E t \in Tasks : Submit(a, t)
                 \/ \E d \in Agents : ServeSubmit(d, a)
          PROVE  status'[k] \in Live
      <3>1. PICK t \in Tasks : status[t] = "absent" /\ SetStatus(t, "pending")
        BY <2>2 DEF Submit, ServeSubmit, Create
      <3> QED
        BY <3>1, <1>0, <1>1 DEF SetStatus, Live
    <2>3. ASSUME NEW a \in Agents, RetryReset(a) \/ MarkRunning(a)
          PROVE  status'[k] \in Live
      BY <2>3, <1>0, <1>1 DEF RetryReset, MarkRunning, SetStatus, Live
    <2>4. ASSUME NEW a \in Agents, StoreEvent(a)
          PROVE  status'[k] \in Live
      <3>1. /\ pc[a] = "store" /\ cur[a] \in Reports /\ task[a] \in Tasks
            /\ status' = [status EXCEPT ![task[a]] = StatusOf(cur[a])]
        BY <2>4, <1>0 DEF StoreEvent, SetStatus
      <3>2. CASE task[a] = k
        <4>1. a = b
          BY <3>1, <3>2, <1>2 DEF Active, Finished
        <4>2. cur[b] \notin Terminal
          BY <3>1, <4>1, <1>1 DEF WordInv, WordOK
        <4>3. StatusOf(cur[b]) \in Live
          BY <3>1, <4>1, <4>2 DEF StatusOf, Reports, Terminal, Live
        <4> QED
          BY <3>1, <4>1, <4>3, <1>0, <1>1
      <3>3. CASE task[a] # k
        BY <3>1, <3>3, <1>0, <1>1
      <3> QED
        BY <3>2, <3>3
    <2>5. ASSUME NEW a \in Agents, MarkFailed(a)
          PROVE  status'[k] \in Live
      <3>1. /\ pc[a] = "fail" /\ proc[a] = "exited" /\ task[a] \in Tasks
            /\ status' = [status EXCEPT ![task[a]] = "failed"]
        BY <2>5, <1>0 DEF MarkFailed, SetStatus, ProcInv
      <3>2. a # b
        BY <3>1, <1>1 DEF Running
      <3>3. task[a] # k
        BY <3>1, <3>2, <1>2 DEF Active, Finished
      <3> QED
        BY <3>1, <3>3, <1>0, <1>1
    <2>6. ASSUME NEW w \in Agents, MarkCancelled(w)
          PROVE  status'[k] \in Live
      <3>1. Visiting(w) /\ status' = [status EXCEPT ![at[w]] = "cancelled"]
        BY <2>6 DEF MarkCancelled, SetStatus, Visiting
      <3>2. at[w] # k
        BY <3>1 DEF InReach
      <3> QED
        BY <3>1, <3>2, <1>0, <1>1
    <2>7. CASE Clear
      BY <2>7, <1>0, <1>1 DEF Clear, Live, Terminal
    <2> QED
      BY <2>1, <2>2, <2>3, <2>4, <2>5, <2>6, <2>7, OrderlySteps
      DEF Launch, Read, Walk
  \* A walk that comes to b's task tells b.
  <1>4. ASSUME NEW w \in Agents, Pick(w), at'[w] = k
        PROVE  FALSE
    <2>1. PICK c \in Head(stack[w]) :
             /\ SendTo(c, "cancel") /\ at' = [at EXCEPT ![w] = c]
      BY <1>4 DEF Pick
    <2>2. /\ SendTo(k, "cancel") /\ cstep[w] = "pick" /\ stack[w] # << >>
          /\ k \in Head(stack[w]) /\ UNCHANGED <<proc, pc>>
      BY <2>1, <1>4, <1>0 DEF Pick, agentVars
    <2>3. ChildOf(k, w)
      <3>1. /\ stack[w] \in Seq(SUBSET Tasks) /\ Head(stack[w]) = stack[w][1]
            /\ 1 \in 1..Len(stack[w])
        BY <2>2, <1>0
      <3> QED
        BY <2>2, <3>1, <1>0 DEF WalkOK
    <2>4. CASE pc[b] \in {"spawn", "open"}
      <3>1. pc[p] = "serving" /\ pc[w] = "cascade" /\ task[w] = task[p]
        BY <2>2, <2>3, <2>4, <1>0, <1>1 DEF LaunchOK, LaunchSteps, ChildOf,
          ReaderWaits, Owed
      <3>2. w = p
        BY <3>1, <1>0, <1>1 DEF OneRun, Active, Finished
      <3> QED
        BY <3>1, <3>2
    <2>5. CASE pc[b] \notin {"spawn", "open"}
      <3>1. Unaware(b) /\ Unaware(b)'
        BY <2>2, <2>5 DEF Owed
      <3>2. Write(b, "cancel")
        BY <2>2, <2>5, <3>1 DEF InReach, SendTo
      <3>3. proc[b] # "exited" /\ conn[b] = "open"
        BY <3>1 DEF Unaware, ProcInv
      <3>4. ~Spared(b)'
        BY <3>2, <3>3, <1>0, WriteWire DEF Commands
      <3> QED
        BY <3>1, <3>4 DEF Unaware, Spared
    <2> QED
      BY <2>4, <2>5
  <1>5. \A w \in Agents : Visiting(w)' => at'[w] # k
    <2>1. SUFFICES ASSUME NEW w \in Agents, Visiting(w)', at'[w] = k PROVE FALSE
      OBVIOUS
    <2> DEFINE Elsewhere(a) ==
                 \/ \E t \in Tasks : Submit(a, t) \/ RetryCheck(a, t)
                 \/ \E d \in Agents : ServeSubmit(d, a)
                 \/ RetryReset(a) \/ Launch(a) \/ Subprocess(a) \/ ReadEvent(a)
                 \/ ReadEof(a) \/ ReadRaises(a) \/ FinalCheck(a) \/ MarkFailed(a)
                 \/ Cleanup(a) \/ ServeDone(a) \/ RejectSubmit(a)
    <2>2. CASE Clear \/ \E a \in Agents : Elsewhere(a)
      <3>1. UNCHANGED <<cstep, at>>
        BY <2>2 DEF Submit, RetryCheck, ServeSubmit, RetryReset, Launch, Spawn,
          Register, SpawnFail, MarkRunning, SendExecute, Subprocess, Boot, Emit,
          Hear, Leave, Die, ReadEvent, ReadEof, ReadRaises, FinalCheck, MarkFailed,
          Cleanup, ServeDone, RejectSubmit, Clear, walkVars
      <3> QED
        BY <3>1, <2>1 DEF Visiting, InReach
    <2>3. ASSUME NEW v \in Agents,
                 \/ StoreEvent(v) \/ Expand(v) \/ Pop(v) \/ Recheck(v)
                 \/ MarkCancelled(v) \/ LogCancelled(v)
          PROVE  FALSE
      <3>1. Visiting(w) /\ at'[w] = at[w]
        BY <2>1, <2>3, <1>0 DEF StoreEvent, Expand, Pop, Recheck, MarkCancelled,
          LogCancelled, Visiting
      <3> QED
        BY <3>1, <2>1 DEF InReach
    <2>4. ASSUME NEW v \in Agents, Pick(v)
          PROVE  FALSE
      <3>1. /\ \E c \in Head(stack[v]) : at' = [at EXCEPT ![v] = c]
            /\ cstep' = [cstep EXCEPT ![v] = "check"]
        BY <2>4 DEF Pick
      <3>2. CASE v = w
        BY <3>2, <2>1, <2>4, <1>4
      <3>3. CASE v # w
        <4>1. Visiting(w) /\ at'[w] = at[w]
          BY <3>1, <3>3, <2>1, <1>0 DEF Visiting
        <4> QED
          BY <4>1, <2>1 DEF InReach
      <3> QED
        BY <3>2, <3>3
    <2> QED
      BY <2>2, <2>3, <2>4, OrderlySteps DEF Read, Walk
  \* While b works unaware, its route leads to it.
  <1>6. Unaware(b)' /\ pc'[b] # "open" => b \in handles' /\ route'[k] = b
    <2>1. SUFFICES ASSUME Unaware(b)', pc'[b] # "open"
                   PROVE  b \in handles' /\ route'[k] = b
      OBVIOUS
    <2>2. ~Spawn(b)
      BY <2>1, <1>0 DEF Spawn, Goto
    <2>3. /\ Unaware(b) /\ pc[b] \in Manned
          /\ pc[b] = "open" => Register(b)
      <3>1. Unaware(b) /\ pc[b] \in Manned
        BY <2>1, <2>2, <1>0 DEF ProcInv, Unaware, Running
      <3> QED
        BY <3>1, <2>1, <2>2, <1>0, OpenWaits
    <2>4. ASSUME NEW a \in Agents, Register(a)
          PROVE  b \in handles' /\ route'[k] = b
      <3>1. CASE a = b
        BY <2>4, <3>1, <1>0, <1>1 DEF Register
      <3>2. CASE a # b
        <4>1. task[a] # k
          BY <2>4, <3>2, <1>2 DEF Register, Active, Finished
        <4>2. pc[b] # "open"
          BY <2>1, <2>4, <3>2, <1>0 DEF Register, Goto
        <4> QED
          BY <2>3, <2>4, <4>1, <4>2, <1>0, <1>1 DEF Register, InReach
      <3> QED
        BY <3>1, <3>2
    <2>5. ASSUME NEW a \in Agents, Cleanup(a), pc[b] # "open"
          PROVE  b \in handles' /\ route'[k] = b
      <3>1. a # b
        BY <2>3, <2>5 DEF Cleanup, Manned, ExitSteps
      <3>2. task[a] # k
        BY <2>5, <3>1, <1>2 DEF Cleanup, Active, Finished, ExitSteps
      <3> QED
        BY <2>3, <2>5, <3>1, <3>2, <1>0, <1>1 DEF Cleanup, InReach
    <2> DEFINE Aside(a) ==
                 \/ \E t \in Tasks : Submit(a, t) \/ RetryCheck(a, t)
                 \/ \E d \in Agents : ServeSubmit(d, a)
                 \/ RetryReset(a) \/ Spawn(a) \/ MarkRunning(a)
                 \/ SendExecute(a) \/ Subprocess(a) \/ ReadEvent(a)
                 \/ StoreEvent(a) \/ ReadEof(a) \/ ReadRaises(a)
                 \/ FinalCheck(a) \/ MarkFailed(a) \/ ServeDone(a)
                 \/ RejectSubmit(a) \/ Walk(a)
    <2>6. CASE pc[b] # "open" /\ (Clear \/ \E a \in Agents : Aside(a))
      <3>1. UNCHANGED <<handles, route>>
        BY <2>6 DEF Submit, RetryCheck, ServeSubmit, RetryReset, Spawn,
          MarkRunning, SendExecute, Subprocess, Boot, Emit, Hear, Leave, Die,
          ReadEvent, StoreEvent, ReadEof, ReadRaises, FinalCheck, MarkFailed,
          ServeDone, RejectSubmit, Walk, Expand, Pick, Pop, Recheck,
          MarkCancelled, LogCancelled, Clear, mgrVars
      <3> QED
        BY <3>1, <2>3, <2>6 DEF InReach
    <2> QED
      BY <2>1, <2>3, <2>4, <2>5, <2>6, OrderlySteps DEF Launch, Read
  \* Once its parent has ended badly, b stays on the walk's list.
  <1>7. cur'[p] \in {"failed", "cancelled"} =>
           pc'[p] = "store" \/ OnList(k, p)'
    <2>1. SUFFICES ASSUME cur'[p] \in {"failed", "cancelled"},
                          pc'[p] # "store"
                   PROVE  OnList(k, p)'
      OBVIOUS
    <2>2. cur'[p] = cur[p]
      <3> DEFINE Other(a) ==
                   \/ \E t \in Tasks : Submit(a, t) \/ RetryCheck(a, t)
                   \/ \E d \in Agents : ServeSubmit(d, a)
                   \/ RetryReset(a) \/ Launch(a) \/ Subprocess(a)
                   \/ StoreEvent(a) \/ ReadEof(a) \/ ReadRaises(a)
                   \/ FinalCheck(a) \/ MarkFailed(a) \/ Cleanup(a)
                   \/ ServeDone(a) \/ RejectSubmit(a) \/ Walk(a)
      <3>1. CASE Clear \/ \E a \in Agents : Other(a)
        BY <3>1 DEF Submit, RetryCheck, ServeSubmit, RetryReset, Launch, Spawn,
          Register, SpawnFail, MarkRunning, SendExecute, Subprocess, Boot, Emit,
          Hear, Leave, Die, StoreEvent, ReadEof, ReadRaises, FinalCheck, MarkFailed,
          Cleanup, ServeDone, RejectSubmit, Walk, Expand, Pick, Pop, Recheck,
          MarkCancelled, LogCancelled, Clear
      <3>2. ASSUME NEW a \in Agents, ReadEvent(a) PROVE cur'[p] = cur[p]
        BY <3>2, <2>1, <1>0, <1>1 DEF ReadEvent, Goto
      <3> QED
        BY <3>1, <3>2, OrderlySteps DEF Read
    <2>3. pc[p] = "store" \/ OnList(k, p)
      BY <2>1, <2>2 DEF InReach
    <2>4. ASSUME NEW a \in Agents, a # p, Walk(a)
          PROVE  OnList(k, p)'
      <3>1. /\ cstep'[p] = cstep[p] /\ at'[p] = at[p] /\ stack'[p] = stack[p]
            /\ pc'[p] = pc[p]
        BY <2>4, <1>0, <1>1 DEF Walk, Expand, Pick, Pop, Recheck, MarkCancelled,
          LogCancelled, Goto
      <3> QED
        BY <2>1, <2>3, <3>1 DEF OnList
    <2>5. ASSUME NEW a \in Agents, StoreEvent(a)
          PROVE  OnList(k, p)'
      <3>1. CASE a = p
        <4>1. /\ pc[p] = "store" /\ pc' = [pc EXCEPT ![p] = "cascade"]
              /\ cstep' = [cstep EXCEPT ![p] = "expand"]
              /\ at' = [at EXCEPT ![p] = task[p]]
          BY <2>1, <2>2, <2>5, <3>1 DEF StoreEvent, Goto
        <4> QED
          BY <4>1, <1>0, <1>1 DEF OnList
      <3>2. CASE a # p
        <4>1. /\ cstep'[p] = cstep[p] /\ at'[p] = at[p] /\ stack'[p] = stack[p]
              /\ pc'[p] = pc[p]
          BY <2>5, <3>2, <1>0, <1>1 DEF StoreEvent, Goto
        <4> QED
          BY <2>1, <2>3, <4>1 DEF OnList
      <3> QED
        BY <3>1, <3>2
    <2> DEFINE Else(a) ==
                 \/ \E t \in Tasks : Submit(a, t) \/ RetryCheck(a, t)
                 \/ \E d \in Agents : ServeSubmit(d, a)
                 \/ RetryReset(a) \/ Launch(a) \/ Subprocess(a) \/ ReadEvent(a)
                 \/ ReadEof(a) \/ ReadRaises(a) \/ FinalCheck(a) \/ MarkFailed(a)
                 \/ Cleanup(a) \/ ServeDone(a) \/ RejectSubmit(a)
    <2>6. CASE Clear \/ \E a \in Agents : Else(a)
      <3>1. UNCHANGED <<cstep, at, stack>>
        BY <2>6 DEF Submit, RetryCheck, ServeSubmit, RetryReset, Launch, Spawn,
          Register, SpawnFail, MarkRunning, SendExecute, Subprocess, Boot, Emit,
          Hear, Leave, Die, ReadEvent, ReadEof, ReadRaises, FinalCheck, MarkFailed,
          Cleanup, ServeDone, RejectSubmit, Clear, walkVars
      <3>2. pc[p] \in {"store", "cascade"} => pc'[p] = pc[p]
        BY <2>6, <1>0, <1>1 DEF Submit, RetryCheck, ServeSubmit, Create,
          RetryReset, Launch, Spawn, Register, SpawnFail, MarkRunning, SendExecute,
          Subprocess, Boot, Emit, Hear, Leave, Die, ReadEvent, ReadEof,
          ReadRaises, FinalCheck, MarkFailed, Cleanup, ServeDone, RejectSubmit,
          Clear, Goto, ExitSteps
      <3> QED
        BY <2>1, <2>3, <3>1, <3>2 DEF OnList
    <2>7. CASE Expand(p)
      <3> DEFINE kids == {c \in Tasks : /\ Parent[c] = at[p]
                                        /\ status[c] \notin Terminal \cup {"absent"}}
      <3>1. /\ cstep[p] = "expand" /\ UNCHANGED <<pc, task, at>>
            /\ stack'[p] = << kids >> \o stack[p] /\ stack[p] \in Seq(SUBSET Tasks)
        BY <2>7, <1>0, <1>1 DEF Expand, launchVars
      <3>2. /\ Len(stack'[p]) = Len(stack[p]) + 1 /\ stack'[p][1] = kids
            /\ Len(stack[p]) \in Nat
            /\ \A i \in 1..Len(stack[p]) : stack'[p][i + 1] = stack[p][i]
        BY <3>1
      <3>3. pc[p] = "cascade"
        BY <2>3, <3>1, <1>0, <1>1 DEF ReaderWaits
      <3>4. CASE at[p] = task[p]
        <4>1. k \in kids
          BY <3>4, <1>1 DEF ChildOf, Live, Terminal
        <4> QED
          BY <3>1, <3>2, <3>3, <4>1 DEF OnList
      <3>5. CASE at[p] # task[p]
        <4>1. PICK i \in 1..Len(stack[p]) : k \in stack[p][i]
          BY <3>3, <3>5, <2>3 DEF OnList
        <4>2. i + 1 \in 1..Len(stack'[p]) /\ k \in stack'[p][i + 1]
          BY <4>1, <3>2
        <4> QED
          BY <3>1, <3>3, <4>2 DEF OnList
      <3> QED
        BY <3>4, <3>5
    <2>8. CASE Pick(p)
      <3>1. PICK c \in Head(stack[p]) :
               /\ at' = [at EXCEPT ![p] = c]
               /\ stack' = [stack EXCEPT ![p] = << Head(@) \ {c} >> \o Tail(@)]
        BY <2>8 DEF Pick
      <3>2. c # k
        BY <3>1, <2>8, <1>0, <1>1, <1>4
      <3>3. /\ cstep[p] = "pick" /\ UNCHANGED <<pc, task>> /\ stack[p] # << >>
            /\ stack[p] \in Seq(SUBSET Tasks)
            /\ stack'[p] = << Head(stack[p]) \ {c} >> \o Tail(stack[p])
        BY <2>8, <3>1, <1>0, <1>1 DEF Pick, launchVars
      <3>4. pc[p] = "cascade" /\ \E i \in 1..Len(stack[p]) : k \in stack[p][i]
        BY <2>3, <3>3, <1>0, <1>1 DEF ReaderWaits, OnList
      <3>5. PICK i \in 1..Len(stack[p]) : k \in stack[p][i]
        BY <3>4
      <3>6. /\ Len(stack'[p]) = Len(stack[p])
            /\ k \in stack'[p][i]
        <4>1. Len(stack[p]) \in Nat \ {0} /\ Head(stack[p]) = stack[p][1]
          BY <3>3
        <4>2. /\ Len(stack'[p]) = Len(stack[p])
              /\ stack'[p][1] = stack[p][1] \ {c}
              /\ i # 1 => stack'[p][i] = stack[p][i]
          BY <3>3, <3>5, <4>1
        <4> QED
          BY <3>2, <3>5, <4>2
      <3> QED
        BY <3>3, <3>4, <3>5, <3>6 DEF OnList
    <2>9. CASE Pop(p)
      <3>1. /\ cstep[p] = "pick" /\ stack[p] # << >> /\ Head(stack[p]) = {}
            /\ task' = task /\ stack[p] \in Seq(SUBSET Tasks)
            /\ stack'[p] = Tail(stack[p]) /\ Len(stack[p]) \in Nat \ {0}
            /\ Len(stack[p]) # 1 => pc' = pc
        BY <2>9, <1>0, <1>1 DEF Pop, launchVars
      <3>2. pc[p] = "cascade" /\ \E i \in 1..Len(stack[p]) : k \in stack[p][i]
        BY <2>3, <3>1, <1>0, <1>1 DEF ReaderWaits, OnList
      <3>3. PICK i \in 1..Len(stack[p]) : k \in stack[p][i]
        BY <3>2
      <3>4. i # 1 /\ Head(stack[p]) = stack[p][1]
        BY <3>1, <3>3
      <3>5. /\ i - 1 \in 1..Len(stack'[p]) /\ stack'[p][i - 1] = stack[p][i]
            /\ Len(stack[p]) # 1
        BY <3>1, <3>3, <3>4
      <3> QED
        BY <3>1, <3>2, <3>3, <3>5 DEF OnList
    <2>10. CASE Recheck(p) \/ MarkCancelled(p) \/ LogCancelled(p)
      <3>1. /\ UNCHANGED <<pc, task, at, stack>> /\ Visiting(p)
        BY <2>10 DEF Recheck, MarkCancelled, LogCancelled, Visiting, launchVars
      <3> QED
        BY <2>3, <3>1, <1>0, <1>1 DEF OnList, Visiting, ReaderWaits
    <2> QED
      BY <2>4, <2>5, <2>6, <2>7, <2>8, <2>9, <2>10, OrderlySteps DEF Read, Walk
  <1> QED
    BY <1>3, <1>5, <1>6, <1>7 DEF InReach

\* So every child that is owed a cancel stays in reach.
LEMMA CascadeInvNext ==
  ASSUME Orderly, FamilyBase, ProcInv, WordInv, CascadeInv, Next
  PROVE  CascadeInv'
  BY OwedBefore, CascadeNew, CascadeKept DEF CascadeInv

\* The inductive invariant.
FamilyWide == FamilyBase /\ ProcInv /\ WordInv /\ CascadeInv

\* A daemon starts without runs.
LEMMA FamilyWideInit == Init => FamilyInv /\ ProcInv /\ WordInv /\ CascadeInv
  BY SupervisionAssumption DEF Init, FamilyInv, ProcInv, WordInv, CascadeInv,
    OneRun, WalkOK, LaunchOK, WordOK, Owed, Unaware, Visiting, Running, Manned,
    Active, Finished, ExitSteps, Walkers, Terminal

\* _on_agent_event and _cancel_children: when the reader of a run that failed
\* or was cancelled is through with the cascade, every child that run
\* submitted has ended, or has a cancel on its way to it.  In particular a
\* child that was just being launched is not missed.
THEOREM CascadeHolds ==
  ASSUME TwoGenerations, Orderly
  PROVE  Spec => []CascadeReachesChildren
  <1>1. Init => FamilyWide
    BY TypeInvInit, WalkInit, RouteInit, FamilyWideInit
    DEF FamilyWide, FamilyBase, RouteInv
  <1>2. TypeInv /\ ReaderWaits /\ RouteInv /\ FamilyWide /\ [Next]_vars
          => FamilyWide'
    <2>1. SUFFICES ASSUME TypeInv, ReaderWaits, RouteInv, FamilyWide, [Next]_vars
                   PROVE  FamilyWide'
      OBVIOUS
    <2>2. TypeInv' /\ ReaderWaits' /\ BegunHasTask'
      BY <2>1, TypeInvNext, WalkNext, RouteNext DEF RouteInv
    <2>3. CASE Next
      BY <2>1, <2>2, <2>3, ProcInvNext, WordInvNext, FamilyInvNext,
        CascadeInvNext DEF FamilyWide, FamilyBase
    <2>4. CASE UNCHANGED vars
      BY <2>1, <2>2, <2>4 DEF vars, FamilyWide, FamilyBase, FamilyInv, ProcInv,
        WordInv, CascadeInv, OneRun, WalkOK, LaunchOK, WordOK, ChildOf, Owed,
        InReach, OnList, Unaware, Visiting, Running, Active
    <2> QED
      BY <2>1, <2>3, <2>4
  <1>3. FamilyWide => CascadeReachesChildren
    <2>1. SUFFICES ASSUME FamilyWide, NEW a \in Agents, NEW b \in Agents,
                          caller[b] = a, Cascaded(a), Unaware(b)
                   PROVE  FALSE
      BY DEF CascadeReachesChildren
    <2>2. a # None
      BY SupervisionAssumption
    <2>3. InReach(b)
      BY <2>1, <2>2 DEF FamilyWide, CascadeInv, Owed
    <2> QED
      BY <2>1, <2>3 DEF InReach, Cascaded, OnList, ExitSteps, Finished
  <1> QED
    BY <1>1, <1>2, <1>3, TypeInvariant, WalkInit, WalkNext, RouteInit,
       RouteNext, PTL DEF Spec

=============================================================================
