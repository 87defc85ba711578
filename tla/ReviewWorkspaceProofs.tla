------------------------ MODULE ReviewWorkspaceProofs ------------------------
(* Theorems of ReviewWorkspace and their proofs.                           *)
EXTENDS ReviewWorkspace, TLAPS

-----------------------------------------------------------------------------
(* The invariant.                                                          *)

\* A git command is the lock's owner's.
Locked == \A t \in Task : place[t] \in SetupGit \cup CleanupGit => owner = t

\* A task is somewhere while it runs, it knows no head before rev-parse, and
\* a stray is one of a task that has strayed.
Placed ==
    /\ \A t \in Task :
         /\ how[t] = "running" <=> place[t] # "idle"
         /\ place[t] \in {"idle", "lock", "clone", "update", "fetch", "head"}
              => head[t] = None
    /\ \A s \in strays : s.task \in strayed

\* What a run has got so far, when no command ever outlived its run.
Got(t) ==
    /\ place[t] = "head" => fetched = t
    /\ place[t] \in {"prune", "add"} => head[t] = t
    /\ place[t] = "add" => t \in reg
    /\ place[t] \in {"meta", "branches", "synth"} /\ head[t] # None =>
         head[t] = t /\ t \in reg \cap dir

Intact == strayed = {} => \A t \in Task : Got(t)

TypePlace ==
    /\ place \in [Task -> Places]
    /\ how \in [Task -> Ended \cup {"running"}]
    /\ runs \in 0..MaxRuns
    /\ cause \in [Task -> {"none", "raised", "cancelled", "late"}]
    /\ tries \in [Task -> 0..Delays]
    /\ head \in [Task -> Task \cup {None}]
TypeThread ==
    /\ ckpt \in [Task -> {"none", "setup", "branches", "synth", "end"}]
    /\ error \in [Task -> BOOLEAN] /\ path \in [Task -> BOOLEAN]
    /\ warned \in [Task -> BOOLEAN]
TypeRepo ==
    /\ owner \in Task \cup {None}
    /\ clone \in {"absent", "partial", "good"}
    /\ fetched \in Task \cup {None}
    /\ reg \subseteq Task /\ dir \subseteq Task
    /\ strays \subseteq [task: Task, cmd: SetupGit \cup CleanupGit]
    /\ strayed \subseteq Task

LEMMA TypeParts == TypeOK <=> TypePlace /\ TypeThread /\ TypeRepo
  BY DEF TypeOK, TypePlace, TypeThread, TypeRepo

WInv == /\ TypePlace /\ TypeThread /\ TypeRepo
        /\ Locked /\ Placed /\ Intact /\ CleanedUp

-----------------------------------------------------------------------------

LEMMA WInvInit == Init => WInv
  <1> SUFFICES ASSUME Init PROVE WInv
    OBVIOUS
  <1> USE WorkspaceAssumption
  <1>1. TypePlace
    BY DEF Init, TypePlace, Places, Ended
  <1>2. TypeThread /\ TypeRepo
    BY DEF Init, TypeThread, TypeRepo
  <1>3. Locked /\ Placed /\ Intact /\ CleanedUp
    BY DEF Init, Locked, Placed, Intact, Got, CleanedUp, SetupGit, CleanupGit
  <1> QED
    BY <1>1, <1>2, <1>3 DEF WInv

LEMMA WInvNext == WInv /\ [Next]_vars => WInv'
  <1> SUFFICES ASSUME WInv, [Next]_vars
               PROVE  WInv'
    OBVIOUS
  <1> USE WorkspaceAssumption DEF WInv, Goto, Save, SetupGit, CleanupGit
  <1>1. ASSUME NEW t \in Task, Start(t) PROVE WInv'
    <2>a. how[t] \in Ended /\ runs < MaxRuns /\ runs' = runs + 1
          /\ how' = [how EXCEPT ![t] = "running"]
          /\ cause' = [cause EXCEPT ![t] = "none"]
          /\ warned' = [warned EXCEPT ![t] = FALSE]
          /\ UNCHANGED <<error, path, head, tries, owner, repoVars, strayVars>>
      BY <1>1 DEF Start
    <2>b. /\ place' \in [Task -> Places]
          /\ place'[t] \in {"lock", "tidy", "branches", "synth"}
          /\ \A u \in Task \ {t} : place'[u] = place[u]
      <3>1. ckpt[t] \in {"none", "setup", "branches", "synth", "end"}
        BY DEF TypeThread
      <3>2. \E p \in {"lock", "tidy", "branches", "synth"} :
               place' = [place EXCEPT ![t] = p]
        BY <1>1, <3>1 DEF Start
      <3> QED
        BY <3>2 DEF TypePlace, Places
    <2>c. place[t] = "idle" /\ head[t] = None
      BY <2>a DEF Placed, TypePlace, Ended
    <2>1. TypePlace'
      <3>1. runs' \in 0..MaxRuns
        BY <2>a DEF TypePlace
      <3>2. /\ how' \in [Task -> Ended \cup {"running"}]
            /\ cause' \in [Task -> {"none", "raised", "cancelled", "late"}]
        BY <2>a DEF TypePlace
      <3> QED
        BY <2>a, <2>b, <3>1, <3>2 DEF TypePlace
    <2>2. TypeThread'
      BY <1>1 DEF Start, runVars, threadVars, repoVars, strayVars, TypeThread
    <2>3. TypeRepo'
      BY <1>1 DEF Start, runVars, threadVars, repoVars, strayVars, TypeRepo
    <2>4. Locked'
      BY <2>a, <2>b, <2>c DEF Locked, TypePlace
    <2>5. Placed'
      BY <2>a, <2>b, <2>c DEF Placed, TypePlace, strayVars
    <2>6. Intact'
      BY <2>a, <2>b, <2>c DEF Intact, Got, TypePlace, repoVars, strayVars
    <2>7. CleanedUp'
      BY <1>1
         DEF Start, runVars, threadVars, repoVars, strayVars, CleanedUp,
             TypePlace, Ended, Placed
    <2> QED
      BY <2>1, <2>2, <2>3, <2>4, <2>5, <2>6, <2>7
  <1>2. ASSUME NEW t \in Task, LockForSetup(t) PROVE WInv'
    <2>1. TypePlace'
      BY <1>2
         DEF LockForSetup, Fresh, runVars, threadVars, repoVars, strayVars,
             TypePlace, Places, Ended
    <2>2. TypeThread'
      BY <1>2
         DEF LockForSetup, Fresh, runVars, threadVars, repoVars, strayVars,
             TypeThread
    <2>3. TypeRepo'
      BY <1>2
         DEF LockForSetup, Fresh, runVars, threadVars, repoVars, strayVars,
             TypeRepo
    <2>4. Locked'
      BY <1>2
         DEF LockForSetup, Fresh, runVars, threadVars, repoVars, strayVars,
             Locked, TypePlace, Places
    <2>5. Placed'
      BY <1>2
         DEF LockForSetup, Fresh, runVars, threadVars, repoVars, strayVars,
             Placed, Places, Ended, TypePlace
    <2>6. Intact'
      BY <1>2
         DEF LockForSetup, Fresh, runVars, threadVars, repoVars, strayVars,
             Intact, Got, TypePlace, TypeRepo, Locked, Placed
    <2>7. CleanedUp'
      BY <1>2
         DEF LockForSetup, Fresh, runVars, threadVars, repoVars, strayVars,
             CleanedUp, TypePlace, Ended, Placed
    <2> QED
      BY <2>1, <2>2, <2>3, <2>4, <2>5, <2>6, <2>7
  <1>3. ASSUME NEW t \in Task, CloneEnds(t) PROVE WInv'
    <2>1. TypePlace'
      BY <1>3
         DEF CloneEnds, Effect, Fresh, runVars, threadVars, repoVars,
             strayVars, TypePlace, Places, Ended
    <2>2. TypeThread'
      BY <1>3
         DEF CloneEnds, Effect, Fresh, runVars, threadVars, repoVars,
             strayVars, TypeThread
    <2>3. TypeRepo'
      BY <1>3
         DEF CloneEnds, Effect, Fresh, runVars, threadVars, repoVars,
             strayVars, TypeRepo
    <2>4. Locked'
      BY <1>3
         DEF CloneEnds, Effect, Fresh, runVars, threadVars, repoVars,
             strayVars, Locked, TypePlace, Places
    <2>5. Placed'
      BY <1>3
         DEF CloneEnds, Effect, Fresh, runVars, threadVars, repoVars,
             strayVars, Placed, Places, Ended, TypePlace
    <2>6. Intact'
      BY <1>3
         DEF CloneEnds, Effect, Fresh, runVars, threadVars, repoVars,
             strayVars, Intact, Got, TypePlace, TypeRepo, Locked, Placed
    <2>7. CleanedUp'
      BY <1>3
         DEF CloneEnds, Effect, Fresh, runVars, threadVars, repoVars,
             strayVars, CleanedUp, TypePlace, Ended, Placed
    <2> QED
      BY <2>1, <2>2, <2>3, <2>4, <2>5, <2>6, <2>7
  <1>4. ASSUME NEW t \in Task, FetchEnds(t) PROVE WInv'
    <2>1. TypePlace'
      BY <1>4
         DEF FetchEnds, Effect, Fresh, runVars, threadVars, repoVars,
             strayVars, TypePlace, Places, Ended
    <2>2. TypeThread'
      BY <1>4
         DEF FetchEnds, Effect, Fresh, runVars, threadVars, repoVars,
             strayVars, TypeThread
    <2>3. TypeRepo'
      BY <1>4
         DEF FetchEnds, Effect, Fresh, runVars, threadVars, repoVars,
             strayVars, TypeRepo
    <2>4. Locked'
      BY <1>4
         DEF FetchEnds, Effect, Fresh, runVars, threadVars, repoVars,
             strayVars, Locked, TypePlace, Places
    <2>5. Placed'
      BY <1>4
         DEF FetchEnds, Effect, Fresh, runVars, threadVars, repoVars,
             strayVars, Placed, Places, Ended, TypePlace
    <2>6. Intact'
      BY <1>4
         DEF FetchEnds, Effect, Fresh, runVars, threadVars, repoVars,
             strayVars, Intact, Got, TypePlace, TypeRepo, Locked, Placed
    <2>7. CleanedUp'
      BY <1>4
         DEF FetchEnds, Effect, Fresh, runVars, threadVars, repoVars,
             strayVars, CleanedUp, TypePlace, Ended, Placed
    <2> QED
      BY <2>1, <2>2, <2>3, <2>4, <2>5, <2>6, <2>7
  <1>5. ASSUME NEW t \in Task, RevParseEnds(t) PROVE WInv'
    <2>1. TypePlace'
      BY <1>5
         DEF RevParseEnds, Fresh, runVars, threadVars, repoVars, strayVars,
             TypePlace, Places, Ended, TypeRepo
    <2>2. TypeThread'
      BY <1>5
         DEF RevParseEnds, Fresh, runVars, threadVars, repoVars, strayVars,
             TypeThread
    <2>3. TypeRepo'
      BY <1>5
         DEF RevParseEnds, Fresh, runVars, threadVars, repoVars, strayVars,
             TypeRepo
    <2>4. Locked'
      BY <1>5
         DEF RevParseEnds, Fresh, runVars, threadVars, repoVars, strayVars,
             Locked, TypePlace, Places
    <2>5. Placed'
      BY <1>5
         DEF RevParseEnds, Fresh, runVars, threadVars, repoVars, strayVars,
             Placed, Places, Ended, TypePlace
    <2>6. Intact'
      BY <1>5
         DEF RevParseEnds, Fresh, runVars, threadVars, repoVars, strayVars,
             Intact, Got, TypePlace, TypeRepo, Locked, Placed
    <2>7. CleanedUp'
      BY <1>5
         DEF RevParseEnds, Fresh, runVars, threadVars, repoVars, strayVars,
             CleanedUp, TypePlace, Ended, Placed
    <2> QED
      BY <2>1, <2>2, <2>3, <2>4, <2>5, <2>6, <2>7
  <1>6. ASSUME NEW t \in Task, PruneEnds(t) PROVE WInv'
    <2>1. TypePlace'
      BY <1>6
         DEF PruneEnds, runVars, threadVars, repoVars, strayVars, TypePlace,
             Places, Ended
    <2>2. TypeThread'
      BY <1>6
         DEF PruneEnds, runVars, threadVars, repoVars, strayVars, TypeThread
    <2>3. TypeRepo'
      BY <1>6 DEF PruneEnds, runVars, threadVars, repoVars, strayVars, TypeRepo
    <2>4. Locked'
      BY <1>6
         DEF PruneEnds, runVars, threadVars, repoVars, strayVars, Locked,
             TypePlace, Places
    <2>5. Placed'
      BY <1>6
         DEF PruneEnds, runVars, threadVars, repoVars, strayVars, Placed,
             Places, Ended, TypePlace
    <2>6. Intact'
      BY <1>6
         DEF PruneEnds, runVars, threadVars, repoVars, strayVars, Intact, Got,
             TypePlace, TypeRepo, Locked, Placed
    <2>7. CleanedUp'
      BY <1>6
         DEF PruneEnds, runVars, threadVars, repoVars, strayVars, CleanedUp,
             TypePlace, Ended, Placed
    <2> QED
      BY <2>1, <2>2, <2>3, <2>4, <2>5, <2>6, <2>7
  <1>7. ASSUME NEW t \in Task, AddEnds(t) PROVE WInv'
    <2>1. TypePlace'
      BY <1>7
         DEF AddEnds, Effect, Release, runVars, threadVars, repoVars,
             strayVars, TypePlace, Places, Ended
    <2>2. TypeThread'
      BY <1>7
         DEF AddEnds, Effect, Release, runVars, threadVars, repoVars,
             strayVars, TypeThread
    <2>3. TypeRepo'
      BY <1>7
         DEF AddEnds, Effect, Release, runVars, threadVars, repoVars,
             strayVars, TypeRepo
    <2>4. Locked'
      BY <1>7
         DEF AddEnds, Effect, Release, runVars, threadVars, repoVars,
             strayVars, Locked, TypePlace, Places
    <2>5. Placed'
      BY <1>7
         DEF AddEnds, Effect, Release, runVars, threadVars, repoVars,
             strayVars, Placed, Places, Ended, TypePlace
    <2>6. Intact'
      BY <1>7
         DEF AddEnds, Effect, Release, runVars, threadVars, repoVars,
             strayVars, Intact, Got, TypePlace, TypeRepo, Locked, Placed
    <2>7. CleanedUp'
      BY <1>7
         DEF AddEnds, Effect, Release, runVars, threadVars, repoVars,
             strayVars, CleanedUp, TypePlace, Ended, Placed
    <2> QED
      BY <2>1, <2>2, <2>3, <2>4, <2>5, <2>6, <2>7
  <1>8. ASSUME NEW t \in Task, SetupFails(t) PROVE WInv'
    <2>1. TypePlace'
      BY <1>8
         DEF SetupFails, Release, runVars, threadVars, repoVars, strayVars,
             TypePlace, Places, Ended
    <2>2. TypeThread'
      BY <1>8
         DEF SetupFails, Release, runVars, threadVars, repoVars, strayVars,
             TypeThread
    <2>3. TypeRepo'
      BY <1>8
         DEF SetupFails, Release, runVars, threadVars, repoVars, strayVars,
             TypeRepo
    <2>4. Locked'
      BY <1>8
         DEF SetupFails, Release, runVars, threadVars, repoVars, strayVars,
             Locked, TypePlace, Places
    <2>5. Placed'
      BY <1>8
         DEF SetupFails, Release, runVars, threadVars, repoVars, strayVars,
             Placed, Places, Ended, TypePlace
    <2>6. Intact'
      BY <1>8
         DEF SetupFails, Release, runVars, threadVars, repoVars, strayVars,
             Intact, Got, TypePlace, TypeRepo, Locked, Placed
    <2>7. CleanedUp'
      BY <1>8
         DEF SetupFails, Release, runVars, threadVars, repoVars, strayVars,
             CleanedUp, TypePlace, Ended, Placed
    <2> QED
      BY <2>1, <2>2, <2>3, <2>4, <2>5, <2>6, <2>7
  <1>9. ASSUME NEW t \in Task, SetupEnds(t) PROVE WInv'
    <2>1. TypePlace'
      BY <1>9
         DEF SetupEnds, runVars, threadVars, repoVars, strayVars, TypePlace,
             Places, Ended
    <2>2. TypeThread'
      BY <1>9
         DEF SetupEnds, runVars, threadVars, repoVars, strayVars, TypeThread
    <2>3. TypeRepo'
      BY <1>9 DEF SetupEnds, runVars, threadVars, repoVars, strayVars, TypeRepo
    <2>4. Locked'
      BY <1>9
         DEF SetupEnds, runVars, threadVars, repoVars, strayVars, Locked,
             TypePlace, Places
    <2>5. Placed'
      BY <1>9
         DEF SetupEnds, runVars, threadVars, repoVars, strayVars, Placed,
             Places, Ended, TypePlace
    <2>6. Intact'
      BY <1>9
         DEF SetupEnds, runVars, threadVars, repoVars, strayVars, Intact, Got,
             TypePlace, TypeRepo, Locked, Placed
    <2>7. CleanedUp'
      BY <1>9
         DEF SetupEnds, runVars, threadVars, repoVars, strayVars, CleanedUp,
             TypePlace, Ended, Placed
    <2> QED
      BY <2>1, <2>2, <2>3, <2>4, <2>5, <2>6, <2>7
  <1>10. ASSUME NEW t \in Task, BranchesEnd(t) PROVE WInv'
    <2>1. TypePlace'
      BY <1>10
         DEF BranchesEnd, runVars, threadVars, repoVars, strayVars, TypePlace,
             Places, Ended
    <2>2. TypeThread'
      BY <1>10
         DEF BranchesEnd, runVars, threadVars, repoVars, strayVars, TypeThread
    <2>3. TypeRepo'
      BY <1>10
         DEF BranchesEnd, runVars, threadVars, repoVars, strayVars, TypeRepo
    <2>4. Locked'
      BY <1>10
         DEF BranchesEnd, runVars, threadVars, repoVars, strayVars, Locked,
             TypePlace, Places
    <2>5. Placed'
      BY <1>10
         DEF BranchesEnd, runVars, threadVars, repoVars, strayVars, Placed,
             Places, Ended, TypePlace
    <2>6. Intact'
      BY <1>10
         DEF BranchesEnd, runVars, threadVars, repoVars, strayVars, Intact,
             Got, TypePlace, TypeRepo, Locked, Placed
    <2>7. CleanedUp'
      BY <1>10
         DEF BranchesEnd, runVars, threadVars, repoVars, strayVars, CleanedUp,
             TypePlace, Ended, Placed
    <2> QED
      BY <2>1, <2>2, <2>3, <2>4, <2>5, <2>6, <2>7
  <1>11. ASSUME NEW t \in Task, SynthesisEnds(t) PROVE WInv'
    <2>1. TypePlace'
      BY <1>11
         DEF SynthesisEnds, runVars, threadVars, repoVars, strayVars,
             TypePlace, Places, Ended
    <2>2. TypeThread'
      BY <1>11
         DEF SynthesisEnds, runVars, threadVars, repoVars, strayVars,
             TypeThread
    <2>3. TypeRepo'
      BY <1>11
         DEF SynthesisEnds, runVars, threadVars, repoVars, strayVars, TypeRepo
    <2>4. Locked'
      BY <1>11
         DEF SynthesisEnds, runVars, threadVars, repoVars, strayVars, Locked,
             TypePlace, Places
    <2>5. Placed'
      BY <1>11
         DEF SynthesisEnds, runVars, threadVars, repoVars, strayVars, Placed,
             Places, Ended, TypePlace
    <2>6. Intact'
      BY <1>11
         DEF SynthesisEnds, runVars, threadVars, repoVars, strayVars, Intact,
             Got, TypePlace, TypeRepo, Locked, Placed
    <2>7. CleanedUp'
      BY <1>11
         DEF SynthesisEnds, runVars, threadVars, repoVars, strayVars,
             CleanedUp, TypePlace, Ended, Placed
    <2> QED
      BY <2>1, <2>2, <2>3, <2>4, <2>5, <2>6, <2>7
  <1>12. ASSUME NEW t \in Task, FindWorktree(t) PROVE WInv'
    <2>1. TypePlace'
      BY <1>12
         DEF FindWorktree, Finish, Forget, Fresh, runVars, threadVars,
             repoVars, strayVars, TypePlace, Places, Ended
    <2>2. TypeThread'
      BY <1>12
         DEF FindWorktree, Finish, Forget, Fresh, runVars, threadVars,
             repoVars, strayVars, TypeThread
    <2>3. TypeRepo'
      BY <1>12
         DEF FindWorktree, Finish, Forget, Fresh, runVars, threadVars,
             repoVars, strayVars, TypeRepo
    <2>4. Locked'
      BY <1>12
         DEF FindWorktree, Finish, Forget, Fresh, runVars, threadVars,
             repoVars, strayVars, Locked, TypePlace, Places
    <2>5. Placed'
      BY <1>12
         DEF FindWorktree, Finish, Forget, Fresh, runVars, threadVars,
             repoVars, strayVars, Placed, Places, Ended, TypePlace
    <2>6. Intact'
      BY <1>12
         DEF FindWorktree, Finish, Forget, Fresh, runVars, threadVars,
             repoVars, strayVars, Intact, Got, TypePlace, TypeRepo, Locked,
             Placed
    <2>7. CleanedUp'
      BY <1>12
         DEF FindWorktree, Finish, Forget, Fresh, runVars, threadVars,
             repoVars, strayVars, CleanedUp, TypePlace, Ended, Placed
    <2> QED
      BY <2>1, <2>2, <2>3, <2>4, <2>5, <2>6, <2>7
  <1>13. ASSUME NEW t \in Task, LockForCleanup(t) PROVE WInv'
    <2>1. TypePlace'
      BY <1>13
         DEF LockForCleanup, runVars, threadVars, repoVars, strayVars,
             TypePlace, Places, Ended
    <2>2. TypeThread'
      BY <1>13
         DEF LockForCleanup, runVars, threadVars, repoVars, strayVars,
             TypeThread
    <2>3. TypeRepo'
      BY <1>13
         DEF LockForCleanup, runVars, threadVars, repoVars, strayVars, TypeRepo
    <2>4. Locked'
      BY <1>13
         DEF LockForCleanup, runVars, threadVars, repoVars, strayVars, Locked,
             TypePlace, Places
    <2>5. Placed'
      BY <1>13
         DEF LockForCleanup, runVars, threadVars, repoVars, strayVars, Placed,
             Places, Ended, TypePlace
    <2>6. Intact'
      BY <1>13
         DEF LockForCleanup, runVars, threadVars, repoVars, strayVars, Intact,
             Got, TypePlace, TypeRepo, Locked, Placed
    <2>7. CleanedUp'
      BY <1>13
         DEF LockForCleanup, runVars, threadVars, repoVars, strayVars,
             CleanedUp, TypePlace, Ended, Placed
    <2> QED
      BY <2>1, <2>2, <2>3, <2>4, <2>5, <2>6, <2>7
  <1>14. ASSUME NEW t \in Task, SweepEnds(t) PROVE WInv'
    <2>1. TypePlace'
      BY <1>14
         DEF SweepEnds, Effect, runVars, threadVars, repoVars, strayVars,
             TypePlace, Places, Ended
    <2>2. TypeThread'
      BY <1>14
         DEF SweepEnds, Effect, runVars, threadVars, repoVars, strayVars,
             TypeThread
    <2>3. TypeRepo'
      BY <1>14
         DEF SweepEnds, Effect, runVars, threadVars, repoVars, strayVars,
             TypeRepo
    <2>4. Locked'
      BY <1>14
         DEF SweepEnds, Effect, runVars, threadVars, repoVars, strayVars,
             Locked, TypePlace, Places
    <2>5. Placed'
      BY <1>14
         DEF SweepEnds, Effect, runVars, threadVars, repoVars, strayVars,
             Placed, Places, Ended, TypePlace
    <2>6. Intact'
      BY <1>14
         DEF SweepEnds, Effect, runVars, threadVars, repoVars, strayVars,
             Intact, Got, TypePlace, TypeRepo, Locked, Placed
    <2>7. CleanedUp'
      BY <1>14
         DEF SweepEnds, Effect, runVars, threadVars, repoVars, strayVars,
             CleanedUp, TypePlace, Ended, Placed
    <2> QED
      BY <2>1, <2>2, <2>3, <2>4, <2>5, <2>6, <2>7
  <1>15. ASSUME NEW t \in Task, RemoveEnds(t) PROVE WInv'
    <2>1. TypePlace'
      BY <1>15
         DEF RemoveEnds, Release, Finish, Forget, Fresh, runVars,
             threadVars, repoVars, strayVars, TypePlace, Places, Ended
    <2>2. TypeThread'
      BY <1>15
         DEF RemoveEnds, Release, Finish, Forget, Fresh, runVars,
             threadVars, repoVars, strayVars, TypeThread
    <2>3. TypeRepo'
      BY <1>15
         DEF RemoveEnds, Release, Finish, Forget, Fresh, runVars,
             threadVars, repoVars, strayVars, TypeRepo
    <2>4. Locked'
      BY <1>15
         DEF RemoveEnds, Release, Finish, Forget, Fresh, runVars,
             threadVars, repoVars, strayVars, Locked, TypePlace, Places
    <2>5. Placed'
      BY <1>15
         DEF RemoveEnds, Release, Finish, Forget, Fresh, runVars,
             threadVars, repoVars, strayVars, Placed, Places, Ended, TypePlace
    <2>6. Intact'
      BY <1>15
         DEF RemoveEnds, Release, Finish, Forget, Fresh, runVars,
             threadVars, repoVars, strayVars, Intact, Got, TypePlace, TypeRepo,
             Locked, Placed
    <2>7. CleanedUp'
      BY <1>15
         DEF RemoveEnds, Release, Finish, Forget, Fresh, runVars,
             threadVars, repoVars, strayVars, CleanedUp, TypePlace, Ended,
             Placed
    <2> QED
      BY <2>1, <2>2, <2>3, <2>4, <2>5, <2>6, <2>7
  <1>16. ASSUME NEW t \in Task, CleanupFails(t) PROVE WInv'
    <2>1. TypePlace'
      BY <1>16
         DEF CleanupFails, Release, Finish, Forget, Fresh, runVars, threadVars,
             repoVars, strayVars, TypePlace, Places, Ended
    <2>2. TypeThread'
      BY <1>16
         DEF CleanupFails, Release, Finish, Forget, Fresh, runVars, threadVars,
             repoVars, strayVars, TypeThread
    <2>3. TypeRepo'
      BY <1>16
         DEF CleanupFails, Release, Finish, Forget, Fresh, runVars, threadVars,
             repoVars, strayVars, TypeRepo
    <2>4. Locked'
      BY <1>16
         DEF CleanupFails, Release, Finish, Forget, Fresh, runVars, threadVars,
             repoVars, strayVars, Locked, TypePlace, Places
    <2>5. Placed'
      BY <1>16
         DEF CleanupFails, Release, Finish, Forget, Fresh, runVars, threadVars,
             repoVars, strayVars, Placed, Places, Ended, TypePlace
    <2>6. Intact'
      BY <1>16
         DEF CleanupFails, Release, Finish, Forget, Fresh, runVars, threadVars,
             repoVars, strayVars, Intact, Got, TypePlace, TypeRepo, Locked,
             Placed
    <2>7. CleanedUp'
      BY <1>16
         DEF CleanupFails, Release, Finish, Forget, Fresh, runVars, threadVars,
             repoVars, strayVars, CleanedUp, TypePlace, Ended, Placed,
             TypeThread
    <2> QED
      BY <2>1, <2>2, <2>3, <2>4, <2>5, <2>6, <2>7
  <1>17. ASSUME NEW t \in Task, SshRefused(t) PROVE WInv'
    <2>1. TypePlace'
      BY <1>17
         DEF SshRefused, runVars, threadVars, repoVars, strayVars, TypePlace,
             Places, Ended
    <2>2. TypeThread'
      BY <1>17
         DEF SshRefused, runVars, threadVars, repoVars, strayVars, TypeThread
    <2>3. TypeRepo'
      BY <1>17
         DEF SshRefused, runVars, threadVars, repoVars, strayVars, TypeRepo
    <2>4. Locked'
      BY <1>17
         DEF SshRefused, runVars, threadVars, repoVars, strayVars, Locked,
             TypePlace, Places
    <2>5. Placed'
      BY <1>17
         DEF SshRefused, runVars, threadVars, repoVars, strayVars, Placed,
             Places, Ended, TypePlace
    <2>6. Intact'
      BY <1>17
         DEF SshRefused, runVars, threadVars, repoVars, strayVars, Intact, Got,
             TypePlace, TypeRepo, Locked, Placed
    <2>7. CleanedUp'
      BY <1>17
         DEF SshRefused, runVars, threadVars, repoVars, strayVars, CleanedUp,
             TypePlace, Ended, Placed
    <2> QED
      BY <2>1, <2>2, <2>3, <2>4, <2>5, <2>6, <2>7
  <1>18. ASSUME NEW t \in Task, SynthesisRaises(t) PROVE WInv'
    <2>1. TypePlace'
      BY <1>18
         DEF SynthesisRaises, runVars, threadVars, repoVars, strayVars,
             TypePlace, Places, Ended
    <2>2. TypeThread'
      BY <1>18
         DEF SynthesisRaises, runVars, threadVars, repoVars, strayVars,
             TypeThread
    <2>3. TypeRepo'
      BY <1>18
         DEF SynthesisRaises, runVars, threadVars, repoVars, strayVars,
             TypeRepo
    <2>4. Locked'
      BY <1>18
         DEF SynthesisRaises, runVars, threadVars, repoVars, strayVars, Locked,
             TypePlace, Places
    <2>5. Placed'
      BY <1>18
         DEF SynthesisRaises, runVars, threadVars, repoVars, strayVars, Placed,
             Places, Ended, TypePlace
    <2>6. Intact'
      BY <1>18
         DEF SynthesisRaises, runVars, threadVars, repoVars, strayVars, Intact,
             Got, TypePlace, TypeRepo, Locked, Placed
    <2>7. CleanedUp'
      BY <1>18
         DEF SynthesisRaises, runVars, threadVars, repoVars, strayVars,
             CleanedUp, TypePlace, Ended, Placed
    <2> QED
      BY <2>1, <2>2, <2>3, <2>4, <2>5, <2>6, <2>7
  <1>19. ASSUME NEW t \in Task, Cancel(t) PROVE WInv'
    <2>1. TypePlace'
      BY <1>19
         DEF Cancel, Release, Abandon, Finish, Forget, Fresh, runVars,
             threadVars, repoVars, strayVars, TypePlace, Places, Ended
    <2>2. TypeThread'
      BY <1>19
         DEF Cancel, Release, Abandon, Finish, Forget, Fresh, runVars,
             threadVars, repoVars, strayVars, TypeThread
    <2>3. TypeRepo'
      BY <1>19
         DEF Cancel, Release, Abandon, Finish, Forget, Fresh, runVars,
             threadVars, repoVars, strayVars, TypeRepo
    <2>4. Locked'
      BY <1>19
         DEF Cancel, Release, Abandon, Finish, Forget, Fresh, runVars,
             threadVars, repoVars, strayVars, Locked, TypePlace, Places
    <2>5. Placed'
      BY <1>19
         DEF Cancel, Release, Abandon, Finish, Forget, Fresh, runVars,
             threadVars, repoVars, strayVars, Placed, Places, Ended, TypePlace
    <2>6. Intact'
      BY <1>19
         DEF Cancel, Release, Abandon, Finish, Forget, Fresh, runVars,
             threadVars, repoVars, strayVars, Intact, Got, TypePlace, TypeRepo,
             Locked, Placed
    <2>7. CleanedUp'
      BY <1>19
         DEF Cancel, Release, Abandon, Finish, Forget, Fresh, runVars,
             threadVars, repoVars, strayVars, CleanedUp, TypePlace, Ended,
             Placed
    <2> QED
      BY <2>1, <2>2, <2>3, <2>4, <2>5, <2>6, <2>7
  <1>20. ASSUME NEW t \in Task, Die(t) PROVE WInv'
    <2>1. TypePlace'
      BY <1>20
         DEF Die, Release, Abandon, Forget, Fresh, runVars, threadVars,
             repoVars, strayVars, TypePlace, Places, Ended
    <2>2. TypeThread'
      BY <1>20
         DEF Die, Release, Abandon, Forget, Fresh, runVars, threadVars,
             repoVars, strayVars, TypeThread
    <2>3. TypeRepo'
      BY <1>20
         DEF Die, Release, Abandon, Forget, Fresh, runVars, threadVars,
             repoVars, strayVars, TypeRepo
    <2>4. Locked'
      BY <1>20
         DEF Die, Release, Abandon, Forget, Fresh, runVars, threadVars,
             repoVars, strayVars, Locked, TypePlace, Places
    <2>5. Placed'
      BY <1>20
         DEF Die, Release, Abandon, Forget, Fresh, runVars, threadVars,
             repoVars, strayVars, Placed, Places, Ended, TypePlace
    <2>6. Intact'
      BY <1>20
         DEF Die, Release, Abandon, Forget, Fresh, runVars, threadVars,
             repoVars, strayVars, Intact, Got, TypePlace, TypeRepo, Locked,
             Placed
    <2>7. CleanedUp'
      BY <1>20
         DEF Die, Release, Abandon, Forget, Fresh, runVars, threadVars,
             repoVars, strayVars, CleanedUp, TypePlace, Ended, Placed
    <2> QED
      BY <2>1, <2>2, <2>3, <2>4, <2>5, <2>6, <2>7
  <1>21. ASSUME NEW s \in strays, StrayEnds(s) PROVE WInv'
    <2>1. TypePlace'
      BY <1>21
         DEF StrayEnds, Effect, runVars, threadVars, repoVars, strayVars,
             TypePlace, Places, Ended
    <2>2. TypeThread'
      BY <1>21
         DEF StrayEnds, Effect, runVars, threadVars, repoVars, strayVars,
             TypeThread
    <2>3. TypeRepo'
      BY <1>21
         DEF StrayEnds, Effect, runVars, threadVars, repoVars, strayVars,
             TypeRepo
    <2>4. Locked'
      BY <1>21
         DEF StrayEnds, Effect, runVars, threadVars, repoVars, strayVars,
             Locked, TypePlace, Places
    <2>5. Placed'
      BY <1>21
         DEF StrayEnds, Effect, runVars, threadVars, repoVars, strayVars,
             Placed, Places, Ended, TypePlace
    <2>6. Intact'
      BY <1>21
         DEF StrayEnds, Effect, runVars, threadVars, repoVars, strayVars,
             Intact, Got, TypePlace, TypeRepo, Locked, Placed
    <2>7. CleanedUp'
      BY <1>21
         DEF StrayEnds, Effect, runVars, threadVars, repoVars, strayVars,
             CleanedUp, TypePlace, Ended, Placed
    <2> QED
      BY <2>1, <2>2, <2>3, <2>4, <2>5, <2>6, <2>7
  <1>22. CASE UNCHANGED vars
    BY <1>22
       DEF vars, runVars, threadVars, repoVars, strayVars, TypePlace,
           TypeThread, TypeRepo, Locked, Placed, Intact, Got, CleanedUp
  <1> QED
    BY <1>1, <1>2, <1>3, <1>4, <1>5, <1>6, <1>7, <1>8, <1>9, <1>10, <1>11,
       <1>12, <1>13, <1>14, <1>15, <1>16, <1>17, <1>18, <1>19, <1>20, <1>21,
       <1>22
       DEF Next, Proceed

-----------------------------------------------------------------------------
(* The theorems.                                                           *)

\* While no git command outlives its run, every review works in a worktree of
\* its own pull request's head until it removes it itself, for any number of
\* reviews, retries, failures and deaths.
THEOREM WorktreeHolds == Spec => []WorktreeIntact
  <1>1. WInv => WorktreeIntact
    BY DEF WInv, Intact, Got, WorktreeIntact
  <1> QED
    BY <1>1, WInvInit, WInvNext, PTL DEF Spec

\* The model is typed, and a run that had a worktree leaves none behind when
\* it ends, but for a death, a cancel in the cleanup, a warning or a stray.
THEOREM WorkspaceHolds == Spec => []WorkspaceInv
  <1>1. WInv => WorkspaceInv
    BY TypeParts DEF WInv, WorkspaceInv
  <1> QED
    BY <1>1, WInvInit, WInvNext, PTL DEF Spec
=============================================================================
