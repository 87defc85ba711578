---------------------------- MODULE TaskLifecycle ----------------------------
(***************************************************************************)
(* What the task table promises its readers: the statuses of               *)
(* switchplane.task.TaskStatus and the only ways a row may move between    *)
(* them.  TaskSupervision, the model of the code that writes the rows, is   *)
(* checked to implement this specification.                                *)
(***************************************************************************)
CONSTANT Tasks

VARIABLES life,      \* status of each task row, "absent" before it is inserted
          admitted   \* tasks with a retry that was accepted and not yet done

lifeVars == <<life, admitted>>

Live == {"pending", "running", "interrupted"}
Terminal == {"completed", "failed", "cancelled"}
Statuses == {"absent", "cleared"} \cup Live \cup Terminal

LifeTypeOK == /\ life \in [Tasks -> Statuses]
              /\ admitted \subseteq Tasks

LifeInit == /\ life = [t \in Tasks |-> "absent"]
            /\ admitted = {}

\* Row t goes from one of the statuses in From to status s.
Move(t, From, s) == /\ life[t] \in From
                    /\ life' = [life EXCEPT ![t] = s]

Create(t)    == Move(t, {"absent"}, "pending") /\ UNCHANGED admitted
Launch(t)    == Move(t, {"pending"}, "running") /\ UNCHANGED admitted
Interrupt(t) == Move(t, {"running"}, "interrupted") /\ UNCHANGED admitted
Resume(t)    == Move(t, {"interrupted"}, "running") /\ UNCHANGED admitted
Finish(t)    == /\ \E s \in Terminal : Move(t, {"running", "interrupted"}, s)
                /\ UNCHANGED admitted

\* A retry is admitted only for a finished task; the row is reset later.
Admit(t) == /\ life[t] \in Terminal
            /\ admitted' = admitted \cup {t}
            /\ UNCHANGED life

Relaunch(t) == /\ t \in admitted
               /\ life' = [life EXCEPT ![t] = "pending"]
               /\ admitted' = admitted \ {t}

\* The reset of an accepted retry fails: it is given up.
Withdraw(t) == admitted' = admitted \ {t} /\ UNCHANGED life

\* Finished rows are hidden, all of them in one statement.
Hide == /\ life' = [t \in Tasks |-> IF life[t] \in Terminal THEN "cleared"
                                                            ELSE life[t]]
        /\ UNCHANGED admitted

\* The daemon dies: what it had accepted is forgotten, the rows stay.
Forget == admitted' = {} /\ UNCHANGED life

\* The daemon comes back: no live row survives.
Recover == /\ life' = [t \in Tasks |-> IF life[t] \in Live THEN "failed"
                                                          ELSE life[t]]
           /\ UNCHANGED admitted

LifeNext == \/ \E t \in Tasks : \/ Create(t) \/ Launch(t) \/ Interrupt(t)
                                \/ Resume(t) \/ Finish(t)
                                \/ Admit(t) \/ Relaunch(t) \/ Withdraw(t)
            \/ Hide \/ Forget \/ Recover

Lifecycle == LifeInit /\ [][LifeNext]_lifeVars
=============================================================================
