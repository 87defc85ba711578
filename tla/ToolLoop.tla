------------------------------- MODULE ToolLoop -------------------------------
(***************************************************************************)
(* run_tool_loop: a conversation with a model that asks for tools.  Before *)
(* every question the history is trimmed to the model's context window:    *)
(* the first message stays, cut when it is too long, and of the rest the   *)
(* longest end that fits and begins with a turn of the model.  The model   *)
(* is asked through RateLimitRetry; tools run one after the other, and     *)
(* those of Shell report every failure as a result.                        *)
(* Sizes are in units of the window; text, arguments and progress are left *)
(* out, so two calls are equal when they are of the same tool.             *)
(***************************************************************************)
EXTENDS Naturals, SequencesExt

CONSTANTS
    Tools,       \* tools in tool_map; ShellTools of them are Shell's
    ShellTools,
    Unknown,     \* a name the model made up
    Budget,      \* the window less its headroom
    MinBudget,   \* _MIN_INPUT_TOKENS
    Prompts,     \* sizes the caller's messages may have
    ResultSizes, \* sizes of a tool's result
    MaxTurns,    \* max_turns
    MaxRetries,  \* max_retries
    MaxRepeats,  \* _MAX_REPEAT_CALLS
    MaxAttempts, \* _RATE_LIMIT_MAX_ATTEMPTS
    MaxCalls     \* bound on the calls of one turn

\* A repetition is one of two turns at least.
ASSUME LoopAssumption ==
    /\ ShellTools \subseteq Tools /\ Unknown \notin Tools
    /\ {Budget, MinBudget, MaxCalls} \subseteq Nat
    /\ (Prompts \cup ResultSizes) \subseteq Nat \ {0}
    /\ {MaxTurns, MaxRetries, MaxAttempts} \subseteq Nat \ {0}
    /\ MaxRepeats \in Nat \ {0, 1}

Names == Tools \cup {Unknown}
Calls == SeqOf(Names, MaxCalls)

VARIABLES
    pc,       \* "trim", "ask", "check", "call", "run", or how the loop ended
    messages, \* the conversation, trimmed in place
    turn,     \* turns with tool calls so far
    last,     \* the calls of the turn before (last_sig)
    repeats,  \* turns in a row with these calls
    calls,    \* the calls of this turn
    tries,    \* attempts at the question, or at the call that runs
    ran,      \* executions of each call of this turn
    slow,     \* those of them that timed out
    executed  \* the calls of the turns executed so far

counters == <<turn, last, repeats>>
history == <<ran, slow, executed>>
loopVars == <<pc, messages, counters, calls, tries, history>>

Ends == {"answered", "capped", "repeating", "error", "cancelled"}

\* nr: how many calls a turn of the model has; which of them an answer is for.
Human(n) == [kind |-> "human", turn |-> 0, nr |-> 0, size |-> n]
AI(n) == [kind |-> "ai", turn |-> turn, nr |-> n, size |-> 1]
Answer(n, c) == [kind |-> "tool", turn |-> turn, nr |-> c, size |-> n]

Size(s) == FoldLeft(LAMBDA n, m : n + m.size, 0, s)

LoopInit ==
    /\ pc = "trim"
    /\ \E a \in Prompts : messages \in {<<Human(a)>>, <<Human(a), Human(1)>>}
    /\ turn = 0 /\ last = <<>> /\ repeats = 0
    /\ calls = <<>> /\ tries = 0
    /\ ran = <<>> /\ slow = <<>> /\ executed = <<>>

End(how) == pc' = how

----------------------------------------------------------------------------
(* Trimming                                                                *)

\* The first message, cut to the budget when it comes near it or exceeds it.
Long(m) == 4 * m.size > 3 * Budget
Anchors(m) ==
    IF Long(m) THEN {Human(n) : n \in {k \in 1..Budget : k <= m.size}} ELSE {m}

\* The longest end that fits, from its first turn of the model on (external:
\* trim_messages of langchain_core).
Kept(s, room) ==
    LET fits == {i \in 1..Len(s) : Size(SubSeq(s, i, Len(s))) <= room
                                   /\ s[i].kind = "ai"}
    IN  IF fits = {} THEN <<>>
        ELSE SubSeq(s, CHOOSE i \in fits : \A j \in fits : i <= j, Len(s))

Rest == SubSeq(messages, 2, Len(messages))

\* Mutant of Trim: the tail has the budget for itself.
TrimApart ==
    /\ pc = "trim" /\ Budget >= MinBudget
    /\ \E a \in Anchors(Head(messages)) :
          messages' = <<a>> \o Kept(Rest, Budget)
    /\ pc' = "ask" /\ tries' = 0
    /\ UNCHANGED <<counters, calls, history>>

Trim ==
    /\ pc = "trim" /\ Budget >= MinBudget
    /\ \E a \in Anchors(Head(messages)) :
          messages' = <<a>> \o Kept(Rest, Budget - a.size)
    /\ pc' = "ask" /\ tries' = 0
    /\ UNCHANGED <<counters, calls, history>>

\* A window without room, or content that is too long and not all text.
GiveUp ==
    /\ pc = "trim" /\ (Budget < MinBudget \/ Long(Head(messages)))
    /\ End("error")
    /\ UNCHANGED <<messages, counters, calls, tries, history>>

----------------------------------------------------------------------------
(* The question                                                            *)

\* The model answers without calls: that is the end.
Final ==
    /\ pc = "ask" /\ messages' = Append(messages, AI(0))
    /\ End("answered")
    /\ UNCHANGED <<counters, calls, tries, history>>

Reply ==
    /\ pc = "ask"
    /\ \E cs \in Calls \ {<<>>} :
          /\ calls' = cs
          /\ messages' =
               Append(messages, [AI(Len(cs)) EXCEPT !.turn = turn + 1])
    /\ turn' = turn + 1 /\ pc' = "check" /\ ran' = <<>> /\ slow' = <<>>
    /\ UNCHANGED <<last, repeats, tries, executed>>

\* Mutant of AskFails: the last attempt starts the count anew.
AskFailsForever ==
    /\ pc = "ask"
    /\ \/ tries' = (tries + 1) % MaxAttempts /\ UNCHANGED pc
       \/ End("error") /\ UNCHANGED tries
    /\ UNCHANGED <<messages, counters, calls, history>>

\* A 429 is asked again, up to the last attempt; any other error is raised.
AskFails ==
    /\ pc = "ask"
    /\ \/ tries + 1 < MaxAttempts /\ tries' = tries + 1 /\ UNCHANGED pc
       \/ End("error") /\ UNCHANGED tries
    /\ UNCHANGED <<messages, counters, calls, history>>

\* The cap first, then the repeats; a turn that passes is executed.
Same == calls = last

Execute ==
    /\ executed' = Append(executed, calls) /\ pc' = "call"
    /\ UNCHANGED <<ran, slow>>

\* Mutant of Check: a repeated turn starts the count anew.
CheckAnew ==
    /\ pc = "check"
    /\ IF turn >= MaxTurns
         THEN End("capped") /\ UNCHANGED <<history, last, repeats>>
         ELSE Execute /\ last' = calls /\ repeats' = 1
    /\ UNCHANGED <<messages, turn, calls, tries>>

Check ==
    /\ pc = "check"
    /\ IF turn >= MaxTurns
         THEN End("capped") /\ UNCHANGED <<history, last, repeats>>
       ELSE IF Same /\ repeats + 1 >= MaxRepeats
         THEN /\ End("repeating") /\ repeats' = repeats + 1
              /\ UNCHANGED <<history, last>>
       ELSE /\ Execute /\ last' = calls
            /\ repeats' = IF Same THEN repeats + 1 ELSE 1
    /\ UNCHANGED <<messages, turn, calls, tries>>

----------------------------------------------------------------------------
(* The tools                                                               *)

\* The call whose turn it is, and the one that runs.
Upcoming == calls[Len(ran) + 1]
Running == calls[Len(ran)]

\* A tool of Shell turns what goes wrong into a text; others may raise.
Reports(tool) == tool \in ShellTools

More == Len(ran) < Len(calls)

Tell(n, call) == messages' = Append(messages, Answer(n, call))

\* A name that is not in the map is answered without a call.
NotFound ==
    /\ pc = "call" /\ More /\ Upcoming = Unknown
    /\ ran' = Append(ran, 0) /\ slow' = Append(slow, 0)
    /\ Tell(1, Len(ran) + 1)
    /\ UNCHANGED <<pc, counters, calls, tries, executed>>

\* Shell: a command or a path that is not allowed is a result like others.
Refused ==
    /\ pc = "call" /\ More /\ Reports(Upcoming)
    /\ ran' = Append(ran, 0) /\ slow' = Append(slow, 0)
    /\ Tell(1, Len(ran) + 1)
    /\ UNCHANGED <<pc, counters, calls, tries, executed>>

Invoke ==
    /\ pc = "call" /\ More /\ Upcoming # Unknown
    /\ ran' = Append(ran, 1) /\ slow' = Append(slow, 0)
    /\ pc' = "run" /\ tries' = 1
    /\ UNCHANGED <<messages, counters, calls, executed>>

\* A result, whole or cut, or an exception: an answer in any case.
Finish ==
    /\ pc = "run" /\ ~Reports(Running)
    /\ \E n \in ResultSizes : Tell(n, Len(ran))
    /\ pc' = "call" /\ tries' = 0
    /\ UNCHANGED <<counters, calls, history>>

\* A command of Shell: its output with the exit code, or, when it was killed
\* for its timeout, a text that says so.
CommandDone ==
    /\ pc = "run" /\ Reports(Running)
    /\ \/ \E n \in ResultSizes : Tell(n, Len(ran)) /\ UNCHANGED slow
       \/ Tell(1, Len(ran)) /\ slow' = [slow EXCEPT ![Len(ran)] = @ + 1]
    /\ pc' = "call" /\ tries' = 0
    /\ UNCHANGED <<counters, calls, ran, executed>>

\* Mutant of TimedOut: one attempt too many.
TimedOutOnceMore ==
    /\ pc = "run" /\ ~Reports(Running)
    /\ slow' = [slow EXCEPT ![Len(ran)] = @ + 1]
    /\ IF tries <= MaxRetries
         THEN /\ tries' = tries + 1 /\ ran' = [ran EXCEPT ![Len(ran)] = @ + 1]
              /\ UNCHANGED <<pc, messages>>
         ELSE pc' = "call" /\ Tell(1, Len(ran)) /\ tries' = 0 /\ UNCHANGED ran
    /\ UNCHANGED <<counters, calls, executed>>

\* A tool that raises TimeoutError is called again, the last time answered.
TimedOut ==
    /\ pc = "run" /\ ~Reports(Running)
    /\ slow' = [slow EXCEPT ![Len(ran)] = @ + 1]
    /\ IF tries < MaxRetries
         THEN /\ tries' = tries + 1 /\ ran' = [ran EXCEPT ![Len(ran)] = @ + 1]
              /\ UNCHANGED <<pc, messages>>
         ELSE pc' = "call" /\ Tell(1, Len(ran)) /\ tries' = 0 /\ UNCHANGED ran
    /\ UNCHANGED <<counters, calls, executed>>

EndTurn ==
    /\ pc = "call" /\ ~More /\ pc' = "trim"
    /\ calls' = <<>> /\ ran' = <<>> /\ slow' = <<>> /\ tries' = 0
    /\ UNCHANGED <<messages, counters, executed>>

\* The task is cancelled at the question or in a tool.
Cancel ==
    /\ pc \in {"ask", "run"} /\ End("cancelled")
    /\ UNCHANGED <<messages, counters, calls, tries, history>>

Step ==
    \/ Trim \/ GiveUp \/ Final \/ Reply \/ AskFails \/ Check
    \/ NotFound \/ Refused \/ Invoke \/ Finish \/ CommandDone
    \/ TimedOut \/ EndTurn

LoopNext == Step \/ Cancel

LoopSpec == LoopInit /\ [][LoopNext]_loopVars

\* The model answers or fails, and a tool returns or raises.
FairSpec == LoopSpec /\ WF_loopVars(Step)

----------------------------------------------------------------------------
(* Properties                                                              *)

LoopTypeOK ==
    /\ pc \in {"trim", "ask", "check", "call", "run"} \cup Ends
    /\ messages # <<>>
    /\ turn \in 0..MaxTurns /\ repeats \in 0..MaxRepeats
    /\ last \in Calls /\ calls \in Calls
    /\ pc = "ask" => tries \in 0..(MaxAttempts - 1)
    /\ pc = "run" => tries \in 1..MaxRetries
    /\ Len(ran) <= Len(calls) /\ Len(slow) = Len(ran)

\* Whatever was trimmed away, the question begins with the caller's message
\* and goes on with whole turns: each turn of the model with the answers to
\* all its calls, in their order, and no answer without its turn (what the
\* providers demand, and start_on="ai" is there for).
PromptWellFormed ==
    pc = "ask" =>
        /\ Head(messages).kind = "human"
        /\ \A i \in 2..Len(messages) :
              LET m == messages[i]
                  k == IF m.kind = "ai" THEN i ELSE i - m.nr
              IN  /\ k \in 2..Len(messages)
                  /\ messages[k].kind = "ai" /\ messages[k].turn = m.turn
                  /\ k + messages[k].nr <= Len(messages)
                  /\ \A c \in 1..messages[k].nr :
                        /\ messages[k + c].kind = "tool"
                        /\ messages[k + c].turn = m.turn

\* The message that stays and the tail share one budget.
PromptFits == pc = "ask" => Size(messages) <= Budget

\* What every state of the loop is: typed, and, when it asks, fit to ask.
PromptInv == LoopTypeOK /\ PromptWellFormed /\ PromptFits

\* A call is made again only after it timed out, and at most max_retries
\* times; Shell's tools, whose timeouts are answers, never.
CalledAgainOnlyWhenSlow ==
    \A i \in 1..Len(ran) :
        /\ ran[i] <= slow[i] + 1 /\ ran[i] <= MaxRetries
        /\ Reports(calls[i]) => ran[i] <= 1

\* The same calls are never executed so often in a row that the repetition
\* ought to have been noticed, and no turn past the cap is.
NoTreadmill ==
    /\ Len(executed) < MaxTurns
    /\ \A i \in 1..Len(executed) :
          i + MaxRepeats - 1 <= Len(executed) =>
              \E k \in i..(i + MaxRepeats - 1) : executed[k] # executed[i]

\* The loop comes to an end, however the model and the tools behave.
LoopEnds == <>(pc \in Ends)

=============================================================================
