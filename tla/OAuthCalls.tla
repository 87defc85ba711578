------------------------------ MODULE OAuthCalls ------------------------------
(***************************************************************************)
(* Authorised calls to one MCP server: DirectOIDCAuth on top of            *)
(* RetryTransport in every agent process, the token file the processes     *)
(* share with `auth login`, and the provider that issues the tokens.       *)
(* Tokens are generations: the n-th reply of the provider holds access     *)
(* token n and, unless it leaves it out, refresh token n.  Any message may *)
(* be lost, before or after what it asks for was done.                     *)
(***************************************************************************)
EXTENDS FiniteSets, Naturals

CONSTANTS
    Proc,       \* agent processes
    Call,       \* calls, each made once, by any process
    None,       \* no process
    WithId,     \* the calls that are JSON-RPC requests, not notifications
    MaxRetries, \* McpServerConfig.max_retries
    Rotates,    \* does the provider accept a refresh token only once?
    Flaky,      \* may it refuse to refresh a token it takes, as by a 5xx?
    MaxTokens,  \* bound on replies with tokens
    MaxLogins   \* bound on logins

ASSUME OAuthAssumption ==
    /\ WithId \subseteq Call /\ None \notin Proc
    /\ {MaxRetries, MaxTokens, MaxLogins} \subseteq Nat
    /\ {Rotates, Flaky} \subseteq BOOLEAN

Token == 1..MaxTokens
Pair  == [access : Token, refresh : 0..MaxTokens]
NoPair == [access |-> 0, refresh |-> 0]

VARIABLES
    file,   \* tokens.json, NoPair when there is none
    mem,    \* the tokens a process holds
    loaded, \* has it read the file?  It does so once
    issued, \* replies with tokens so far
    spent,  \* refresh tokens the provider takes no more
    wasted, \* those of them whose successor was lost on the way
    lapsed, \* access tokens past expires_in less 30 s, or without it
    dead,   \* access tokens the server rejects
    call,   \* the calls
    login,  \* where the login command is
    gift,   \* what the provider's reply to its exchange holds
    logins

tokens == <<file, mem, loaded>>
provider == <<issued, spent, wasted, lapsed, dead>>
commands == <<login, gift, logins>>
vars == <<tokens, provider, call, commands>>

Waiting == {"proactive", "header", "send", "renew"}
Results == {"answered", "rejected", "throttled", "inband", "raised", "expired",
            "unauthorised", "gone"}

TypeOK ==
    /\ file \in Pair \cup {NoPair} /\ mem \in [Proc -> Pair \cup {NoPair}]
    /\ loaded \in [Proc -> BOOLEAN]
    /\ issued \in 0..MaxTokens
    /\ wasted \subseteq spent /\ spent \subseteq 1..issued
    /\ lapsed \subseteq 1..issued /\ dead \subseteq 1..issued
    /\ call \in [Call -> [at : Waiting \cup Results \cup {"idle"},
                          by : Proc \cup {None},
                          token : 0..issued, \* the header, or what is refreshed
                          attempt : 0..MaxRetries,
                          bad : 0..issued,     \* the token of the first 401
                          reply : {"none", "ok", "rejected", "throttled",
                                   "granted", "refused"},
                          got : Pair \cup {NoPair},
                          execs : 0..2]]  \* executions, less answers lost
    /\ login \in {"idle", "browser", "exchange"} /\ gift \in Pair \cup {NoPair}
    /\ logins \in 0..MaxLogins

Fresh == [at |-> "idle", by |-> None, token |-> 0, attempt |-> 0, bad |-> 0,
          reply |-> "none", got |-> NoPair, execs |-> 0]

Init ==
    /\ file = NoPair /\ mem = [p \in Proc |-> NoPair]
    /\ loaded = [p \in Proc |-> FALSE]
    /\ issued = 0 /\ spent = {} /\ wasted = {} /\ lapsed = {} /\ dead = {}
    /\ call = [c \in Call |-> Fresh]
    /\ login = "idle" /\ gift = NoPair /\ logins = 0

Done(c) == call[c].at \in Results

----------------------------------------------------------------------------
(* The provider and the server (external)                                  *)

\* A reply with tokens may lack the refresh token, and may lack expires_in.
Issue(pair) ==
    /\ issued < MaxTokens
    /\ issued' = issued + 1
    /\ \E r \in {0, issued'} : pair = [access |-> issued', refresh |-> r]
    /\ lapsed' \in {lapsed, lapsed \cup {issued'}}

Lapse(n) ==
    /\ n \in 1..issued \ lapsed /\ lapsed' = lapsed \cup {n}
    /\ UNCHANGED <<tokens, issued, spent, wasted, dead, call, commands>>

\* It expires, or is revoked before.
Expire(n) ==
    /\ n \in 1..issued \ dead /\ dead' = dead \cup {n}
    /\ UNCHANGED <<tokens, issued, spent, wasted, lapsed, call, commands>>

AtProvider(c) == call[c].at \in {"proactive", "renew"} /\ call[c].reply = "none"

Grant(c) ==
    /\ AtProvider(c) /\ call[c].token \notin spent
    /\ \E pair \in Pair :
          /\ Issue(pair)
          /\ call' = [call EXCEPT ![c].reply = "granted", ![c].got = pair]
    /\ spent' = spent \cup IF Rotates THEN {call[c].token} ELSE {}
    /\ UNCHANGED <<tokens, wasted, dead, commands>>

\* A refresh token it does not take, or any other reply but 200.
Refuse(c) ==
    /\ AtProvider(c) /\ (call[c].token \in spent \/ Flaky)
    /\ call' = [call EXCEPT ![c].reply = "refused"]
    /\ UNCHANGED <<tokens, provider, commands>>

\* The server looks at the token, then at its limits, then executes.
Serve(c) ==
    /\ call[c].at = "send" /\ call[c].reply = "none"
    /\ IF call[c].token \in dead
         THEN call' = [call EXCEPT ![c].reply = "rejected"]
         ELSE \/ call' = [call EXCEPT ![c].reply = "throttled"]
              \/ call' = [call EXCEPT ![c].reply = "ok", ![c].execs = @ + 1]
    /\ UNCHANGED <<tokens, provider, commands>>

----------------------------------------------------------------------------
(* DirectOIDCAuth.async_auth_flow                                          *)

Go(c, place, n) ==
    call' = [call EXCEPT ![c].at = place, ![c].token = n, ![c].attempt = 0,
                         ![c].reply = "none", ![c].got = NoPair]

\* After a 401 the header is set at once; before the first send the client of
\* the refresh is closed first, and other calls may go on meanwhile.
AfterRefresh(c) ==
    IF call[c].at = "proactive" THEN Go(c, "header", 0)
                                ELSE Go(c, "send", call[c].got.access)

Return(c, result) ==
    call' = [call EXCEPT ![c] = [Fresh EXCEPT !.at = result, !.by = call[c].by]]

\* The file is read by the first call of a process, and never again.
Start(c, p) ==
    LET pair == IF loaded[p] THEN mem[p] ELSE file
        flow == [Fresh EXCEPT !.by = p, !.at = "send", !.token = pair.access]
    IN  /\ call[c].at = "idle"
        /\ mem' = [mem EXCEPT ![p] = pair]
        /\ loaded' = [loaded EXCEPT ![p] = TRUE]
        /\ call' = [call EXCEPT ![c] =
             IF pair = NoPair THEN [flow EXCEPT !.at = "unauthorised"]
             ELSE IF pair.access \in lapsed /\ pair.refresh # 0
               THEN [flow EXCEPT !.at = "proactive", !.token = pair.refresh]
               ELSE flow]
        /\ UNCHANGED <<file, provider, commands>>

\* Mutant of Refreshed: the new tokens stay in memory.
RefreshedUnsaved(c) ==
    /\ call[c].reply = "granted"
    /\ mem' = [mem EXCEPT ![call[c].by] = call[c].got]
    /\ AfterRefresh(c)
    /\ UNCHANGED <<file, loaded, provider, commands>>

\* Mutant of Refreshed: the request keeps the header it had.
RefreshedOldHeader(c) ==
    /\ call[c].reply = "granted"
    /\ mem' = [mem EXCEPT ![call[c].by] = call[c].got] /\ file' = call[c].got
    /\ IF call[c].at = "proactive" THEN Go(c, "header", 0)
                                   ELSE Go(c, "send", call[c].bad)
    /\ UNCHANGED <<loaded, provider, commands>>

\* The reply replaces the tokens as a whole, in memory and in the file.
Refreshed(c) ==
    /\ call[c].reply = "granted"
    /\ mem' = [mem EXCEPT ![call[c].by] = call[c].got]
    /\ file' = call[c].got
    /\ AfterRefresh(c)
    /\ UNCHANGED <<loaded, provider, commands>>

\* Before the first send the result is not looked at; after a 401 it decides.
NotRefreshed(c) ==
    /\ call[c].reply = "refused"
    /\ IF call[c].at = "proactive" THEN Go(c, "header", 0)
                                   ELSE Return(c, "expired")
    /\ UNCHANGED <<tokens, provider, commands>>

\* The token its process holds by now, refreshed by this call or another one.
SetHeader(c) ==
    /\ call[c].at = "header" /\ Go(c, "send", mem[call[c].by].access)
    /\ UNCHANGED <<tokens, provider, commands>>

Waste(c) == IF Rotates /\ call[c].reply = "granted" THEN {call[c].token} ELSE {}

\* The refresh is sent without RetryTransport: a fault ends the call.
RefreshFault(c) ==
    /\ call[c].at \in {"proactive", "renew"}
    /\ wasted' = wasted \cup Waste(c)
    /\ Return(c, "raised")
    /\ UNCHANGED <<tokens, issued, spent, lapsed, dead, commands>>

\* The first 401 is answered by a refresh, the second one is returned.
Rejected(c) ==
    /\ call[c].reply = "rejected"
    /\ IF call[c].bad # 0 THEN Return(c, "rejected")
       ELSE IF mem[call[c].by].refresh = 0 THEN Return(c, "expired")
       ELSE call' = [call EXCEPT ![c].at = "renew", ![c].reply = "none",
                                 ![c].bad = call[c].token,
                                 ![c].token = mem[call[c].by].refresh]
    /\ UNCHANGED <<tokens, provider, commands>>

----------------------------------------------------------------------------
(* RetryTransport.handle_async_request                                     *)

Again(c) == [call EXCEPT ![c].attempt = @ + 1, ![c].reply = "none"]

Answered(c) ==
    /\ call[c].reply = "ok" /\ Return(c, "answered")
    /\ UNCHANGED <<tokens, provider, commands>>

\* Mutant of Throttled: no limit on the retries.
ThrottledForever(c) ==
    /\ call[c].reply = "throttled"
    /\ call' = [call EXCEPT ![c].reply = "none"]
    /\ UNCHANGED <<tokens, provider, commands>>

Throttled(c) ==
    /\ call[c].reply = "throttled"
    /\ IF call[c].attempt < MaxRetries THEN call' = Again(c)
                                       ELSE Return(c, "throttled")
    /\ UNCHANGED <<tokens, provider, commands>>

\* A timeout or a connection that is refused or closed on the call, before or
\* after the server executed.
\* Without retries there is no RetryTransport, and nothing in its place.
Fault(c) ==
    /\ call[c].at = "send"
    /\ IF call[c].attempt < MaxRetries
         THEN call' = [Again(c) EXCEPT ![c].execs = IF call[c].reply = "ok"
                                                     THEN @ - 1 ELSE @]
         ELSE Return(c, IF MaxRetries > 0 /\ c \in WithId THEN "inband"
                                                           ELSE "raised")
    /\ UNCHANGED <<tokens, provider, commands>>

\* Any other error of the transport, as on reading a broken connection.
Broken(c) ==
    /\ call[c].at = "send" /\ Return(c, "raised")
    /\ UNCHANGED <<tokens, provider, commands>>

CallStep(c) ==
    \/ Grant(c) \/ Refuse(c) \/ Refreshed(c) \/ NotRefreshed(c)
    \/ RefreshFault(c) \/ SetHeader(c) \/ Serve(c) \/ Rejected(c)
    \/ Answered(c) \/ Throttled(c) \/ Fault(c) \/ Broken(c)

\* The process is killed or ends, with all it had under way; another one may
\* take its place.
Kill(p) ==
    LET Mine == {c \in Call : call[c].by = p}
    IN  /\ loaded[p]
        /\ wasted' = wasted \cup UNION {Waste(c) : c \in Mine}
        /\ call' = [c \in Call |-> IF c \notin Mine \/ Done(c) THEN call[c]
                      ELSE [Fresh EXCEPT !.at = "gone"]]
        /\ mem' = [mem EXCEPT ![p] = NoPair]
        /\ loaded' = [loaded EXCEPT ![p] = FALSE]
        /\ UNCHANGED <<file, issued, spent, lapsed, dead, commands>>

----------------------------------------------------------------------------
(* auth login: run_direct_oidc_login                                       *)

Login ==
    /\ login = "idle" /\ logins < MaxLogins
    /\ login' = "browser" /\ logins' = logins + 1
    /\ UNCHANGED <<tokens, provider, call, gift>>

\* 300 s without a callback, a callback of an earlier login (another state),
\* or an exchange that fails or whose reply is lost.
LoginFails ==
    /\ login # "idle" /\ login' = "idle" /\ gift' = NoPair
    /\ UNCHANGED <<tokens, provider, call, logins>>

Callback ==
    /\ login = "browser" /\ login' = "exchange"
    /\ UNCHANGED <<tokens, provider, call, gift, logins>>

Exchange ==
    /\ login = "exchange" /\ gift = NoPair
    /\ \E pair \in Pair : Issue(pair) /\ gift' = pair
    /\ UNCHANGED <<tokens, spent, wasted, dead, call, login, logins>>

Store ==
    /\ gift # NoPair /\ file' = gift
    /\ login' = "idle" /\ gift' = NoPair
    /\ UNCHANGED <<mem, loaded, provider, call, logins>>

LoginStep == LoginFails \/ Exchange \/ Store

Next ==
    \/ \E n \in Token : Lapse(n) \/ Expire(n)
    \/ \E c \in Call : CallStep(c) \/ \E p \in Proc : Start(c, p)
    \/ \E p \in Proc : Kill(p)
    \/ Login \/ Callback \/ LoginStep

Spec == Init /\ [][Next]_vars

\* Every wait has a timeout: a call's sends and refreshes, a login's callback
\* and exchange.  That the callback comes is not assumed.
FairSpec ==
    /\ Spec
    /\ \A c \in Call : WF_vars(CallStep(c))
    /\ WF_vars(LoginStep)

----------------------------------------------------------------------------
(* Properties                                                              *)

\* A tool is executed once more only for an answer that was lost: neither a
\* 401 nor a 429, nor the refresh between two sends, makes it run again
\* (the caveat at RetryTransport.handle_async_request).
RepeatOnlyAfterLoss == \A c \in Call : call[c].execs <= 1

\* A header that was answered 401 is not sent by that call again, whatever
\* other calls of its process do to the tokens they share.
RejectedNotResent ==
    \A c \in Call : call[c].at = "send" => call[c].token # call[c].bad

\* What every state of the calls is: typed, and both of that.
CallInv == TypeOK /\ RepeatOnlyAfterLoss /\ RejectedNotResent

\* Whichever processes, calls and logins refresh, in whatever order their
\* replies are stored: the refresh token in the file is one the provider
\* still takes, unless the reply that replaces it is on its way or was lost.
FileUsable ==
    file.refresh \in spent =>
        \/ file.refresh \in wasted
        \/ \E c \in Call : file.refresh \in Waste(c)

\* Every call and every login comes to an end.
CallsReturn ==
    /\ \A c \in Call : call[c].at \in Waiting ~> Done(c)
    /\ login # "idle" ~> login = "idle"

\* What the doc string of DirectOIDCAuth says, "transparently refreshes on
\* 401": a call whose process holds tokens that work does not fail for want
\* of them.  Two calls that were rejected at once break it.
RefreshIsTransparent ==
    \A c \in Call :
        LET held == mem[call[c].by] IN
        call[c].at = "expired" =>
            held.access \in dead \/ held.refresh \in spent \cup {0}

=============================================================================
