---------------------------- MODULE ReviewPosting ----------------------------
(***************************************************************************)
(* The fan-in of a pull request review (examples/quality): findings of the *)
(* reviewer branches become comments, a verdict, posts on GitHub or a local *)
(* report, and a baseline for the next review of the pull request.  The    *)
(* model's answer is arbitrary: it cites any findings, or none that exist, *)
(* and asks for any verdict.  Every post may fail, land although it seems  *)
(* to have failed, or be the last thing before a crash, after which a      *)
(* retry runs the node again on the same findings.                         *)
(***************************************************************************)
EXTENDS Naturals, FiniteSets, Sequences, SequencesExt

CONSTANTS
    Finding,     \* raw findings, numbered in the order they are merged
    Domain,      \* review domains, a branch each
    Line,        \* places in the pull request
    LineOf,      \* where a finding is
    DomainOf,    \* which branch recorded it
    SeverityOf,  \* 0 (info) to 4 (critical)
    Twins,       \* pairs of findings _equivalent_findings accepts; also {f},
                 \* unless f's text has no word it goes by
    MaxComments, \* bound on the comments of one synthesis
    MaxCites,    \* bound on the findings one of them cites
    MaxRuns,     \* bound on reviews of the pull request
    MaxCrashes   \* bound on crashes

ASSUME PostingAssumption ==
    /\ Finding \subseteq Nat \ {0} /\ IsFiniteSet(Finding)
    /\ LineOf \in [Finding -> Line] /\ DomainOf \in [Finding -> Domain]
    /\ SeverityOf \in [Finding -> 0..4]
    /\ \A p \in Twins :
          \E f, g \in Finding : p = {f, g} /\ LineOf[f] = LineOf[g]
    /\ {MaxComments, MaxCites, MaxRuns, MaxCrashes} \subseteq Nat

VARIABLES
    local,    \* was a local report asked for?
    own,      \* is the pull request the reviewer's own?
    inDiff,   \* lines GitHub takes comments on
    place,    \* where the node is
    kind,     \* were there branches, an empty diff, or no provider?
    found,    \* findings of this review
    failed,   \* domains whose branch failed
    remark,   \* without findings: did a branch leave a note of its own?
    prior,    \* the baseline read at the start of the node
    unread,   \* was there one that could not be read?
    comments, \* consolidated comments still to be posted
    event,    \* the verdict
    already,  \* lines taken to carry a comment of an earlier review
    folded,   \* findings to be told in the review's body
    told,     \* findings that reached GitHub or the report in this review
    inline,   \* inline comments on GitHub: line and pass that posted it
    review,   \* the last review submitted, or the report written
    base,     \* the baseline on disk
    pass,     \* passes of the node
    blind,    \* did a pass post without knowing what was there?
    runs, crashes

modeVars  == <<local, own, inDiff>>
inputVars == <<kind, found, failed, remark>>
workVars  == <<prior, unread, comments, event, already, folded>>
outVars   == <<told, inline, review, base>>
countVars == <<pass, blind, runs, crashes>>
vars == <<modeVars, place, inputVars, workVars, outVars, countVars>>

Events == {"APPROVE", "COMMENT", "REQUEST_CHANGES"}

\* route_to_branches: what the fan-in follows.
Kinds == {"branches", "no diff", "no provider"}

Item == [line: Line, domains: SUBSET Domain]
Nothing == [event |-> "none", clean |-> FALSE, failed |-> {}]

TypeOK ==
    /\ {local, own, remark, unread, blind} \subseteq BOOLEAN
    /\ {inDiff, already} \subseteq SUBSET Line
    /\ place \in {"idle", "fanin", "synth", "list", "post", "persist"}
    /\ kind \in Kinds
    /\ {found, folded, told} \subseteq SUBSET Finding
    /\ failed \subseteq Domain
    /\ {prior, base} \subseteq SUBSET Item
    /\ \A i \in DOMAIN comments :
          comments[i] \in [ids: SUBSET Finding, line: Line, severity: 0..4]
    /\ event \in Events
    /\ inline \subseteq Line \X (1..pass)
    /\ review.event \in Events \cup {"none", "report"}
    /\ runs \in 0..MaxRuns /\ crashes \in 0..MaxCrashes

Init ==
    /\ local \in BOOLEAN /\ own \in BOOLEAN
    /\ inDiff \in SUBSET Line
    /\ place = "idle"
    /\ kind = "branches" /\ found = {} /\ failed = {} /\ remark = FALSE
    /\ prior = {} /\ unread = FALSE /\ comments = <<>> /\ event = "COMMENT"
    /\ already = {} /\ folded = {}
    /\ told = {} /\ inline = {} /\ review = Nothing /\ base = {}
    /\ pass = 0 /\ blind = FALSE /\ runs = 0 /\ crashes = 0

----------------------------------------------------------------------------
(* From findings to comments *)

\* _equivalent_findings: alike by place and words; not transitive, and a
\* finding without words is not even like itself.
Equivalent(f, g) == {f, g} \in Twins

Worst(fs) == CHOOSE s \in {SeverityOf[f] : f \in fs} :
                \A f \in fs : SeverityOf[f] <= s

Comment(fs, f) == [ids |-> fs, line |-> LineOf[f], severity |-> Worst(fs)]

\* valid_ids: those cited that exist, each once.
Cited(cites, fs) ==
    FoldLeft(LAMBDA ids, f :
                IF f \in fs \ ToSet(ids) THEN Append(ids, f) ELSE ids,
             <<>>, cites)

OneIssue(cited) ==
    \A i \in DOMAIN cited : i = 1 \/ Equivalent(cited[1], cited[i])

Sources(cited, fs) ==
    {f \in fs : \E i \in DOMAIN cited : Equivalent(f, cited[i])}

\* What one synthesised comment turns into: nothing when it cites no finding,
\* its findings one by one when they are not the same issue, and else one
\* comment for all findings that are the same issue as one it cites.
Validated(cites, fs) ==
    LET cited == Cited(cites, fs)
    IN  IF cited = <<>> THEN <<>>
        ELSE IF ~OneIssue(cited)
        THEN [i \in DOMAIN cited |-> Comment({cited[i]}, cited[i])]
        ELSE <<Comment(Sources(cited, fs), cited[1])>>

\* The worst severity of no sources: max() raises.
Raises(answer, fs) ==
    \E i \in DOMAIN answer :
        LET cited == Cited(answer[i], fs)
        IN  cited # <<>> /\ OneIssue(cited) /\ Sources(cited, fs) = {}

Covered(cs) == UNION {cs[i].ids : i \in DOMAIN cs}

\* A finding joins the first cluster all of whose members it is equivalent to.
JoinCluster(clusters, f) ==
    LET fits == {i \in DOMAIN clusters :
                    \A g \in clusters[i] : Equivalent(f, g)}
    IN  IF fits = {} THEN Append(clusters, {f})
        ELSE LET first == CHOOSE i \in fits : \A j \in fits : i <= j
             IN  [clusters EXCEPT ![first] = @ \cup {f}]

\* Findings in the order they were numbered in.
InOrder(fs) == CHOOSE s \in [1..Cardinality(fs) -> fs] :
                 \A i, j \in DOMAIN s : i < j => s[i] < s[j]

ClusterComments(fs) ==
    LET clusters == FoldLeft(JoinCluster, <<>>, InOrder(fs))
        least(c) == CHOOSE f \in c : \A g \in c : f <= g
    IN  [i \in DOMAIN clusters |-> Comment(clusters[i], least(clusters[i]))]

\* _validate_sourced_comments: what the synthesis says, then what it left out.
Consolidate(answer, fs) ==
    LET said == FlattenSeq([i \in DOMAIN answer |-> Validated(answer[i], fs)])
    IN  said \o ClusterComments(fs \ Covered(said))

----------------------------------------------------------------------------
(* The verdict *)

Strictness(e) == CASE e = "APPROVE" -> 0 [] e = "COMMENT" -> 1 [] OTHER -> 2

\* Mutant of Stricter: the model's event decides when it is milder.
Milder(d, e) == IF Strictness(d) >= Strictness(e) THEN e ELSE d

Stricter(d, e) == IF Strictness(d) >= Strictness(e) THEN d ELSE e

\* _synth_event: from the severities alone.
SynthEvent(severities) ==
    IF severities = {} THEN "APPROVE"
    ELSE IF \E s \in severities : s >= 3 THEN "REQUEST_CHANGES" ELSE "COMMENT"

\* _resolve_event: the model may be stricter than the severities, not milder.
ResolveEvent(asked, severities) ==
    IF asked \notin Events THEN SynthEvent(severities)
    ELSE LET e == Stricter(asked, SynthEvent(severities))
         IN  IF e = "APPROVE" THEN "COMMENT" ELSE e

\* _effective_event: what may be submitted.
EffectiveEvent(e) ==
    IF e = "APPROVE" \/ (own /\ e = "REQUEST_CHANGES") THEN "COMMENT" ELSE e

Verdict(asked, cs, fs) ==
    EffectiveEvent(Stricter(
        ResolveEvent(asked, {cs[i].severity : i \in DOMAIN cs}),
        SynthEvent({SeverityOf[f] : f \in fs})))

----------------------------------------------------------------------------
(* The baseline *)

Keep(items, domains) ==
    {[i EXCEPT !.domains = @ \cap domains] :
        i \in {j \in items : j.domains \cap domains # {}}}

\* _persist_baseline: the comments with the domains that reported on their
\* lines, and what an earlier review had found in domains that failed now.  A
\* comment without findings has no domain, and such an entry nothing keeps.
NewBaseline ==
    {[line |-> LineOf[f],
      domains |-> {DomainOf[g] : g \in {h \in found : LineOf[h] = LineOf[f]}}] :
        f \in found}
    \cup Keep(prior, failed)

----------------------------------------------------------------------------
(* The node *)

\* A review of the pull request reaches the fan-in: its branches recorded
\* findings and notes, a failed one what it had until then.
Begin ==
    /\ place = "idle" /\ runs < MaxRuns
    /\ runs' = runs + 1
    /\ \/ /\ kind' = "branches"
          /\ found' \in SUBSET Finding /\ failed' \in SUBSET Domain
          /\ remark' \in {found' = {}, FALSE}
       \/ /\ kind' \in Kinds \ {"branches"}
          /\ found' = {} /\ failed' = {} /\ remark' = FALSE
    /\ told' = {} /\ review' = Nothing
    /\ place' = "fanin"
    /\ UNCHANGED <<modeVars, workVars, inline, base, pass, blind, crashes>>

\* The node is done, with an error or without: nothing of it is kept.
Leave ==
    /\ place' = "idle"
    /\ prior' = {} /\ unread' = FALSE /\ comments' = <<>> /\ event' = "COMMENT"
    /\ already' = {} /\ folded' = {}

\* Mutant of Outage: a review without findings is a clean one.
OutageIgnored == FALSE

\* The two early ends: branches ran and none succeeded, or none could run.
Outage == kind = "branches" /\ failed = Domain /\ found = {}

NoNews == found = {} /\ ~remark
Unreviewed == Outage \/ (NoNews /\ kind = "no provider")

ReportOutage ==
    /\ place = "fanin" /\ Unreviewed
    /\ Leave
    /\ UNCHANGED <<modeVars, inputVars, outVars, countVars>>

\* Mutant of FanIn: the earlier baseline is not read.
FanInAnew ==
    /\ place = "fanin" /\ ~Unreviewed
    /\ prior' = {} /\ unread' = FALSE
    /\ pass' = pass + 1
    /\ IF NoNews
         THEN /\ event' = EffectiveEvent("APPROVE")
              /\ place' = IF local THEN "persist" ELSE "post"
         ELSE place' = "synth" /\ UNCHANGED event
    /\ UNCHANGED <<modeVars, inputVars, comments, already, folded, outVars,
                   blind, runs, crashes>>

\* load_baseline, for the sake of failed branches only: a file that cannot be
\* read, or that holds something else, counts as no baseline.
LoadBaseline ==
    /\ unread' \in {FALSE, failed # {} /\ base # {}}
    /\ prior' = IF failed = {} \/ unread' THEN {} ELSE base

\* Without news the verdict is that of no comments; the text then says that
\* nothing was found, and which branches failed.
FanIn ==
    /\ place = "fanin" /\ ~Unreviewed
    /\ LoadBaseline
    /\ pass' = pass + 1
    /\ IF NoNews
         THEN /\ event' = EffectiveEvent("APPROVE")
              /\ place' = IF local THEN "persist" ELSE "post"
         ELSE place' = "synth" /\ UNCHANGED event
    /\ UNCHANGED <<modeVars, inputVars, comments, already, folded, outVars,
                   blind, runs, crashes>>

Report(e) == [event |-> e, clean |-> NoNews, failed |-> failed]

AnswersOn(fs) ==
    UNION {[1..n -> UNION {[1..m -> fs \cup {0}] : m \in 0..MaxCites}] :
              n \in 0..MaxComments}

\* Without a finding nothing has a source id, and what the synthesis makes of a
\* branch's note goes out as it is.
Unsourced ==
    UNION {[1..n -> [ids: {{}}, line: Line, severity: 0..4]] :
              n \in 0..MaxComments}

\* The comments an answer is turned into.
Consolidated ==
    IF found = {} THEN Unsourced
    ELSE {Consolidate(answer, found) :
             answer \in {a \in AnswersOn(found) : ~Raises(a, found)}}

\* The synthesis answers, or fails three times, which counts as no comments.
Synthesize ==
    /\ place = "synth"
    /\ \E cs \in Consolidated, asked \in Events \cup {"junk"} :
          /\ comments' = cs
          /\ event' = Verdict(asked, cs, found)
    /\ place' = IF local THEN "persist" ELSE "list"
    /\ UNCHANGED <<modeVars, inputVars, prior, unread, already, folded, outVars,
                   countVars>>

\* A comment on nothing but a finding without words: the node raises, and the
\* review is over without a post.
SynthesizeRaises ==
    /\ place = "synth"
    /\ \E answer \in AnswersOn(found) : Raises(answer, found)
    /\ Leave
    /\ UNCHANGED <<modeVars, inputVars, outVars, countVars>>

\* Mutant of ListExisting: what is there is not asked for.
ListNothing ==
    /\ place = "list"
    /\ already' = {} /\ UNCHANGED blind
    /\ place' = "post"
    /\ UNCHANGED <<modeVars, inputVars, prior, unread, comments, event, folded,
                   outVars, pass, runs, crashes>>

\* _existing_comment_lines: none when the login is unknown or the query fails.
ListExisting ==
    /\ place = "list"
    /\ \/ already' = {c[1] : c \in inline} /\ UNCHANGED blind
       \/ already' = {} /\ blind' = TRUE
    /\ place' = "post"
    /\ UNCHANGED <<modeVars, inputVars, prior, unread, comments, event, folded,
                   outVars, pass, runs, crashes>>

\* Comments go out by severity.
NextUp == {i \in DOMAIN comments : \A j \in DOMAIN comments :
              \/ comments[j].severity < comments[i].severity
              \/ comments[j].severity = comments[i].severity /\ i <= j}

Taken(i) == comments' = RemoveAt(comments, i)

FoldComment ==
    /\ place = "post"
    /\ \E i \in NextUp :
          /\ comments[i].line \notin inDiff
          /\ folded' = folded \cup comments[i].ids
          /\ Taken(i)
    /\ UNCHANGED <<modeVars, place, inputVars, prior, unread, event, already,
                   outVars, countVars>>

SkipComment ==
    /\ place = "post"
    /\ \E i \in NextUp :
          comments[i].line \in inDiff \cap already /\ Taken(i)
    /\ UNCHANGED <<modeVars, place, inputVars, prior, unread, event, already,
                   folded, outVars, countVars>>

\* Mutant of PostComment: a comment that could not be posted is let go.
PostCommentOrNot ==
    /\ place = "post"
    /\ \E i \in NextUp, ok, landed \in BOOLEAN :
          /\ comments[i].line \in inDiff \ already
          /\ ok => landed
          /\ IF landed
               THEN /\ inline' = inline \cup {<<comments[i].line, pass>>}
                    /\ told' = told \cup comments[i].ids
               ELSE UNCHANGED <<inline, told>>
          /\ Taken(i)
    /\ UNCHANGED <<modeVars, place, inputVars, prior, unread, event, already,
                   folded, review, base, countVars>>

\* create_pr_review_comment returns, or raises, with or without an effect.
PostComment ==
    /\ place = "post"
    /\ \E i \in NextUp, ok, landed \in BOOLEAN :
          /\ comments[i].line \in inDiff \ already
          /\ ok => landed
          /\ IF landed
               THEN /\ inline' = inline \cup {<<comments[i].line, pass>>}
                    /\ told' = told \cup comments[i].ids
               ELSE UNCHANGED <<inline, told>>
          /\ folded' = IF ok THEN folded ELSE folded \cup comments[i].ids
          /\ Taken(i)
    /\ UNCHANGED <<modeVars, place, inputVars, prior, unread, event, already,
                   review, base, countVars>>

\* submit_pr_review lands; it may still raise.
Submit ==
    /\ place = "post" /\ comments = <<>>
    /\ review' = Report(event)
    /\ told' = told \cup folded
    /\ \/ place' = "persist" /\ UNCHANGED workVars
       \/ Leave
    /\ UNCHANGED <<modeVars, inputVars, inline, base, countVars>>

SubmitFails ==
    /\ place = "post" /\ comments = <<>>
    /\ Leave
    /\ UNCHANGED <<modeVars, inputVars, outVars, countVars>>

\* A local run writes all comments to its report first.
Persist ==
    /\ place = "persist"
    /\ IF local THEN told' = Covered(comments) /\ review' = Report("report")
                ELSE UNCHANGED <<told, review>>
    /\ base' = NewBaseline
    /\ Leave
    /\ UNCHANGED <<modeVars, inputVars, inline, countVars>>

\* The process dies, or saving raises; a retry runs the node again.  Before its
\* first post a pass has left nothing behind.
Crash ==
    /\ place \in {"post", "persist"} /\ crashes < MaxCrashes
    /\ crashes' = crashes + 1
    /\ place' = "fanin"
    /\ prior' = {} /\ unread' = FALSE /\ comments' = <<>> /\ event' = "COMMENT"
    /\ already' = {} /\ folded' = {}
    /\ UNCHANGED <<modeVars, inputVars, outVars, pass, blind, runs>>

Next ==
    \/ Begin \/ ReportOutage \/ FanIn \/ Synthesize \/ SynthesizeRaises
    \/ ListExisting \/ FoldComment \/ SkipComment \/ PostComment
    \/ Submit \/ SubmitFails \/ Persist \/ Crash

Spec == Init /\ [][Next]_vars

----------------------------------------------------------------------------
(* Properties *)

\* Once a review or report is out, every finding of the branches is in it, in
\* an inline comment, or on a line that carries a comment of an earlier pass:
\* whatever the synthesis cited, left out or mixed up, and whichever posts
\* failed.
EveryFindingTold ==
    review.event # "none" =>
        \A f \in found :
            f \in told \/ \E p \in 1..pass : <<LineOf[f], p>> \in inline

\* What the comments owe the findings: each is in one, on its own line.
Sourced(cs, fs) ==
    /\ cs \in Seq([ids: SUBSET fs, line: Line, severity: 0..4])
    /\ \A i \in DOMAIN cs : \A f \in cs[i].ids : LineOf[f] = cs[i].line
    /\ fs \subseteq Covered(cs)

ConsolidateCovers ==
    \A fs \in SUBSET Finding : \A answer \in AnswersOn(fs) :
        ~Raises(answer, fs) => Sourced(Consolidate(answer, fs), fs)

\* What every state of the reviews is: typed, and without a finding withheld.
ReviewInv == TypeOK /\ EveryFindingTold

\* A review says that nothing was found only if nothing was, and a branch had
\* succeeded or there was nothing to review.
CleanIsHonest ==
    review.clean =>
        /\ found = {} /\ kind # "no provider"
        /\ kind = "branches" => failed # Domain

\* The verdict does not depend on what the model asks for when a finding is
\* severe; a review never approves, and one of the own pull request comments.
VerdictCovers ==
    review.event \in Events =>
        /\ review.event # "APPROVE"
        /\ own => review.event = "COMMENT"
        /\ ~own /\ (\E f \in found : SeverityOf[f] >= 3)
              => review.event = "REQUEST_CHANGES"

\* A line gets inline comments in one pass only, over retries after a crash and
\* over follow-up reviews, as long as the passes could see what is there.
InlineOnce ==
    ~blind => \A c, d \in inline : c[1] = d[1] => c[2] = d[2]

\* The baseline written now has what the one before held of failed domains.
KeepsFailed == \A i \in base : \A d \in i.domains \cap failed :
                  \E j \in base' : j.line = i.line /\ d \in j.domains

\* What an earlier review found in a domain whose branch failed this time is
\* still in the baseline that replaces it, if this pass could read that one.
FailedDomainKept == [][base' # base /\ ~unread => KeepsFailed]_vars

----------------------------------------------------------------------------
(* An expectation the sources state and the code does not meet              *)

\* memory.py, load_baseline: a baseline that cannot be read just forces a
\* fresh review, which "is always safe".  The review of the domains that
\* succeeded then replaces it, and nothing is left of those that failed.
FailedDomainAlwaysKept == [][base' # base => KeepsFailed]_vars
============================================================================
