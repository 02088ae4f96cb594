-------------------------- MODULE ReviewedActions ---------------------------
(***************************************************************************)
(* Actions on GitHub that are previewed, approved and executed: single     *)
(* actions on a repository, the verdict on a commit's checks, and the      *)
(* maintenance of the release environment. Each part has its own variables *)
(* and its own specification.                                              *)
(***************************************************************************)
EXTENDS Naturals, Sequences, FiniteSets, TLC, SequencesExt, FiniteSetsExt

-----------------------------------------------------------------------------
(***************************************************************************)
(* The reviewed GitHub actions.  A preview reads the facts an action        *)
(* depends on, one request after the other, and stores them in a plan; an   *)
(* execution spends the plan, reads the facts again and posts one request.  *)
(* Plans live in the memory of one server, expire and are used once.        *)
(* Meanwhile others change the repository, two executions may overlap, the  *)
(* reply to a posted request may be lost, and the server may restart.       *)
(***************************************************************************)

CONSTANTS
  SourceCallers,   \* requests the server serves at once
  SourceBounds     \* [kind, previews, executions, edits, facts, faults, restarts, lapses]

VARIABLES
  saBounds,   \* kind: the action of this behaviour; the rest counts down
  hub,        \* what GitHub (and the clone's configuration) holds
  aplans,     \* the plans in memory: [kind, args, used, live]
  acall,      \* each caller: [mode, kind, at, plan, args, astray, raced, told]
  amade       \* every posted request that took effect: [plan, kind, args, head, raced]

saVars == <<saBounds, hub, aplans, acall, amade>>

NoArgs == [f \in {} |-> 0]
FreeCaller == [mode |-> "none", kind |-> "none", at |-> 0, plan |-> 0, args |-> NoArgs,
               astray |-> {}, raced |-> FALSE, told |-> "none"]

\* What the fields of hub stand for: the upstream's default branch ("hidden" when
\* it is not public), our fork, the issue (0 when closed, else its last change),
\* our identical comments on it, two branch commits, the open pull request from
\* one to the other, the commits whose checks are not green, the review comment
\* (0 when it is of another pull request), the default branch, the workflow (0 when
\* inactive) and the remote of the local clone.
SourceInit ==
  /\ saBounds \in SourceBounds
  /\ hub = [upstream |-> "main", fork |-> IF saBounds.kind = "fork" THEN "none" ELSE "ready",
            issue |-> 1, mine |-> 0, head |-> 1, base |-> 0,
            pull |-> saBounds.kind \in {"reply", "merge"}, red |-> {}, thread |-> 1,
            default |-> "old", flow |-> 1, remote |-> "none", issues |-> 0, replies |-> 0]
  /\ aplans = NoArgs
  /\ acall = [c \in SourceCallers |-> FreeCaller]
  /\ amade = <<>>

SaSpend(field) == /\ saBounds[field] > 0
                  /\ saBounds' = [saBounds EXCEPT ![field] = @ - 1]

-----------------------------------------------------------------------------
(* The facts an action reads, one request each. *)

\* publicRepo: an upstream that is not public is refused.
publicRepo(h) == h.upstream # "hidden"

\* configuredFork: "none" is an answer, a repository of another parent an error.
configuredFork(h) == IF h.fork \in {"none", "making"} THEN "absent" ELSE h.fork

\* The comment to post is already there, under the configured owner's name.
identicalComment(h) == h.mine > 0

\* findCrossRepoPullRequest and findPullRequest: an open one from head to base.
findPullRequest(h) == h.pull

\* branchSHAAt and branchSHA.
branchSHA(h, side) == h[side]

\* validateCrossRepoHeadContribution, on the two commits that were read.
validateCrossRepoHeadContribution(args) == args.head # args.base

\* pullRequest: open, not merged and mergeable.
pullRequest(h) == h.pull

\* checkSummaryForBase, on the head that was read.
checkSummaryForBase(h, sha) == sha \notin h.red

\* publicReviewComment with reviewCommentMatchesPull.
publicReviewComment(h) == h.thread > 0

\* workflow: active, at its fixed path.
workflow(h) == h.flow > 0

\* What the read of a fact returns.
Fact(f, h) ==
  CASE f = "upstream" -> h.upstream
    [] f = "fork" -> configuredFork(h)
    [] f = "issue" -> h.issue
    [] f = "comments" -> identicalComment(h)
    [] f \in {"head", "pull", "target", "ref"} -> branchSHA(h, "head")
    [] f = "base" -> branchSHA(h, "base")
    [] f \in {"compare", "checks"} -> "asked"
    [] f = "pulls" -> findPullRequest(h)
    [] f = "thread" -> h.thread
    [] f = "default" -> h.default
    [] f = "workflow" -> h.flow
    [] f = "remote" -> h.remote

\* Whether the action goes on after reading it; args are the facts read before.
Acceptable(kind, f, h, args) ==
  CASE f = "upstream" -> publicRepo(h)
    [] f = "fork" -> configuredFork(h) = (IF kind = "fork" THEN "absent" ELSE "ready")
    [] f = "issue" -> h.issue > 0
    [] f = "comments" -> ~identicalComment(h)
    [] f = "compare" -> validateCrossRepoHeadContribution(args)
    [] f = "pulls" -> ~findPullRequest(h)
    [] f = "pull" -> pullRequest(h)
    [] f = "checks" -> checkSummaryForBase(h, args.pull)
    [] f = "thread" -> publicReviewComment(h)
    [] f = "workflow" -> workflow(h)
    [] OTHER -> TRUE

-----------------------------------------------------------------------------
(* The actions: what each preview reads in order, and which of it the plan    *)
(* keeps; what each execution reads, which of it must equal the plan's, and   *)
(* whether the plan is spent before the reads or after them.                  *)

SourcePublicForkCreatePreview ==
  [reads |-> <<"upstream", "fork">>, keeps |-> {"upstream"}]
SourcePublicIssueCreatePreview ==
  [reads |-> <<"upstream">>, keeps |-> {"upstream"}]
SourcePublicIssueCommentPreview ==
  [reads |-> <<"upstream", "issue", "comments">>, keeps |-> {"issue"}]
SourceCrossRepoPullRequestCreatePreview ==
  [reads |-> <<"upstream", "fork", "head", "base", "compare", "pulls">>, keeps |-> {"head", "base"}]
SourcePublicReviewReplyPreview ==
  [reads |-> <<"upstream", "pull", "thread">>, keeps |-> {"pull", "thread"}]
SourcePullRequestCreatePreview ==
  [reads |-> <<"head", "base", "pulls">>, keeps |-> {"head", "base"}]
SourcePullRequestMergePreview ==
  [reads |-> <<"pull", "checks">>, keeps |-> {"pull"}]
SourceDefaultBranchUpdatePreview ==
  [reads |-> <<"default", "target">>, keeps |-> {"default", "target"}]
SourceWorkflowDispatchPreview ==
  [reads |-> <<"ref", "workflow">>, keeps |-> {"ref", "workflow"}]
RepoRemotePreview ==
  [reads |-> <<"remote">>, keeps |-> {"remote"}]

SourcePublicForkCreate ==
  [reads |-> <<"upstream", "fork">>, bound |-> {"upstream"}, spend |-> "first"]
SourcePublicIssueCreate ==
  [reads |-> <<"upstream">>, bound |-> {"upstream"}, spend |-> "last"]
SourcePublicIssueComment ==
  [reads |-> <<"upstream", "issue", "comments">>, bound |-> {"issue"}, spend |-> "first"]
SourceCrossRepoPullRequestCreate ==
  [reads |-> <<"upstream", "fork", "head", "base", "compare", "pulls">>,
   bound |-> {"head", "base"}, spend |-> "first"]
SourcePublicReviewReply ==
  [reads |-> <<"upstream", "pull", "thread">>, bound |-> {"pull", "thread"}, spend |-> "first"]
SourcePullRequestCreate ==
  [reads |-> <<"head", "base", "pulls">>, bound |-> {"head", "base"}, spend |-> "first"]
SourcePullRequestMerge ==
  [reads |-> <<"pull", "checks">>, bound |-> {"pull"}, spend |-> "first"]
SourceDefaultBranchUpdate ==
  [reads |-> <<"default", "target">>, bound |-> {"default", "target"}, spend |-> "first"]

SourceWorkflowDispatch ==
  [reads |-> <<"ref", "workflow">>, bound |-> {"ref", "workflow"}, spend |-> "first"]
RepoRemoteSet ==
  [reads |-> <<"remote">>, bound |-> {"remote"}, spend |-> "first"]

Preview(kind) ==
  CASE kind = "fork" -> SourcePublicForkCreatePreview
    [] kind = "issue" -> SourcePublicIssueCreatePreview
    [] kind = "comment" -> SourcePublicIssueCommentPreview
    [] kind = "crosspr" -> SourceCrossRepoPullRequestCreatePreview
    [] kind = "reply" -> SourcePublicReviewReplyPreview
    [] kind = "pr" -> SourcePullRequestCreatePreview
    [] kind = "merge" -> SourcePullRequestMergePreview
    [] kind = "default" -> SourceDefaultBranchUpdatePreview
    [] kind = "dispatch" -> SourceWorkflowDispatchPreview
    [] kind = "remote" -> RepoRemotePreview

Execution(kind) ==
  CASE kind = "fork" -> SourcePublicForkCreate
    [] kind = "issue" -> SourcePublicIssueCreate
    [] kind = "comment" -> SourcePublicIssueComment
    [] kind = "crosspr" -> SourceCrossRepoPullRequestCreate
    [] kind = "reply" -> SourcePublicReviewReply
    [] kind = "pr" -> SourcePullRequestCreate
    [] kind = "merge" -> SourcePullRequestMerge
    [] kind = "default" -> SourceDefaultBranchUpdate
    [] kind = "dispatch" -> SourceWorkflowDispatch
    [] kind = "remote" -> RepoRemoteSet

-----------------------------------------------------------------------------
(* ActionPlanStore *)

\* CreateTTL: a plan under a name of its own.
CreatePlan(id, kind, args) ==
  aplans' = (id :> [kind |-> kind, args |-> args, used |-> FALSE, live |-> TRUE]) @@ aplans

\* Peek, then the checks its caller makes: nothing is spent.
PeekAllows(id) == id \in DOMAIN aplans /\ ~aplans[id].used /\ aplans[id].live

ConsumeAllows(id) == PeekAllows(id)


\* Consume, one critical section: an expired plan is marked used as well.
ConsumePlan(id) ==
  aplans' = IF id \in DOMAIN aplans THEN [aplans EXCEPT ![id].used = TRUE] ELSE aplans

-----------------------------------------------------------------------------
(* What the repository looks like to the executions in progress. *)

Drifted(kind, args, h) == {f \in DOMAIN args : Fact(f, h) # args[f]}

\* A reviewed fact no longer counts as astray once it holds again.
Noticing(calls, h) ==
  [c \in SourceCallers |->
     IF calls[c].mode # "execute" THEN calls[c]
     ELSE [calls[c] EXCEPT !.astray = {f \in @ : Fact(f, h) # calls[c].args[f]}]]

CallerTo(c, call) == acall' = [acall EXCEPT ![c] = call]
SourceAnswer(c, told) == CallerTo(c, [FreeCaller EXCEPT !.told = told])

-----------------------------------------------------------------------------
(* Previews *)

Kept(kind, args) == [f \in Preview(kind).keeps |-> args[f]]

StartPreview(c) ==
  /\ acall[c].mode = "none" /\ SaSpend("previews")
  /\ CallerTo(c, [FreeCaller EXCEPT !.mode = "preview", !.kind = saBounds.kind, !.at = 1,
                                    !.plan = saBounds.previews])
  /\ UNCHANGED <<hub, aplans, amade>>

PreviewReadsNext(c) ==
  LET call == acall[c]
      reads == Preview(call.kind).reads
      f == reads[call.at]
  IN /\ call.mode = "preview" /\ call.at <= Len(reads)
     /\ IF Acceptable(call.kind, f, hub, call.args)
        THEN CallerTo(c, [call EXCEPT !.at = @ + 1, !.args = (f :> Fact(f, hub)) @@ @])
        ELSE SourceAnswer(c, "refused")
     /\ UNCHANGED <<saBounds, hub, aplans, amade>>

PreviewPlans(c) ==
  /\ acall[c].mode = "preview" /\ acall[c].at > Len(Preview(acall[c].kind).reads)
  /\ CreatePlan(acall[c].plan, acall[c].kind, Kept(acall[c].kind, acall[c].args))
  /\ SourceAnswer(c, "planned")
  /\ UNCHANGED <<saBounds, hub, amade>>

-----------------------------------------------------------------------------
(* Executions *)

SourceExecuting(kind, id) ==
  [FreeCaller EXCEPT !.mode = "execute", !.kind = kind, !.at = 1, !.plan = id,
                     !.args = aplans[id].args, !.astray = Drifted(kind, aplans[id].args, hub)]

StartExecution(c) ==
  /\ acall[c].mode = "none" /\ SaSpend("executions")
  /\ \E id \in DOMAIN aplans :
       LET kind == aplans[id].kind
           first == Execution(kind).spend = "first"
       IN /\ IF PeekAllows(id) THEN CallerTo(c, SourceExecuting(kind, id)) ELSE SourceAnswer(c, "refused")
          /\ IF first THEN ConsumePlan(id) ELSE UNCHANGED aplans
  /\ UNCHANGED <<hub, amade>>

ExecutionReadsNext(c) ==
  LET call == acall[c]
      x == Execution(call.kind)
      f == x.reads[call.at]
  IN /\ call.mode = "execute" /\ call.at <= Len(x.reads)
     /\ IF /\ Acceptable(call.kind, f, hub, call.args)
           /\ f \in x.bound => Fact(f, hub) = call.args[f]
        THEN CallerTo(c, [call EXCEPT !.at = @ + 1, !.args = @ @@ (f :> Fact(f, hub))])
        ELSE SourceAnswer(c, "refused")
     /\ UNCHANGED <<saBounds, hub, aplans, amade>>

\* Any read, or the post before it takes effect, may fail.
RequestFails(c) ==
  /\ acall[c].mode \in {"preview", "execute", "confirm"} /\ SaSpend("faults")
  /\ SourceAnswer(c, "error")
  /\ UNCHANGED <<hub, aplans, amade>>

AtPost(c) ==
  /\ acall[c].mode = "execute"
  /\ acall[c].at = Len(Execution(acall[c].kind).reads) + 1

\* SourcePublicIssueCreate spends its plan here, after the reads.
SpendLast(c) ==
  /\ AtPost(c) /\ Execution(acall[c].kind).spend = "last"
  /\ ConsumePlan(acall[c].plan)
  /\ IF ConsumeAllows(acall[c].plan)
     THEN CallerTo(c, [acall[c] EXCEPT !.at = @ + 1]) ELSE SourceAnswer(c, "refused")
  /\ UNCHANGED <<saBounds, hub, amade>>

Posting(c) ==
  \/ AtPost(c) /\ Execution(acall[c].kind).spend = "first"
  \/ acall[c].mode = "execute" /\ acall[c].at > Len(Execution(acall[c].kind).reads) + 1

\* What GitHub (or git) makes of each request; the empty set is a refusal.
createFork(h) == {[h EXCEPT !.fork = IF @ = "none" THEN "making" ELSE @]}
createPublicIssue(h) == {[h EXCEPT !.issues = @ + 1]}
createPublicIssueComment(h) == IF h.issue = 0 THEN {} ELSE {[h EXCEPT !.issue = @ + 1, !.mine = @ + 1]}
createCrossRepoPullRequest(h) == IF h.pull THEN {} ELSE {[h EXCEPT !.pull = TRUE]}
createPullRequest(h) == IF h.pull THEN {} ELSE {[h EXCEPT !.pull = TRUE]}
createPublicReviewReply(h) == IF h.thread = 0 THEN {} ELSE {[h EXCEPT !.replies = @ + 1]}
mergePullRequest(h, sha) == IF h.pull /\ h.head = sha THEN {[h EXCEPT !.pull = FALSE]} ELSE {}
updateDefaultBranch(h) == {[h EXCEPT !.default = "new"]}
dispatchWorkflow(h) == IF h.flow = 0 THEN {} ELSE {h}
setRemote(h, had) == IF (h.remote = "none") = (had = "none") THEN {[h EXCEPT !.remote = "ours"]} ELSE {}

Posted(kind, args, h) ==
  CASE kind = "fork" -> createFork(h)
    [] kind = "issue" -> createPublicIssue(h)
    [] kind = "comment" -> createPublicIssueComment(h)
    [] kind = "crosspr" -> createCrossRepoPullRequest(h)
    [] kind = "reply" -> createPublicReviewReply(h)
    [] kind = "pr" -> createPullRequest(h)
    [] kind = "merge" -> mergePullRequest(h, args.pull)
    [] kind = "default" -> updateDefaultBranch(h)
    [] kind = "dispatch" -> dispatchWorkflow(h)
    [] kind = "remote" -> setRemote(h, args.remote)

\* The request takes effect; the caller is told so, or its reply is lost.  A new
\* fork is confirmed by further reads.
Post(c) ==
  /\ Posting(c)
  /\ \E h \in Posted(acall[c].kind, acall[c].args, hub) :
       /\ hub' = h
       /\ amade' = Append(amade, [plan |-> acall[c].plan, kind |-> acall[c].kind, args |-> acall[c].args,
                                  head |-> hub.head, astray |-> acall[c].astray,
                                  again |-> acall[c].kind = "comment" /\ hub.mine > 0,
                                  raced |-> acall[c].raced])
       /\ \/ /\ LET after == IF acall[c].kind = "fork" THEN [acall[c] EXCEPT !.mode = "confirm", !.at = 1]
                             ELSE [FreeCaller EXCEPT !.told = "done"]
                IN acall' = Noticing([d \in SourceCallers |->
                              IF d = c THEN after ELSE [acall[d] EXCEPT !.raced = acall[d].mode = "execute"]], h)
             /\ UNCHANGED saBounds
          \/ /\ SaSpend("faults")
             /\ acall' = Noticing([d \in SourceCallers |->
                           IF d = c THEN [FreeCaller EXCEPT !.told = "error"]
                           ELSE [acall[d] EXCEPT !.raced = acall[d].mode = "execute"]], h)
  /\ UNCHANGED aplans

PostRefused(c) ==
  /\ Posting(c) /\ Posted(acall[c].kind, acall[c].args, hub) = {}
  /\ SourceAnswer(c, "refused")
  /\ UNCHANGED <<saBounds, hub, aplans, amade>>

\* waitForConfiguredFork: read until it answers; 120 times without is an error.
waitForConfiguredFork(c) ==
  /\ acall[c].mode = "confirm" /\ configuredFork(hub) # "absent"
  /\ SourceAnswer(c, IF configuredFork(hub) = "ready" THEN "done" ELSE "error")
  /\ UNCHANGED <<saBounds, hub, aplans, amade>>

-----------------------------------------------------------------------------
(* Everybody else *)

HubTo(h) == hub' = h /\ acall' = Noticing(acall, h)

\* GitHub finishes the fork it was asked for.
ForkAppears ==
  /\ hub.fork = "making" /\ HubTo([hub EXCEPT !.fork = "ready"])
  /\ UNCHANGED <<saBounds, aplans, amade>>

Edits(h) ==
  {[h EXCEPT !.upstream = u] : u \in {"main", "dev", "hidden"}} \cup
  {[h EXCEPT !.fork = f] : f \in {"none", "ready", "foreign"}} \cup
  {[h EXCEPT !.issue = i] : i \in {0, h.issue + 1}} \cup
  {[h EXCEPT !.head = @ + 1], [h EXCEPT !.base = h.head], [h EXCEPT !.pull = ~@]} \cup
  {[h EXCEPT !.red = @ \cup {h.head}], [h EXCEPT !.thread = 0], [h EXCEPT !.thread = @ + 1]} \cup
  {[h EXCEPT !.default = "other"], [h EXCEPT !.flow = 0], [h EXCEPT !.flow = @ + 1],
   [h EXCEPT !.remote = "theirs"]}

\* Only what the action of this behaviour depends on is edited.
Touched(h1, h2) == {f \in DOMAIN h1 : h1[f] # h2[f]}

HubEdited ==
  /\ SaSpend("edits")
  /\ \E h \in Edits(hub) : Touched(hub, h) # {} /\ Touched(hub, h) \subseteq saBounds.facts /\ HubTo(h)
  /\ UNCHANGED <<aplans, amade>>

SourcePlanLapses ==
  /\ SaSpend("lapses")
  /\ \E id \in DOMAIN aplans : aplans[id].live /\ aplans' = [aplans EXCEPT ![id].live = FALSE]
  /\ UNCHANGED <<hub, acall, amade>>

\* Plans and the calls in progress are gone; GitHub keeps what was posted.
SourceServerRestarts ==
  /\ SaSpend("restarts")
  /\ aplans' = NoArgs
  /\ acall' = [c \in SourceCallers |-> FreeCaller]
  /\ UNCHANGED <<hub, amade>>

SourceNext ==
  \/ \E c \in SourceCallers :
       \/ StartPreview(c) \/ PreviewReadsNext(c) \/ PreviewPlans(c)
       \/ StartExecution(c) \/ ExecutionReadsNext(c) \/ SpendLast(c)
       \/ Post(c) \/ PostRefused(c) \/ waitForConfiguredFork(c) \/ RequestFails(c)
  \/ ForkAppears \/ HubEdited \/ SourcePlanLapses \/ SourceServerRestarts

SourceSpec == SourceInit /\ [][SourceNext]_saVars

-----------------------------------------------------------------------------
(* Properties *)

\* One plan makes at most one effect, however many executions name it, whether
\* their replies arrive and whether the plan is spent before or after the reads.
PlanActsOnce == \A i, j \in DOMAIN amade : amade[i].plan = amade[j].plan => i = j

\* An action happens only if every fact its plan was reviewed with held at some
\* moment of its own execution: a change made earlier, and left, stops it.
ActsOnReviewed == \A i \in DOMAIN amade : amade[i].astray = {}

\* A merge takes in exactly the commit that was previewed and checked.
MergesReviewedHead ==
  \A i \in DOMAIN amade : amade[i].kind = "merge" => amade[i].head = amade[i].args.pull

\* A comment is posted a second time only by two executions that overlap: a lost
\* reply followed by a new preview or a second plan never repeats it.
RepeatsOnlyByRace == \A i \in DOMAIN amade : amade[i].again => amade[i].raced

\* A caller is told that the fork was created only while it is there.
ForkToldWhenReady ==
  \A c \in SourceCallers :
    acall[c].mode = "confirm" /\ acall'[c].told = "done" => hub.fork = "ready"

-----------------------------------------------------------------------------
(***************************************************************************)
(* How the server decides that every check of a commit is green.  It reads *)
(* the check runs page by page; where GitHub forbids that, the workflow    *)
(* runs and the jobs of the newest of each workflow.  Then it reads which  *)
(* contexts the base branch requires, and the commit statuses.  Checks     *)
(* start and end while it reads.                                           *)
(***************************************************************************)

CONSTANTS
  CheckNames,      \* check runs, workflow runs, jobs and statuses, by name
  CheckPageSize,   \* entries on one page
  CheckEvidenceBounds   \* [source, checks, runs, jobs, statuses, states, required, contexts, spare, starts, turns]

VARIABLES
  ceBounds,   \* what the commit starts with; starts and turns count down
  ci,         \* [checks, runs, jobs, statuses, state]: what GitHub shows now
  coll,       \* the collection: [at, page, got, expected, left, present, seen, complete]
  unmet,      \* entries listed from the start that were never green since
  cverdict    \* "none" | "error" | "green" | "open"

ceVars == <<ceBounds, ci, coll, unmet, cverdict>>

\* A later attempt, or a later run, of the same workflow replaces a run.
Superseded(c, r) ==
  \E o \in Range(c.runs) : /\ o.workflow = r.workflow
                           /\ o.attempt > r.attempt \/ (o.attempt = r.attempt /\ o.id > r.id)

Listed(c) ==
  LET runs == {r.name : r \in {r \in Range(c.runs) : ~Superseded(c, r)}}
  IN Range(c.statuses) \cup
     (IF ceBounds.source # "actions" THEN Range(c.checks) ELSE runs \cup UNION {Range(c.jobs[n]) : n \in runs})

CheckEvidenceInit ==
  /\ ceBounds \in CheckEvidenceBounds
  /\ ci = [checks |-> ceBounds.checks, runs |-> ceBounds.runs, jobs |-> ceBounds.jobs,
           statuses |-> ceBounds.statuses, state |-> ceBounds.states]
  /\ coll = [at |-> IF ceBounds.source = "actions" THEN "runs" ELSE "checks", page |-> 1, got |-> <<>>,
             expected |-> {}, left |-> <<>>, present |-> {}, seen |-> <<>>, complete |-> TRUE]
  /\ unmet = {n \in Listed(ci) : ci.state[n] # "ok"}
  /\ cverdict = "none"

-----------------------------------------------------------------------------
(* Reading one list *)

PageOf(list, page) ==
  SubSeq(list, (page - 1) * CheckPageSize + 1, IF page * CheckPageSize < Len(list) THEN page * CheckPageSize ELSE Len(list))

\* What one page makes of the list read so far: the number announced must not
\* change from page to page, and exactly as many entries must arrive.
PageResult(expected, got, fresh, total) ==
  CASE total # expected -> "error"
    [] total = expected /\ Len(got) = expected -> "whole"
    [] total = expected /\ Len(got) > expected -> "error"
    [] OTHER -> IF fresh = <<>> THEN "error" ELSE "more"

\* One request for the next page of a list; then(got) is what its end starts.
NextPage(list, then(_)) ==
  LET fresh == PageOf(list, coll.page)
      got == coll.got \o fresh
      expected == IF coll.expected = {} THEN Len(list) ELSE CHOOSE e \in coll.expected : TRUE
      result == PageResult(expected, got, fresh, Len(list))
  IN CASE result = "error" -> cverdict' = "error" /\ UNCHANGED coll
       [] result = "more" -> /\ coll' = [coll EXCEPT !.page = @ + 1, !.got = got, !.expected = {expected}]
                             /\ UNCHANGED cverdict
       [] result = "whole" -> coll' = then(got) /\ UNCHANGED cverdict

Turned(at) == [coll EXCEPT !.at = at, !.page = 1, !.got = <<>>, !.expected = {}]

\* addEvidenceCounts: every entry with the state it had on its page.
Counted(names) == coll.seen \o [i \in DOMAIN names |-> ci.state[names[i]]]

-----------------------------------------------------------------------------
(* collectGitHubEvidence *)

Collecting(at) == cverdict = "none" /\ coll.at = at

\* githubCheckRuns and githubChecksAPIEvidence (publicCheckRuns for an upstream).
ReadCheckRuns ==
  /\ Collecting("checks")
  /\ NextPage(ci.checks, LAMBDA got :
       [Turned(IF ceBounds.source = "public" THEN "statuses" ELSE "required")
          EXCEPT !.present = Range(got), !.seen = Counted(got)])
  /\ UNCHANGED <<ceBounds, ci, unmet>>

\* The run of each workflow that counts: the highest attempt, then the highest id.
latestRuns(got) ==
  {r \in Range(got) : \A o \in Range(got) : o.workflow = r.workflow =>
     o.attempt < r.attempt \/ (o.attempt = r.attempt /\ o.id <= r.id)}

\* githubActionsRuns
ReadActionsRuns ==
  /\ Collecting("runs")
  /\ NextPage(ci.runs, LAMBDA got :
       LET latest == SetToSeq(latestRuns(got))
           names == [i \in DOMAIN latest |-> latest[i].name]
       IN [Turned(IF latest = <<>> THEN "required" ELSE "jobs")
             EXCEPT !.left = names, !.present = Range(names), !.seen = Counted(names),
                    !.complete = latest # <<>>])
  /\ UNCHANGED <<ceBounds, ci, unmet>>

\* githubActionsJobs, one run after the other; a run without jobs is no evidence.
ReadActionsJobs ==
  /\ Collecting("jobs")
  /\ NextPage(ci.jobs[Head(coll.left)], LAMBDA got :
       [Turned(IF Len(coll.left) = 1 THEN "required" ELSE "jobs")
          EXCEPT !.left = Tail(@), !.present = @ \cup Range(got), !.seen = Counted(got),
                 !.complete = @ /\ got # <<>>])
  /\ UNCHANGED <<ceBounds, ci, unmet>>

\* Whether the evidence is still complete after githubRequiredStatusChecks.
requireGitHubEvidence(required, present) ==
  CASE required = "unavailable" -> FALSE
    [] required = "nofeature" -> TRUE
    [] OTHER -> ceBounds.contexts \subseteq present

ReadRequired ==
  /\ Collecting("required")
  /\ coll' = [Turned("statuses") EXCEPT !.complete = @ /\ requireGitHubEvidence(ceBounds.required, coll.present)]
  /\ UNCHANGED <<ceBounds, ci, unmet, cverdict>>

\* The state GitHub computes for all statuses together is counted once more.
combinedState(c) ==
  LET s == {c.state[n] : n \in Range(c.statuses)}
  IN IF "bad" \in s THEN "bad" ELSE IF "wait" \in s THEN "wait" ELSE "ok"

\* addGitHubCommitStatuses; an upstream's statuses are one page that must be all.
ReadStatuses ==
  /\ Collecting("statuses")
  /\ IF ceBounds.source = "public"
     THEN LET page == PageOf(ci.statuses, 1)
          IN IF Len(page) # Len(ci.statuses) THEN cverdict' = "error" /\ UNCHANGED coll
             ELSE coll' = [coll EXCEPT !.at = "end", !.seen = Counted(page)] /\ UNCHANGED cverdict
     ELSE NextPage(ci.statuses, LAMBDA got :
            [Turned("end") EXCEPT !.seen = Counted(got) \o (IF got = <<>> THEN <<>> ELSE <<combinedState(ci)>>)])
  /\ UNCHANGED <<ceBounds, ci, unmet>>

AllChecksGreen(seen, complete) == complete /\ seen # <<>> /\ Range(seen) \subseteq {"ok"}

Conclude ==
  /\ Collecting("end")
  /\ cverdict' = IF AllChecksGreen(coll.seen, coll.complete) THEN "green" ELSE "open"
  /\ UNCHANGED <<ceBounds, ci, coll, unmet>>

-----------------------------------------------------------------------------
(* Checks while they are read *)

CeSpend(field) == /\ ceBounds[field] > 0
                  /\ ceBounds' = [ceBounds EXCEPT ![field] = @ - 1]

\* A check ends, or is run again.
CheckTurns ==
  /\ cverdict = "none" /\ CeSpend("turns")
  /\ \E n \in Listed(ci), s \in {"ok", "wait", "bad"} :
       /\ s # ci.state[n]
       /\ ci' = [ci EXCEPT !.state[n] = s]
       /\ unmet' = IF s = "ok" THEN unmet \ {n} ELSE unmet
  /\ UNCHANGED <<coll, cverdict>>

\* A new one appears at the front of its list; it counts from the next reading on.
CheckStarts ==
  /\ cverdict = "none" /\ CeSpend("starts")
  /\ \E n \in ceBounds.spare \ Listed(ci) :
       \/ /\ ceBounds.source # "actions"
          /\ ci' = [ci EXCEPT !.checks = <<n>> \o @, !.state[n] = "wait"]
       \/ ci' = [ci EXCEPT !.statuses = <<n>> \o @, !.state[n] = "wait"]
       \/ /\ ceBounds.source = "actions" /\ coll.at = "runs"
          /\ ci' = [ci EXCEPT !.runs = <<[name |-> n, workflow |-> 9, attempt |-> 1, id |-> 9]>> \o @,
                              !.jobs = [m \in DOMAIN @ \cup {n} |-> IF m = n THEN <<>> ELSE @[m]],
                              !.state[n] = "wait"]
  /\ UNCHANGED <<coll, unmet, cverdict>>

CheckEvidenceNext ==
  \/ ReadCheckRuns \/ ReadActionsRuns \/ ReadActionsJobs \/ ReadRequired \/ ReadStatuses \/ Conclude
  \/ CheckTurns \/ CheckStarts

CheckEvidenceSpec == CheckEvidenceInit /\ [][CheckEvidenceNext]_ceVars

-----------------------------------------------------------------------------
(* Properties *)

\* The checks are called green only if each one listed when the reading began was
\* green at some moment of it: none that failed or waited throughout is missed,
\* whichever page it is on and whatever started or ended meanwhile.
GreenWasGreen == cverdict = "green" => unmet = {} /\ Listed(ci) # {}

\* ... and only if every context the base branch requires is among them.
GreenHasRequired ==
  cverdict = "green" /\ ceBounds.required = "listed" => ceBounds.contexts \subseteq Listed(ci)

\* A list of several pages is taken for read only when exactly the entries GitHub
\* lists at that moment were received: an entry that appears between two pages
\* never pushes another out of sight.
PagesWhole ==
  /\ Collecting("checks") /\ coll'.at # "checks" => coll'.present = Range(ci.checks)
  /\ Collecting("runs") /\ coll'.at # "runs" => coll'.present \subseteq {r.name : r \in Range(ci.runs)}
  /\ Collecting("statuses") /\ coll'.at # "statuses" =>
       Len(coll'.seen) - Len(coll.seen) \in {Len(ci.statuses), Len(ci.statuses) + 1}

-----------------------------------------------------------------------------
(***************************************************************************)
(* The maintenance of the edge-release environment on GitHub: cancel the   *)
(* release runs of commits main has left, then let only main deploy.  The  *)
(* preview and each stage of the execution take a snapshot, one request    *)
(* after the other; the changes between them are requests of their own.    *)
(* Runs start and end, main moves, others edit the settings, requests      *)
(* fail and their replies are lost.                                        *)
(***************************************************************************)

CONSTANTS
  ReleaseRuns,     \* workflow runs, numbered in the order of their ids
  ReleaseBounds    \* [env, policies, runs, jobs, edits, changes, faults, starts]

VARIABLES
  rmBounds,   \* what GitHub starts with; jobs, edits, changes, faults and starts count down
  release,    \* [main, protected, env, policies, runs]: what GitHub holds
  maint,      \* [at, part, snap, stale, told, plan, policies]: the operator's call
  calm        \* nobody else acted and nothing failed since [preview, final]

rmVars == <<rmBounds, release, maint, calm>>

\* Facts a snapshot reads, in order; releases and assets are only reported.
SnapshotParts == <<"main", "protected", "env", "policies", "runs">>

NoSnap == [p \in {} |-> 0]

MaintenanceInit ==
  /\ rmBounds \in ReleaseBounds
  /\ release = [main |-> 2, protected |-> FALSE, env |-> rmBounds.env, policies |-> rmBounds.policies,
                runs |-> rmBounds.runs]
  /\ maint = [at |-> "idle", part |-> 0, snap |-> NoSnap, stale |-> <<>>, told |-> "none",
              plan |-> NoSnap, policies |-> {}]
  /\ calm = [preview |-> FALSE, final |-> FALSE]

RmSpend(field) == /\ rmBounds[field] > 0
                  /\ rmBounds' = [rmBounds EXCEPT ![field] = @ - 1]

-----------------------------------------------------------------------------
(* Snapshots and what is derived from them *)

\* edgeReleasePolicies: readable only while custom policies are enabled.
edgeReleasePolicies(r) == IF r.env.custom THEN {r.policies} ELSE {}

\* A missing protection is none; an environment without a branch policy is an error.
edgeReleaseMainProtected(r) == r.protected

edgeReleaseEnvironmentConfig(r) == r.env

\* Runs dispatched on main's branch, one page of them.
edgeReleaseRuns(r) == r.runs

\* One request of edgeReleaseSnapshot.
ReadPart(p, r) == CASE p = "main" -> r.main
                    [] p = "protected" -> edgeReleaseMainProtected(r)
                    [] p = "env" -> edgeReleaseEnvironmentConfig(r)
                    [] p = "policies" -> edgeReleasePolicies(r)
                    [] p = "runs" -> edgeReleaseRuns(r)

edgeReleaseActive(status) == status \in {"waiting", "in_progress"}

edgeReleaseStaleRuns(snap) ==
  {i \in ReleaseRuns : edgeReleaseActive(snap.runs[i].status) /\ snap.runs[i].sha # snap.main}

\* edgeReleaseStaleFingerprint: which runs, with their status.
staleFingerprint(snap) == [i \in edgeReleaseStaleRuns(snap) |-> snap.runs[i].status]

policyFingerprint(snap) == <<snap.protected, snap.env, snap.policies>>

\* The execution's first comparison with the plan.
SameAsPlanned(snap, plan) ==
  /\ ~snap.protected /\ snap.main = plan.main
  /\ policyFingerprint(snap) = policyFingerprint(plan)
  /\ staleFingerprint(snap) = staleFingerprint(plan)

\* The comparison once the obsolete runs are cancelled.
CancelledAsPlanned(snap, plan) ==
  /\ ~snap.protected /\ snap.main = plan.main
  /\ policyFingerprint(snap) = policyFingerprint(plan)
  /\ edgeReleaseStaleRuns(snap) = {}

TargetEnv == [custom |-> TRUE, protected |-> FALSE, wait |-> 0]

\* The last comparison, with the exact target.
Converged(snap, before) ==
  /\ snap.main = before /\ ~snap.protected /\ snap.env = TargetEnv
  /\ snap.policies = {{"main"}}
  /\ edgeReleaseStaleRuns(snap) = {}

-----------------------------------------------------------------------------
(* The two tools *)

MaintTo(m) == maint' = m
Tell(told) == maint' = [maint EXCEPT !.at = "idle", !.told = told]
Asc(S) == CHOOSE s \in [1..Cardinality(S) -> S] : \A i, j \in DOMAIN s : i < j => s[i] < s[j]

StartMaintenancePreview ==
  /\ maint.at = "idle" /\ RmSpend("jobs")
  /\ MaintTo([maint EXCEPT !.at = "preview", !.part = 1, !.snap = NoSnap, !.told = "none"])
  /\ calm' = [preview |-> TRUE, final |-> FALSE]
  /\ UNCHANGED release

Snapshotting == maint.at \in {"preview", "before", "mid", "final"}

TakeSnapshotPart ==
  /\ Snapshotting /\ maint.part <= Len(SnapshotParts)
  /\ LET p == SnapshotParts[maint.part]
     IN MaintTo([maint EXCEPT !.part = @ + 1,
                   !.snap = [q \in DOMAIN @ \cup {p} |-> IF q = p THEN ReadPart(p, release) ELSE @[q]]])
  /\ UNCHANGED <<rmBounds, release, calm>>

ReleaseSnapshot(at) == maint.at = at /\ maint.part > Len(SnapshotParts)

SourceEdgeReleaseMaintenancePreview ==
  /\ ReleaseSnapshot("preview")
  /\ IF maint.snap.protected THEN Tell("refused")
     ELSE MaintTo([maint EXCEPT !.at = "planned", !.plan = maint.snap])
  /\ UNCHANGED <<rmBounds, release, calm>>

\* The plan is spent with the start of its execution.
StartApply ==
  /\ maint.at = "planned"
  /\ MaintTo([maint EXCEPT !.at = "before", !.part = 1, !.snap = NoSnap])
  /\ UNCHANGED <<rmBounds, release, calm>>

CompareBefore ==
  /\ ReleaseSnapshot("before")
  /\ IF ~SameAsPlanned(maint.snap, maint.plan) THEN Tell("error")
     ELSE MaintTo([maint EXCEPT !.at = "runs", !.stale = Asc(edgeReleaseStaleRuns(maint.snap))])
  /\ UNCHANGED <<rmBounds, release, calm>>

\* edgeReleaseRun: each obsolete run is read once more before it is cancelled.
ReadStaleRun ==
  /\ maint.at = "runs" /\ maint.stale # <<>>
  /\ LET i == Head(maint.stale)
         run == release.runs[i]
     IN IF run.sha = maint.snap.runs[i].sha /\ run.status = maint.snap.runs[i].status
           /\ run.sha # maint.snap.main /\ edgeReleaseActive(run.status)
        THEN MaintTo([maint EXCEPT !.at = "cancel"]) ELSE Tell("error")
  /\ UNCHANGED <<rmBounds, release, calm>>

\* edgeReleaseCancel is accepted; GitHub ends the run in its own time.
edgeReleaseCancel ==
  /\ maint.at = "cancel"
  /\ MaintTo([maint EXCEPT !.at = "inactive"])
  /\ release' = [release EXCEPT !.runs[Head(maint.stale)].cancelled = TRUE]
  /\ UNCHANGED <<rmBounds, calm>>

edgeReleaseWaitInactive ==
  /\ maint.at = "inactive" /\ ~edgeReleaseActive(release.runs[Head(maint.stale)].status)
  /\ MaintTo([maint EXCEPT !.at = "runs", !.stale = Tail(@)])
  /\ UNCHANGED <<rmBounds, release, calm>>

StartMid ==
  /\ maint.at = "runs" /\ maint.stale = <<>>
  /\ MaintTo([maint EXCEPT !.at = "mid", !.part = 1, !.snap = NoSnap])
  /\ UNCHANGED <<rmBounds, release, calm>>

CompareMid ==
  /\ ReleaseSnapshot("mid")
  /\ IF CancelledAsPlanned(maint.snap, maint.plan) THEN MaintTo([maint EXCEPT !.at = "set"]) ELSE Tell("error")
  /\ UNCHANGED <<rmBounds, release, calm>>

edgeReleaseSetPolicy ==
  /\ maint.at = "set"
  /\ release' = [release EXCEPT !.env = TargetEnv]
  /\ MaintTo([maint EXCEPT !.at = "find"])
  /\ UNCHANGED <<rmBounds, calm>>

FindMainPolicy ==
  /\ maint.at = "find"
  /\ IF edgeReleasePolicies(release) = {} THEN Tell("error")
     ELSE MaintTo([maint EXCEPT !.at = IF "main" \in release.policies THEN "list" ELSE "create"])
  /\ UNCHANGED <<rmBounds, release, calm>>

edgeReleaseCreateMainPolicy ==
  /\ maint.at = "create"
  /\ IF "main" \in release.policies THEN Tell("error") /\ UNCHANGED release
     ELSE /\ release' = [release EXCEPT !.policies = @ \cup {"main"}]
          /\ MaintTo([maint EXCEPT !.at = "list"])
  /\ UNCHANGED <<rmBounds, calm>>

ListOtherPolicies ==
  /\ maint.at = "list"
  /\ IF edgeReleasePolicies(release) = {} THEN Tell("error")
     ELSE MaintTo([maint EXCEPT !.at = "delete", !.policies = release.policies \ {"main"}])
  /\ UNCHANGED <<rmBounds, release, calm>>

edgeReleaseDeletePolicy ==
  /\ maint.at = "delete" /\ maint.policies # {}
  /\ LET p == CHOOSE p \in maint.policies : TRUE
     IN IF p \notin release.policies THEN Tell("error") /\ UNCHANGED release
        ELSE /\ release' = [release EXCEPT !.policies = @ \ {p}]
             /\ MaintTo([maint EXCEPT !.policies = @ \ {p}])
  /\ UNCHANGED <<rmBounds, calm>>

StartFinal ==
  /\ maint.at = "delete" /\ maint.policies = {}
  /\ MaintTo([maint EXCEPT !.at = "final", !.part = 1, !.snap = NoSnap])
  /\ calm' = [calm EXCEPT !.final = TRUE]
  /\ UNCHANGED <<rmBounds, release>>

CompareFinal ==
  /\ ReleaseSnapshot("final")
  /\ IF Converged(maint.snap, maint.plan.main) THEN Tell("done") ELSE Tell("error")
  /\ UNCHANGED <<rmBounds, release, calm>>

-----------------------------------------------------------------------------
(* Failures, and everybody else *)

Alarmed == calm' = [preview |-> FALSE, final |-> FALSE]

\* A request fails, its reply is lost, a cancelled run never ends or the server
\* restarts: the call ends where it is.
MaintenanceBreaks ==
  /\ maint.at \notin {"idle"} /\ RmSpend("faults")
  /\ Tell("error") /\ Alarmed
  /\ UNCHANGED release

\* ... the request having taken effect.
ReleaseReplyLost ==
  /\ maint.at \in {"set", "create", "delete", "cancel"} /\ RmSpend("faults")
  /\ Tell("error") /\ Alarmed
  /\ release' = CASE maint.at = "set" -> [release EXCEPT !.env = TargetEnv]
                  [] maint.at = "create" -> [release EXCEPT !.policies = @ \cup {"main"}]
                  [] maint.at = "delete" -> [release EXCEPT !.policies = {"main"}]
                  [] maint.at = "cancel" -> [release EXCEPT !.runs[Head(maint.stale)].cancelled = TRUE]

\* A cancelled run ends: awaited, or left over from an interrupted maintenance.
CancelledRunEnds ==
  /\ \E i \in ReleaseRuns : /\ release.runs[i].cancelled /\ release.runs[i].status # "completed"
                            /\ release' = [release EXCEPT !.runs[i].status = "completed"]
                            /\ IF maint.at = "inactive" /\ i = Head(maint.stale) THEN UNCHANGED calm ELSE Alarmed
  /\ UNCHANGED <<rmBounds, maint>>

\* Another run goes on, or ends.
RunChanges ==
  /\ RmSpend("changes") /\ Alarmed
  /\ \E i \in ReleaseRuns, s \in {"in_progress", "completed"} :
       /\ release.runs[i].status \in {"waiting", "in_progress"} \ {s}
       /\ release' = [release EXCEPT !.runs[i].status = s]
  /\ UNCHANGED maint

\* A release is dispatched on main as it is.
RunStarts ==
  /\ RmSpend("starts") /\ Alarmed
  /\ \E i \in ReleaseRuns :
       /\ release.runs[i].status = "none" /\ \A j \in ReleaseRuns : j < i => release.runs[j].status # "none"
       /\ release' = [release EXCEPT !.runs[i] = [sha |-> release.main, status |-> "waiting", cancelled |-> FALSE]]
  /\ UNCHANGED maint

SettingsEdited ==
  /\ RmSpend("edits") /\ Alarmed
  /\ release' \in {[release EXCEPT !.main = @ + 1], [release EXCEPT !.protected = ~@],
                   [release EXCEPT !.env.wait = 1], [release EXCEPT !.env.custom = ~@],
                   [release EXCEPT !.policies = @ \cup {"other"}], [release EXCEPT !.policies = @ \ {"main"}]}
  /\ release' # release
  /\ UNCHANGED maint

MaintenanceNext ==
  \/ StartMaintenancePreview \/ TakeSnapshotPart \/ SourceEdgeReleaseMaintenancePreview \/ StartApply
  \/ CompareBefore \/ ReadStaleRun \/ edgeReleaseCancel \/ edgeReleaseWaitInactive \/ StartMid \/ CompareMid
  \/ edgeReleaseSetPolicy \/ FindMainPolicy \/ edgeReleaseCreateMainPolicy \/ ListOtherPolicies
  \/ edgeReleaseDeletePolicy \/ StartFinal \/ CompareFinal
  \/ MaintenanceBreaks \/ ReleaseReplyLost \/ CancelledRunEnds \/ RunChanges \/ RunStarts \/ SettingsEdited

MaintenanceSpec == MaintenanceInit /\ [][MaintenanceNext]_rmVars

-----------------------------------------------------------------------------
(* Properties: SourceEdgeReleaseMaintenanceApply *)

\* Only runs that the preview listed as obsolete are ever cancelled.
CancelsReviewedOnly ==
  \A i \in ReleaseRuns : release.runs[i].status # "none" /\ release'.runs[i].cancelled /\ ~release.runs[i].cancelled =>
    /\ maint.plan.runs[i].status \in {"waiting", "in_progress"}
    /\ maint.plan.runs[i].sha # maint.plan.main

\* The environment is opened to main only when no run of a commit main had left,
\* among those there at the preview, can still reach it.
OpenedAfterCancel ==
  edgeReleaseSetPolicy => \A i \in ReleaseRuns :
    maint.plan.runs[i].status # "none" /\ maint.plan.runs[i].sha # maint.plan.main =>
      release.runs[i].status = "completed"

\* Success is reported only for the exact target, unless somebody changed it again
\* while the last snapshot was taken.
DoneMeansExact ==
  maint'.told = "done" /\ maint.told # "done" /\ calm.final =>
    release.env = TargetEnv /\ release.policies = {"main"} /\ ~release.protected

\* Whatever an interrupted maintenance left behind, the next one succeeds if nobody
\* disturbs it: no partial change blocks a repetition.
UndisturbedSucceeds ==
  maint'.told = "error" /\ maint.told # "error" => ~calm'.preview

=============================================================================
