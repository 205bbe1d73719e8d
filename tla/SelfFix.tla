------------------------------- MODULE SelfFix ------------------------------
(* The self-fix bridge on top of the job queue: the self_fix_pr job that       *)
(* rebuilds a finished task's change, pushes it and opens a draft pull         *)
(* request (services/self_fix_pr_worker.rs, self_fix/mod.rs open_pr,           *)
(* bridge.rs), the operator's approve-and-merge call (approve_and_merge,       *)
(* merge_executor.rs), and the review reaper (self_fix_review_reaper.rs).      *)
(* A job is a task: its unique key is the task id.                             *)
EXTENDS JobQueue, Sequences

CONSTANTS
    Callers,           \* concurrent approve-and-merge requests
    MaxMergeAttempts,  \* self_fix_max_merge_attempts
    MaxHeads,          \* bound: commits ever pushed to task branches
    MaxCalls           \* bound: merge attempts counted in all

SelfFixAssumption ==
    /\ MaxMergeAttempts \in Nat \ {0}
    /\ MaxHeads \in Nat
    /\ MaxCalls \in Nat
    /\ IsFiniteSet(Callers)
    /\ \A i, j \in Jobs : Key[i] = Key[j] => i = j

VARIABLES
    review, rowPr, rowHead, opened, mergeAttempts,  \* columns of the task's row
    branch,     \* head commit of agent/<task> on the remote, 0 before a push
    prs,        \* the task's pull requests at GitHub, in order of their numbers
    green,      \* commits all of whose checks succeeded
    heads,      \* commits pushed so far, numbered from 1
    bridge,     \* each worker's progress through open_pr
    call,       \* each approve-and-merge request's progress
    reviewed,   \* history: heads a task's row offered for review as clean
    permanent   \* history: tasks whose job was dropped as permanently failed

rowVars == <<review, rowPr, rowHead, opened, mergeAttempts>>
github  == <<branch, prs, green, heads>>
sfHistory == <<reviewed, permanent>>
vars == <<queueVars, rowVars, github, bridge, call, sfHistory>>

NoCall == [pc |-> "idle", task |-> None, pr |-> 0, head |-> 0]
NoBridge == [pc |-> "idle", status |-> "none", pr |-> 0, head |-> 0]

SFInit ==
    /\ Init
    /\ review = [t \in Jobs |-> "none"]
    /\ rowPr = [t \in Jobs |-> 0]
    /\ rowHead = [t \in Jobs |-> 0]
    /\ opened = [t \in Jobs |-> FALSE]
    /\ mergeAttempts = [t \in Jobs |-> 0]
    /\ branch = [t \in Jobs |-> 0]
    /\ prs = [t \in Jobs |-> <<>>]
    /\ green = {}
    /\ heads = 0
    /\ bridge = [w \in Workers |-> NoBridge]
    /\ call = [c \in Callers |-> NoCall]
    /\ reviewed = [t \in Jobs |-> {}]
    /\ permanent = {}

\* An open pull request follows its branch; a merged one keeps its head.
PrHead(t, n) == IF prs[t][n].state = "merged" THEN prs[t][n].head ELSE branch[t]
OpenPrs(t) == {n \in DOMAIN prs[t] : prs[t][n].state # "merged"}

-----------------------------------------------------------------------------
(* The PR job *)

\* Completing the task enqueues the job in the same transaction.
TaskCompleted(t) == Enqueue(t) /\ UNCHANGED <<rowVars, github, bridge, call, sfHistory>>

StartJob(w, t) ==
    /\ Claim(w, t)
    /\ bridge' = [bridge EXCEPT ![w] = [NoBridge EXCEPT !.pc = "push"]]
    /\ UNCHANGED <<rowVars, github, call, sfHistory>>

\* Rebuild on the base, classify the changed paths, and push --force.
Push(w) ==
    /\ bridge[w].pc = "push"
    /\ heads < MaxHeads
    /\ heads' = heads + 1
    /\ branch' = [branch EXCEPT ![running[w]] = heads + 1]
    /\ \E s \in {"in_review", "sensitive_blocked"} :
          bridge' = [bridge EXCEPT ![w].pc = "open", ![w].status = s]
    /\ UNCHANGED <<queueVars, rowVars, prs, green, call, sfHistory>>

\* create_draft_pr: on 422 the open pull request of the branch is taken over.
\* The head is what GitHub reports, whoever pushed it.
CreateDraftPr(w) ==
    LET t == running[w] IN
    /\ bridge[w].pc = "open"
    /\ IF OpenPrs(t) # {}
       THEN /\ \E n \in OpenPrs(t) :
                  bridge' = [bridge EXCEPT ![w].pc = "save", ![w].pr = n, ![w].head = branch[t]]
            /\ UNCHANGED prs
       ELSE /\ prs' = [prs EXCEPT ![t] = Append(@, [state |-> "draft", head |-> 0])]
            /\ bridge' = [bridge EXCEPT ![w].pc = "save", ![w].pr = Len(prs[t]) + 1,
                                        ![w].head = branch[t]]
    /\ UNCHANGED <<queueVars, rowVars, branch, green, heads, call, sfHistory>>

\* set_pr_metadata: unconditional, whatever the row's review status has become.
SaveMetadata(w) ==
    LET t == running[w]
        b == bridge[w]
    IN  /\ b.pc = "save"
        /\ review' = [review EXCEPT ![t] = b.status]
        /\ rowPr' = [rowPr EXCEPT ![t] = b.pr]
        /\ rowHead' = [rowHead EXCEPT ![t] = b.head]
        /\ opened' = [opened EXCEPT ![t] = TRUE]
        /\ bridge' = [bridge EXCEPT ![w].pc = "done"]
        /\ reviewed' = [reviewed EXCEPT ![t] = IF b.status = "in_review" THEN @ \cup {b.head} ELSE @]
        /\ UNCHANGED <<queueVars, mergeAttempts, github, call, permanent>>

FinishJob(w) ==
    /\ bridge[w].pc = "done"
    /\ Complete(w)
    /\ bridge' = [bridge EXCEPT ![w] = NoBridge]
    /\ UNCHANGED <<rowVars, github, call, sfHistory>>

\* A validation, policy or not-found error: the job is dropped, not retried.
\* The last step that can raise one is the base check of create_draft_pr.
DropJob(w) ==
    /\ bridge[w].pc \in {"push", "open"}
    /\ Complete(w)
    /\ bridge' = [bridge EXCEPT ![w] = NoBridge]
    /\ permanent' = permanent \cup {running[w]}
    /\ UNCHANGED <<rowVars, github, call, reviewed>>

\* GitHub, git, or the database is unavailable at some step.
FailJob(w) ==
    /\ bridge[w].pc \in {"push", "open", "save"}
    /\ Fail(w)
    /\ bridge' = [bridge EXCEPT ![w] = NoBridge]
    /\ UNCHANGED <<rowVars, github, call, sfHistory>>

\* The worker dies anywhere, or its finishing statement fails.
AbandonJob(w) ==
    /\ Abandon(w)
    /\ bridge' = [bridge EXCEPT ![w] = NoBridge]
    /\ UNCHANGED <<rowVars, github, call, sfHistory>>

ReleaseJob(t) == ReleaseStale(t) /\ UNCHANGED <<rowVars, github, bridge, call, sfHistory>>

-----------------------------------------------------------------------------
(* Approve and merge *)

goto(c, pc) == call' = [call EXCEPT ![c].pc = pc]
hangup(c) == call' = [call EXCEPT ![c] = NoCall]

\* The row is read once; the cap comes before the status. A merged row is
\* answered at once, any status but in_review refused.
Approve(c, t) ==
    /\ call[c].pc = "idle"
    /\ \/ /\ mergeAttempts[t] >= MaxMergeAttempts
          /\ call' = [call EXCEPT ![c] = [NoCall EXCEPT !.pc = "exhausted", !.task = t]]
       \/ /\ mergeAttempts[t] < MaxMergeAttempts
          /\ rowPr[t] # 0
          /\ review[t] = "in_review"
          /\ call' = [call EXCEPT ![c] =
                        [pc |-> "count", task |-> t, pr |-> rowPr[t], head |-> rowHead[t]]]
    /\ UNCHANGED <<queueVars, rowVars, github, bridge, sfHistory>>

\* Past the cap: set_review_status(changes_requested), unconditionally.
RequestChanges(c) ==
    /\ call[c].pc = "exhausted"
    /\ review' = [review EXCEPT ![call[c].task] = "changes_requested"]
    /\ hangup(c)
    /\ UNCHANGED <<queueVars, rowPr, rowHead, opened, mergeAttempts, github, bridge, sfHistory>>

\* bump_merge_attempts: relative to the row, not to the value the cap was
\* checked against.
CountAttempt(c) ==
    LET t == call[c].task IN
    /\ call[c].pc = "count"
    /\ mergeAttempts[t] < MaxCalls
    /\ mergeAttempts' = [mergeAttempts EXCEPT ![t] = @ + 1]
    /\ goto(c, "probe")
    /\ UNCHANGED <<queueVars, review, rowPr, rowHead, opened, github, bridge, sfHistory>>

\* pr_is_merged: someone merged it before.
ProbeMerged(c) ==
    LET t == call[c].task IN
    /\ call[c].pc = "probe"
    /\ goto(c, IF prs[t][call[c].pr].state = "merged" THEN "record" ELSE "gate")
    /\ UNCHANGED <<queueVars, rowVars, github, bridge, sfHistory>>

\* MergeGate::evaluate on the live head.
GateOpen(c) ==
    LET live == PrHead(call[c].task, call[c].pr) IN
    live \in green /\ live = call[c].head

\* The first gate, and the draft is marked ready.
Gate(c) ==
    LET t == call[c].task IN
    /\ call[c].pc = "gate"
    /\ GateOpen(c)
    /\ prs' = [prs EXCEPT ![t][call[c].pr].state = IF @ = "draft" THEN "ready" ELSE @]
    /\ goto(c, "regate")
    /\ UNCHANGED <<queueVars, rowVars, branch, green, heads, bridge, sfHistory>>

\* The second gate, after marking ready.
Regate(c) ==
    /\ call[c].pc = "regate"
    /\ GateOpen(c)
    /\ goto(c, "merge")
    /\ UNCHANGED <<queueVars, rowVars, github, bridge, sfHistory>>

\* Mutant: the merge call does not carry the expected head.
MergeWhatever(c) ==
    LET t == call[c].task
        n == call[c].pr
    IN  /\ call[c].pc = "merge"
        /\ prs[t][n].state = "ready"
        /\ prs' = [prs EXCEPT ![t][n] = [state |-> "merged", head |-> branch[t]]]
        /\ goto(c, "comment")
        /\ UNCHANGED <<queueVars, rowVars, branch, green, heads, bridge, sfHistory>>

\* merge_with_expected_head: GitHub refuses (409) when the head has moved.
Merge(c) ==
    LET t == call[c].task
        n == call[c].pr
    IN  /\ call[c].pc = "merge"
        /\ prs[t][n].state = "ready"
        /\ branch[t] = call[c].head
        /\ prs' = [prs EXCEPT ![t][n] = [state |-> "merged", head |-> branch[t]]]
        /\ goto(c, "comment")
        /\ UNCHANGED <<queueVars, rowVars, branch, green, heads, bridge, sfHistory>>

\* The audit comment; its error is returned although the merge happened.
Comment(c) ==
    /\ call[c].pc = "comment"
    /\ goto(c, "record")
    /\ UNCHANGED <<queueVars, rowVars, github, bridge, sfHistory>>

\* set_review_status(merged), unconditionally.
RecordMerged(c) ==
    /\ call[c].pc = "record"
    /\ review' = [review EXCEPT ![call[c].task] = "merged"]
    /\ hangup(c)
    /\ UNCHANGED <<queueVars, rowPr, rowHead, opened, mergeAttempts, github, bridge, sfHistory>>

\* A gate refuses, GitHub answers with an error, or the server dies: nothing
\* is undone.
CallEnds(c) ==
    /\ call[c].pc # "idle"
    /\ hangup(c)
    /\ UNCHANGED <<queueVars, rowVars, github, bridge, sfHistory>>

\* REAP_STUCK_REVIEWS_SQL, past the deadline.
ReapReview(t) ==
    /\ review[t] = "in_review"
    /\ opened[t]
    /\ review' = [review EXCEPT ![t] = "changes_requested"]
    /\ UNCHANGED <<queueVars, rowPr, rowHead, opened, mergeAttempts, github, bridge, call, sfHistory>>

-----------------------------------------------------------------------------
(* GitHub, outside the program *)

ChecksPass(h) ==
    /\ h \in 1..heads
    /\ h \notin green
    /\ green' = green \cup {h}
    /\ UNCHANGED <<queueVars, rowVars, branch, prs, heads, bridge, call, sfHistory>>

\* A person pushes to the branch of an open pull request.
OutsidePush(t) ==
    /\ OpenPrs(t) # {}
    /\ heads < MaxHeads
    /\ heads' = heads + 1
    /\ branch' = [branch EXCEPT ![t] = heads + 1]
    /\ UNCHANGED <<queueVars, rowVars, prs, green, bridge, call, sfHistory>>

WorkerStep(w) ==
    \/ Push(w) \/ CreateDraftPr(w) \/ SaveMetadata(w)
    \/ FinishJob(w) \/ DropJob(w) \/ FailJob(w)

CallStep(c) ==
    \/ RequestChanges(c) \/ CountAttempt(c) \/ ProbeMerged(c) \/ Gate(c) \/ Regate(c)
    \/ Merge(c) \/ Comment(c) \/ RecordMerged(c) \/ CallEnds(c)

SFNext ==
    \/ \E t \in Jobs : TaskCompleted(t) \/ ReleaseJob(t) \/ ReapReview(t) \/ OutsidePush(t)
    \/ \E w \in Workers, t \in Jobs : StartJob(w, t)
    \/ \E w \in Workers : WorkerStep(w) \/ AbandonJob(w)
    \/ \E c \in Callers, t \in Jobs : Approve(c, t)
    \/ \E c \in Callers : CallStep(c)
    \/ \E h \in 1..MaxHeads : ChecksPass(h)

SFSpec == SFInit /\ [][SFNext]_vars

-----------------------------------------------------------------------------
\* What was merged had been offered for review as clean under exactly that head
\* and had all checks green, however heads, jobs and approvals interleave
\* (merge_with_expected_head; the executor's two gates).
MergedWasReviewed ==
    \A t \in Jobs : \A n \in DOMAIN prs[t] :
        prs[t][n].state = "merged" => prs[t][n].head \in reviewed[t] \cap green

\* "on a confirmed merge ONLY, persist review_status == merged".
RecordedMergeHappened ==
    \A t \in Jobs : review[t] = "merged" => \E n \in DOMAIN prs[t] : prs[t][n].state = "merged"

\* A finished PR job has left its pull request on the row or been dropped for
\* good, whatever crashed on the way and whoever finished it.
JobLeavesPr == \A t \in Jobs : row[t] = "gone" => rowPr[t] # 0 \/ t \in permanent

\* Concurrent approvals overrun the cap by at most one attempt each but one.
BudgetAlmostKept ==
    \A t \in Jobs : mergeAttempts[t] <= MaxMergeAttempts + Cardinality(Callers) - 1

\* All four.
SelfFixSound == MergedWasReviewed /\ RecordedMergeHappened /\ JobLeavesPr /\ BudgetAlmostKept

\* "an already-merged task short-circuits as a no-op" (approve_and_merge).
MergedIsNoOp == [][\A t \in Jobs : review[t] = "merged" => review'[t] = "merged"]_vars

=============================================================================
