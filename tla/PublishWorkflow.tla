-------------------------- MODULE PublishWorkflow --------------------------
(***************************************************************************)
(* How one drafted review gets approved and its reply gets onto Google:    *)
(* reviews/approval.service.ts, reviews/publishing.service.ts and          *)
(* reviews/sweep.service.ts over the statements of ReviewRow, Google's     *)
(* single reply slot, and the failures the code handles.                   *)
(*                                                                         *)
(* A process is one request handler (Requests) or one run of the scheduled *)
(* sweep (Sweepers).  It loses control at every await, so each database or *)
(* Google round trip is one step, and what a handler read earlier lives in *)
(* its local record until it is used.                                      *)
(***************************************************************************)
EXTENDS Review

CONSTANTS
    Requests,                \* admin requests that may be running at once
    Sweepers,                \* runs of the background sweep that may overlap
    LeftoverDrafts,          \* a draft may predate that setting
    ThresholdCoversAttempt,  \* no live attempt outlasts the stale threshold
    OwnerMayReply            \* the owner also replies in Google's own UI

Procs == Requests \cup Sweepers

ASSUME ProcAssumption ==
    /\ Requests \cap Sweepers = {}
    /\ LeftoverDrafts \in BOOLEAN
    /\ ThresholdCoversAttempt \in BOOLEAN
    /\ OwnerMayReply \in BOOLEAN

VARIABLES
    local,      \* each process's position and what it holds from earlier reads
    (* History, read by properties only *)
    approvals,  \* every <<actor, text>> whose approval reached the row
    shown,      \* every text Google has ever shown as the reply
    raced       \* processes about to PUT whose live check a later reply outdated

vars == <<row, live, local, faults, approvals, shown, raced>>
history == <<approvals, shown, raced>>

PublishPcs == {"check", "put", "record", "block", "fail"}

Pcs == {"idle", "approve", "reject", "edit", "precheck", "claim", "reclaim"}
         \cup PublishPcs

Locals == [pc : Pcs, text : TextOrNull, by : Publishers \cup {Nobody}]

Idle == [pc |-> "idle", text |-> NoText, by |-> Nobody]

At(p, label) == local[p].pc = label
Goto(p, l) == local' = [local EXCEPT ![p] = l]
Jump(p, label) == local' = [local EXCEPT ![p].pc = label]

\* Every draft was made while REQUIRE_APPROVAL_FOR_ALL was on.
HumansOnly == RequireApprovalForAll /\ ~LeftoverDrafts

(***************************************************************************)
(* A fresh result of runReviewGeneration: GENERATED only if the policy may *)
(* auto-publish, PENDING_APPROVAL otherwise, FAILED without a draft.       *)
(***************************************************************************)
FreshRow(status, draft) ==
    [status |-> status, replyState |-> "NONE", ai |-> draft, final |-> NoText,
     humanReviewRequired |-> FALSE, approvedBy |-> Nobody,
     publishedAt |-> FALSE, publishedBy |-> Nobody, version |-> 1,
     editCount |-> 0, aged |-> FALSE]

FreshStatuses ==
    {"PENDING_APPROVAL"} \cup (IF HumansOnly THEN {} ELSE {"GENERATED"})

Init ==
    /\ \/ \E s \in FreshStatuses, t \in AiTexts : row = FreshRow(s, t)
       \/ row = FreshRow("FAILED", NoText)
    /\ live = NoText
    /\ local = [p \in Procs |-> Idle]
    /\ faults = 0
    /\ approvals = {}
    /\ shown = {}
    /\ raced = {}

(***************************************************************************)
(* One UPDATE ... WHERE by process p.  The row matches, and p continues at *)
(* ok; or no row matches and a ConflictError takes p to err; or the        *)
(* database call throws, with the statement applied or not, and p goes to  *)
(* err not knowing which.                                                  *)
(***************************************************************************)
Write(p, can, new, ok, err) ==
    \/ /\ can
       /\ row' = new
       /\ Goto(p, ok)
       /\ UNCHANGED faults
    \/ /\ ~can
       /\ Goto(p, err)
       /\ UNCHANGED <<row, faults>>
    \/ /\ Fault
       /\ row' \in {row} \cup (IF can THEN {new} ELSE {})
       /\ Goto(p, err)

---------------------------------------------------------------------------
(* Approval workflow.  The read with its status check is one step, the     *)
(* guarded write another.                                                  *)

ApproveRead(p, actor) ==
    /\ At(p, "idle")
    /\ row.status \in APPROVABLE_STATUSES
    /\ responseOf(row) # NoText
    /\ Goto(p, [pc |-> "approve", text |-> responseOf(row), by |-> actor])
    /\ UNCHANGED <<row, live, faults, history>>

ApproveWrite(p) ==
    /\ At(p, "approve")
    /\ Write(p, canMarkApproved(row),
             markApproved(row, local[p].text, local[p].by), Idle, Idle)
    /\ approvals' = IF row' = row THEN approvals
                    ELSE approvals \cup {<<local[p].by, local[p].text>>}
    /\ UNCHANGED <<live, shown, raced>>

RejectRead(p) ==
    /\ At(p, "idle")
    /\ row.status \in REJECTABLE_STATUSES
    /\ Jump(p, "reject")
    /\ UNCHANGED <<row, live, faults, history>>

RejectWrite(p) ==
    /\ At(p, "reject")
    /\ Write(p, canMarkRejected(row), markRejected(row), Idle, Idle)
    /\ UNCHANGED <<live, history>>

EditRead(p, text) ==
    /\ At(p, "idle")
    /\ row.status \in EDITABLE_STATUSES
    /\ Goto(p, [pc |-> "edit", text |-> text, by |-> Nobody])
    /\ UNCHANGED <<row, live, faults, history>>

EditWrite(p) ==
    /\ At(p, "edit")
    /\ Write(p, canUpdateFinalResponse(row),
             updateFinalResponse(row, local[p].text), Idle, Idle)
    /\ UNCHANGED <<live, history>>

\* Unapprove reads the row only to know that it exists.
Unapprove(p) ==
    /\ At(p, "idle")
    /\ Write(p, canMarkUnapproved(row), markUnapproved(row), Idle, Idle)
    /\ UNCHANGED <<live, history>>

---------------------------------------------------------------------------
(* publishReview: the friendly pre-check, then the claim. *)

PublishPrecheck(p) ==
    /\ At(p, IF p \in Sweepers THEN "precheck" ELSE "idle")
    /\ IF row.status \in PUBLISHABLE_STATUSES THEN Jump(p, "claim")
                                              ELSE Goto(p, Idle)
    /\ UNCHANGED <<row, live, faults, history>>

\* What finalizeClaimedPublish computes from the claimed row before its try.
publishedByOf(r) ==
    IF r.status # "APPROVED" THEN "auto"
    ELSE IF r.approvedBy = Nobody THEN "unknown" ELSE r.approvedBy

\* Mutant: every reply is attributed to the policy.
FinalizeAlwaysAuto(r) ==
    [pc   |-> IF responseOf(r) = NoText THEN "fail" ELSE "check",
     text |-> responseOf(r), by |-> "auto"]

\* Mutant: the draft is published although a human has edited it.
FinalizeDraft(r) ==
    [pc   |-> IF r.ai = NoText THEN "fail" ELSE "check",
     text |-> r.ai, by |-> publishedByOf(r)]

\* Where finalizeClaimedPublish starts: with no text it goes straight to
\* markPublishFailed, otherwise to the live check.
Finalize(r) ==
    [pc   |-> IF responseOf(r) = NoText THEN "fail" ELSE "check",
     text |-> responseOf(r), by |-> publishedByOf(r)]

Claim(p) ==
    /\ At(p, "claim")
    /\ Write(p, canClaimReviewForPublishing(row), claimReviewForPublishing(row),
             Finalize(row), Idle)
    /\ UNCHANGED <<live, history>>

---------------------------------------------------------------------------
(* finalizeClaimedPublish *)

\* normalizeText, which the live comment goes through before it is compared.
normalizeText(t) == IF t = NoText THEN NoText ELSE Trim[t]

\* Mutant: Google is not asked what it shows before the reply is written.
CheckLiveBlind(p) ==
    /\ At(p, "check")
    /\ Jump(p, "put")
    /\ raced' = raced \ {p}
    /\ UNCHANGED <<row, live, faults, approvals, shown>>

\* Mutant: any reply on Google counts as the one this attempt meant to post.
CheckLiveAnyReply(p) ==
    /\ At(p, "check")
    /\ Jump(p, IF live = NoText THEN "put" ELSE "record")
    /\ raced' = raced \ {p}
    /\ UNCHANGED <<row, live, faults, approvals, shown>>

CheckLive(p) ==
    /\ At(p, "check")
    /\ \/ /\ normalizeText(live) = local[p].text
          /\ Jump(p, "record")
          /\ UNCHANGED faults
       \/ /\ normalizeText(live) \notin {NoText, local[p].text}
          /\ Jump(p, "block")
          /\ UNCHANGED faults
       \/ /\ live = NoText
          /\ Jump(p, "put")
          /\ UNCHANGED faults
       \/ /\ Fault
          /\ Jump(p, "fail")
    /\ raced' = raced \ {p}
    /\ UNCHANGED <<row, live, approvals, shown>>

(***************************************************************************)
(* updateReply.  googleRequest may send the PUT again after an attempt     *)
(* that timed out or failed, or give up; in either case Google may have    *)
(* taken the reply.                                                        *)
(***************************************************************************)
Put(p) ==
    /\ At(p, "put")
    /\ \/ /\ live' = local[p].text
          /\ Jump(p, "record")
          /\ raced' = raced \ {p}
          /\ UNCHANGED faults
       \/ /\ Fault
          /\ live' \in {live, local[p].text}
          /\ \/ Jump(p, "put") /\ UNCHANGED raced
             \/ Jump(p, "fail") /\ raced' = raced \ {p}
    /\ shown' = shown \cup ({live'} \ {NoText})
    /\ UNCHANGED <<row, approvals>>

\* An error anywhere in the try block ends in the catch block, at "fail".
Failing(p) == [local[p] EXCEPT !.pc = "fail"]

Record(p) ==
    /\ At(p, "record")
    /\ Write(p, holdsClaim(row),
             markPublished(row, local[p].text, local[p].by), Idle, Failing(p))
    /\ UNCHANGED <<live, history>>

Block(p) ==
    /\ At(p, "block")
    /\ Write(p, holdsClaim(row), markPublishBlockedByExistingReply(row), Idle,
             Failing(p))
    /\ UNCHANGED <<live, history>>

Fail(p) ==
    /\ At(p, "fail")
    /\ Write(p, holdsClaim(row), markPublishFailed(row), Idle, Idle)
    /\ UNCHANGED <<live, history>>

---------------------------------------------------------------------------
(* The background sweep *)

SweepFindStale(s) ==
    /\ At(s, "idle")
    /\ isStalePublishPending(row)
    /\ Jump(s, "reclaim")
    /\ UNCHANGED <<row, live, faults, history>>

Reclaim(s) ==
    /\ At(s, "reclaim")
    /\ Write(s, isStalePublishPending(row), claimStalePublishPendingReview(row),
             Finalize(row), Idle)
    /\ UNCHANGED <<live, history>>

SweepFindGenerated(s) ==
    /\ At(s, "idle")
    /\ ~RequireApprovalForAll
    /\ isAutoPublishEligible(row)
    /\ Jump(s, "precheck")
    /\ UNCHANGED <<row, live, faults, history>>

---------------------------------------------------------------------------
(* What happens around the handlers *)

\* The runtime disappears: no catch block runs.
Crash(p) ==
    /\ ~At(p, "idle")
    /\ Fault
    /\ Goto(p, Idle)
    /\ raced' = raced \ {p}
    /\ UNCHANGED <<row, live, approvals, shown>>

InPublish(p) == local[p].pc \in PublishPcs

(***************************************************************************)
(* updated_at falls behind the cutoff of defaultStalePublishPendingMs,     *)
(* which is meant to exceed the longest time one attempt can take.  Only a *)
(* claimed row's age is ever looked at.                                    *)
(***************************************************************************)
Age ==
    /\ row.replyState = "PUBLISH_PENDING"
    /\ ~row.aged
    /\ ThresholdCoversAttempt => \A p \in Procs : ~InPublish(p)
    /\ row' = [row EXCEPT !.aged = TRUE]
    /\ UNCHANGED <<live, local, faults, history>>

OwnerReplies(text) ==
    /\ OwnerMayReply
    /\ live' = text
    /\ shown' = shown \cup {text}
    /\ raced' = raced \cup {p \in Procs : At(p, "put")}
    /\ UNCHANGED <<row, local, faults, approvals>>

---------------------------------------------------------------------------
RequestStep(p) ==
    \/ \E actor \in Actors : ApproveRead(p, actor)
    \/ ApproveWrite(p)
    \/ RejectRead(p) \/ RejectWrite(p)
    \/ \E text \in HumanTexts : EditRead(p, text)
    \/ EditWrite(p)
    \/ Unapprove(p)

PublishStep(p) ==
    \/ PublishPrecheck(p) \/ Claim(p)
    \/ CheckLive(p) \/ Put(p) \/ Record(p) \/ Block(p) \/ Fail(p)

SweepStep(s) == SweepFindStale(s) \/ Reclaim(s) \/ SweepFindGenerated(s)

Environment ==
    \/ \E p \in Procs : Crash(p)
    \/ Age
    \/ \E text \in OwnerTexts : OwnerReplies(text)

Next ==
    \/ \E p \in Requests : RequestStep(p)
    \/ \E p \in Procs : PublishStep(p)
    \/ \E s \in Sweepers : SweepStep(s)
    \/ Environment

Spec == Init /\ [][Next]_vars

(***************************************************************************)
(* A handler that has started runs on unless it crashes, the scheduler     *)
(* keeps waking the sweep up, and time passes.  Nobody has to send a       *)
(* request, so the first step of one is not fair.                          *)
(***************************************************************************)
Running(p) == ~At(p, "idle")

FairSpec ==
    /\ Spec
    /\ WF_vars(Age)
    /\ \A p \in Requests : WF_vars(Running(p) /\ (RequestStep(p) \/ PublishStep(p)))
    /\ \A s \in Sweepers : WF_vars(SweepStep(s) \/ PublishStep(s))

---------------------------------------------------------------------------
(* Properties *)

Holding(p) == local[p].pc \in {"check", "put", "record", "block"}

\* Every variable stays in its range, an attempt that is past its claim holds a
\* text to publish, and only an attempt about to PUT can be outdated.
TypeOK ==
    /\ row \in ReviewRows
    /\ live \in TextOrNull
    /\ local \in [Procs -> Locals]
    /\ \A p \in Procs : Holding(p) => local[p].text \in Texts
    /\ faults \in Nat
    /\ approvals \subseteq Actors \X Texts
    /\ shown \subseteq Texts
    /\ raced \subseteq {p \in Procs : At(p, "put")}

\* At most one attempt is between its claim and its outcome, and it is the one
\* PUBLISH_PENDING stands for or one that already got its outcome into the row:
\* the promise of claimReviewForPublishing and claimStalePublishPendingReview.
SinglePublisher ==
    /\ \A p, q \in Procs : Holding(p) /\ Holding(q) => p = q
    /\ \A p \in Procs : Holding(p) => holdsClaim(row)

\* While a reply may still go out, the review is approved, the approval is of
\* this very text, and the admin the attempt will name is the one who gave it:
\* no reject, edit or unapprove can slip in between the claim and the PUT.
InFlightIsApproved ==
    \A p \in Procs : local[p].pc \in {"check", "put"} =>
        /\ row.status = "APPROVED"
        /\ row.final = local[p].text
        /\ local[p].by = row.approvedBy
        /\ <<local[p].by, local[p].text>> \in approvals

\* A row that says it was published says the truth: Google has shown that text,
\* and the admin named in published_by approved exactly that text, whatever
\* crash, retry or recovery by the sweep led there.  Only a draft the policy
\* cleared may be published by `auto' instead.
PublishedRecordIsTrue ==
    row.publishedAt =>
        /\ row.status = "PUBLISHED" /\ row.replyState = "PUBLISHED"
        /\ \E t \in shown : row.final \in {t, Trim[t]}
        /\ \/ <<row.publishedBy, row.final>> \in approvals
           \/ row.publishedBy = "auto" /\ ~HumansOnly

\* With REQUIRE_APPROVAL_FOR_ALL on, every text the application put on Google
\* had been approved by a human first.
OnlyApprovedShown ==
    \A t \in shown \ OwnerTexts : \E actor \in Actors : <<actor, t>> \in approvals

\* A reply customers can see is replaced only by the owner, or by an attempt
\* that looked at Google before that reply appeared (the live check of
\* finalizeClaimedPublish can do no better, as the API has no conditional PUT).
NeverOverwrites ==
    [][live # NoText /\ live' # live =>
          live' \in OwnerTexts \/ \E p \in raced : At(p, "put")]_live

\* published_at, published_by and the text they stand for never change once
\* set, although several attempts may reach markPublished.
PublishedOnce ==
    [][row.publishedAt =>
          /\ row'.publishedAt
          /\ row'.publishedBy = row.publishedBy
          /\ row'.final = row.final]_row

\* A claim does not stay behind: whatever crashed or failed, the handlers and
\* the sweep bring every PUBLISH_PENDING row to an outcome.
PendingResolves == (row.replyState = "PUBLISH_PENDING") ~> (row.replyState # "PUBLISH_PENDING")

\* A review cleared for auto-publish does not linger: the sweep publishes it,
\* finds a foreign reply and hands it to a human, or a human acts first.
GeneratedIsHandled == (row.status = "GENERATED") ~> (row.status # "GENERATED")
=============================================================================
