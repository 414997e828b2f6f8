----------------------------- MODULE ReviewRow -----------------------------
(***************************************************************************)
(* One row of the `reviews' table and the statements that the review       *)
(* repository runs against it (database/repositories/review.repository.ts).*)
(*                                                                         *)
(* Postgres runs an UPDATE ... WHERE as one atomic step, so a statement is *)
(* a pair of operators: canX(r) is its WHERE clause, X(r, ...) the row its *)
(* SET clause leaves.  Statements with no WHERE besides the id have only   *)
(* the second half.                                                        *)
(***************************************************************************)
EXTENDS Naturals

CONSTANTS
    AiTexts,      \* drafts the model may produce
    HumanTexts,   \* texts an admin may type into the editor
    OwnerTexts,   \* replies the owner may write in Google's own UI
    NoText,       \* SQL null in a text column, or no reply on Google
    Actors,       \* names an admin request may carry
    Nobody,       \* SQL null in approved_by or published_by
    Trim          \* Trim[t]: t without outer whitespace

Texts == AiTexts \cup HumanTexts \cup OwnerTexts
TextOrNull == Texts \cup {NoText}

\* An edited response is trimmed before it is stored (approval.service.ts); a
\* draft is stored as the model wrote it.
ASSUME TextAssumption ==
    /\ NoText \notin Texts
    /\ Trim \in [Texts -> Texts]
    /\ \A t \in HumanTexts : Trim[t] = t
    /\ Nobody \notin Actors
    /\ {"auto", "unknown"} \cap (Actors \cup {Nobody}) = {}

REVIEW_STATUSES ==
    {"RECEIVED", "PROCESSING", "GENERATED", "PENDING_APPROVAL", "APPROVED",
     "PUBLISHED", "REJECTED", "FAILED"}

GOOGLE_REPLY_STATES ==
    {"NONE", "EXISTING_REPLY_FOUND", "PUBLISH_PENDING", "PUBLISHED",
     "PUBLISH_FAILED"}

Publishers == Actors \cup {"auto", "unknown"}

(***************************************************************************)
(* publishedAt says whether published_at is set.  version stands for the   *)
(* customer's words together with review_updated_at, which the code always *)
(* writes together.  aged says that updated_at lies before the sweep's     *)
(* cutoff.                                                                 *)
(***************************************************************************)
ReviewRows ==
    [status              : REVIEW_STATUSES,
     replyState          : GOOGLE_REPLY_STATES,
     ai                  : TextOrNull,
     final               : TextOrNull,
     humanReviewRequired : BOOLEAN,
     approvedBy          : Actors \cup {Nobody},
     publishedAt         : BOOLEAN,
     publishedBy         : Publishers \cup {Nobody},
     version             : Nat,
     editCount           : Nat,
     aged                : BOOLEAN]

\* The reviews_set_updated_at trigger: any UPDATE moves updated_at to now.
set_updated_at(r) == [r EXCEPT !.aged = FALSE]

\* final_response ?? ai_response
responseOf(r) == IF r.final # NoText THEN r.final ELSE r.ai

---------------------------------------------------------------------------
(* Approval workflow *)

APPROVABLE_STATUSES    == {"GENERATED", "PENDING_APPROVAL"}
EDITABLE_STATUSES      == {"GENERATED", "PENDING_APPROVAL"}
REJECTABLE_STATUSES    == {"GENERATED", "PENDING_APPROVAL", "FAILED"}
REGENERATABLE_STATUSES == {"GENERATED", "PENDING_APPROVAL", "FAILED"}

canMarkApproved(r) == r.status \in APPROVABLE_STATUSES

markApproved(r, text, actor) ==
    set_updated_at([r EXCEPT !.status = "APPROVED", !.final = text,
                             !.approvedBy = actor])

canMarkRejected(r) == r.status \in REJECTABLE_STATUSES

markRejected(r) == set_updated_at([r EXCEPT !.status = "REJECTED"])

canUpdateFinalResponse(r) == r.status \in EDITABLE_STATUSES

updateFinalResponse(r, text) ==
    set_updated_at([r EXCEPT !.final = text, !.status = "PENDING_APPROVAL"])

UNAPPROVABLE_REPLY_STATES ==
    {"NONE", "EXISTING_REPLY_FOUND", "PUBLISHED", "PUBLISH_FAILED"}

\* Mutant: the WHERE clause before PUBLISH_PENDING was excluded from it.
canMarkUnapprovedAnyReplyState(r) == r.status = "APPROVED" /\ ~r.publishedAt

canMarkUnapproved(r) ==
    /\ r.status = "APPROVED"
    /\ r.replyState \in UNAPPROVABLE_REPLY_STATES
    /\ ~r.publishedAt

markUnapproved(r) ==
    set_updated_at([r EXCEPT !.status = "PENDING_APPROVAL",
                             !.approvedBy = Nobody])

---------------------------------------------------------------------------
(* Publishing *)

\* Mutant: whatever has a draft may be published.
publishableDrafts == {"APPROVED", "GENERATED", "PENDING_APPROVAL"}

PUBLISHABLE_STATUSES == {"APPROVED", "GENERATED"}

\* Mutant: a failed attempt is never claimable again.
claimableOnce == {"NONE"}

\* Mutant: approving anew overrides the reply that was found.
claimableOverReply == {"NONE", "PUBLISH_FAILED", "EXISTING_REPLY_FOUND"}

PUBLISH_CLAIMABLE_REPLY_STATES == {"NONE", "PUBLISH_FAILED"}

\* Mutant: google_reply_state is not used as a lock.
canClaimPending(r) == r.status \in PUBLISHABLE_STATUSES /\ ~r.publishedAt

canClaimReviewForPublishing(r) ==
    /\ r.status \in PUBLISHABLE_STATUSES
    /\ r.replyState \in PUBLISH_CLAIMABLE_REPLY_STATES
    /\ ~r.publishedAt

claimReviewForPublishing(r) ==
    set_updated_at([r EXCEPT !.replyState = "PUBLISH_PENDING"])

\* Mutant: an outcome is recorded whoever holds the claim by now.
holdsClaimUnchecked(r) == r.status # "RECEIVED"

holdsClaim(r) == r.replyState = "PUBLISH_PENDING"

\* Mutant: the publication is recorded but the claim is not given up.
markPublishedKeepingClaim(r, text, publishedBy) ==
    set_updated_at([r EXCEPT !.status = "PUBLISHED", !.final = text,
                             !.publishedAt = TRUE, !.publishedBy = publishedBy])

markPublished(r, text, publishedBy) ==
    set_updated_at([r EXCEPT !.status = "PUBLISHED", !.final = text,
                             !.publishedAt = TRUE, !.publishedBy = publishedBy,
                             !.replyState = "PUBLISHED"])

\* Mutant: the status constant written to the reply state column.
markPublishFailedStatus(r) == set_updated_at([r EXCEPT !.replyState = "FAILED"])

markPublishFailed(r) ==
    set_updated_at([r EXCEPT !.replyState = "PUBLISH_FAILED"])

markPublishBlockedByExistingReply(r) ==
    set_updated_at([r EXCEPT !.status = "PENDING_APPROVAL",
                             !.replyState = "EXISTING_REPLY_FOUND"])

\* The candidate query of the auto-publish pass.
isAutoPublishEligible(r) ==
    /\ r.status = "GENERATED"
    /\ r.replyState \in PUBLISH_CLAIMABLE_REPLY_STATES
    /\ ~r.publishedAt

\* Mutant: the stale pass looks only at reviews the policy auto-approved.
isStaleGenerated(r) ==
    r.replyState = "PUBLISH_PENDING" /\ r.aged /\ r.status = "GENERATED"

\* Both the candidate query and the WHERE clause of the stale-claim pass.
isStalePublishPending(r) == r.replyState = "PUBLISH_PENDING" /\ r.aged

claimStalePublishPendingReview(r) ==
    set_updated_at([r EXCEPT !.replyState = "PUBLISH_PENDING"])

---------------------------------------------------------------------------
(* Ingestion and generation: none of these statements has a guard *)

\* The row before the first upsert: no row, which version 0 stands for.
NoRow ==
    [status |-> "RECEIVED", replyState |-> "NONE", ai |-> NoText, final |-> NoText,
     humanReviewRequired |-> FALSE, approvedBy |-> Nobody, publishedAt |-> FALSE,
     publishedBy |-> Nobody, version |-> 0, editCount |-> 0, aged |-> FALSE]

\* An upsert: over a row that is already there it sets the same columns.
insertReview(r, version, replyState) ==
    set_updated_at([r EXCEPT !.version = version, !.replyState = replyState,
                             !.status = "RECEIVED"])

\* Mutant: an edit does not re-open the review.
applyReviewEditOnly(r, version, replyState, contentChanged, previousEditCount) ==
    set_updated_at([r EXCEPT !.version = version, !.replyState = replyState])

applyReviewEdit(r, version, replyState, contentChanged, previousEditCount) ==
    set_updated_at(
        [r EXCEPT !.version = version,
                  !.replyState = replyState,
                  !.editCount = IF contentChanged THEN previousEditCount + 1 ELSE @,
                  !.status = IF contentChanged THEN "RECEIVED" ELSE @])

markProcessing(r) == set_updated_at([r EXCEPT !.status = "PROCESSING"])

saveGeneratedResponse(r, draft, humanReviewRequired, status) ==
    set_updated_at([r EXCEPT !.ai = draft,
                             !.humanReviewRequired = humanReviewRequired,
                             !.status = status])

markProcessingFailed(r) == set_updated_at([r EXCEPT !.status = "FAILED"])
=============================================================================
