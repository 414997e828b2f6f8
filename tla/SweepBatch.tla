----------------------------- MODULE SweepBatch -----------------------------
(***************************************************************************)
(* The background sweep over several reviews (reviews/sweep.service.ts and *)
(* the statements it runs): a tick lists the stale claims and resolves     *)
(* them one by one, then lists the reviews cleared for auto-publishing and *)
(* publishes them one by one.  It may die anywhere, and meanwhile others   *)
(* claim and publish reviews (a click on publish, a tick that overlaps)    *)
(* and admins take them in hand.                                           *)
(*                                                                         *)
(* PublishWorkflow follows one review through its claim and its Google     *)
(* calls; here each is one step, and the subject is the batch.             *)
(***************************************************************************)
EXTENDS Naturals, Sequences, FiniteSets, SequencesExt

CONSTANTS
    NumReviews,  \* reviews, numbered by created_at
    BatchLimit,  \* DEFAULT_BATCH_LIMIT
    MaxEvents,   \* bound on what others do: claims, admins' actions, deletions
    MaxFaults    \* bound on crashes and on failing database and Google calls

ASSUME SweepAssumption ==
    /\ NumReviews \in Nat
    /\ BatchLimit \in Nat \ {0}
    /\ MaxEvents \in Nat
    /\ MaxFaults \in Nat

Reviews == 1..NumReviews

\* Oldest first.
created == [i \in Reviews |-> i]

VARIABLES
    requireApproval,  \* REQUIRE_APPROVAL_FOR_ALL
    row,              \* status and reply state of each review
    pending,          \* the claimed rows, in the order of updated_at
    stale,            \* those last touched before the cutoff
    deleted,          \* reviews their authors have deleted at Google
    others,           \* reviews that another process has claimed and is at
    sweeper,          \* the process that runs the ticks: its pass, the
                      \* candidates left, whether it has claimed the first
    events,           \* others' actions so far
    faults            \* faults so far

vars == <<requireApproval, row, pending, stale, deleted, others, sweeper, events, faults>>

rows == <<row, pending, stale>>

SweepInit ==
    /\ requireApproval \in BOOLEAN
    /\ row = [r \in Reviews |-> [status |-> "RECEIVED", reply |-> "NONE"]]
    /\ pending = <<>>
    /\ stale = {}
    /\ deleted = {}
    /\ others = {}
    /\ sweeper = [pass |-> "idle", batch |-> <<>>, holds |-> FALSE]
    /\ events = 0
    /\ faults = 0

PUBLISH_CLAIMABLE_REPLY_STATES == {"NONE", "PUBLISH_FAILED"}
PUBLISHABLE_STATUSES == {"APPROVED", "GENERATED"}

---------------------------------------------------------------------------
\* Of a sequence what is in a set, in the same order: SelectSeq, with the
\* recursion in sight of the proofs.
Among(s, S) ==
    LET upTo[n \in 0..Len(s)] ==
            IF n = 0 THEN <<>>
            ELSE IF s[n] \in S THEN Append(upTo[n - 1], s[n])
            ELSE upTo[n - 1]
    IN upTo[Len(s)]

(* Statements.  Each moves the row's updated_at to now. *)

Update(r, status, reply) ==
    LET rest == Among(pending, Reviews \ {r}) IN
    /\ row' = [row EXCEPT ![r] = [status |-> status, reply |-> reply]]
    /\ pending' = IF reply = "PUBLISH_PENDING" THEN Append(rest, r) ELSE rest
    /\ stale' = stale \ {r}

\* Mutant: one too many.
LimitedLate(ids) == SubSeq(ids, 1, IF Len(ids) <= BatchLimit THEN Len(ids) ELSE BatchLimit + 1)

Limited(ids) == SubSeq(ids, 1, IF Len(ids) < BatchLimit THEN Len(ids) ELSE BatchLimit)

Eligible == {r \in Reviews : /\ row[r].status = "GENERATED"
                             /\ row[r].reply \in PUBLISH_CLAIMABLE_REPLY_STATES}

\* Mutant: the latest first.
findLatestEligible == Limited(Reverse(Among(created, Eligible)))

findAutoPublishEligibleReviewIds == Limited(Among(created, Eligible))

findStalePublishPendingReviewIds == Limited(Among(pending, stale))

canClaimReviewForPublishing(r) ==
    /\ row[r].status \in PUBLISHABLE_STATUSES
    /\ row[r].reply \in PUBLISH_CLAIMABLE_REPLY_STATES

canClaimStale(r) == r \in stale

---------------------------------------------------------------------------
(* A tick *)

Fault == faults < MaxFaults /\ faults' = faults + 1
NoFault == UNCHANGED faults

Goto(pass, batch, holds) ==
    sweeper' = [pass |-> pass, batch |-> batch, holds |-> holds]

Turn(pass) == sweeper.pass = pass /\ sweeper.batch # <<>> /\ ~sweeper.holds

current == Head(sweeper.batch)

\* On to the next candidate.
Proceed == Goto(sweeper.pass, Tail(sweeper.batch), FALSE)

\* Mutant: the switch stops the recovery as well.
SweepUnlessSwitchedOff ==
    /\ sweeper.pass = "idle"
    /\ Goto("recover", IF requireApproval THEN <<>> ELSE findStalePublishPendingReviewIds,
            FALSE)
    /\ NoFault
    /\ UNCHANGED <<requireApproval, rows, deleted, others, events>>

runBackgroundSweep ==
    /\ sweeper.pass = "idle"
    /\ Goto("recover", findStalePublishPendingReviewIds, FALSE)
    /\ NoFault
    /\ UNCHANGED <<requireApproval, rows, deleted, others, events>>

\* Mutant: a claim that is lost ends the pass.
StopAtLostClaim ==
    /\ Turn("recover")
    /\ IF canClaimStale(current)
       THEN /\ Update(current, row[current].status, "PUBLISH_PENDING")
            /\ Goto("recover", sweeper.batch, TRUE)
       ELSE Goto("recover", <<>>, FALSE) /\ UNCHANGED rows
    /\ NoFault
    /\ UNCHANGED <<requireApproval, deleted, others, events>>

\* A claim lost to another process is passed over.
claimStalePublishPendingReview ==
    /\ Turn("recover")
    /\ IF canClaimStale(current)
       THEN /\ Update(current, row[current].status, "PUBLISH_PENDING")
            /\ Goto("recover", sweeper.batch, TRUE)
       ELSE Proceed /\ UNCHANGED rows
    /\ NoFault
    /\ UNCHANGED <<requireApproval, deleted, others, events>>

publishEligibleGeneratedReviews ==
    /\ sweeper.pass = "recover" /\ sweeper.batch = <<>>
    /\ IF requireApproval THEN Goto("idle", <<>>, FALSE)
       ELSE Goto("publish", findAutoPublishEligibleReviewIds, FALSE)
    /\ NoFault
    /\ UNCHANGED <<requireApproval, rows, deleted, others, events>>

\* publishReview up to its claim; whatever it throws, the next one follows.
ClaimEligible ==
    /\ Turn("publish")
    /\ \/ /\ canClaimReviewForPublishing(current)
          /\ Update(current, row[current].status, "PUBLISH_PENDING")
          /\ Goto("publish", sweeper.batch, TRUE)
          /\ NoFault
       \/ /\ ~canClaimReviewForPublishing(current)
          /\ Proceed
          /\ NoFault /\ UNCHANGED rows
       \/ Proceed /\ Fault /\ UNCHANGED rows
    /\ UNCHANGED <<requireApproval, deleted, others, events>>

\* What finalizeClaimedPublish records of a claim, if the row is still claimed;
\* else it throws.  A deleted review has no reply.
Resolve(r) ==
    \/ /\ row[r].reply = "PUBLISH_PENDING" /\ r \notin deleted
       /\ \/ Update(r, "PUBLISHED", "PUBLISHED")
          \/ Update(r, "PENDING_APPROVAL", "EXISTING_REPLY_FOUND")
       /\ NoFault
    \/ /\ row[r].reply = "PUBLISH_PENDING"
       /\ Update(r, row[r].status, "PUBLISH_FAILED")
       /\ IF r \in deleted THEN NoFault ELSE Fault
    \/ row[r].reply # "PUBLISH_PENDING" /\ NoFault /\ UNCHANGED rows
    \/ Fault /\ UNCHANGED rows

\* Whatever comes of it, the next one follows.
finalizeClaimedPublish ==
    /\ sweeper.holds
    /\ Resolve(current)
    /\ Proceed
    /\ UNCHANGED <<requireApproval, deleted, others, events>>

EndOfTick ==
    /\ sweeper.pass = "publish" /\ sweeper.batch = <<>>
    /\ Goto("idle", <<>>, FALSE)
    /\ NoFault
    /\ UNCHANGED <<requireApproval, rows, deleted, others, events>>

\* The process dies, or the database fails a listing or a claim of the
\* recovery, which nothing catches: the rest of the tick is lost, the listing
\* of the other pass included.
TickAborted ==
    /\ sweeper.pass # "idle"
    /\ Goto("idle", <<>>, FALSE)
    /\ Fault
    /\ UNCHANGED <<requireApproval, rows, deleted, others, events>>

Tick ==
    \/ runBackgroundSweep \/ claimStalePublishPendingReview
    \/ publishEligibleGeneratedReviews \/ ClaimEligible
    \/ finalizeClaimedPublish \/ EndOfTick

---------------------------------------------------------------------------
(* The rest of the system *)

Event == events < MaxEvents /\ events' = events + 1

\* Processing clears a review for auto-publishing, in any order.
Generate(r) ==
    /\ ~requireApproval
    /\ row[r].status = "RECEIVED"
    /\ Update(r, "GENERATED", row[r].reply)
    /\ UNCHANGED <<requireApproval, deleted, others, sweeper, events, faults>>

\* markApproved and updateFinalResponse, which leave the reply state alone.
AdminTakes(r) ==
    /\ Event
    /\ row[r].status = "GENERATED"
    /\ \E status \in {"APPROVED", "PENDING_APPROVAL"} : Update(r, status, row[r].reply)
    /\ UNCHANGED <<requireApproval, deleted, others, sweeper, faults>>

\* The deployment is changed: every process starts anew.
RequireApproval ==
    /\ ~requireApproval
    /\ sweeper.pass = "idle" /\ others = {}
    /\ requireApproval' = TRUE
    /\ UNCHANGED <<rows, deleted, others, sweeper, events, faults>>

\* Another process claims a review, and is done with it or dead.
OtherClaims(r) ==
    /\ Event
    /\ r \notin others
    /\ canClaimReviewForPublishing(r) \/ canClaimStale(r)
    /\ Update(r, row[r].status, "PUBLISH_PENDING")
    /\ others' = others \cup {r}
    /\ UNCHANGED <<requireApproval, deleted, sweeper, faults>>

OtherEnds(r) ==
    /\ r \in others
    /\ Resolve(r)
    /\ others' = others \ {r}
    /\ UNCHANGED <<requireApproval, deleted, sweeper, events>>

DeletedAtGoogle(r) ==
    /\ Event
    /\ deleted' = deleted \cup {r}
    /\ r \notin deleted
    /\ UNCHANGED <<requireApproval, rows, others, sweeper, faults>>

\* Time passes: the claim touched longest ago becomes stale, its holder slow
\* or dead.
Age ==
    /\ \E i \in DOMAIN pending :
          /\ pending[i] \notin stale
          /\ \A j \in 1..(i - 1) : pending[j] \in stale
          /\ stale' = stale \cup {pending[i]}
    /\ UNCHANGED <<requireApproval, row, pending, deleted, others, sweeper, events, faults>>

SweepNext ==
    \/ Tick \/ TickAborted
    \/ \E r \in Reviews :
          Generate(r) \/ AdminTakes(r) \/ OtherClaims(r) \/ OtherEnds(r)
             \/ DeletedAtGoogle(r)
    \/ RequireApproval
    \/ Age

\* A scheduler keeps calling, and time passes.
SweepFairness == WF_vars(Age) /\ WF_vars(Tick)

SweepSpec == SweepInit /\ [][SweepNext]_vars /\ SweepFairness

---------------------------------------------------------------------------
(***************************************************************************)
(* Types; the claimed rows are those whose reply state says so, and no     *)
(* batch is longer than the limit.                                         *)
(***************************************************************************)
SweepTypeOK ==
    /\ requireApproval \in BOOLEAN
    /\ \A r \in Reviews :
          /\ row[r].status \in {"RECEIVED", "GENERATED", "APPROVED", "PENDING_APPROVAL",
                                "PUBLISHED"}
          /\ row[r].reply \in PUBLISH_CLAIMABLE_REPLY_STATES \cup
                                {"PUBLISH_PENDING", "PUBLISHED", "EXISTING_REPLY_FOUND"}
    /\ IsInjective(pending)
    /\ Range(pending) = {r \in Reviews : row[r].reply = "PUBLISH_PENDING"}
    /\ stale \subseteq Range(pending)
    /\ deleted \subseteq Reviews
    /\ others \subseteq Reviews
    /\ sweeper.pass \in {"idle", "recover", "publish"}
    /\ sweeper.holds \in BOOLEAN
    /\ Range(sweeper.batch) \subseteq Reviews
    /\ Len(sweeper.batch) <= BatchLimit
    /\ events \in 0..MaxEvents
    /\ faults \in 0..MaxFaults

(***************************************************************************)
(* One review that another process has claimed, resolved or taken in hand  *)
(* does not cost the rest of the batch its turn (sweep.service.ts: must    *)
(* not abort the rest of the batch): candidates are given up only by a     *)
(* process that dies or a database that fails.                             *)
(***************************************************************************)
RestKeepsItsTurn ==
    [][sweeper.batch # <<>>
         => \/ sweeper'.batch \in {sweeper.batch, Tail(sweeper.batch)}
            \/ faults' > faults]_<<sweeper, faults>>

(***************************************************************************)
(* A claim does not stay for ever, whoever died over it, however often,    *)
(* and whatever the approval switch says since (the stuck-PUBLISH_PENDING  *)
(* gap of sweep.service.ts).                                               *)
(***************************************************************************)
StaleIsResolved ==
    \A r \in Reviews :
        row[r].reply = "PUBLISH_PENDING" ~> row[r].reply # "PUBLISH_PENDING"

(***************************************************************************)
(* A review cleared for auto-publishing is published in the end, or held   *)
(* for approval, unless as many reviews as a batch takes, all of them      *)
(* older, can never be published: they stay at the head of every listing.  *)
(***************************************************************************)
EligibleIsPublished ==
    \A r \in Reviews :
        row[r].status = "GENERATED"
            ~> \/ row[r].status # "GENERATED"
               \/ requireApproval
               \/ r \in deleted
               \/ Cardinality({d \in deleted : d < r}) >= BatchLimit
=============================================================================
