---------------------------- MODULE ReviewSystem ----------------------------
(***************************************************************************)
(* The whole life of one review: ReviewIntake brings the customer's words  *)
(* into the row and drafts a reply, PublishWorkflow gets it approved and   *)
(* onto Google.  The two share the row and the reply on Google, and what   *)
(* either holds from an earlier read the other may outdate.                *)
(***************************************************************************)
EXTENDS PublishWorkflow, ReviewIntake

CONSTANT JobsAlone   \* nothing else is under way while a job is

ASSUME WriterAssumption ==
    /\ JobsAlone \in BOOLEAN
    /\ Procs \cap Jobs = {}

VARIABLES
    (* History, read by properties only *)
    approvedFor,    \* the version in the row when it was last approved
    redone          \* ingestion or generation has written the row under its claim

intakeVars == <<customer, notified, job, revisions, stored, flagged, drafted>>
systemVars == <<vars, intakeVars, approvedFor, redone>>

SystemInit ==
    /\ row = NoRow
    /\ live = NoText
    /\ local = [p \in Procs |-> Idle]
    /\ faults = 0
    /\ approvals = {}
    /\ shown = {}
    /\ raced = {}
    /\ approvedFor = 0
    /\ redone = FALSE
    /\ JobsInit

WorkingJobs == {j \in Jobs : ~JobAt(j, "idle")}

\* Jobs, requests and sweeps in the middle of something.
Busy == {p \in Procs : Running(p)} \cup WorkingJobs

(***************************************************************************)
(* The single writer that markProcessing assumes.  Requests and sweeps have*)
(* their WHERE clauses and may overlap one another; the statements of a job*)
(* have none.                                                              *)
(***************************************************************************)
Alone == JobsAlone => \A a \in WorkingJobs, b \in Busy : a = b

Publishing ==
    /\ Next
    /\ approvedFor' = IF row'.status = "APPROVED" /\ row.status # "APPROVED"
                      THEN row.version ELSE approvedFor
    /\ redone' = (redone /\ holdsClaim(row'))
    /\ UNCHANGED intakeVars

Taking ==
    /\ Pipeline
    /\ redone' = (holdsClaim(row') /\ (redone \/ ~UNCHANGED <<row, flagged>>))
    /\ UNCHANGED <<local, approvals, shown, raced, approvedFor>>

Outside ==
    /\ CustomerWrites \/ Redeliver
    /\ UNCHANGED <<local, approvals, shown, raced, approvedFor, redone>>

SystemNext == (Publishing \/ Taking \/ Outside) /\ Alone'

SystemSpec == SystemInit /\ [][SystemNext]_systemVars

---------------------------------------------------------------------------
(* Properties *)

\* A review counts as approved only for the words it was approved with: the
\* customer's edit, however it interleaves with crashes and the sweep, sends it
\* back through generation and a human (applyReviewEdit, markApproved).
ApprovalIsCurrent ==
    row.status = "APPROVED" => Words[approvedFor] = Words[row.version]

\* What was published stays recorded as it was, through the customer's later
\* edits and the drafts made for them (0003_published_by.sql).
SystemPublishedOnce ==
    [][row.publishedAt =>
          /\ row'.publishedAt
          /\ row'.publishedBy = row.publishedBy]_row

(***************************************************************************)
(* Once a reply of somebody else's has been found on Google the review is  *)
(* closed for good to the application: no request, no edit of the          *)
(* customer's and no run of the sweep brings its reply state back to one   *)
(* that can be claimed (markPublishBlockedByExistingReply of               *)
(* publishing.service.ts, never downgraded by ingest.service.ts).          *)
(***************************************************************************)
BlockedForGood ==
    [][row.replyState = "EXISTING_REPLY_FOUND" => row'.replyState = "EXISTING_REPLY_FOUND"]_row

(***************************************************************************)
(* A reply that nobody approved goes out only while the words in the row   *)
(* have earned it, whatever edits, new drafts, crashes and sweeps came     *)
(* between the verdict and the PUT (publishing-policy.ts decides,          *)
(* sweep.service.ts publishes).  The exception is a claim that a crash     *)
(* left behind and under which the review was ingested or drafted anew:    *)
(* the stale pass does not look at what came of that.                      *)
(***************************************************************************)
AutoPostIsEarned ==
    \A p \in Procs :
        local[p].pc \in {"check", "put"} /\ local[p].by = "auto" => Earned \/ redone
=============================================================================
