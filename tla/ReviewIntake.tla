---------------------------- MODULE ReviewIntake ----------------------------
(***************************************************************************)
(* How one customer review becomes a row with a draft: the Pub/Sub push    *)
(* route, reviews/pubsub.service.ts, reviews/ingest.service.ts and         *)
(* reviews/processing.service.ts, with the dashboard's buttons for the     *)
(* same operations (pull, process, regenerate).                            *)
(*                                                                         *)
(* A job is one request that runs this pipeline: a Pub/Sub delivery or an  *)
(* admin's request.  As in PublishWorkflow, one round trip is one step and *)
(* what was read earlier lives in the job's record.                        *)
(***************************************************************************)
EXTENDS Review, PublishingPolicy

CONSTANTS
    Deliveries,             \* pushes that may be running at once
    Admins,                 \* admin requests that may be running at once
    MaxVersion,             \* bound on how often the customer writes
    Words,                  \* Words[v]: rating and text of the v-th version
    RiskyTexts,             \* customer texts the keyword scan matches
    OwnSettings,            \* the location's business_settings row
    Named,                  \* notifications carry the review's resource name
    OneAtATime,             \* the single-writer assumption of markProcessing
    DatabaseMayFail,        \* a database round trip may fail
    MayCrash                \* the runtime may disappear in mid-request

Jobs == Deliveries \cup Admins
Versions == 1..MaxVersion

ASSUME IntakeAssumption ==
    /\ Deliveries \cap Admins = {}
    /\ MaxVersion \in Nat \ {0}
    /\ \A v \in Versions : Words[v].rating \in Ratings \cup {NoRating}
    /\ {Named, OneAtATime, DatabaseMayFail, MayCrash} \subseteq BOOLEAN

VARIABLES
    customer,   \* the version of the review that Google has, 0 before it exists
    notified,   \* versions whose notification Pub/Sub has yet to get acknowledged
    job,        \* each job's position and what it holds from earlier reads
    revisions,  \* versions kept in review_revisions
    (* History, read by properties only *)
    stored,     \* every version the row has ever held
    flagged,    \* a finished generation asked for human review
    drafted     \* versions a delivery has drafted a reply for

ivars == <<row, live, customer, notified, job, revisions, faults, stored,
           flagged, drafted>>
intakeHistory == <<stored, flagged, drafted>>

JobPcs == {"idle", "find", "insert", "revise", "apply", "read", "mark", "generate",
           "fail"}

(***************************************************************************)
(* version and replyState are those of the payload, then of the row that   *)
(* markProcessing returned; changed, oldVersion and editCount come from    *)
(* the row findReview returned, prior from the row processReview read.     *)
(***************************************************************************)
JobLocals ==
    [pc : JobPcs, message : Versions \cup {0}, version : Versions \cup {0},
     replyState : GOOGLE_REPLY_STATES, changed : BOOLEAN,
     oldVersion : Versions \cup {0}, editCount : Nat, prior : BOOLEAN]

NoJob ==
    [pc |-> "idle", message |-> 0, version |-> 0, replyState |-> "NONE",
     changed |-> FALSE, oldVersion |-> 0, editCount |-> 0, prior |-> FALSE]

JobAt(j, label) == job[j].pc = label
Become(j, l) == job' = [job EXCEPT ![j] = l]

\* The push handler returns 200 and Pub/Sub drops the message.
Acknowledge(j) == notified' = notified \ {job[j].message}

\* Job j is over; a delivery acknowledges its message, even after a failure
\* that ingestAndAutoProcess tallied instead of throwing.
Finish(j) == Become(j, NoJob) /\ Acknowledge(j)

Continue(j, l) == Become(j, l) /\ UNCHANGED notified

JobsInit ==
    /\ customer = 0
    /\ notified = {}
    /\ job = [j \in Jobs |-> NoJob]
    /\ revisions = {}
    /\ stored = {}
    /\ flagged = FALSE
    /\ drafted = {}

IntakeInit ==
    /\ row = NoRow
    /\ live = NoText
    /\ faults = 0
    /\ JobsInit

---------------------------------------------------------------------------
(* Google and Pub/Sub *)

\* The customer writes the review or edits it, and Google notifies.
CustomerWrites ==
    /\ customer < MaxVersion
    /\ customer' = customer + 1
    /\ notified' = notified \cup {customer + 1}
    /\ UNCHANGED <<row, live, job, revisions, faults, intakeHistory>>

\* Delivery is at least once: an acknowledged message may come again.
Redeliver ==
    /\ \E m \in 1..customer : notified' = notified \cup {m}
    /\ UNCHANGED <<row, live, customer, job, revisions, faults, intakeHistory>>

OwnerRepliesOnGoogle ==
    /\ live' \in OwnerTexts
    /\ UNCHANGED <<row, customer, notified, job, revisions, faults, intakeHistory>>

\* resolveReplyState
replyStateOf(reply) == IF reply = NoText THEN "NONE" ELSE "EXISTING_REPLY_FOUND"

Payload(m) ==
    [NoJob EXCEPT !.pc = "find", !.message = m, !.version = customer,
                  !.replyState = replyStateOf(live)]

\* Mutant: the targeted fetch, too, tallies a failure of Google.
DeliverTallying(j, m) ==
    /\ JobAt(j, "idle")
    /\ m \in notified
    /\ \/ Continue(j, Payload(m)) /\ UNCHANGED faults
       \/ Fault /\ notified' = notified \ {m} /\ UNCHANGED job
    /\ UNCHANGED <<row, live, customer, revisions, intakeHistory>>

(***************************************************************************)
(* A push is handled by asking Google for the review as it is now.  If     *)
(* Google fails, the targeted fetch answers 500 and the message stays; the *)
(* fallback resync tallies the failure and answers 200.                    *)
(***************************************************************************)
Deliver(j, m) ==
    /\ JobAt(j, "idle")
    /\ m \in notified
    /\ \/ Continue(j, Payload(m)) /\ UNCHANGED faults
       \/ /\ Fault
          /\ notified' = IF Named THEN notified ELSE notified \ {m}
          /\ UNCHANGED job
    /\ UNCHANGED <<row, live, customer, revisions, intakeHistory>>

\* The dashboard's pull, which ingests and drafts nothing.
Pull(j) ==
    /\ JobAt(j, "idle")
    /\ customer # 0
    /\ Continue(j, Payload(0))
    /\ UNCHANGED <<row, live, customer, revisions, faults, intakeHistory>>

---------------------------------------------------------------------------
(* ingestReview *)

(***************************************************************************)
(* The payload's updateTime ends in Z; the column, read back, ends in      *)
(* +00:00.  They are compared as strings, and Z sorts after +.             *)
(***************************************************************************)
payloadTime(v) == 2 * v + 1
columnTime(v) == 2 * v

\* Mutant: the create time is compared, which an edit does not move.
isStaleByCreateTime(v, r) == TRUE

isStaleOrDuplicate(v, r) == payloadTime(v) <= columnTime(r.version)

\* Mutant: any newer timestamp counts as changed content.
hasNewTimestamp(v, w) == TRUE

hasContentChanged(v, w) == Words[v] # Words[w]

\* Never downgrade a reply state that is already known about.
keptReplyState(found, known) == IF found = "NONE" THEN known ELSE found

\* A job whose ingest left the row in RECEIVED goes on to draft a reply.
AfterIngest(j, status) ==
    IF job[j].message # 0 /\ status = "RECEIVED"
    THEN Continue(j, [NoJob EXCEPT !.pc = "read", !.message = job[j].message])
    ELSE Finish(j)

Find(j) ==
    LET changed == hasContentChanged(job[j].version, row.version)
    IN  /\ JobAt(j, "find")
        /\ \/ /\ row.version = 0
              /\ Continue(j, [job[j] EXCEPT !.pc = "insert"])
              /\ UNCHANGED faults
           \/ /\ row.version # 0
              /\ isStaleOrDuplicate(job[j].version, row)
              /\ AfterIngest(j, row.status)
              /\ UNCHANGED faults
           \/ /\ row.version # 0
              /\ ~isStaleOrDuplicate(job[j].version, row)
              /\ Continue(j,
                   [job[j] EXCEPT !.pc = IF changed THEN "revise" ELSE "apply",
                                  !.replyState = keptReplyState(@, row.replyState),
                                  !.changed = changed,
                                  !.oldVersion = row.version,
                                  !.editCount = row.editCount])
              /\ UNCHANGED faults
           \/ DatabaseMayFail /\ Fault /\ Finish(j)
        /\ UNCHANGED <<row, live, customer, revisions, intakeHistory>>

(***************************************************************************)
(* One unguarded write by job j: it takes the row to new and Then follows, *)
(* or the round trip fails, applied or not, and Else follows.              *)
(***************************************************************************)
WriteRow(new, Then, Else) ==
    /\ \/ row' = new /\ Then /\ UNCHANGED faults
       \/ DatabaseMayFail /\ Fault /\ row' \in {row, new} /\ Else
    /\ stored' = stored \cup ({row'.version} \ {0})

Insert(j) ==
    LET new == insertReview(row, job[j].version, job[j].replyState)
    IN  /\ JobAt(j, "insert")
        /\ WriteRow(new, AfterIngest(j, new.status), Finish(j))
        /\ UNCHANGED <<live, customer, revisions, flagged, drafted>>

\* Mutant: the snapshot is taken of the payload instead of the stored row.
ReviseFromPayload(j) ==
    /\ JobAt(j, "revise")
    /\ revisions' = revisions \cup {job[j].version}
    /\ Continue(j, [job[j] EXCEPT !.pc = "apply"])
    /\ UNCHANGED <<row, live, customer, faults, intakeHistory>>

Revise(j) ==
    /\ JobAt(j, "revise")
    /\ \/ /\ revisions' = revisions \cup {job[j].oldVersion}
          /\ Continue(j, [job[j] EXCEPT !.pc = "apply"])
          /\ UNCHANGED faults
       \/ /\ DatabaseMayFail
          /\ Fault
          /\ revisions' \in {revisions, revisions \cup {job[j].oldVersion}}
          /\ Finish(j)
    /\ UNCHANGED <<row, live, customer, intakeHistory>>

Apply(j) ==
    LET new == applyReviewEdit(row, job[j].version, job[j].replyState,
                               job[j].changed, job[j].editCount)
    IN  /\ JobAt(j, "apply")
        /\ WriteRow(new, AfterIngest(j, new.status), Finish(j))
        /\ UNCHANGED <<live, customer, revisions, flagged, drafted>>

---------------------------------------------------------------------------
(* processReview, regenerateReviewResponse and runReviewGeneration *)

\* The process button enters processReview without a message.
Process(j) ==
    /\ JobAt(j, "idle")
    /\ row.version # 0
    /\ Continue(j, [NoJob EXCEPT !.pc = "read"])
    /\ UNCHANGED <<row, live, customer, revisions, faults, intakeHistory>>

Read(j) ==
    /\ JobAt(j, "read")
    /\ \/ /\ row.status = "RECEIVED"
          /\ Continue(j, [job[j] EXCEPT !.pc = "mark",
                                        !.prior = row.humanReviewRequired])
          /\ UNCHANGED faults
       \/ row.status # "RECEIVED" /\ Finish(j) /\ UNCHANGED faults
       \/ DatabaseMayFail /\ Fault /\ Finish(j)
    /\ UNCHANGED <<row, live, customer, revisions, intakeHistory>>

Regenerate(j) ==
    /\ JobAt(j, "idle")
    /\ row.status \in REGENERATABLE_STATUSES
    /\ Continue(j, [NoJob EXCEPT !.pc = "mark", !.prior = row.humanReviewRequired])
    /\ UNCHANGED <<row, live, customer, revisions, faults, intakeHistory>>

Mark(j) ==
    LET new == markProcessing(row)
    IN  /\ JobAt(j, "mark")
        /\ WriteRow(new,
                    Continue(j, [job[j] EXCEPT !.pc = "generate",
                                               !.version = new.version,
                                               !.replyState = new.replyState]),
                    Finish(j))
        /\ UNCHANGED <<live, customer, revisions, flagged, drafted>>

\* What this attempt concludes from what the model reported.
Evaluation(j, ai) ==
    evaluateReviewForPublishing(
        Words[job[j].version].rating, Words[job[j].version].text \in RiskyTexts,
        job[j].replyState # "NONE", ai, OwnSettings, job[j].prior, RequireApprovalForAll)

statusFor(decision) ==
    IF decision = "AUTO_PUBLISH" THEN "GENERATED" ELSE "PENDING_APPROVAL"

\* The model's answer and the write that keeps it.  A failure of either ends
\* in the catch block, at "fail".
Generate(j) ==
    /\ JobAt(j, "generate")
    /\ \E draft \in AiTexts, ai \in [risk : RISK_LEVELS, needsHumanReview : BOOLEAN] :
           LET e == Evaluation(j, ai)
               new == saveGeneratedResponse(row, draft, e.humanReviewRequired,
                                            statusFor(e.decision))
           IN  /\ WriteRow(new, Finish(j), Continue(j, [job[j] EXCEPT !.pc = "fail"]))
               /\ flagged' = (flagged \/ (row' = new /\ e.needsHumanReview))
               /\ drafted' = IF row' = new /\ job[j].message # 0
                             THEN drafted \cup {job[j].version} ELSE drafted
    /\ UNCHANGED <<live, customer, revisions>>

\* generateReviewResponse throws: a refusal, an invalid answer, or OpenAI down.
ModelFails(j) ==
    /\ JobAt(j, "generate")
    /\ Continue(j, [job[j] EXCEPT !.pc = "fail"])
    /\ UNCHANGED <<row, live, customer, revisions, faults, intakeHistory>>

MarkFailed(j) ==
    /\ JobAt(j, "fail")
    /\ WriteRow(markProcessingFailed(row), Finish(j), Finish(j))
    /\ UNCHANGED <<live, customer, revisions, flagged, drafted>>

---------------------------------------------------------------------------
\* The runtime disappears: nothing is acknowledged and no catch block runs.
Abort(j) ==
    /\ MayCrash
    /\ ~JobAt(j, "idle")
    /\ Fault
    /\ Become(j, NoJob)
    /\ UNCHANGED <<row, live, customer, notified, revisions, intakeHistory>>

JobContinues(j) ==
    \/ Find(j) \/ Insert(j) \/ Revise(j) \/ Apply(j)
    \/ Read(j) \/ Mark(j) \/ Generate(j) \/ ModelFails(j) \/ MarkFailed(j)

JobStarts(j) ==
    \/ j \in Deliveries /\ \E m \in Versions : Deliver(j, m)
    \/ j \in Admins /\ (Pull(j) \/ Process(j) \/ Regenerate(j))

\* No two jobs are under way, if that is assumed.
SingleJob ==
    OneAtATime => \A j, k \in Jobs : ~JobAt(j, "idle") /\ ~JobAt(k, "idle") => j = k

Pipeline ==
    /\ \E j \in Jobs : JobStarts(j) \/ JobContinues(j) \/ Abort(j)
    /\ SingleJob'

World == CustomerWrites \/ Redeliver \/ OwnerRepliesOnGoogle

IntakeNext == Pipeline \/ World

IntakeSpec == IntakeInit /\ [][IntakeNext]_ivars

\* Pub/Sub keeps pushing what is not acknowledged, and a job that has started
\* runs on.
IntakeFairSpec ==
    /\ IntakeSpec
    /\ \A j \in Deliveries :
           /\ WF_ivars(JobContinues(j) /\ SingleJob')
           /\ WF_ivars(JobStarts(j) /\ SingleJob')

---------------------------------------------------------------------------
(* Properties *)

\* Every variable stays in its range, and a job that generates works on a
\* version the row has held.
IntakeTypeOK ==
    /\ row \in ReviewRows
    /\ live \in TextOrNull
    /\ customer \in 0..MaxVersion
    /\ notified \subseteq 1..customer
    /\ job \in [Jobs -> JobLocals]
    /\ \A j \in Jobs : JobAt(j, "generate") => job[j].version \in stored
    /\ revisions \subseteq stored
    /\ faults \in 0..MaxFaults
    /\ drafted \subseteq stored

\* Once any generation asked for a human, the row says so for good, through
\* regenerations, the customer's edits and failures (0002_hardening.sql).
FlagSticks == flagged => row.humanReviewRequired

\* What a draft needs to post itself.
Earned ==
    /\ ~RequireApprovalForAll
    /\ Words[row.version].rating >= 4
    /\ Words[row.version].text \notin RiskyTexts
    /\ ~flagged

\* A row that may post itself earned it with the words it now holds: four or
\* five stars, no keyword, nobody ever asked for a human, no approval for all.
GeneratedIsEarned == row.status = "GENERATED" => Earned

\* Words the customer once wrote are still in the row or in review_revisions,
\* even if the edit that replaced them failed half-way (ingest.service.ts).
NoWordsLost ==
    \A v \in stored : \E w \in revisions \cup {row.version} : Words[v] = Words[w]

\* No redelivery makes a delivery draft a version a second time: the idempotency
\* layers of ingest.service.ts and processing.service.ts taken together.
DraftedOnce ==
    \A j \in Deliveries : JobAt(j, "generate") => job[j].version \notin drafted

\* A notification is acknowledged only when the row has what it told of, so
\* what a crash or a failing Google interrupts is delivered again.
AckedIsStored == \A m \in 1..customer : m \in notified \/ row.version >= m

\* The customer's last words reach the row and come to be drafted, or shown to a
\* human as FAILED, however often Google fails or a message comes twice.  Only a
\* fault, a crash between markProcessing and the outcome, leaves them PROCESSING.
LastWordsAreHandled ==
    <>[](customer # 0 => /\ row.version = customer
                         /\ row.status # "RECEIVED"
                         /\ row.status = "PROCESSING" => faults > 0)
=============================================================================
