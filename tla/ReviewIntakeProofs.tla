------------------------- MODULE ReviewIntakeProofs -------------------------
(***************************************************************************)
(* Proofs about ReviewIntake, for any number of versions, deliveries,      *)
(* admins and faults and whatever the customer writes.  Types hold however *)
(* requests overlap; the rest is proved where they do not, as              *)
(* processing.service.ts assumes.                                          *)
(***************************************************************************)
EXTENDS ReviewIntake, TLAPS

---------------------------------------------------------------------------
(* Types *)

Ingesting == {"find", "insert", "revise", "apply"}
Drafting == {"read", "mark", "generate", "fail"}

\* What a job at each of its positions may rely on, whoever else is at work.
JobIsSound(j) ==
    /\ job[j].pc \in Ingesting => job[j].version \in 1..customer
    /\ job[j].pc \in {"revise", "apply"} => job[j].oldVersion \in stored
    /\ job[j].pc \in Drafting => row.version # 0

\* The row and its versions; there is nothing of a review without a row.
VersionsInv ==
    /\ row.version \in 0..customer
    /\ row.version # 0 => row.version \in stored
    /\ row.version = 0 => row = NoRow /\ stored = {}
    /\ stored \subseteq 1..customer

IntakeInv ==
    /\ IntakeTypeOK
    /\ VersionsInv
    /\ \A j \in Jobs : JobIsSound(j)

LEMMA NoJobType == NoJob \in JobLocals /\ NoJob.pc = "idle"
  BY DEF NoJob, JobLocals, JobPcs, GOOGLE_REPLY_STATES

LEMMA IntakeTypeInit == IntakeInit => IntakeInv
<1> SUFFICES ASSUME IntakeInit PROVE IntakeInv
  OBVIOUS
<1>1. row \in ReviewRows
  BY DEF IntakeInit, NoRow, ReviewRows, REVIEW_STATUSES, GOOGLE_REPLY_STATES, TextOrNull
<1>2. row.version = 0 /\ row = NoRow
  BY DEF IntakeInit, NoRow
<1>3. job \in [Jobs -> JobLocals] /\ \A j \in Jobs : JobAt(j, "idle")
  BY NoJobType DEF IntakeInit, JobsInit, JobAt
<1>4. MaxVersion \in Nat /\ MaxFaults \in Nat
  BY IntakeAssumption, ReviewAssumption
<1>5. IntakeTypeOK
  BY <1>1, <1>3, <1>4 DEF IntakeInit, JobsInit, IntakeTypeOK, JobAt, TextOrNull
<1> QED
  BY <1>2, <1>3, <1>5
  DEF IntakeInit, JobsInit, IntakeInv, VersionsInv, JobIsSound, JobAt, Ingesting, Drafting

\* The statements leave a row a row.
LEMMA InsertRow ==
    ASSUME NEW r \in ReviewRows, NEW v \in Nat, NEW s \in GOOGLE_REPLY_STATES
    PROVE  LET new == insertReview(r, v, s) IN
           /\ new \in ReviewRows
           /\ new.version = v
           /\ new.status = "RECEIVED"
           /\ new.humanReviewRequired = r.humanReviewRequired
<1>1. "RECEIVED" \in REVIEW_STATUSES
  BY DEF REVIEW_STATUSES
<1> QED
  BY <1>1 DEF insertReview, set_updated_at, ReviewRows

LEMMA EditRow ==
    ASSUME NEW r \in ReviewRows, NEW l \in JobLocals
    PROVE  LET new == applyReviewEdit(r, l.version, l.replyState, l.changed, l.editCount)
           IN  /\ l.version \in Nat => new \in ReviewRows
               /\ new.version = l.version
               /\ l.changed = TRUE => new.status = "RECEIVED"
               /\ l.changed = FALSE => new.status = r.status
               /\ new.humanReviewRequired = r.humanReviewRequired
<1> DEFINE new == applyReviewEdit(r, l.version, l.replyState, l.changed, l.editCount)
<1>1. /\ "RECEIVED" \in REVIEW_STATUSES /\ l.editCount \in Nat
      /\ l.editCount + 1 \in Nat /\ l.replyState \in GOOGLE_REPLY_STATES
      /\ l.changed \in BOOLEAN
  BY DEF REVIEW_STATUSES, JobLocals
<1>2. CASE l.changed = TRUE
  <2>1. new = [r EXCEPT !.version = l.version, !.replyState = l.replyState,
                        !.editCount = l.editCount + 1, !.status = "RECEIVED",
                        !.aged = FALSE]
    BY <1>2 DEF applyReviewEdit, set_updated_at, ReviewRows
  <2> QED
    BY <1>1, <1>2, <2>1 DEF ReviewRows
<1>3. CASE l.changed = FALSE
  <2>1. new = [r EXCEPT !.version = l.version, !.replyState = l.replyState,
                        !.aged = FALSE]
    BY <1>3 DEF applyReviewEdit, set_updated_at, ReviewRows
  <2> QED
    BY <1>1, <1>3, <2>1 DEF ReviewRows
<1> QED
  BY <1>1, <1>2, <1>3

LEMMA ProcessingRow ==
    ASSUME NEW r \in ReviewRows
    PROVE  LET new == markProcessing(r) IN
           /\ new \in ReviewRows
           /\ new.status = "PROCESSING"
           /\ new.version = r.version /\ new.replyState = r.replyState
           /\ new.humanReviewRequired = r.humanReviewRequired
<1>1. "PROCESSING" \in REVIEW_STATUSES
  BY DEF REVIEW_STATUSES
<1> QED
  BY <1>1 DEF markProcessing, set_updated_at, ReviewRows

LEMMA FailedRow ==
    ASSUME NEW r \in ReviewRows
    PROVE  LET new == markProcessingFailed(r) IN
           /\ new \in ReviewRows
           /\ new.status = "FAILED"
           /\ new.version = r.version
           /\ new.humanReviewRequired = r.humanReviewRequired
<1>1. "FAILED" \in REVIEW_STATUSES
  BY DEF REVIEW_STATUSES
<1> QED
  BY <1>1 DEF markProcessingFailed, set_updated_at, ReviewRows

LEMMA GeneratedRow ==
    ASSUME NEW r \in ReviewRows, NEW d \in AiTexts, NEW h \in BOOLEAN,
           NEW s \in REVIEW_STATUSES
    PROVE  LET new == saveGeneratedResponse(r, d, h, s) IN
           /\ new \in ReviewRows
           /\ new.version = r.version
           /\ new.status = s
           /\ new.humanReviewRequired = h
<1>1. AiTexts \subseteq TextOrNull
  BY DEF TextOrNull, Texts
<1> QED
  BY <1>1 DEF saveGeneratedResponse, set_updated_at, ReviewRows

\* What this attempt concludes; only an earned draft may post itself.
LEMMA EvaluationFacts ==
    ASSUME NEW j \in Jobs, job[j].prior \in BOOLEAN, job[j].version \in Versions,
           NEW ai \in [risk : RISK_LEVELS, needsHumanReview : BOOLEAN]
    PROVE  LET e == Evaluation(j, ai) IN
           /\ e.needsHumanReview \in BOOLEAN
           /\ e.humanReviewRequired \in BOOLEAN
           /\ e.humanReviewRequired <=> job[j].prior \/ e.needsHumanReview
           /\ e.decision = "AUTO_PUBLISH" =>
                 /\ ~RequireApprovalForAll
                 /\ Words[job[j].version].rating >= 4
                 /\ Words[job[j].version].text \notin RiskyTexts
                 /\ ~e.humanReviewRequired
           /\ statusFor(e.decision) \in {"GENERATED", "PENDING_APPROVAL"}
           /\ statusFor(e.decision) = "GENERATED" => e.decision = "AUTO_PUBLISH"
<1> DEFINE keyword == Words[job[j].version].text \in RiskyTexts
           rating == Words[job[j].version].rating
           c == classifyRisk(keyword, ai.risk, ai.needsHumanReview)
           e == Evaluation(j, ai)
<1>1. rating \in Ratings \cup {NoRating} /\ RequireApprovalForAll \in BOOLEAN
  BY IntakeAssumption, ReviewAssumption DEF Versions
<1>2. /\ e.needsHumanReview = c.needsHumanReview
      /\ e.humanReviewRequired = (job[j].prior \/ c.needsHumanReview)
      /\ e.decision = decidePublishing(rating, c.riskLevel, e.humanReviewRequired,
                                       job[j].replyState # "NONE", OwnSettings,
                                       RequireApprovalForAll)
  BY DEF Evaluation, evaluateReviewForPublishing, humanReviewStaysRequired
<1>3. c.needsHumanReview \in BOOLEAN
  BY DEF classifyRisk
<1>4. keyword => c.riskLevel # "low"
  BY DEF classifyRisk, maxRisk, RISK_RANK, RISK_LEVELS
<1> HIDE DEF c, e
<1>5. e.decision = "AUTO_PUBLISH" =>
          ~mandatoryApproval(rating, c.riskLevel, e.humanReviewRequired, RequireApprovalForAll)
  BY <1>2 DEF decidePublishing
<1>6. e.decision = "AUTO_PUBLISH" =>
          /\ ~RequireApprovalForAll /\ rating >= 4 /\ ~keyword /\ ~e.humanReviewRequired
  BY <1>1, <1>4, <1>5 DEF mandatoryApproval, Ratings, NoRating
<1>7. /\ statusFor(e.decision) \in {"GENERATED", "PENDING_APPROVAL"}
      /\ statusFor(e.decision) = "GENERATED" => e.decision = "AUTO_PUBLISH"
  BY DEF statusFor
<1> QED
  BY <1>2, <1>3, <1>6, <1>7 DEF e

\* What a job's step leaves of the jobs.
JobsBut(j) ==
    /\ job' \in [Jobs -> JobLocals]
    /\ \A k \in Jobs \ {j} : job'[k] = job[k]

LEMMA BecomeForm ==
    ASSUME IntakeInv, NEW j \in Jobs, NEW l \in JobLocals, Become(j, l)
    PROVE  JobsBut(j) /\ job'[j] = l
  BY DEF IntakeInv, IntakeTypeOK, Become, JobsBut

LEMMA FinishForm ==
    ASSUME IntakeInv, NEW j \in Jobs, Finish(j)
    PROVE  /\ JobsBut(j) /\ job'[j] = NoJob
           /\ notified' \subseteq notified
           /\ JobIsSound(j)'
  BY NoJobType, BecomeForm DEF Finish, Acknowledge, JobIsSound, Ingesting, Drafting

LEMMA AfterIngestForm ==
    ASSUME IntakeInv, NEW j \in Jobs, NEW status, AfterIngest(j, status),
           row'.version # 0
    PROVE  /\ JobsBut(j)
           /\ notified' \subseteq notified
           /\ JobIsSound(j)'
           /\ \/ job'[j] = NoJob
              \/ job'[j] = [NoJob EXCEPT !.pc = "read", !.message = job[j].message]
<1>1. job[j].message \in Versions \cup {0}
  BY DEF IntakeInv, IntakeTypeOK, JobLocals
<1>2. /\ [NoJob EXCEPT !.pc = "read", !.message = job[j].message] \in JobLocals
      /\ [NoJob EXCEPT !.pc = "read", !.message = job[j].message].pc = "read"
  BY <1>1, NoJobType DEF JobLocals, JobPcs
<1>3. CASE Finish(j)
  BY <1>3, FinishForm
<1>4. CASE Continue(j, [NoJob EXCEPT !.pc = "read", !.message = job[j].message])
  BY <1>2, <1>4, BecomeForm DEF Continue, JobIsSound, Ingesting, Drafting
<1> QED
  BY <1>3, <1>4 DEF AfterIngest

\* A step of job j that keeps the row and the versions in order.
LEMMA TypeGoesOn ==
    ASSUME IntakeInv, NEW j \in Jobs, JobsBut(j), JobIsSound(j)',
           job'[j].pc = "generate" => job'[j].version \in stored',
           row' \in ReviewRows, row'.version \in 0..customer,
           row'.version = 0 => row' = row,
           UNCHANGED <<live, customer>>,
           notified' \subseteq notified,
           stored' = stored \cup ({row'.version} \ {0}),
           revisions' \subseteq stored', drafted' \subseteq stored',
           UNCHANGED faults \/ Fault
    PROVE  IntakeInv'
<1>1. customer \in Nat
  BY IntakeAssumption DEF IntakeInv, IntakeTypeOK
<1>2. faults' \in 0..MaxFaults
  BY ReviewAssumption DEF IntakeInv, IntakeTypeOK, Fault
<1>3. stored \subseteq stored'
  OBVIOUS
<1>4. \A k \in Jobs : job'[k].pc = "generate" => job'[k].version \in stored'
  BY <1>3 DEF IntakeInv, IntakeTypeOK, JobsBut, JobAt
<1>5. IntakeTypeOK'
  BY <1>2, <1>4 DEF IntakeInv, IntakeTypeOK, JobsBut, JobAt
<1>6. VersionsInv'
  <2>1. /\ row.version \in 0..customer
        /\ row.version = 0 => row = NoRow /\ stored = {}
        /\ stored \subseteq 1..customer
    BY DEF IntakeInv, VersionsInv
  <2>2. stored' \subseteq 1..customer'
    <3>1. ASSUME NEW v \in stored' PROVE v \in 1..customer
      <4>1. CASE v \in stored
        BY <2>1, <4>1
      <4>2. CASE v = row'.version /\ v # 0
        BY <1>1, <4>2
      <4> QED
        BY <4>1, <4>2
    <3> QED
      BY <3>1
  <2>3. row'.version # 0 => row'.version \in stored'
    OBVIOUS
  <2>4. row'.version = 0 => row' = NoRow /\ stored' = {}
    BY <2>1
  <2> QED
    BY <2>2, <2>3, <2>4 DEF VersionsInv
<1>7. ASSUME NEW k \in Jobs PROVE JobIsSound(k)'
  <2>1. CASE k # j
    BY <1>3, <2>1 DEF IntakeInv, JobsBut, JobIsSound
  <2> QED
    BY <2>1
<1> QED
  BY <1>5, <1>6, <1>7 DEF IntakeInv

\* A step that leaves the row alone.
LEMMA TypeStays ==
    ASSUME IntakeInv, NEW j \in Jobs, JobsBut(j), JobIsSound(j)',
           job'[j].pc = "generate" => job'[j].version \in stored,
           UNCHANGED <<row, live, customer, stored, drafted>>,
           notified' \subseteq notified, revisions' \subseteq stored,
           UNCHANGED faults \/ Fault
    PROVE  IntakeInv'
<1>1. stored = stored \cup ({row.version} \ {0})
  BY DEF IntakeInv, VersionsInv
<1>2. /\ row \in ReviewRows /\ row.version \in 0..customer
      /\ drafted \subseteq stored
  BY DEF IntakeInv, IntakeTypeOK, VersionsInv
<1> QED
  BY <1>1, <1>2, TypeGoesOn

\* A job that writes: its row is what WriteRow makes of it.
LEMMA TypeWrites ==
    ASSUME IntakeInv, NEW j \in Jobs, JobsBut(j), JobIsSound(j)',
           job'[j].pc = "generate" => job'[j].version \in stored',
           NEW new \in ReviewRows, new.version \in 1..customer, row' \in {row, new},
           stored' = stored \cup ({row'.version} \ {0}),
           UNCHANGED <<live, customer, revisions>>,
           notified' \subseteq notified,
           drafted' \subseteq stored',
           UNCHANGED faults \/ Fault
    PROVE  IntakeInv'
<1>1. /\ row \in ReviewRows /\ row.version \in 0..customer
      /\ revisions \subseteq stored
  BY DEF IntakeInv, IntakeTypeOK, VersionsInv
<1>2. customer \in Nat
  BY IntakeAssumption DEF IntakeInv, IntakeTypeOK
<1>3. row' \in ReviewRows /\ row'.version \in 0..customer
  BY <1>1, <1>2
<1>4. row'.version = 0 => row' = row
  BY <1>1, <1>2
<1>5. revisions' \subseteq stored'
  BY <1>1
<1> QED
  BY <1>3, <1>4, <1>5, TypeGoesOn

LEMMA DeliverTypes ==
    ASSUME IntakeInv, NEW j \in Jobs, NEW m \in Versions, Deliver(j, m) PROVE IntakeInv'
<1>1. /\ JobAt(j, "idle") /\ m \in 1..customer /\ customer \in Versions
      /\ live \in TextOrNull /\ job \in [Jobs -> JobLocals]
      /\ row \in ReviewRows /\ revisions \subseteq stored
  BY IntakeAssumption DEF IntakeInv, IntakeTypeOK, Deliver, Versions
<1>2. /\ UNCHANGED <<row, live, customer, revisions, stored, drafted>>
      /\ notified' \subseteq notified
  BY DEF Deliver, Continue, intakeHistory
<1>3. CASE Continue(j, Payload(m)) /\ UNCHANGED faults
  <2>1. Payload(m) \in JobLocals /\ Payload(m).pc = "find"
           /\ Payload(m).version = customer
    BY <1>1, NoJobType
    DEF Payload, JobLocals, JobPcs, replyStateOf, GOOGLE_REPLY_STATES
  <2>2. JobsBut(j) /\ job'[j] = Payload(m)
    BY <1>3, <2>1, BecomeForm DEF Continue
  <2>3. JobIsSound(j)'
    BY <1>1, <1>2, <2>1, <2>2 DEF JobIsSound, Drafting, Versions
  <2> QED
    BY <1>1, <1>2, <1>3, <2>1, <2>2, <2>3, TypeStays
<1>4. CASE Fault /\ UNCHANGED job
  <2>1. JobsBut(j) /\ job'[j].pc = "idle"
    BY <1>1, <1>4 DEF JobsBut, JobAt
  <2>2. JobIsSound(j)'
    BY <2>1 DEF JobIsSound, Ingesting, Drafting
  <2> QED
    BY <1>1, <1>2, <1>4, <2>1, <2>2, TypeStays
<1> QED
  BY <1>3, <1>4 DEF Deliver

LEMMA PullTypes ==
    ASSUME IntakeInv, NEW j \in Jobs, Pull(j) PROVE IntakeInv'
<1>1. /\ customer # 0 /\ customer \in Versions /\ revisions \subseteq stored
      /\ live \in TextOrNull
  BY IntakeAssumption DEF IntakeInv, IntakeTypeOK, Pull, Versions
<1>2. Payload(0) \in JobLocals /\ Payload(0).pc = "find" /\ Payload(0).version = customer
  BY <1>1, NoJobType
  DEF Payload, JobLocals, JobPcs, replyStateOf, GOOGLE_REPLY_STATES
<1>3. JobsBut(j) /\ job'[j] = Payload(0)
  BY <1>2, BecomeForm DEF Pull, Continue
<1>4. JobIsSound(j)'
  BY <1>1, <1>2, <1>3 DEF Pull, JobIsSound, Drafting, Versions
<1> QED
  BY <1>1, <1>2, <1>3, <1>4, TypeStays DEF Pull, Continue, intakeHistory

LEMMA ProcessTypes ==
    ASSUME IntakeInv, NEW j \in Jobs, Process(j) PROVE IntakeInv'
<1>1. [NoJob EXCEPT !.pc = "read"] \in JobLocals /\ [NoJob EXCEPT !.pc = "read"].pc = "read"
  BY NoJobType DEF JobLocals, JobPcs
<1>2. JobsBut(j) /\ job'[j] = [NoJob EXCEPT !.pc = "read"]
  BY <1>1, BecomeForm DEF Process, Continue
<1>3. JobIsSound(j)'
  BY <1>1, <1>2 DEF Process, JobIsSound, Ingesting
<1> QED
  BY <1>1, <1>2, <1>3, TypeStays
  DEF Process, Continue, intakeHistory, IntakeInv, IntakeTypeOK

LEMMA RegenerateTypes ==
    ASSUME IntakeInv, NEW j \in Jobs, Regenerate(j) PROVE IntakeInv'
<1> DEFINE l == [NoJob EXCEPT !.pc = "mark", !.prior = row.humanReviewRequired]
<1>1. row \in ReviewRows
  BY DEF IntakeInv, IntakeTypeOK
<1>2. l \in JobLocals /\ l.pc = "mark"
  BY <1>1, NoJobType DEF JobLocals, JobPcs, ReviewRows
<1>3. row.version # 0
  BY DEF IntakeInv, VersionsInv, NoRow, Regenerate, REGENERATABLE_STATUSES
<1> HIDE DEF l
<1>4. JobsBut(j) /\ job'[j] = l
  BY <1>2, BecomeForm DEF Regenerate, Continue, l
<1>5. JobIsSound(j)'
  BY <1>2, <1>3, <1>4 DEF Regenerate, JobIsSound, Ingesting
<1> QED
  BY <1>2, <1>4, <1>5, TypeStays
  DEF Regenerate, Continue, intakeHistory, IntakeInv, IntakeTypeOK

LEMMA AbortTypes ==
    ASSUME IntakeInv, NEW j \in Jobs, Abort(j) PROVE IntakeInv'
<1>1. JobsBut(j) /\ job'[j] = NoJob
  BY NoJobType, BecomeForm DEF Abort
<1>2. JobIsSound(j)'
  BY <1>1, NoJobType DEF JobIsSound, Ingesting, Drafting
<1> QED
  BY <1>1, <1>2, NoJobType, TypeStays DEF Abort, intakeHistory, IntakeInv, IntakeTypeOK

LEMMA WorldTypes ==
    ASSUME IntakeInv, World PROVE IntakeInv'
<1>1. customer \in Nat /\ MaxVersion \in Nat
  BY IntakeAssumption DEF IntakeInv, IntakeTypeOK
<1>2. CASE CustomerWrites
  <2>1. customer' \in 0..MaxVersion /\ 1..customer \subseteq 1..customer'
           /\ 0..customer \subseteq 0..customer' /\ customer + 1 \in 1..customer'
    BY <1>1, <1>2 DEF CustomerWrites
  <2>2. IntakeTypeOK'
    BY <1>2, <2>1
    DEF CustomerWrites, intakeHistory, IntakeInv, IntakeTypeOK, JobAt
  <2>3. VersionsInv'
    BY <1>2, <2>1 DEF CustomerWrites, intakeHistory, IntakeInv, VersionsInv
  <2> QED
    BY <1>2, <2>1, <2>2, <2>3 DEF CustomerWrites, intakeHistory, IntakeInv, JobIsSound
<1>3. CASE Redeliver
  BY <1>3
  DEF Redeliver, intakeHistory, IntakeInv, IntakeTypeOK, VersionsInv, JobIsSound, JobAt
<1>4. CASE OwnerRepliesOnGoogle
  BY <1>4
  DEF OwnerRepliesOnGoogle, intakeHistory, IntakeInv, IntakeTypeOK, VersionsInv,
      JobIsSound, JobAt, TextOrNull, Texts
<1> QED
  BY <1>2, <1>3, <1>4 DEF World

\* What the jobs hold, by their positions.
LEMMA JobFacts ==
    ASSUME IntakeInv, NEW j \in Jobs
    PROVE  /\ job[j] \in JobLocals /\ row \in ReviewRows
           /\ customer \in Versions \cup {0} /\ customer \in Nat
           /\ revisions \subseteq stored /\ drafted \subseteq stored
           /\ stored \subseteq 1..customer /\ 1..customer \subseteq Versions
           /\ row.version \in 0..customer
           /\ row.version # 0 => row.version \in stored
           /\ JobIsSound(j)
           /\ JobAt(j, "generate") => job[j].version \in stored
  BY IntakeAssumption DEF IntakeInv, IntakeTypeOK, VersionsInv, Versions

LEMMA FindTypes ==
    ASSUME IntakeInv, NEW j \in Jobs, Find(j) PROVE IntakeInv'
<1> USE JobFacts
<1>1. /\ JobAt(j, "find") /\ job[j].version \in 1..customer
      /\ UNCHANGED <<row, live, customer, revisions, stored, drafted>>
  BY DEF Find, intakeHistory, JobIsSound, Ingesting, JobAt
<1>2. CASE row.version = 0 /\ Continue(j, [job[j] EXCEPT !.pc = "insert"])
              /\ UNCHANGED faults
  <2> DEFINE l == [job[j] EXCEPT !.pc = "insert"]
  <2>1. l \in JobLocals /\ l.pc = "insert" /\ l.version = job[j].version
    BY DEF JobLocals, JobPcs
  <2> HIDE DEF l
  <2>2. JobsBut(j) /\ job'[j] = l
    BY <1>2, <2>1, BecomeForm DEF Continue, l
  <2>3. JobIsSound(j)'
    BY <1>1, <2>1, <2>2 DEF JobIsSound, Drafting
  <2> QED
    BY <1>1, <1>2, <2>1, <2>2, <2>3, TypeStays DEF Continue
<1>3. CASE row.version # 0 /\ AfterIngest(j, row.status) /\ UNCHANGED faults
  <2>1. /\ JobsBut(j) /\ notified' \subseteq notified /\ JobIsSound(j)'
        /\ job'[j].pc # "generate"
    BY <1>1, <1>3, AfterIngestForm, NoJobType DEF JobLocals
  <2> QED
    BY <1>1, <1>3, <2>1, TypeStays
<1>4. ASSUME row.version # 0, UNCHANGED faults, NEW changed, changed \in BOOLEAN,
             Continue(j, [job[j] EXCEPT
                 !.pc = IF changed THEN "revise" ELSE "apply",
                 !.replyState = keptReplyState(@, row.replyState),
                 !.changed = changed, !.oldVersion = row.version,
                 !.editCount = row.editCount])
      PROVE  IntakeInv'
  <2> DEFINE l == [job[j] EXCEPT
                 !.pc = IF changed THEN "revise" ELSE "apply",
                 !.replyState = keptReplyState(@, row.replyState),
                 !.changed = changed, !.oldVersion = row.version,
                 !.editCount = row.editCount]
  <2>0. /\ row.replyState \in GOOGLE_REPLY_STATES /\ row.editCount \in Nat
        /\ row.version \in Versions
    BY <1>4 DEF ReviewRows
  <2>1. l \in JobLocals /\ l.pc \in {"revise", "apply"} /\ l.version = job[j].version
           /\ l.oldVersion = row.version
    BY <1>4, <2>0 DEF JobLocals, JobPcs, keptReplyState
  <2> HIDE DEF l
  <2>2. JobsBut(j) /\ job'[j] = l
    BY <1>4, <2>1, BecomeForm DEF Continue, l
  <2>3. JobIsSound(j)'
    BY <1>1, <1>4, <2>1, <2>2 DEF JobIsSound, Drafting
  <2> QED
    BY <1>1, <1>4, <2>1, <2>2, <2>3, TypeStays DEF Continue
<1>5. CASE Fault /\ Finish(j)
  BY <1>1, <1>5, FinishForm, NoJobType, TypeStays
<1>6. hasContentChanged(job[j].version, row.version) \in BOOLEAN
  BY DEF hasContentChanged
<1> QED
  BY <1>2, <1>3, <1>4, <1>5, <1>6 DEF Find

LEMMA InsertTypes ==
    ASSUME IntakeInv, NEW j \in Jobs, Insert(j) PROVE IntakeInv'
<1> DEFINE new == insertReview(row, job[j].version, job[j].replyState)
<1>1. /\ job[j].version \in 1..customer /\ job[j].replyState \in GOOGLE_REPLY_STATES
      /\ UNCHANGED <<live, customer, revisions, drafted>>
  BY JobFacts DEF Insert, JobIsSound, Ingesting, JobAt, JobLocals
<1>2. new \in ReviewRows /\ new.version = job[j].version
  <2>1. job[j].version \in Nat /\ row \in ReviewRows
    BY <1>1, JobFacts
  <2> QED
    BY <1>1, <2>1, InsertRow
<1>3. new.version \in 1..customer /\ new.version # 0
  BY <1>1, <1>2, JobFacts
<1>4. /\ stored' = stored \cup ({row'.version} \ {0})
      /\ \/ row' = new /\ AfterIngest(j, new.status) /\ UNCHANGED faults
         \/ Fault /\ row' \in {row, new} /\ Finish(j)
  BY DEF Insert, WriteRow
<1> HIDE DEF new
<1>5. /\ JobsBut(j) /\ JobIsSound(j)' /\ notified' \subseteq notified
      /\ job'[j].pc # "generate"
  <2>1. CASE row' = new /\ AfterIngest(j, new.status)
    BY <1>3, <2>1, AfterIngestForm, NoJobType DEF JobLocals
  <2>2. CASE Finish(j)
    BY <2>2, FinishForm, NoJobType
  <2> QED
    BY <1>4, <2>1, <2>2
<1>6. drafted' \subseteq stored' /\ row' \in {row, new}
  BY <1>1, <1>4, JobFacts
<1>7. UNCHANGED faults \/ Fault
  BY <1>4
<1> QED
  BY <1>1, <1>2, <1>3, <1>4, <1>5, <1>6, <1>7, TypeWrites

LEMMA ReviseTypes ==
    ASSUME IntakeInv, NEW j \in Jobs, Revise(j) PROVE IntakeInv'
<1> USE JobFacts
<1>1. /\ job[j].version \in 1..customer /\ job[j].oldVersion \in stored
      /\ UNCHANGED <<row, live, customer, stored, drafted>>
  BY DEF Revise, JobIsSound, Ingesting, JobAt, intakeHistory
<1>2. revisions' \subseteq stored
  BY <1>1 DEF Revise
<1>3. CASE Continue(j, [job[j] EXCEPT !.pc = "apply"]) /\ UNCHANGED faults
  <2> DEFINE l == [job[j] EXCEPT !.pc = "apply"]
  <2>1. l \in JobLocals /\ l.pc = "apply" /\ l.version = job[j].version
           /\ l.oldVersion = job[j].oldVersion
    BY DEF JobLocals, JobPcs
  <2> HIDE DEF l
  <2>2. JobsBut(j) /\ job'[j] = l
    BY <1>3, <2>1, BecomeForm DEF Continue, l
  <2>3. JobIsSound(j)'
    BY <1>1, <2>1, <2>2 DEF JobIsSound, Drafting
  <2> QED
    BY <1>1, <1>2, <1>3, <2>1, <2>2, <2>3, TypeStays DEF Continue
<1>4. CASE Fault /\ Finish(j)
  BY <1>1, <1>2, <1>4, FinishForm, NoJobType, TypeStays
<1> QED
  BY <1>3, <1>4 DEF Revise

LEMMA ApplyTypes ==
    ASSUME IntakeInv, NEW j \in Jobs, Apply(j) PROVE IntakeInv'
<1> DEFINE new == applyReviewEdit(row, job[j].version, job[j].replyState,
                                  job[j].changed, job[j].editCount)
<1>1. /\ job[j].version \in 1..customer /\ job[j].replyState \in GOOGLE_REPLY_STATES
      /\ job[j].changed \in BOOLEAN /\ job[j].editCount \in Nat
      /\ UNCHANGED <<live, customer, revisions, drafted>>
  BY JobFacts DEF Apply, JobIsSound, Ingesting, JobAt, JobLocals
<1>2. new \in ReviewRows /\ new.version = job[j].version
  <2>1. job[j].version \in Nat /\ row \in ReviewRows
    BY <1>1, JobFacts
  <2>2. job[j] \in JobLocals
    BY JobFacts
  <2> QED
    BY <2>1, <2>2, EditRow
<1>3. new.version \in 1..customer /\ new.version # 0
  BY <1>1, <1>2, JobFacts
<1>4. /\ stored' = stored \cup ({row'.version} \ {0})
      /\ \/ row' = new /\ AfterIngest(j, new.status) /\ UNCHANGED faults
         \/ Fault /\ row' \in {row, new} /\ Finish(j)
  BY DEF Apply, WriteRow
<1> HIDE DEF new
<1>5. /\ JobsBut(j) /\ JobIsSound(j)' /\ notified' \subseteq notified
      /\ job'[j].pc # "generate"
  <2>1. CASE row' = new /\ AfterIngest(j, new.status)
    BY <1>3, <2>1, AfterIngestForm, NoJobType DEF JobLocals
  <2>2. CASE Finish(j)
    BY <2>2, FinishForm, NoJobType
  <2> QED
    BY <1>4, <2>1, <2>2
<1>6. drafted' \subseteq stored' /\ row' \in {row, new}
  BY <1>1, <1>4, JobFacts
<1>7. UNCHANGED faults \/ Fault
  BY <1>4
<1> QED
  BY <1>1, <1>2, <1>3, <1>4, <1>5, <1>6, <1>7, TypeWrites

LEMMA ReadTypes ==
    ASSUME IntakeInv, NEW j \in Jobs, Read(j) PROVE IntakeInv'
<1> USE JobFacts
<1>1. /\ row.version # 0 /\ UNCHANGED <<row, live, customer, revisions, stored, drafted>>
  BY DEF Read, JobIsSound, Drafting, JobAt, intakeHistory
<1>2. CASE Continue(j, [job[j] EXCEPT !.pc = "mark", !.prior = row.humanReviewRequired])
              /\ UNCHANGED faults
  <2> DEFINE l == [job[j] EXCEPT !.pc = "mark", !.prior = row.humanReviewRequired]
  <2>1. l \in JobLocals /\ l.pc = "mark"
    BY DEF JobLocals, JobPcs, ReviewRows
  <2> HIDE DEF l
  <2>2. JobsBut(j) /\ job'[j] = l
    BY <1>2, <2>1, BecomeForm DEF Continue, l
  <2>3. JobIsSound(j)'
    BY <1>1, <2>1, <2>2 DEF JobIsSound, Ingesting
  <2> QED
    BY <1>1, <1>2, <2>1, <2>2, <2>3, TypeStays DEF Continue
<1>3. CASE Finish(j) /\ (UNCHANGED faults \/ Fault)
  BY <1>1, <1>3, FinishForm, NoJobType, TypeStays
<1> QED
  BY <1>2, <1>3 DEF Read

\* The statements of generation write nothing about the customer's words.
LEMMA OwnWriteTypes ==
    ASSUME IntakeInv, NEW j \in Jobs, row.version # 0, NEW new \in ReviewRows,
           new.version = row.version, row' \in {row, new},
           stored' = stored \cup ({row'.version} \ {0}),
           NEW l \in JobLocals, Become(j, l), l.pc \notin Ingesting,
           l.pc = "generate" => l.version = row.version,
           notified' \subseteq notified, drafted' \subseteq stored,
           UNCHANGED <<live, customer, revisions>>, UNCHANGED faults \/ Fault
    PROVE  IntakeInv'
<1>1. JobsBut(j) /\ job'[j] = l
  BY BecomeForm
<1>2. row'.version = row.version /\ row.version \in stored
  BY JobFacts
<1>3. JobIsSound(j)'
  BY <1>1, <1>2 DEF JobIsSound, Ingesting
<1>4. stored' = stored /\ new.version \in 1..customer
  BY <1>2, JobFacts
<1> QED
  BY <1>1, <1>2, <1>3, <1>4, TypeWrites

LEMMA MarkTypes ==
    ASSUME IntakeInv, NEW j \in Jobs, Mark(j) PROVE IntakeInv'
<1> DEFINE new == markProcessing(row)
           l == [job[j] EXCEPT !.pc = "generate", !.version = new.version,
                               !.replyState = new.replyState]
<1>1. /\ row.version # 0 /\ drafted' = drafted
      /\ UNCHANGED <<live, customer, revisions>>
  BY JobFacts DEF Mark, JobIsSound, Drafting, JobAt
<1>2. row \in ReviewRows /\ row.version \in Versions /\ drafted \subseteq stored
           /\ job[j] \in JobLocals
  BY <1>1, JobFacts
<1>3. new \in ReviewRows
  BY <1>2, ProcessingRow
<1>4. new.version = row.version /\ new.replyState \in GOOGLE_REPLY_STATES
  BY <1>2, <1>3, ProcessingRow DEF ReviewRows
<1>5. /\ stored' = stored \cup ({row'.version} \ {0}) /\ row' \in {row, new}
      /\ \/ Continue(j, l) /\ UNCHANGED faults
         \/ Fault /\ Finish(j)
  BY DEF Mark, WriteRow
<1> HIDE DEF new
<1>6. l \in JobLocals /\ l.pc = "generate" /\ l.version = row.version
  BY <1>2, <1>4 DEF JobLocals, JobPcs
<1> HIDE DEF l
<1>7. CASE Continue(j, l) /\ UNCHANGED faults
  BY <1>1, <1>2, <1>3, <1>4, <1>5, <1>6, <1>7, OwnWriteTypes DEF Continue, Ingesting
<1>8. CASE Fault /\ Finish(j)
  BY <1>1, <1>2, <1>3, <1>4, <1>5, <1>8, NoJobType, FinishForm, OwnWriteTypes
  DEF Finish, Ingesting
<1> QED
  BY <1>5, <1>7, <1>8

LEMMA GenerateTypes ==
    ASSUME IntakeInv, NEW j \in Jobs, Generate(j) PROVE IntakeInv'
<1> DEFINE l == [job[j] EXCEPT !.pc = "fail"]
<1>1. /\ row.version # 0 /\ job[j].version \in stored
      /\ UNCHANGED <<live, customer, revisions>>
  BY JobFacts DEF Generate, JobIsSound, Drafting, JobAt
<1>2. row \in ReviewRows /\ drafted \subseteq stored /\ job[j] \in JobLocals
           /\ job[j].prior \in BOOLEAN /\ job[j].version \in Versions
  BY <1>1, JobFacts DEF JobLocals
<1>3. PICK draft \in AiTexts, ai \in [risk : RISK_LEVELS, needsHumanReview : BOOLEAN] :
          LET e == Evaluation(j, ai)
              new == saveGeneratedResponse(row, draft, e.humanReviewRequired,
                                           statusFor(e.decision))
          IN  /\ WriteRow(new, Finish(j), Continue(j, l))
              /\ drafted' = IF row' = new /\ job[j].message # 0
                            THEN drafted \cup {job[j].version} ELSE drafted
  BY DEF Generate
<1> DEFINE e == Evaluation(j, ai)
           new == saveGeneratedResponse(row, draft, e.humanReviewRequired,
                                        statusFor(e.decision))
<1>4. /\ e.humanReviewRequired \in BOOLEAN
      /\ statusFor(e.decision) \in {"GENERATED", "PENDING_APPROVAL"}
  BY <1>2, EvaluationFacts
<1> HIDE DEF e
<1>5. statusFor(e.decision) \in REVIEW_STATUSES
  BY <1>4 DEF REVIEW_STATUSES
<1>6. new \in ReviewRows /\ new.version = row.version
  BY <1>2, <1>4, <1>5, GeneratedRow
<1>7. /\ row' \in {row, new} /\ stored' = stored \cup ({row'.version} \ {0})
      /\ drafted' \subseteq stored
      /\ \/ Finish(j) /\ UNCHANGED faults
         \/ Fault /\ Continue(j, l)
  BY <1>1, <1>2, <1>3 DEF WriteRow, e
<1> HIDE DEF new
<1>8. l \in JobLocals /\ l.pc = "fail"
  BY <1>2 DEF JobLocals, JobPcs
<1> HIDE DEF l
<1>9. CASE Finish(j) /\ UNCHANGED faults
  BY <1>1, <1>6, <1>7, <1>9, NoJobType, FinishForm, OwnWriteTypes DEF Finish, Ingesting
<1>10. CASE Fault /\ Continue(j, l)
  BY <1>1, <1>6, <1>7, <1>8, <1>10, OwnWriteTypes DEF Continue, Ingesting
<1> QED
  BY <1>7, <1>9, <1>10

LEMMA ModelFailsTypes ==
    ASSUME IntakeInv, NEW j \in Jobs, ModelFails(j) PROVE IntakeInv'
<1> DEFINE l == [job[j] EXCEPT !.pc = "fail"]
<1>1. row.version # 0 /\ revisions \subseteq stored /\ job[j] \in JobLocals
  BY JobFacts DEF ModelFails, JobIsSound, Drafting, JobAt
<1>2. l \in JobLocals /\ l.pc = "fail"
  BY <1>1 DEF JobLocals, JobPcs
<1> HIDE DEF l
<1>3. JobsBut(j) /\ job'[j] = l
  BY <1>2, BecomeForm DEF ModelFails, Continue, l
<1>4. JobIsSound(j)'
  BY <1>1, <1>2, <1>3 DEF ModelFails, JobIsSound, Ingesting
<1> QED
  BY <1>1, <1>2, <1>3, <1>4, TypeStays DEF ModelFails, Continue, intakeHistory

LEMMA MarkFailedTypes ==
    ASSUME IntakeInv, NEW j \in Jobs, MarkFailed(j) PROVE IntakeInv'
<1> DEFINE new == markProcessingFailed(row)
<1>1. /\ row.version # 0 /\ drafted' = drafted
      /\ UNCHANGED <<live, customer, revisions>>
  BY JobFacts DEF MarkFailed, JobIsSound, Drafting, JobAt
<1>2. row \in ReviewRows /\ drafted \subseteq stored
  BY JobFacts
<1>3. new \in ReviewRows
  BY <1>2, FailedRow
<1>4. new.version = row.version
  BY <1>2, FailedRow
<1>5. /\ stored' = stored \cup ({row'.version} \ {0}) /\ row' \in {row, new}
      /\ Finish(j) /\ (UNCHANGED faults \/ Fault)
  BY DEF MarkFailed, WriteRow
<1> HIDE DEF new
<1> QED
  BY <1>1, <1>2, <1>3, <1>4, <1>5, NoJobType, FinishForm, OwnWriteTypes
  DEF Finish, Ingesting

LEMMA IntakeTypesStep ==
    ASSUME IntakeInv, [IntakeNext]_ivars PROVE IntakeInv'
<1>1. CASE UNCHANGED ivars
  BY <1>1
  DEF ivars, intakeHistory, IntakeInv, IntakeTypeOK, VersionsInv, JobIsSound, JobAt
<1>2. CASE World
  BY <1>2, WorldTypes
<1>3. ASSUME NEW j \in Jobs, JobStarts(j) PROVE IntakeInv'
  BY <1>3, DeliverTypes, PullTypes, ProcessTypes, RegenerateTypes DEF JobStarts
<1>4. ASSUME NEW j \in Jobs, JobContinues(j) PROVE IntakeInv'
  BY <1>4, FindTypes, InsertTypes, ReviseTypes, ApplyTypes, ReadTypes, MarkTypes,
     GenerateTypes, ModelFailsTypes, MarkFailedTypes
  DEF JobContinues
<1>5. ASSUME NEW j \in Jobs, Abort(j) PROVE IntakeInv'
  BY <1>5, AbortTypes
<1> QED
  BY <1>1, <1>2, <1>3, <1>4, <1>5 DEF IntakeNext, Pipeline

LEMMA IntakeInvariant == IntakeSpec => []IntakeInv
  BY IntakeTypeInit, IntakeTypesStep, PTL DEF IntakeSpec

\* Every variable stays in its range, and a job that generates works on a
\* version the row has held, however the requests of reviews/pubsub.service.ts,
\* ingest.service.ts and processing.service.ts overlap and whatever fails.
THEOREM IntakeTypes == IntakeSpec => []IntakeTypeOK
<1>1. IntakeInv => IntakeTypeOK
  BY DEF IntakeInv
<1> QED
  BY <1>1, IntakeInvariant, PTL

---------------------------------------------------------------------------
(* One request at a time *)

\* What a job read is still so when it acts upon it.
Knows(j) ==
    /\ job[j].pc = "insert" => row.version = 0
    /\ job[j].pc \in {"revise", "apply"} =>
          /\ row.version # 0
          /\ job[j].oldVersion = row.version
          /\ job[j].version >= row.version
          /\ job[j].changed = hasContentChanged(job[j].version, row.version)
    /\ job[j].pc = "apply" /\ job[j].changed = TRUE => row.version \in revisions
    /\ job[j].pc \in {"mark", "generate"} => job[j].prior = row.humanReviewRequired
    /\ job[j].pc = "generate" => job[j].version = row.version
    /\ j \in Deliveries /\ job[j].pc \in {"mark", "generate"} =>
          row.version \notin drafted

\* A row that waits to be drafted has not been, in the version it holds.
DraftsInv ==
    /\ \A d \in drafted : d <= row.version
    /\ row.status = "RECEIVED" => row.version \notin drafted

RowInv ==
    /\ DraftsInv
    /\ FlagSticks
    /\ GeneratedIsEarned
    /\ NoWordsLost

SoloInv ==
    /\ IntakeInv
    /\ SingleJob
    /\ \A j \in Jobs : Knows(j)
    /\ RowInv

LEMMA SoloInit == ASSUME OneAtATime PROVE IntakeInit => SoloInv
<1> SUFFICES ASSUME IntakeInit PROVE SoloInv
  OBVIOUS
<1>1. \A j \in Jobs : job[j].pc = "idle"
  BY NoJobType DEF IntakeInit, JobsInit
<1>2. row.status = "RECEIVED" /\ stored = {} /\ drafted = {} /\ flagged = FALSE
  BY DEF IntakeInit, JobsInit, NoRow
<1>3. RowInv
  BY <1>2 DEF RowInv, DraftsInv, FlagSticks, GeneratedIsEarned, Earned, NoWordsLost
<1> QED
  BY <1>1, <1>3, IntakeTypeInit DEF SoloInv, SingleJob, JobAt, Knows

\* A step that keeps the row, and at most adds revisions.
LEMMA RowStays ==
    ASSUME RowInv, UNCHANGED <<row, stored, flagged, drafted>>, revisions \subseteq revisions'
    PROVE  RowInv'
  BY DEF RowInv, DraftsInv, FlagSticks, GeneratedIsEarned, Earned, NoWordsLost

\* A step of job j takes nothing from under another job.
LEMMA SoloGoesOn ==
    ASSUME OneAtATime, SoloInv, NEW j \in Jobs, JobsBut(j),
           job[j].pc # "idle" \/ UNCHANGED <<row, revisions, drafted>>,
           Knows(j)', RowInv', IntakeInv', SingleJob'
    PROVE  SoloInv'
<1>1. ASSUME NEW k \in Jobs PROVE Knows(k)'
  <2>1. CASE k = j
    BY <2>1
  <2>2. CASE k # j /\ job[j].pc # "idle"
    <3>1. job'[k].pc = "idle"
      BY <2>2 DEF SoloInv, SingleJob, JobAt, JobsBut
    <3> QED
      BY <3>1 DEF Knows
  <2>3. CASE k # j /\ UNCHANGED <<row, revisions, drafted>>
    <3>1. job'[k] = job[k] /\ Knows(k)
      BY <2>3 DEF SoloInv, JobsBut
    <3> QED
      BY <2>3, <3>1 DEF Knows
  <2> QED
    BY <2>1, <2>2, <2>3
<1> QED
  BY <1>1 DEF SoloInv

\* A job that is over knows nothing it could be wrong about.
LEMMA DoneKnows ==
    ASSUME NEW j \in Jobs, job'[j].pc \in {"idle", "find", "read", "fail"}
    PROVE  Knows(j)'
  BY DEF Knows

\* How ingest leaves the jobs.
LEMMA AfterIngestKnows ==
    ASSUME IntakeInv, NEW j \in Jobs, NEW status, row'.version # 0 \/ Finish(j),
           AfterIngest(j, status) \/ Finish(j)
    PROVE  JobsBut(j) /\ Knows(j)' /\ job'[j].pc \in {"idle", "read"}
<1>1. JobsBut(j) /\ job'[j].pc \in {"idle", "read"}
  <2>1. CASE Finish(j)
    BY <2>1, FinishForm, NoJobType
  <2>2. CASE AfterIngest(j, status) /\ row'.version # 0
    BY <2>2, AfterIngestForm, NoJobType DEF JobLocals
  <2> QED
    BY <2>1, <2>2
<1> QED
  BY <1>1, DoneKnows

LEMMA StartsSolo ==
    ASSUME OneAtATime, SoloInv, NEW j \in Jobs, JobStarts(j), SingleJob'
    PROVE  SoloInv'
<1>1. IntakeInv /\ RowInv /\ job \in [Jobs -> JobLocals]
  BY DEF SoloInv, IntakeInv, IntakeTypeOK
<1>2. IntakeInv'
  BY <1>1, DeliverTypes, PullTypes, ProcessTypes, RegenerateTypes DEF JobStarts
<1>3. UNCHANGED <<row, revisions, stored, flagged, drafted>>
  BY DEF JobStarts, Deliver, Pull, Process, Regenerate, intakeHistory
<1>4. RowInv'
  BY <1>1, <1>3, RowStays
<1>5. JobsBut(j) /\ Knows(j)'
  <2>1. CASE UNCHANGED job /\ JobAt(j, "idle")
    BY <1>1, <2>1, DoneKnows DEF JobsBut, JobAt
  <2>2. ASSUME NEW m \in Versions \cup {0}, Become(j, Payload(m)) PROVE JobsBut(j) /\ Knows(j)'
    <3>1. job' \in [Jobs -> JobLocals]
      BY <1>2 DEF IntakeInv, IntakeTypeOK
    <3>2. job'[j] = Payload(m) /\ Payload(m).pc = "find"
      BY <1>1, <2>2 DEF Become, Payload, NoJob
    <3> QED
      BY <1>1, <2>2, <3>1, <3>2, DoneKnows DEF Become, JobsBut
  <2>3. CASE Process(j)
    <3>1. [NoJob EXCEPT !.pc = "read"] \in JobLocals
             /\ [NoJob EXCEPT !.pc = "read"].pc = "read"
      BY NoJobType DEF JobLocals, JobPcs
    <3> QED
      BY <1>1, <2>3, <3>1, BecomeForm, DoneKnows DEF Process, Continue
  <2>4. CASE Regenerate(j) /\ j \in Admins
    <3> DEFINE l == [NoJob EXCEPT !.pc = "mark", !.prior = row.humanReviewRequired]
    <3>1. l \in JobLocals /\ l.pc = "mark" /\ l.prior = row.humanReviewRequired
      BY <1>1, NoJobType DEF IntakeInv, IntakeTypeOK, JobLocals, JobPcs, ReviewRows
    <3> HIDE DEF l
    <3>2. JobsBut(j) /\ job'[j] = l
      BY <1>1, <2>4, <3>1, BecomeForm DEF Regenerate, Continue, l
    <3>3. j \notin Deliveries
      BY <2>4, IntakeAssumption
    <3> QED
      BY <1>3, <3>1, <3>2, <3>3 DEF Knows
  <2>5. CASE \E m \in Versions : Deliver(j, m)
    BY <2>1, <2>2, <2>5 DEF Deliver, Continue
  <2>6. CASE Pull(j)
    BY <2>2, <2>6 DEF Pull, Continue
  <2> QED
    BY <2>3, <2>4, <2>5, <2>6 DEF JobStarts
<1> QED
  BY <1>2, <1>3, <1>4, <1>5, SoloGoesOn

LEMMA FindSolo ==
    ASSUME OneAtATime, SoloInv, NEW j \in Jobs, Find(j), SingleJob' PROVE SoloInv'
<1>1. IntakeInv /\ RowInv /\ job[j].pc = "find" /\ job[j] \in JobLocals
  BY JobFacts DEF SoloInv, Find, JobAt
<1>2. IntakeInv'
  BY <1>1, FindTypes
<1>3. UNCHANGED <<row, revisions, stored, flagged, drafted>>
  BY DEF Find, intakeHistory
<1>4. RowInv'
  BY <1>1, <1>3, RowStays
<1>5. JobsBut(j) /\ Knows(j)'
  <2>1. CASE row.version = 0 /\ Continue(j, [job[j] EXCEPT !.pc = "insert"])
    <3> DEFINE l == [job[j] EXCEPT !.pc = "insert"]
    <3>1. l \in JobLocals /\ l.pc = "insert"
      BY <1>1 DEF JobLocals, JobPcs
    <3> HIDE DEF l
    <3>2. JobsBut(j) /\ job'[j] = l
      BY <1>1, <2>1, <3>1, BecomeForm DEF Continue, l
    <3> QED
      BY <1>3, <2>1, <3>1, <3>2 DEF Knows
  <2>2. CASE AfterIngest(j, row.status) /\ row.version # 0
    BY <1>1, <1>3, <2>2, AfterIngestKnows
  <2>3. ASSUME row.version # 0, ~isStaleOrDuplicate(job[j].version, row),
               NEW changed, changed = hasContentChanged(job[j].version, row.version),
               Continue(j, [job[j] EXCEPT
                   !.pc = IF changed THEN "revise" ELSE "apply",
                   !.replyState = keptReplyState(@, row.replyState),
                   !.changed = changed, !.oldVersion = row.version,
                   !.editCount = row.editCount])
        PROVE  JobsBut(j) /\ Knows(j)'
    <3> DEFINE l == [job[j] EXCEPT
                   !.pc = IF changed THEN "revise" ELSE "apply",
                   !.replyState = keptReplyState(@, row.replyState),
                   !.changed = changed, !.oldVersion = row.version,
                   !.editCount = row.editCount]
    <3>1. /\ row.replyState \in GOOGLE_REPLY_STATES /\ row.editCount \in Nat
          /\ row.version \in Versions /\ row.version \in Nat
      BY <1>1, <2>3, JobFacts DEF ReviewRows
    <3>2. changed \in BOOLEAN
      BY <2>3 DEF hasContentChanged
    <3>3. /\ l \in JobLocals /\ l.pc = IF changed THEN "revise" ELSE "apply"
          /\ l.version = job[j].version /\ l.oldVersion = row.version
          /\ l.changed = changed
      BY <1>1, <3>1, <3>2 DEF JobLocals, JobPcs, keptReplyState
    <3> HIDE DEF l
    <3>4. JobsBut(j) /\ job'[j] = l
      BY <1>1, <2>3, <3>3, BecomeForm DEF Continue, l
    <3>5. job[j].version \in Nat /\ job[j].version >= row.version
      <4>1. job[j].version \in Nat
        BY <1>1 DEF JobLocals, Versions
      <4> QED
        BY <2>3, <3>1, <4>1 DEF isStaleOrDuplicate, payloadTime, columnTime
    <3>6. l.pc = "apply" => changed = FALSE
      BY <3>2, <3>3
    <3> QED
      BY <1>3, <2>3, <3>2, <3>3, <3>4, <3>5, <3>6 DEF Knows
  <2>4. CASE Finish(j)
    BY <1>1, <2>4, AfterIngestKnows
  <2> QED
    BY <2>1, <2>2, <2>3, <2>4 DEF Find
<1> QED
  BY <1>1, <1>2, <1>3, <1>4, <1>5, SoloGoesOn

LEMMA InsertSolo ==
    ASSUME OneAtATime, SoloInv, NEW j \in Jobs, Insert(j), SingleJob' PROVE SoloInv'
<1> DEFINE new == insertReview(row, job[j].version, job[j].replyState)
<1>1. /\ IntakeInv /\ RowInv /\ job[j].pc = "insert" /\ row.version = 0
      /\ job[j].version \in 1..customer /\ job[j].version \in Nat
      /\ job[j].replyState \in GOOGLE_REPLY_STATES
      /\ row \in ReviewRows /\ row.status = "RECEIVED" /\ stored = {} /\ drafted = {}
      /\ UNCHANGED <<revisions, flagged, drafted>>
  <2>1. IntakeInv /\ RowInv /\ Knows(j)
    BY DEF SoloInv
  <2>2. job[j].pc = "insert" /\ UNCHANGED <<revisions, flagged, drafted>>
    BY DEF Insert, JobAt
  <2>3. row.version = 0
    BY <2>1, <2>2 DEF Knows
  <2>4. /\ job[j] \in JobLocals /\ JobIsSound(j) /\ row \in ReviewRows
        /\ drafted \subseteq stored /\ customer \in Nat
    BY <2>1, JobFacts
  <2>5. row.status = "RECEIVED" /\ stored = {}
    BY <2>1, <2>3 DEF IntakeInv, VersionsInv, NoRow
  <2>6. job[j].version \in 1..customer
    BY <2>2, <2>4 DEF JobIsSound, Ingesting
  <2> QED
    BY <2>1, <2>2, <2>3, <2>4, <2>5, <2>6 DEF JobLocals
<1>2. IntakeInv'
  BY <1>1, InsertTypes
<1>3. /\ new.version = job[j].version /\ new.status = "RECEIVED"
      /\ new.humanReviewRequired = row.humanReviewRequired
  BY <1>1, InsertRow
<1>4. /\ stored' = stored \cup ({row'.version} \ {0}) /\ row' \in {row, new}
      /\ (row' = new /\ AfterIngest(j, new.status)) \/ Finish(j)
  BY DEF Insert, WriteRow
<1> HIDE DEF new
<1>5. row' = new => row'.version # 0
  BY <1>1, <1>3
<1>6. JobsBut(j) /\ Knows(j)'
  BY <1>1, <1>4, <1>5, AfterIngestKnows
<1>7. RowInv'
  <2>1. row'.status = "RECEIVED" /\ row'.humanReviewRequired = row.humanReviewRequired
    BY <1>1, <1>3, <1>4 DEF IntakeInv, VersionsInv
  <2>2. \A v \in stored' : v = row'.version
    BY <1>1, <1>4
  <2> QED
    BY <1>1, <2>1, <2>2
    DEF RowInv, DraftsInv, FlagSticks, GeneratedIsEarned, Earned, NoWordsLost
<1> QED
  BY <1>1, <1>2, <1>6, <1>7, SoloGoesOn

LEMMA ReviseSolo ==
    ASSUME OneAtATime, SoloInv, NEW j \in Jobs, Revise(j), SingleJob' PROVE SoloInv'
<1>1. /\ IntakeInv /\ RowInv /\ job[j].pc = "revise" /\ job[j] \in JobLocals /\ Knows(j)
      /\ UNCHANGED <<row, stored, flagged, drafted>>
  BY JobFacts DEF SoloInv, Revise, JobAt, intakeHistory
<1>2. IntakeInv' /\ revisions \subseteq revisions'
  BY <1>1, ReviseTypes DEF Revise
<1>3. RowInv'
  BY <1>1, <1>2, RowStays
<1>4. JobsBut(j) /\ Knows(j)'
  <2>1. CASE Finish(j)
    BY <1>1, <2>1, AfterIngestKnows
  <2>2. CASE /\ revisions' = revisions \cup {job[j].oldVersion}
             /\ Continue(j, [job[j] EXCEPT !.pc = "apply"])
    <3> DEFINE l == [job[j] EXCEPT !.pc = "apply"]
    <3>1. /\ l \in JobLocals /\ l.pc = "apply" /\ l.version = job[j].version
          /\ l.oldVersion = job[j].oldVersion /\ l.changed = job[j].changed
      BY <1>1 DEF JobLocals, JobPcs
    <3> HIDE DEF l
    <3>2. JobsBut(j) /\ job'[j] = l
      BY <1>1, <2>2, <3>1, BecomeForm DEF Continue, l
    <3> QED
      BY <1>1, <2>2, <3>1, <3>2 DEF Knows
  <2> QED
    BY <2>1, <2>2 DEF Revise
<1> QED
  BY <1>1, <1>2, <1>3, <1>4, SoloGoesOn

LEMMA ApplySolo ==
    ASSUME OneAtATime, SoloInv, NEW j \in Jobs, Apply(j), SingleJob' PROVE SoloInv'
<1> DEFINE new == applyReviewEdit(row, job[j].version, job[j].replyState,
                                  job[j].changed, job[j].editCount)
<1>1. /\ IntakeInv /\ RowInv /\ job[j].pc = "apply" /\ Knows(j)
      /\ job[j].version \in Nat /\ job[j].version # 0
      /\ job[j].replyState \in GOOGLE_REPLY_STATES /\ job[j].editCount \in Nat
      /\ row \in ReviewRows /\ row.version \in Nat /\ row.version # 0
      /\ drafted \subseteq Nat /\ job[j].changed \in BOOLEAN
      /\ UNCHANGED <<revisions, flagged, drafted>>
  BY JobFacts DEF SoloInv, Apply, JobAt, Knows, JobIsSound, Ingesting, JobLocals
<1>2. IntakeInv'
  BY <1>1, ApplyTypes
<1>3. /\ new.version = job[j].version
      /\ job[j].changed = TRUE => new.status = "RECEIVED"
      /\ job[j].changed = FALSE => new.status = row.status
      /\ new.humanReviewRequired = row.humanReviewRequired
  <2>1. job[j] \in JobLocals
    BY <1>1, JobFacts
  <2> QED
    BY <1>1, <2>1, EditRow
<1>4. /\ stored' = stored \cup ({row'.version} \ {0}) /\ row' \in {row, new}
      /\ (row' = new /\ AfterIngest(j, new.status)) \/ Finish(j)
  BY DEF Apply, WriteRow
<1> HIDE DEF new
<1>5. row' = new => row'.version # 0
  BY <1>1, <1>3
<1>6. JobsBut(j) /\ Knows(j)'
  BY <1>1, <1>4, <1>5, AfterIngestKnows
<1>7. RowInv'
  <2>1. CASE row' = row
    <3>1. stored' = stored
      BY <1>1, <1>4, <2>1, JobFacts
    <3> QED
      BY <1>1, <2>1, <3>1, RowStays
  <2>2. CASE row' = new /\ job[j].changed = TRUE
    <3>1. /\ job[j].version >= row.version /\ row.version \in revisions
          /\ job[j].version # row.version
      BY <1>1, <2>2 DEF Knows, hasContentChanged
    <3>2. DraftsInv'
      BY <1>1, <1>3, <2>2, <3>1 DEF RowInv, DraftsInv
    <3>3. FlagSticks' /\ GeneratedIsEarned'
      BY <1>1, <1>3, <2>2 DEF RowInv, FlagSticks, GeneratedIsEarned, Earned
    <3>4. NoWordsLost'
      BY <1>1, <1>4, <3>1 DEF RowInv, NoWordsLost
    <3> QED
      BY <3>2, <3>3, <3>4 DEF RowInv
  <2>3. CASE row' = new /\ job[j].changed = FALSE
    <3>1. job[j].version >= row.version /\ Words[job[j].version] = Words[row.version]
      BY <1>1, <2>3 DEF Knows, hasContentChanged
    <3>2. row'.version = job[j].version /\ row'.status = row.status
             /\ row'.humanReviewRequired = row.humanReviewRequired
      BY <1>3, <2>3
    <3>3. DraftsInv'
      BY <1>1, <3>1, <3>2 DEF RowInv, DraftsInv
    <3>4. FlagSticks' /\ GeneratedIsEarned'
      BY <1>1, <3>1, <3>2 DEF RowInv, FlagSticks, GeneratedIsEarned, Earned
    <3>5. NoWordsLost'
      BY <1>1, <1>4, <3>1, <3>2 DEF RowInv, NoWordsLost
    <3> QED
      BY <3>3, <3>4, <3>5 DEF RowInv
  <2> QED
    BY <1>1, <1>4, <2>1, <2>2, <2>3
<1> QED
  BY <1>1, <1>2, <1>6, <1>7, SoloGoesOn

LEMMA ReadSolo ==
    ASSUME OneAtATime, SoloInv, NEW j \in Jobs, Read(j), SingleJob' PROVE SoloInv'
<1>1. /\ IntakeInv /\ RowInv /\ job[j].pc = "read" /\ job[j] \in JobLocals
      /\ row \in ReviewRows /\ UNCHANGED <<row, revisions, stored, flagged, drafted>>
  BY JobFacts DEF SoloInv, Read, JobAt, intakeHistory
<1>2. IntakeInv' /\ RowInv'
  BY <1>1, ReadTypes, RowStays
<1>3. JobsBut(j) /\ Knows(j)'
  <2>1. CASE Finish(j)
    BY <1>1, <2>1, AfterIngestKnows
  <2>2. CASE /\ row.status = "RECEIVED"
             /\ Continue(j, [job[j] EXCEPT !.pc = "mark", !.prior = row.humanReviewRequired])
    <3> DEFINE l == [job[j] EXCEPT !.pc = "mark", !.prior = row.humanReviewRequired]
    <3>1. l \in JobLocals /\ l.pc = "mark" /\ l.prior = row.humanReviewRequired
      BY <1>1 DEF JobLocals, JobPcs, ReviewRows
    <3> HIDE DEF l
    <3>2. JobsBut(j) /\ job'[j] = l
      BY <1>1, <2>2, <3>1, BecomeForm DEF Continue, l
    <3> QED
      BY <1>1, <2>2, <3>1, <3>2 DEF Knows, RowInv, DraftsInv
  <2> QED
    BY <2>1, <2>2 DEF Read
<1> QED
  BY <1>1, <1>2, <1>3, SoloGoesOn

LEMMA MarkSolo ==
    ASSUME OneAtATime, SoloInv, NEW j \in Jobs, Mark(j), SingleJob' PROVE SoloInv'
<1> DEFINE new == markProcessing(row)
           l == [job[j] EXCEPT !.pc = "generate", !.version = new.version,
                               !.replyState = new.replyState]
<1>1. /\ IntakeInv /\ RowInv /\ job[j].pc = "mark" /\ job[j] \in JobLocals /\ Knows(j)
      /\ row \in ReviewRows /\ row.version \in stored /\ row.version \in Versions
      /\ UNCHANGED <<revisions, flagged, drafted>>
  <2>1. IntakeInv /\ RowInv /\ Knows(j)
    BY DEF SoloInv
  <2>2. job[j].pc = "mark" /\ UNCHANGED <<revisions, flagged, drafted>>
    BY DEF Mark, JobAt
  <2> QED
    BY <2>1, <2>2, JobFacts DEF JobIsSound, Drafting
<1>2. IntakeInv'
  BY <1>1, MarkTypes
<1>3. /\ new.status = "PROCESSING" /\ new.version = row.version
      /\ new.replyState \in GOOGLE_REPLY_STATES
      /\ new.humanReviewRequired = row.humanReviewRequired
  BY <1>1, ProcessingRow DEF ReviewRows
<1>4. /\ stored' = stored \cup ({row'.version} \ {0}) /\ row' \in {row, new}
      /\ Continue(j, l) \/ Finish(j)
  BY DEF Mark, WriteRow
<1> HIDE DEF new
<1>5. /\ row'.version = row.version
      /\ row'.humanReviewRequired = row.humanReviewRequired
      /\ row'.status \in {row.status, "PROCESSING"} /\ stored' = stored
  BY <1>1, <1>3, <1>4
<1>6. RowInv'
  BY <1>1, <1>5 DEF RowInv, DraftsInv, FlagSticks, GeneratedIsEarned, Earned, NoWordsLost
<1>7. JobsBut(j) /\ Knows(j)'
  <2>1. CASE Finish(j)
    BY <1>1, <2>1, AfterIngestKnows
  <2>2. CASE Continue(j, l)
    <3>1. /\ l \in JobLocals /\ l.pc = "generate" /\ l.version = row.version
          /\ l.prior = job[j].prior
      BY <1>1, <1>3 DEF JobLocals, JobPcs
    <3> HIDE DEF l
    <3>2. JobsBut(j) /\ job'[j] = l
      BY <1>1, <2>2, <3>1, BecomeForm DEF Continue
    <3> QED
      BY <1>1, <1>5, <3>1, <3>2 DEF Knows
  <2> QED
    BY <1>4, <2>1, <2>2
<1> QED
  BY <1>1, <1>2, <1>6, <1>7, SoloGoesOn

LEMMA GenerateSolo ==
    ASSUME OneAtATime, SoloInv, NEW j \in Jobs, Generate(j), SingleJob' PROVE SoloInv'
<1> DEFINE l == [job[j] EXCEPT !.pc = "fail"]
<1>1. /\ IntakeInv /\ RowInv /\ job[j].pc = "generate" /\ job[j] \in JobLocals /\ Knows(j)
      /\ row \in ReviewRows /\ row.version \in stored /\ row.version \in Versions
      /\ row.version \in Nat /\ UNCHANGED revisions
  <2>1. IntakeInv /\ RowInv /\ Knows(j)
    BY DEF SoloInv
  <2>2. job[j].pc = "generate" /\ UNCHANGED revisions
    BY DEF Generate, JobAt
  <2> QED
    BY <2>1, <2>2, JobFacts DEF JobIsSound, Drafting
<1>2. IntakeInv'
  BY <1>1, GenerateTypes
<1>3. /\ job[j].prior = row.humanReviewRequired /\ job[j].prior \in BOOLEAN
      /\ job[j].version = row.version
  BY <1>1 DEF Knows, JobLocals
<1>4. PICK draft \in AiTexts, ai \in [risk : RISK_LEVELS, needsHumanReview : BOOLEAN] :
          LET e == Evaluation(j, ai)
              new == saveGeneratedResponse(row, draft, e.humanReviewRequired,
                                           statusFor(e.decision))
          IN  /\ WriteRow(new, Finish(j), Continue(j, l))
              /\ flagged' = (flagged \/ (row' = new /\ e.needsHumanReview))
              /\ drafted' = IF row' = new /\ job[j].message # 0
                            THEN drafted \cup {job[j].version} ELSE drafted
  BY DEF Generate
<1> DEFINE e == Evaluation(j, ai)
           new == saveGeneratedResponse(row, draft, e.humanReviewRequired,
                                        statusFor(e.decision))
<1>5. /\ e.needsHumanReview \in BOOLEAN /\ e.humanReviewRequired \in BOOLEAN
      /\ e.humanReviewRequired <=> row.humanReviewRequired \/ e.needsHumanReview
      /\ statusFor(e.decision) \in {"GENERATED", "PENDING_APPROVAL"}
      /\ statusFor(e.decision) = "GENERATED" =>
            /\ ~RequireApprovalForAll
            /\ Words[row.version].rating >= 4
            /\ Words[row.version].text \notin RiskyTexts
            /\ ~e.humanReviewRequired
  BY <1>1, <1>3, EvaluationFacts
<1> HIDE DEF e
<1>6. statusFor(e.decision) \in REVIEW_STATUSES
  BY <1>5 DEF REVIEW_STATUSES
<1>7. /\ new.version = row.version /\ new.status = statusFor(e.decision)
      /\ new.humanReviewRequired = e.humanReviewRequired
  BY <1>1, <1>5, <1>6, GeneratedRow
<1>8. /\ row' \in {row, new} /\ stored' = stored \cup ({row'.version} \ {0})
      /\ flagged' = (flagged \/ (row' = new /\ e.needsHumanReview))
      /\ drafted' = IF row' = new /\ job[j].message # 0
                    THEN drafted \cup {job[j].version} ELSE drafted
      /\ Finish(j) \/ Continue(j, l)
  BY <1>4 DEF WriteRow, e
<1> HIDE DEF new
<1>9. stored' = stored
  BY <1>1, <1>7, <1>8
<1>10. RowInv'
  <2>1. CASE row' = new
    <3>1. DraftsInv'
      BY <1>1, <1>3, <1>5, <1>7, <1>8, <2>1 DEF RowInv, DraftsInv
    <3>2. FlagSticks'
      BY <1>1, <1>5, <1>7, <1>8, <2>1 DEF RowInv, FlagSticks
    <3>3. GeneratedIsEarned'
      BY <1>1, <1>5, <1>7, <1>8, <2>1 DEF RowInv, FlagSticks, GeneratedIsEarned, Earned
    <3>4. NoWordsLost'
      BY <1>1, <1>7, <1>9, <2>1 DEF RowInv, NoWordsLost
    <3> QED
      BY <3>1, <3>2, <3>3, <3>4 DEF RowInv
  <2>2. CASE row' = row /\ row' # new
    <3>1. drafted' = drafted
      BY <1>8, <2>2
    <3>2. flagged' <=> flagged
      BY <1>8, <2>2
    <3> QED
      BY <1>1, <1>9, <2>2, <3>1, <3>2
      DEF RowInv, DraftsInv, FlagSticks, GeneratedIsEarned, Earned, NoWordsLost
  <2> QED
    BY <1>8, <2>1, <2>2
<1>11. JobsBut(j) /\ Knows(j)'
  <2>1. CASE Finish(j)
    BY <1>1, <2>1, AfterIngestKnows
  <2>2. CASE Continue(j, l)
    <3>1. l \in JobLocals /\ l.pc = "fail"
      BY <1>1 DEF JobLocals, JobPcs
    <3> HIDE DEF l
    <3> QED
      BY <1>1, <2>2, <3>1, BecomeForm, DoneKnows DEF Continue
  <2> QED
    BY <1>8, <2>1, <2>2
<1> QED
  BY <1>1, <1>2, <1>10, <1>11, SoloGoesOn

LEMMA ModelFailsSolo ==
    ASSUME OneAtATime, SoloInv, NEW j \in Jobs, ModelFails(j), SingleJob' PROVE SoloInv'
<1> DEFINE l == [job[j] EXCEPT !.pc = "fail"]
<1>1. /\ IntakeInv /\ RowInv /\ job[j].pc = "generate" /\ job[j] \in JobLocals
      /\ UNCHANGED <<row, revisions, stored, flagged, drafted>>
  BY JobFacts DEF SoloInv, ModelFails, JobAt, intakeHistory
<1>2. IntakeInv' /\ RowInv'
  BY <1>1, ModelFailsTypes, RowStays
<1>3. l \in JobLocals /\ l.pc = "fail"
  BY <1>1 DEF JobLocals, JobPcs
<1> HIDE DEF l
<1>4. JobsBut(j) /\ Knows(j)'
  BY <1>1, <1>3, BecomeForm, DoneKnows DEF ModelFails, Continue, l
<1> QED
  BY <1>1, <1>2, <1>4, SoloGoesOn

LEMMA MarkFailedSolo ==
    ASSUME OneAtATime, SoloInv, NEW j \in Jobs, MarkFailed(j), SingleJob' PROVE SoloInv'
<1>1. /\ IntakeInv /\ RowInv /\ job[j].pc = "fail" /\ row \in ReviewRows
      /\ row.version \in stored \/ row.version = 0
      /\ UNCHANGED <<revisions, flagged, drafted>>
  BY JobFacts DEF SoloInv, MarkFailed, JobAt
<1>2. IntakeInv'
  BY <1>1, MarkFailedTypes
<1>3. /\ row' \in {row, markProcessingFailed(row)} /\ Finish(j)
      /\ stored' = stored \cup ({row'.version} \ {0})
  BY DEF MarkFailed, WriteRow
<1>4. /\ row'.version = row.version
      /\ row'.humanReviewRequired = row.humanReviewRequired
      /\ row'.status \in {row.status, "FAILED"}
  BY <1>1, <1>3, FailedRow
<1>5. stored' = stored
  BY <1>1, <1>3, <1>4
<1>6. RowInv'
  BY <1>1, <1>4, <1>5
  DEF RowInv, DraftsInv, FlagSticks, GeneratedIsEarned, Earned, NoWordsLost
<1>7. JobsBut(j) /\ Knows(j)'
  BY <1>1, <1>3, AfterIngestKnows
<1> QED
  BY <1>1, <1>2, <1>6, <1>7, SoloGoesOn

LEMMA AbortSolo ==
    ASSUME OneAtATime, SoloInv, NEW j \in Jobs, Abort(j), SingleJob' PROVE SoloInv'
<1>1. /\ IntakeInv /\ RowInv /\ job \in [Jobs -> JobLocals]
      /\ UNCHANGED <<row, revisions, stored, flagged, drafted>>
  BY DEF SoloInv, Abort, intakeHistory, IntakeInv, IntakeTypeOK
<1>2. IntakeInv' /\ RowInv'
  BY <1>1, AbortTypes, RowStays
<1>3. JobsBut(j) /\ Knows(j)'
  BY <1>1, NoJobType, BecomeForm, DoneKnows DEF Abort
<1> QED
  BY <1>1, <1>2, <1>3, SoloGoesOn

LEMMA SoloStep ==
    ASSUME OneAtATime, SoloInv, [IntakeNext]_ivars PROVE SoloInv'
<1>1. CASE World \/ UNCHANGED ivars
  <2>1. UNCHANGED <<row, job, revisions, stored, flagged, drafted>>
    BY <1>1 DEF World, CustomerWrites, Redeliver, OwnerRepliesOnGoogle, ivars,
                intakeHistory
  <2>2. IntakeInv'
    BY <1>1, IntakeTypesStep DEF SoloInv, IntakeNext
  <2>3. RowInv'
    BY <2>1, RowStays DEF SoloInv
  <2>4. SingleJob' /\ \A j \in Jobs : Knows(j)'
    BY <2>1 DEF SoloInv, SingleJob, JobAt, Knows
  <2> QED
    BY <2>2, <2>3, <2>4 DEF SoloInv
<1>2. ASSUME NEW j \in Jobs, JobStarts(j), SingleJob' PROVE SoloInv'
  BY <1>2, StartsSolo
<1>3. ASSUME NEW j \in Jobs, JobContinues(j), SingleJob' PROVE SoloInv'
  BY <1>3, FindSolo, InsertSolo, ReviseSolo, ApplySolo, ReadSolo, MarkSolo,
     GenerateSolo, ModelFailsSolo, MarkFailedSolo
  DEF JobContinues
<1>4. ASSUME NEW j \in Jobs, Abort(j), SingleJob' PROVE SoloInv'
  BY <1>4, AbortSolo
<1> QED
  BY <1>1, <1>2, <1>3, <1>4 DEF IntakeNext, Pipeline

LEMMA SoloInvariant == ASSUME OneAtATime PROVE IntakeSpec => []SoloInv
<1>1. IntakeInit => SoloInv
  BY SoloInit
<1>2. SoloInv /\ [IntakeNext]_ivars => SoloInv'
  BY SoloStep
<1> QED
  BY <1>1, <1>2, PTL DEF IntakeSpec

\* Once any generation asked for a human, the row says so for good: through
\* regenerations, the customer's edits, failures and crashes (human_review_required
\* of 0002_hardening.sql, humanReviewStaysRequired of processing.service.ts).
THEOREM FlagSticksCorrect == ASSUME OneAtATime PROVE IntakeSpec => []FlagSticks
<1>1. SoloInv => FlagSticks
  BY DEF SoloInv, RowInv
<1> QED
  BY <1>1, SoloInvariant, PTL

\* A row that may post itself earned it with the words it holds now, whatever was
\* edited, failed or redelivered since it was evaluated (processing.service.ts).
THEOREM GeneratedIsEarnedCorrect == ASSUME OneAtATime PROVE IntakeSpec => []GeneratedIsEarned
<1>1. SoloInv => GeneratedIsEarned
  BY DEF SoloInv, RowInv
<1> QED
  BY <1>1, SoloInvariant, PTL

\* What the customer once wrote, and the row once held, is in the row or among
\* its revisions, wherever an ingest stopped (ingest.service.ts).
THEOREM NoWordsLostCorrect == ASSUME OneAtATime PROVE IntakeSpec => []NoWordsLost
<1>1. SoloInv => NoWordsLost
  BY DEF SoloInv, RowInv
<1> QED
  BY <1>1, SoloInvariant, PTL

\* No redelivery drafts a version a second time: the idempotency layers of
\* ingest.service.ts and processing.service.ts suffice together.
THEOREM DraftedOnceCorrect == ASSUME OneAtATime PROVE IntakeSpec => []DraftedOnce
<1>1. SoloInv => DraftedOnce
  BY DEF SoloInv, Knows, DraftedOnce, JobAt, Jobs
<1> QED
  BY <1>1, SoloInvariant, PTL

---------------------------------------------------------------------------
(* Nothing is acknowledged too early, as long as the database answers *)

\* A job carries, or the row already has, what its message told of.
Heard(j) ==
    /\ job[j].pc \in Ingesting => job[j].version >= job[j].message
    /\ job[j].pc \in Drafting => row.version >= job[j].message

HeardInv ==
    /\ SoloInv
    /\ \A j \in Jobs : Heard(j)
    /\ AckedIsStored

LEMMA HeardGoesOn ==
    ASSUME HeardInv, SoloInv', NEW j \in Jobs, JobsBut(j), Heard(j)',
           row'.version >= row.version, UNCHANGED customer,
           \/ UNCHANGED notified
           \/ notified' = notified \ {job[j].message} /\ row'.version >= job[j].message
    PROVE  HeardInv'
<1>1. /\ row.version \in Nat /\ row'.version \in Nat /\ customer \in Nat
      /\ \A k \in Jobs : job[k].message \in Nat
  <2>1. IntakeInv /\ IntakeInv'
    BY DEF HeardInv, SoloInv
  <2> QED
    BY <2>1, IntakeAssumption
    DEF IntakeInv, IntakeTypeOK, ReviewRows, JobLocals, Versions
<1>2. ASSUME NEW k \in Jobs, k # j PROVE Heard(k)'
  <2>1. job'[k] = job[k] /\ Heard(k) /\ job[k].message \in Nat
    BY <1>1, <1>2 DEF HeardInv, JobsBut
  <2> QED
    BY <1>1, <2>1 DEF Heard
<1>3. ASSUME NEW m \in 1..customer PROVE m \in notified' \/ row'.version >= m
  BY <1>1, <1>3 DEF HeardInv, AckedIsStored
<1> QED
  BY <1>2, <1>3 DEF HeardInv, AckedIsStored

LEMMA FinishHeard ==
    ASSUME IntakeInv, NEW j \in Jobs, Finish(j)
    PROVE  JobsBut(j) /\ Heard(j)' /\ notified' = notified \ {job[j].message}
  BY FinishForm, NoJobType DEF Finish, Acknowledge, Heard, Ingesting, Drafting

LEMMA AfterIngestHeard ==
    ASSUME IntakeInv, NEW j \in Jobs, NEW status, AfterIngest(j, status),
           row'.version # 0, row'.version >= job[j].message
    PROVE  /\ JobsBut(j) /\ Heard(j)'
           /\ UNCHANGED notified \/ notified' = notified \ {job[j].message}
<1> DEFINE l == [NoJob EXCEPT !.pc = "read", !.message = job[j].message]
<1>1. CASE Finish(j)
  BY <1>1, FinishHeard
<1>2. CASE Continue(j, l)
  <2>1. l \in JobLocals /\ l.pc = "read" /\ l.message = job[j].message
    BY JobFacts, NoJobType DEF JobLocals, JobPcs
  <2> HIDE DEF l
  <2> QED
    BY <1>2, <2>1, BecomeForm DEF Continue, Heard, Ingesting
<1> QED
  BY <1>1, <1>2 DEF AfterIngest

\* A job that goes on with its version and its message.
LEMMA ContinueHeard ==
    ASSUME HeardInv, NEW j \in Jobs, NEW l \in JobLocals, Become(j, l),
           l.message = job[j].message, row'.version \in Nat,
           row'.version >= row.version,
           \/ /\ l.version = job[j].version /\ job[j].pc \in Ingesting
              /\ l.pc \in Ingesting
           \/ job[j].pc \in Drafting /\ l.pc \in Drafting
    PROVE  JobsBut(j) /\ Heard(j)'
<1>1. JobsBut(j) /\ job'[j] = l /\ Heard(j)
  BY BecomeForm DEF HeardInv, SoloInv
<1>2. row.version \in Nat /\ job[j].message \in Nat
  BY JobFacts, IntakeAssumption DEF HeardInv, SoloInv, ReviewRows, JobLocals, Versions
<1>3. CASE l.version = job[j].version /\ job[j].pc \in Ingesting /\ l.pc \in Ingesting
  BY <1>1, <1>3 DEF Heard, Ingesting, Drafting
<1>4. CASE job[j].pc \in Drafting /\ l.pc \in Drafting
  <2>1. row.version >= job[j].message
    BY <1>1, <1>4 DEF Heard
  <2>2. row'.version >= job[j].message
    BY <1>2, <2>1
  <2> QED
    BY <1>1, <1>4, <2>2 DEF Heard, Ingesting, Drafting
<1> QED
  BY <1>3, <1>4

\* What a step may rely on when the database does not fail.
LEMMA HeardFacts ==
    ASSUME HeardInv, NEW j \in Jobs
    PROVE  /\ IntakeInv /\ Knows(j) /\ Heard(j) /\ JobIsSound(j)
           /\ job[j] \in JobLocals /\ job[j].message \in Nat /\ job[j].version \in Nat
           /\ row \in ReviewRows /\ row.version \in Nat
           /\ customer \in Nat /\ notified \subseteq 1..customer
           /\ row.version <= customer
  BY JobFacts, IntakeAssumption
  DEF HeardInv, SoloInv, IntakeInv, IntakeTypeOK, VersionsInv, JobLocals, Versions

LEMMA StartsHeard ==
    ASSUME OneAtATime, Named, HeardInv, SoloInv', NEW j \in Jobs, JobStarts(j)
    PROVE  HeardInv'
<1> USE HeardFacts
<1>1. UNCHANGED <<row, customer, notified>>
  BY DEF JobStarts, Deliver, Pull, Process, Regenerate, Continue
<1>2. job \in [Jobs -> JobLocals] /\ job' \in [Jobs -> JobLocals]
  BY DEF HeardInv, SoloInv, IntakeInv, IntakeTypeOK
<1>3. ASSUME NEW m \in Nat, m <= customer, Become(j, Payload(m))
      PROVE  JobsBut(j) /\ Heard(j)'
  <2>1. job'[j] = Payload(m) /\ Payload(m).pc = "find" /\ Payload(m).message = m
           /\ Payload(m).version = customer
    BY <1>2, <1>3 DEF Become, Payload, NoJob
  <2> QED
    BY <1>2, <1>3, <2>1 DEF Become, JobsBut, Heard, Drafting
<1>4. ASSUME NEW l, l.pc \in {"read", "mark"}, l.message = 0, Become(j, l)
      PROVE  JobsBut(j) /\ Heard(j)'
  <2>1. job'[j] = l /\ row'.version = row.version
    BY <1>1, <1>2, <1>4 DEF Become
  <2> QED
    BY <1>2, <1>4, <2>1 DEF Become, JobsBut, Heard, Ingesting
<1>5. CASE \E m \in Versions : Deliver(j, m)
  <2>1. PICK m \in Versions : Deliver(j, m)
    BY <1>5
  <2>2. m \in Nat /\ m <= customer
    BY <2>1 DEF Deliver
  <2>3. CASE Become(j, Payload(m))
    BY <1>1, <1>3, <2>2, <2>3, HeardGoesOn
  <2>4. CASE UNCHANGED job
    <3>1. JobsBut(j) /\ row'.version = row.version
      BY <1>1, <1>2, <2>4 DEF JobsBut
    <3>2. Heard(j)'
      BY <2>4, <3>1 DEF Heard
    <3> QED
      BY <1>1, <3>1, <3>2, HeardGoesOn
  <2> QED
    BY <2>1, <2>3, <2>4 DEF Deliver, Continue
<1>6. CASE Pull(j)
  BY <1>1, <1>3, <1>6, HeardGoesOn DEF Pull, Continue
<1>7. CASE Process(j)
  <2> DEFINE l == [NoJob EXCEPT !.pc = "read"]
  <2>1. l.pc = "read" /\ l.message = 0
    BY DEF NoJob
  <2>2. Become(j, l)
    BY <1>7 DEF Process, Continue
  <2> HIDE DEF l
  <2> QED
    BY <1>1, <1>4, <2>1, <2>2, HeardGoesOn
<1>8. CASE Regenerate(j)
  <2> DEFINE l == [NoJob EXCEPT !.pc = "mark", !.prior = row.humanReviewRequired]
  <2>1. l.pc = "mark" /\ l.message = 0
    BY DEF NoJob
  <2>2. Become(j, l)
    BY <1>8 DEF Regenerate, Continue
  <2> HIDE DEF l
  <2> QED
    BY <1>1, <1>4, <2>1, <2>2, HeardGoesOn
<1> QED
  BY <1>5, <1>6, <1>7, <1>8 DEF JobStarts

LEMMA IngestHeard ==
    ASSUME OneAtATime, ~DatabaseMayFail, HeardInv, SoloInv', NEW j \in Jobs,
           Find(j) \/ Insert(j) \/ Revise(j) \/ Apply(j)
    PROVE  HeardInv'
<1> USE HeardFacts
<1>1. job[j].pc \in Ingesting /\ job[j].version >= job[j].message
         /\ job[j].version # 0 /\ UNCHANGED customer
  BY DEF Find, Insert, Revise, Apply, JobAt, Heard, Ingesting, JobIsSound
<1>2. CASE Find(j)
  <2>1. UNCHANGED row
    BY <1>2 DEF Find
  <2>2. ASSUME NEW l \in JobLocals, l.pc \in {"insert", "revise", "apply"},
               l.message = job[j].message, l.version = job[j].version, Continue(j, l)
        PROVE  HeardInv'
    <3>1. JobsBut(j) /\ Heard(j)'
      BY <1>1, <2>1, <2>2, ContinueHeard DEF Continue, Ingesting
    <3> QED
      BY <1>1, <2>1, <2>2, <3>1, HeardGoesOn DEF Continue
  <2>3. CASE Continue(j, [job[j] EXCEPT !.pc = "insert"])
    <3> DEFINE l == [job[j] EXCEPT !.pc = "insert"]
    <3>1. l \in JobLocals /\ l.pc = "insert" /\ l.message = job[j].message
             /\ l.version = job[j].version
      BY DEF JobLocals, JobPcs
    <3> HIDE DEF l
    <3>2. Continue(j, l)
      BY <2>3 DEF l
    <3> QED
      BY <2>2, <3>1, <3>2
  <2>4. CASE /\ row.version # 0 /\ isStaleOrDuplicate(job[j].version, row)
             /\ AfterIngest(j, row.status)
    <3>1. row'.version # 0 /\ row'.version >= job[j].message
      BY <1>1, <2>1, <2>4 DEF isStaleOrDuplicate, payloadTime, columnTime
    <3> QED
      BY <1>1, <2>1, <2>4, <3>1, AfterIngestHeard, HeardGoesOn
  <2>5. ASSUME NEW changed, changed = hasContentChanged(job[j].version, row.version),
               Continue(j, [job[j] EXCEPT
                   !.pc = IF changed THEN "revise" ELSE "apply",
                   !.replyState = keptReplyState(@, row.replyState),
                   !.changed = changed, !.oldVersion = row.version,
                   !.editCount = row.editCount])
        PROVE  HeardInv'
    <3> DEFINE l == [job[j] EXCEPT
                   !.pc = IF changed THEN "revise" ELSE "apply",
                   !.replyState = keptReplyState(@, row.replyState),
                   !.changed = changed, !.oldVersion = row.version,
                   !.editCount = row.editCount]
    <3>1. /\ changed \in BOOLEAN /\ row.editCount \in Nat
          /\ row.replyState \in GOOGLE_REPLY_STATES /\ row.version \in Versions \cup {0}
      BY <2>5, JobFacts DEF hasContentChanged, ReviewRows
    <3>2. /\ l \in JobLocals /\ l.pc \in {"insert", "revise", "apply"}
          /\ l.message = job[j].message /\ l.version = job[j].version
      BY <3>1 DEF JobLocals, JobPcs, keptReplyState
    <3> HIDE DEF l
    <3>3. Continue(j, l)
      BY <2>5 DEF l
    <3> QED
      BY <2>2, <3>2, <3>3
  <2> QED
    BY <1>2, <2>3, <2>4, <2>5 DEF Find
<1>3. CASE Insert(j)
  <2> DEFINE new == insertReview(row, job[j].version, job[j].replyState)
  <2>1. row' = new /\ AfterIngest(j, new.status)
    BY <1>3 DEF Insert, WriteRow
  <2>2. new.version = job[j].version
    BY InsertRow DEF JobLocals
  <2>3. row.version = 0
    BY <1>3 DEF Insert, JobAt, Knows
  <2> HIDE DEF new
  <2> QED
    BY <1>1, <2>1, <2>2, <2>3, AfterIngestHeard, HeardGoesOn
<1>4. CASE Revise(j)
  <2> DEFINE l == [job[j] EXCEPT !.pc = "apply"]
  <2>1. l \in JobLocals /\ l.pc = "apply" /\ l.message = job[j].message
           /\ l.version = job[j].version
    BY DEF JobLocals, JobPcs
  <2>2. Become(j, l) /\ UNCHANGED <<row, notified>>
    BY <1>4 DEF Revise, Continue
  <2> HIDE DEF l
  <2>3. JobsBut(j) /\ Heard(j)'
    BY <1>1, <2>1, <2>2, ContinueHeard DEF Ingesting
  <2> QED
    BY <1>1, <2>2, <2>3, HeardGoesOn
<1>5. CASE Apply(j)
  <2> DEFINE new == applyReviewEdit(row, job[j].version, job[j].replyState,
                                    job[j].changed, job[j].editCount)
  <2>1. row' = new /\ AfterIngest(j, new.status)
    BY <1>5 DEF Apply, WriteRow
  <2>2. new.version = job[j].version
    BY EditRow
  <2>3. job[j].version >= row.version
    BY <1>5 DEF Apply, JobAt, Knows
  <2> HIDE DEF new
  <2> QED
    BY <1>1, <2>1, <2>2, <2>3, AfterIngestHeard, HeardGoesOn
<1> QED
  BY <1>2, <1>3, <1>4, <1>5

LEMMA DraftHeard ==
    ASSUME OneAtATime, ~DatabaseMayFail, HeardInv, SoloInv', NEW j \in Jobs,
           \/ Read(j) \/ Mark(j) \/ Generate(j) \/ ModelFails(j) \/ MarkFailed(j)
    PROVE  HeardInv'
<1> USE HeardFacts
<1>1. /\ job[j].pc \in Drafting /\ row.version >= job[j].message /\ UNCHANGED customer
  BY DEF Read, Mark, Generate, ModelFails, MarkFailed, JobAt, Heard, Drafting
<1>2. row'.version = row.version
  <2>1. CASE Read(j) \/ ModelFails(j)
    BY <2>1 DEF Read, ModelFails
  <2>2. CASE Mark(j)
    BY <2>2, ProcessingRow DEF Mark, WriteRow
  <2>3. CASE MarkFailed(j)
    BY <2>3, FailedRow DEF MarkFailed, WriteRow
  <2>4. CASE Generate(j)
    <3>1. \E d, h, s : row' = saveGeneratedResponse(row, d, h, s)
      BY <2>4 DEF Generate, WriteRow
    <3> QED
      BY <3>1 DEF saveGeneratedResponse, set_updated_at, ReviewRows
  <2> QED
    BY <2>1, <2>2, <2>3, <2>4
<1>3. CASE Finish(j)
  BY <1>1, <1>2, <1>3, FinishHeard, HeardGoesOn
<1>4. ASSUME NEW l \in JobLocals, l.pc \in Drafting, l.message = job[j].message,
             Continue(j, l)
      PROVE  HeardInv'
  <2>1. JobsBut(j) /\ Heard(j)'
    BY <1>1, <1>2, <1>4, ContinueHeard DEF Continue
  <2> QED
    BY <1>1, <1>2, <1>4, <2>1, HeardGoesOn DEF Continue
<1>5. CASE Continue(j, [job[j] EXCEPT !.pc = "fail"])
  <2> DEFINE l == [job[j] EXCEPT !.pc = "fail"]
  <2>1. l \in JobLocals /\ l.pc \in Drafting /\ l.message = job[j].message
    BY DEF JobLocals, JobPcs, Drafting
  <2>2. Continue(j, l)
    BY <1>5
  <2> HIDE DEF l
  <2> QED
    BY <1>4, <2>1, <2>2
<1>6. CASE Continue(j, [job[j] EXCEPT !.pc = "mark", !.prior = row.humanReviewRequired])
  <2> DEFINE l == [job[j] EXCEPT !.pc = "mark", !.prior = row.humanReviewRequired]
  <2>1. l \in JobLocals /\ l.pc \in Drafting /\ l.message = job[j].message
    BY DEF JobLocals, JobPcs, Drafting, ReviewRows
  <2>2. Continue(j, l)
    BY <1>6
  <2> HIDE DEF l
  <2> QED
    BY <1>4, <2>1, <2>2
<1>7. CASE Mark(j)
  <2> DEFINE l == [job[j] EXCEPT !.pc = "generate",
                                 !.version = markProcessing(row).version,
                                 !.replyState = markProcessing(row).replyState]
  <2>1. /\ markProcessing(row).version \in Versions \cup {0}
        /\ markProcessing(row).replyState \in GOOGLE_REPLY_STATES
    BY ProcessingRow, JobFacts DEF ReviewRows
  <2>2. l \in JobLocals /\ l.pc \in Drafting /\ l.message = job[j].message
    BY <2>1 DEF JobLocals, JobPcs, Drafting
  <2>3. Continue(j, l)
    BY <1>7 DEF Mark, WriteRow
  <2> HIDE DEF l
  <2> QED
    BY <1>4, <2>2, <2>3
<1> QED
  BY <1>3, <1>5, <1>6, <1>7 DEF Read, Generate, ModelFails, MarkFailed, WriteRow

LEMMA HeardStep ==
    ASSUME OneAtATime, Named, ~DatabaseMayFail, HeardInv, [IntakeNext]_ivars
    PROVE  HeardInv'
<1>1. SoloInv'
  BY SoloStep DEF HeardInv
<1>2. CASE World \/ UNCHANGED ivars
  <2>1. UNCHANGED <<row, job>> /\ customer \in Nat
    BY <1>2, IntakeAssumption
    DEF World, CustomerWrites, Redeliver, OwnerRepliesOnGoogle, ivars, HeardInv,
        SoloInv, IntakeInv, IntakeTypeOK
  <2>2. \A m \in 1..customer' : m \in 1..customer \/ m \in notified'
    BY <1>2, <2>1
    DEF World, CustomerWrites, Redeliver, OwnerRepliesOnGoogle, ivars
  <2>3. notified \subseteq notified'
    <3>1. CASE Redeliver
      BY <3>1 DEF Redeliver
    <3> QED
      BY <1>2, <3>1 DEF World, CustomerWrites, OwnerRepliesOnGoogle, ivars
  <2>4. AckedIsStored'
    BY <2>1, <2>2, <2>3 DEF HeardInv, AckedIsStored
  <2> QED
    BY <1>1, <2>1, <2>4 DEF HeardInv, Heard
<1>3. ASSUME NEW j \in Jobs, JobStarts(j) PROVE HeardInv'
  BY <1>1, <1>3, StartsHeard
<1>4. ASSUME NEW j \in Jobs, JobContinues(j) PROVE HeardInv'
  BY <1>1, <1>4, IngestHeard, DraftHeard DEF JobContinues
<1>5. ASSUME NEW j \in Jobs, Abort(j) PROVE HeardInv'
  <2>1. JobsBut(j) /\ job'[j].pc = "idle" /\ UNCHANGED <<row, customer, notified>>
    BY <1>5, NoJobType, BecomeForm DEF HeardInv, SoloInv, Abort
  <2>2. Heard(j)' /\ row'.version >= row.version
    BY <1>5, <2>1, HeardFacts DEF Heard, Ingesting, Drafting
  <2> QED
    BY <1>1, <1>5, <2>1, <2>2, HeardGoesOn
<1> QED
  BY <1>2, <1>3, <1>4, <1>5 DEF IntakeNext, Pipeline

\* Pub/Sub's message is answered with 200 only when the row has what it told of,
\* whatever the model, Google or a crash interrupts, provided the notification
\* names its review and the database answers (pubsub.service.ts and the route).
THEOREM AckedIsStoredCorrect ==
    ASSUME OneAtATime, Named, ~DatabaseMayFail
    PROVE  IntakeSpec => []AckedIsStored
<1>1. IntakeInit => HeardInv
  <2> SUFFICES ASSUME IntakeInit PROVE HeardInv
    OBVIOUS
  <2>1. SoloInv /\ customer = 0 /\ \A j \in Jobs : job[j].pc = "idle"
    BY SoloInit, NoJobType DEF IntakeInit, JobsInit
  <2> QED
    BY <2>1 DEF HeardInv, Heard, AckedIsStored, Ingesting, Drafting
<1>2. HeardInv /\ [IntakeNext]_ivars => HeardInv'
  BY HeardStep
<1>3. HeardInv => AckedIsStored
  BY DEF HeardInv
<1> QED
  BY <1>1, <1>2, <1>3, PTL DEF IntakeSpec
=============================================================================
