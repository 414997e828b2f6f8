------------------------ MODULE ReviewSystemProofs ------------------------
(***************************************************************************)
(* Proofs about ReviewSystem, the composition of intake and publishing,    *)
(* for any number of requests, sweeps, deliveries, versions and faults.    *)
(* Types hold however all of them overlap.  What ReviewIntake promises is  *)
(* shown to survive publishing if no two jobs overlap (OneAtATime); what   *)
(* PublishWorkflow promises to survive intake, with requests and sweeps    *)
(* overlapping freely, if no job overlaps them (JobsAlone).                *)
(***************************************************************************)
EXTENDS ReviewSystem, PublishWorkflowProofs, ReviewIntakeProofs

---------------------------------------------------------------------------
(* The inductive invariant *)

\* The row has its columns, and its reply state is one of the enumeration.
RowIsSound ==
    /\ DOMAIN row = DOMAIN NoRow
    /\ row.replyState \in GOOGLE_REPLY_STATES

\* Before the first insert nothing has happened to the row.
FreshIsUntouched ==
    row.version = 0 => row.status = "RECEIVED" /\ row.replyState = "NONE"

PublishedIsUnclaimed == row.publishedAt => row.replyState # "PUBLISH_PENDING"

\* What the job record l holds from earlier reads still fits the row r.
Fits(l, r) ==
    /\ DOMAIN l = DOMAIN NoJob
    /\ l.pc \in {"find", "insert"} =>
          l.version # 0 /\ l.replyState \in {"NONE", "EXISTING_REPLY_FOUND"}
    /\ l.pc = "insert" => r.version = 0
    /\ l.pc \notin {"idle", "find", "insert"} => r.version # 0
    /\ l.pc \in {"revise", "apply"} =>
          /\ l.version # 0
          /\ l.replyState \in {"EXISTING_REPLY_FOUND", r.replyState}
          /\ l.changed = (Words[l.version] # Words[r.version])

NewsExists == customer \in Nat /\ (notified # {} => customer # 0)

SystemInv ==
    /\ RowIsSound
    /\ FreshIsUntouched
    /\ PublishedIsUnclaimed
    /\ ApprovalIsCurrent
    /\ NewsExists
    /\ DOMAIN job = Jobs
    /\ \A j \in Jobs : Fits(job[j], row)
    /\ Alone

LEMMA SystemInvInit == SystemInit => SystemInv
<1> SUFFICES ASSUME SystemInit PROVE SystemInv
  OBVIOUS
<1>1. /\ row = NoRow /\ customer = 0 /\ notified = {}
      /\ job = [j \in Jobs |-> NoJob]
      /\ \A p \in Procs : local[p].pc = "idle"
  BY DEF SystemInit, JobsInit, Idle
<1>2. /\ NoRow.version = 0 /\ NoRow.status = "RECEIVED" /\ NoRow.replyState = "NONE"
      /\ NoRow.publishedAt = FALSE
  BY DEF NoRow
<1>3. RowIsSound /\ FreshIsUntouched /\ PublishedIsUnclaimed /\ ApprovalIsCurrent
  BY <1>1, <1>2 DEF RowIsSound, FreshIsUntouched, PublishedIsUnclaimed,
                    ApprovalIsCurrent, GOOGLE_REPLY_STATES
<1>4. NoJob.pc = "idle"
  BY DEF NoJob
<1>5. \A j \in Jobs : job[j].pc = "idle" /\ Fits(job[j], row)
  BY <1>1, <1>4 DEF Fits
<1>6. Busy = {}
  BY <1>1, <1>5 DEF Busy, WorkingJobs, Running, At, JobAt
<1> QED
  BY <1>1, <1>3, <1>5, <1>6 DEF SystemInv, NewsExists, Alone

---------------------------------------------------------------------------
(* Approving and publishing *)

\* Every step of PublishWorkflow leaves the row, or runs one of its statements on a
\* row that matches it.
LEMMA PublishingStatements ==
    ASSUME Next
    PROVE  \/ row' = row
           \/ /\ canMarkApproved(row)
              /\ \E t, a : row' = markApproved(row, t, a)
           \/ canMarkRejected(row) /\ row' = markRejected(row)
           \/ /\ canUpdateFinalResponse(row)
              /\ \E t : row' = updateFinalResponse(row, t)
           \/ canMarkUnapproved(row) /\ row' = markUnapproved(row)
           \/ holdsClaim(row) /\ row' = [row EXCEPT !.aged = TRUE]
           \/ /\ \E p \in Procs : Running(p)
              /\ \/ /\ canClaimReviewForPublishing(row)
                    /\ row' = claimReviewForPublishing(row)
                 \/ /\ holdsClaim(row)
                    /\ \/ row' = claimStalePublishPendingReview(row)
                       \/ \E t, a : row' = markPublished(row, t, a)
                       \/ row' = markPublishBlockedByExistingReply(row)
                       \/ row' = markPublishFailed(row)
<1>1. ASSUME NEW p \in Requests, RequestStep(p)
      PROVE  \/ row' = row
             \/ /\ canMarkApproved(row)
                /\ \E t, a : row' = markApproved(row, t, a)
             \/ canMarkRejected(row) /\ row' = markRejected(row)
             \/ /\ canUpdateFinalResponse(row)
                /\ \E t : row' = updateFinalResponse(row, t)
             \/ canMarkUnapproved(row) /\ row' = markUnapproved(row)
  <2>1. CASE ApproveWrite(p)
    <3>1. \/ row' = row
          \/ canMarkApproved(row) /\ row' = markApproved(row, local[p].text, local[p].by)
      BY <2>1 DEF ApproveWrite, Write
    <3> QED
      BY <3>1
  <2>2. CASE RejectWrite(p)
    BY <2>2 DEF RejectWrite, Write
  <2>3. CASE EditWrite(p)
    <3>1. \/ row' = row
          \/ canUpdateFinalResponse(row) /\ row' = updateFinalResponse(row, local[p].text)
      BY <2>3 DEF EditWrite, Write
    <3> QED
      BY <3>1
  <2>4. CASE Unapprove(p)
    BY <2>4 DEF Unapprove, Write
  <2> QED
    BY <1>1, <2>1, <2>2, <2>3, <2>4 DEF RequestStep, ApproveRead, RejectRead, EditRead
<1>2. ASSUME NEW p \in Procs, Claim(p) \/ Reclaim(p) \/ Record(p) \/ Block(p) \/ Fail(p)
      PROVE  \/ row' = row
             \/ /\ Running(p)
                /\ \/ /\ canClaimReviewForPublishing(row)
                      /\ row' = claimReviewForPublishing(row)
                   \/ /\ holdsClaim(row)
                      /\ \/ row' = claimStalePublishPendingReview(row)
                         \/ \E t, a : row' = markPublished(row, t, a)
                         \/ row' = markPublishBlockedByExistingReply(row)
                         \/ row' = markPublishFailed(row)
  <2>1. Running(p)
    BY <1>2 DEF Claim, Reclaim, Record, Block, Fail, Running, At
  <2>2. CASE Claim(p)
    BY <2>1, <2>2 DEF Claim, Write
  <2>3. CASE Reclaim(p)
    BY <2>1, <2>3 DEF Reclaim, Write, isStalePublishPending, holdsClaim
  <2>4. CASE Record(p)
    <3>1. \/ row' = row
          \/ holdsClaim(row) /\ row' = markPublished(row, local[p].text, local[p].by)
      BY <2>4 DEF Record, Write
    <3> QED
      BY <2>1, <3>1
  <2>5. CASE Block(p)
    BY <2>1, <2>5 DEF Block, Write
  <2>6. CASE Fail(p)
    BY <2>1, <2>6 DEF Fail, Write
  <2> QED
    BY <1>2, <2>2, <2>3, <2>4, <2>5, <2>6
<1>3. ASSUME NEW p \in Procs, PublishStep(p)
      PROVE  row' = row \/ Claim(p) \/ Record(p) \/ Block(p) \/ Fail(p)
  BY <1>3 DEF PublishStep, PublishPrecheck, CheckLive, Put
<1>4. ASSUME NEW s \in Sweepers, SweepStep(s)
      PROVE  row' = row \/ (s \in Procs /\ Reclaim(s))
  BY <1>4 DEF SweepStep, SweepFindStale, SweepFindGenerated, Procs
<1>5. CASE Environment
  BY <1>5 DEF Environment, Crash, Age, OwnerReplies, holdsClaim
<1>6. CASE \E p \in Requests : RequestStep(p)
  BY <1>1, <1>6
<1>7. CASE \E p \in Procs : PublishStep(p)
  <2>1. PICK p \in Procs : PublishStep(p)
    BY <1>7
  <2> QED
    BY <1>2, <1>3, <2>1
<1>8. CASE \E s \in Sweepers : SweepStep(s)
  <2>1. PICK s \in Sweepers : SweepStep(s)
    BY <1>8
  <2> QED
    BY <1>2, <1>4, <2>1
<1> QED
  BY <1>5, <1>6, <1>7, <1>8 DEF Next

\* What none of those statements does: change the customer's version, undo a
\* publication, claim what is published or blocked, or touch a fresh row.
LEMMA PublishingKeeps ==
    ASSUME Next, RowIsSound, FreshIsUntouched, PublishedIsUnclaimed
    PROVE  /\ RowIsSound' /\ FreshIsUntouched' /\ PublishedIsUnclaimed'
           /\ row'.version = row.version
           /\ row'.replyState = row.replyState \/ \E p \in Procs : Running(p)
           /\ row.publishedAt => row'.publishedAt /\ row'.publishedBy = row.publishedBy
           /\ row.replyState = "EXISTING_REPLY_FOUND" => row'.replyState = row.replyState
<1> USE DEF RowIsSound, FreshIsUntouched, PublishedIsUnclaimed, NoRow, set_updated_at,
            GOOGLE_REPLY_STATES
<1>1. CASE row' = row
  BY <1>1
<1>2. CASE canMarkApproved(row) /\ \E t, a : row' = markApproved(row, t, a)
  <2>1. PICK t, a : row' = markApproved(row, t, a)
    BY <1>2
  <2> QED
    BY <1>2, <2>1 DEF canMarkApproved, APPROVABLE_STATUSES, markApproved
<1>3. CASE canMarkRejected(row) /\ row' = markRejected(row)
  BY <1>3 DEF canMarkRejected, REJECTABLE_STATUSES, markRejected
<1>4. CASE canUpdateFinalResponse(row) /\ \E t : row' = updateFinalResponse(row, t)
  <2>1. PICK t : row' = updateFinalResponse(row, t)
    BY <1>4
  <2> QED
    BY <1>4, <2>1 DEF canUpdateFinalResponse, EDITABLE_STATUSES, updateFinalResponse
<1>5. CASE canMarkUnapproved(row) /\ row' = markUnapproved(row)
  BY <1>5 DEF canMarkUnapproved, markUnapproved
<1>6. CASE row' = [row EXCEPT !.aged = TRUE]
  BY <1>6
<1>7. CASE /\ \E p \in Procs : Running(p)
           /\ canClaimReviewForPublishing(row)
           /\ row' = claimReviewForPublishing(row)
  BY <1>7 DEF canClaimReviewForPublishing, PUBLISHABLE_STATUSES,
              PUBLISH_CLAIMABLE_REPLY_STATES, claimReviewForPublishing
<1>8. CASE /\ \E p \in Procs : Running(p)
           /\ holdsClaim(row)
           /\ \/ row' = claimStalePublishPendingReview(row)
              \/ \E t, a : row' = markPublished(row, t, a)
              \/ row' = markPublishBlockedByExistingReply(row)
              \/ row' = markPublishFailed(row)
  <2> USE <1>8 DEF holdsClaim
  <2>1. CASE row' = claimStalePublishPendingReview(row)
    BY <2>1 DEF claimStalePublishPendingReview
  <2>2. ASSUME NEW t, NEW a, row' = markPublished(row, t, a)
        PROVE  /\ RowIsSound' /\ FreshIsUntouched' /\ PublishedIsUnclaimed'
               /\ row'.version = row.version
    BY <2>2 DEF markPublished
  <2>3. CASE row' = markPublishBlockedByExistingReply(row)
    BY <2>3 DEF markPublishBlockedByExistingReply
  <2>4. CASE row' = markPublishFailed(row)
    BY <2>4 DEF markPublishFailed
  <2> QED
    BY <2>1, <2>2, <2>3, <2>4
<1> QED
  BY <1>1, <1>2, <1>3, <1>4, <1>5, <1>6, <1>7, <1>8, PublishingStatements

\* While a job is under way no publishing handler moves, so what the job holds
\* still fits.
LEMMA PublishingStep ==
    ASSUME JobsAlone, SystemInv, Publishing, Alone' PROVE SystemInv'
<1>1. /\ RowIsSound' /\ FreshIsUntouched' /\ PublishedIsUnclaimed'
      /\ row'.version = row.version
      /\ row'.replyState = row.replyState \/ \E p \in Procs : Running(p)
      /\ UNCHANGED intakeVars
  BY PublishingKeeps DEF SystemInv, Publishing
<1>2. ApprovalIsCurrent'
  BY <1>1 DEF SystemInv, Publishing, ApprovalIsCurrent
<1>3. UNCHANGED <<customer, notified, job>>
  BY <1>1 DEF intakeVars
<1>4. ASSUME NEW j \in Jobs PROVE Fits(job'[j], row')
  <2>1. Fits(job[j], row)
    BY DEF SystemInv
  <2>2. CASE row'.replyState = row.replyState
    BY <1>1, <1>3, <2>1, <2>2 DEF Fits
  <2>3. CASE \E p \in Procs : Running(p)
    <3>1. PICK p \in Procs : Running(p)
      BY <2>3
    <3>2. p # j
      BY WriterAssumption DEF Jobs
    <3>3. job[j].pc = "idle"
      BY <3>1, <3>2 DEF SystemInv, Alone, WorkingJobs, Busy, JobAt
    <3> QED
      BY <1>1, <1>3, <2>1, <3>3 DEF Fits
  <2> QED
    BY <1>1, <2>2, <2>3
<1> QED
  BY <1>1, <1>2, <1>3, <1>4 DEF SystemInv, NewsExists

---------------------------------------------------------------------------
(* Ingesting and drafting *)

ReviewInv == RowIsSound /\ FreshIsUntouched /\ PublishedIsUnclaimed /\ ApprovalIsCurrent

\* Job j is left with a record that fits the row, and no news is made up.
Moved(j) ==
    /\ DOMAIN job' = DOMAIN job
    /\ \A k \in Jobs \ {j} : job'[k] = job[k]
    /\ Fits(job'[j], row')
    /\ notified' \subseteq notified
    /\ UNCHANGED customer

LEMMA OverFits == \A r : Fits(NoJob, r)
BY DEF Fits, NoJob

LEMMA FinishMoves ==
    ASSUME SystemInv, NEW j \in Jobs, Finish(j), UNCHANGED customer
    PROVE  Moved(j)
BY OverFits DEF SystemInv, Moved, Finish, Become, Acknowledge

LEMMA ContinueMoves ==
    ASSUME SystemInv, NEW j \in Jobs, NEW l, Continue(j, l),
           Fits(l, row'), UNCHANGED customer
    PROVE  Moved(j)
BY DEF SystemInv, Moved, Continue, Become

LEMMA AfterIngestMoves ==
    ASSUME SystemInv, NEW j \in Jobs, NEW status,
           AfterIngest(j, status), row'.version # 0, UNCHANGED customer
    PROVE  Moved(j)
<1> DEFINE l == [NoJob EXCEPT !.pc = "read", !.message = job[j].message]
<1>1. Fits(l, row')
  BY DEF Fits, NoJob
<1> QED
  BY <1>1, FinishMoves, ContinueMoves DEF AfterIngest

\* A job that moves, and leaves the row as it should be, takes nothing from under
\* another job, as no other is under way unless the row stays.
LEMMA MovedKeeps ==
    ASSUME JobsAlone, SystemInv, NEW j \in Jobs, Moved(j), ReviewInv', Alone',
           job[j].pc # "idle" \/ row' = row
    PROVE  SystemInv'
<1>1. /\ DOMAIN job' = Jobs /\ Fits(job'[j], row')
      /\ \A k \in Jobs \ {j} : job'[k] = job[k]
  BY DEF SystemInv, Moved
<1>2. ASSUME NEW k \in Jobs PROVE Fits(job'[k], row')
  <2>1. CASE k = j
    BY <1>1, <2>1
  <2>2. CASE k # j
    <3>1. job'[k] = job[k] /\ Fits(job[k], row)
      BY <1>1, <2>2 DEF SystemInv
    <3>2. CASE row' = row
      BY <3>1, <3>2
    <3>3. CASE job[j].pc # "idle"
      <4>1. job[k].pc = "idle"
        BY <2>2, <3>3 DEF SystemInv, Alone, WorkingJobs, Busy, JobAt
      <4> QED
        BY <3>1, <4>1 DEF Fits
    <3> QED
      BY <3>2, <3>3
  <2> QED
    BY <2>1, <2>2
<1>3. NewsExists'
  BY DEF Moved, NewsExists, SystemInv
<1> QED
  BY <1>1, <1>2, <1>3 DEF SystemInv, ReviewInv

\* What a step that keeps the row leaves of it.
LEMMA ReviewStays ==
    ASSUME SystemInv, UNCHANGED <<row, approvedFor>>
    PROVE  ReviewInv'
BY DEF SystemInv, ReviewInv, RowIsSound, FreshIsUntouched, PublishedIsUnclaimed,
       ApprovalIsCurrent

\* Starting a job leaves the row alone, and the job holds what Google shows now.
LEMMA StartMoves ==
    ASSUME SystemInv, NEW j \in Jobs, JobStarts(j), UNCHANGED approvedFor
    PROVE  Moved(j) /\ row' = row
<1>1. ASSUME NEW m, customer # 0 PROVE Fits(Payload(m), row')
  BY <1>1 DEF Fits, Payload, NoJob, replyStateOf
<1>2. ASSUME row'.version # 0, NEW prior
      PROVE  /\ Fits([NoJob EXCEPT !.pc = "read"], row')
             /\ Fits([NoJob EXCEPT !.pc = "mark", !.prior = prior], row')
  BY <1>2 DEF Fits, NoJob
<1>3. ASSUME NEW m, Deliver(j, m) PROVE Moved(j) /\ row' = row
  <2>1. customer # 0
    BY <1>3 DEF Deliver, SystemInv, NewsExists
  <2>2. row' = row /\ UNCHANGED customer
    BY <1>3 DEF Deliver
  <2>3. CASE Continue(j, Payload(m))
    BY <1>1, <2>1, <2>2, <2>3, ContinueMoves
  <2>4. CASE notified' \subseteq notified /\ UNCHANGED job
    BY <2>2, <2>4 DEF SystemInv, Moved
  <2> QED
    BY <1>3, <2>3, <2>4 DEF Deliver
<1>4. CASE Pull(j)
  BY <1>1, <1>4, ContinueMoves DEF Pull
<1>5. CASE Process(j)
  <2> DEFINE l == [NoJob EXCEPT !.pc = "read"]
  <2>1. /\ row' = row /\ row'.version # 0 /\ UNCHANGED customer
        /\ Continue(j, l)
    BY <1>5 DEF Process
  <2>2. Fits(l, row')
    BY <1>2, <2>1
  <2> HIDE DEF l
  <2> QED
    BY <2>1, <2>2, ContinueMoves
<1>6. CASE Regenerate(j)
  <2> DEFINE l == [NoJob EXCEPT !.pc = "mark", !.prior = row.humanReviewRequired]
  <2>1. row' = row /\ row'.version # 0
    BY <1>6 DEF Regenerate, REGENERATABLE_STATUSES, SystemInv,
                FreshIsUntouched
  <2>2. Fits(l, row')
    BY <1>2, <2>1
  <2>3. Continue(j, l) /\ UNCHANGED customer
    BY <1>6 DEF Regenerate
  <2> HIDE DEF l
  <2> QED
    BY <2>1, <2>2, <2>3, ContinueMoves
<1> QED
  BY <1>3, <1>4, <1>5, <1>6 DEF JobStarts

\* findReview tells the job what it does next; the version and the reply state it
\* goes by are those of the row.
LEMMA FindMoves ==
    ASSUME SystemInv, NEW j \in Jobs, Find(j)
    PROVE  Moved(j) /\ row' = row
<1>1. /\ job[j].pc = "find" /\ Fits(job[j], row)
      /\ row' = row /\ UNCHANGED customer
  BY DEF Find, JobAt, SystemInv
<1>2. CASE row.version = 0 /\ Continue(j, [job[j] EXCEPT !.pc = "insert"])
  <2> DEFINE l == [job[j] EXCEPT !.pc = "insert"]
  <2>1. Fits(l, row')
    BY <1>1, <1>2 DEF Fits, NoJob
  <2> QED
    BY <1>1, <1>2, <2>1, ContinueMoves
<1>3. CASE row.version # 0 /\ AfterIngest(j, row.status)
  BY <1>1, <1>3, AfterIngestMoves
<1>4. ASSUME row.version # 0,
             NEW changed, changed = (Words[job[j].version] # Words[row.version]),
             Continue(j, [job[j] EXCEPT
                 !.pc = IF changed THEN "revise" ELSE "apply",
                 !.replyState = keptReplyState(@, row.replyState),
                 !.changed = changed, !.oldVersion = row.version,
                 !.editCount = row.editCount])
      PROVE  Moved(j)
  <2> DEFINE l == [job[j] EXCEPT
                 !.pc = IF changed THEN "revise" ELSE "apply",
                 !.replyState = keptReplyState(@, row.replyState),
                 !.changed = changed, !.oldVersion = row.version,
                 !.editCount = row.editCount]
  <2>1. /\ DOMAIN l = DOMAIN NoJob /\ l.version = job[j].version
        /\ l.changed = changed /\ l.pc = IF changed THEN "revise" ELSE "apply"
        /\ l.replyState = keptReplyState(job[j].replyState, row.replyState)
    BY <1>1 DEF Fits, NoJob
  <2> HIDE DEF l
  <2>2. l.replyState \in {"EXISTING_REPLY_FOUND", row.replyState} /\ l.version # 0
    BY <1>1, <2>1 DEF Fits, keptReplyState
  <2>3. l.pc \in {"revise", "apply"}
    BY <2>1
  <2>4. Fits(l, row')
    BY <1>1, <1>4, <2>1, <2>2, <2>3 DEF Fits
  <2>5. Continue(j, l)
    BY <1>4 DEF l
  <2> QED
    BY <1>1, <2>4, <2>5, ContinueMoves
<1>5. CASE Finish(j)
  BY <1>1, <1>5, FinishMoves
<1> QED
  BY <1>1, <1>2, <1>3, <1>4, <1>5 DEF Find, hasContentChanged

\* The other steps that write nothing to the row.
LEMMA QuietMoves ==
    ASSUME SystemInv, NEW j \in Jobs,
           \/ Revise(j) \/ Read(j) \/ ModelFails(j)
           \/ Abort(j)
    PROVE  Moved(j) /\ row' = row
<1>1. row' = row /\ UNCHANGED customer /\ Fits(job[j], row)
  BY DEF Revise, Read, ModelFails, Abort, SystemInv
<1>2. CASE Finish(j)
  BY <1>1, <1>2, FinishMoves
<1>3. CASE JobAt(j, "revise")
           /\ Continue(j, [job[j] EXCEPT !.pc = "apply"])
  <2> DEFINE l == [job[j] EXCEPT !.pc = "apply"]
  <2>1. Fits(l, row')
    BY <1>1, <1>3 DEF Fits, NoJob, JobAt
  <2> QED
    BY <1>1, <1>3, <2>1, ContinueMoves
<1>4. CASE JobAt(j, "read")
           /\ Continue(j, [job[j] EXCEPT !.pc = "mark",
                                                !.prior = row.humanReviewRequired])
  <2> DEFINE l == [job[j] EXCEPT !.pc = "mark", !.prior = row.humanReviewRequired]
  <2>1. Fits(l, row')
    BY <1>1, <1>4 DEF Fits, NoJob, JobAt
  <2> QED
    BY <1>1, <1>4, <2>1, ContinueMoves
<1>5. CASE JobAt(j, "generate")
           /\ Continue(j, [job[j] EXCEPT !.pc = "fail"])
  <2> DEFINE l == [job[j] EXCEPT !.pc = "fail"]
  <2>1. Fits(l, row')
    BY <1>1, <1>5 DEF Fits, NoJob, JobAt
  <2> QED
    BY <1>1, <1>5, <2>1, ContinueMoves
<1>6. CASE Abort(j)
  BY <1>1, <1>6, OverFits DEF Abort, Become, Moved, SystemInv
<1> QED
  BY <1>1, <1>2, <1>3, <1>4, <1>5, <1>6
     DEF Revise, Read, ModelFails

\* insertReview finds no row, so there is nothing it could reset.
LEMMA InsertMoves ==
    ASSUME SystemInv, NEW j \in Jobs, Insert(j), UNCHANGED approvedFor
    PROVE  Moved(j) /\ ReviewInv'
<1> DEFINE new == insertReview(row, job[j].version, job[j].replyState)
<1>1. /\ job[j].version # 0 /\ row.version = 0
      /\ job[j].replyState \in {"NONE", "EXISTING_REPLY_FOUND"}
      /\ UNCHANGED customer
  BY DEF SystemInv, Insert, JobAt, Fits
<1>2. /\ DOMAIN new = DOMAIN NoRow /\ new.version # 0 /\ new.status = "RECEIVED"
      /\ new.replyState \in {"NONE", "EXISTING_REPLY_FOUND"}
  BY <1>1 DEF SystemInv, RowIsSound, NoRow, insertReview, set_updated_at
<1>3. WriteRow(new, AfterIngest(j, new.status), Finish(j))
  BY DEF Insert
<1> HIDE DEF new
<1>4. row' = new => ReviewInv'
  BY <1>2 DEF ReviewInv, RowIsSound, FreshIsUntouched, PublishedIsUnclaimed,
              ApprovalIsCurrent, GOOGLE_REPLY_STATES
<1>5. /\ ReviewInv'
      /\ (row' = new /\ AfterIngest(j, new.status)) \/ Finish(j)
  BY <1>3, <1>4, ReviewStays DEF WriteRow
<1> QED
  BY <1>1, <1>2, <1>5, AfterIngestMoves, FinishMoves

\* applyReviewEdit leaves an approval standing only for the same words, and never
\* brings back a reply state that can be claimed.
LEMMA ApplyMoves ==
    ASSUME SystemInv, NEW j \in Jobs, Apply(j), UNCHANGED approvedFor
    PROVE  Moved(j) /\ ReviewInv'
<1> DEFINE new == applyReviewEdit(row, job[j].version, job[j].replyState,
                                         job[j].changed, job[j].editCount)
<1>1. /\ job[j].version # 0 /\ row.version # 0
      /\ job[j].replyState \in {"EXISTING_REPLY_FOUND", row.replyState}
      /\ job[j].changed = (Words[job[j].version] # Words[row.version])
      /\ UNCHANGED customer
  BY DEF SystemInv, Apply, JobAt, Fits
<1>2. /\ DOMAIN new = DOMAIN NoRow /\ new.version = job[j].version
      /\ new.status = IF job[j].changed THEN "RECEIVED" ELSE row.status
      /\ new.replyState = job[j].replyState
      /\ new.publishedAt = row.publishedAt
  BY DEF SystemInv, RowIsSound, NoRow, applyReviewEdit, set_updated_at
<1>3. WriteRow(new, AfterIngest(j, new.status), Finish(j))
  BY DEF Apply
<1> HIDE DEF new
<1>4. ASSUME row' = new PROVE ReviewInv'
  <2>1. RowIsSound' /\ FreshIsUntouched' /\ PublishedIsUnclaimed'
    BY <1>1, <1>2, <1>4 DEF SystemInv, RowIsSound, FreshIsUntouched,
                            PublishedIsUnclaimed, GOOGLE_REPLY_STATES
  <2>2. ApprovalIsCurrent'
    BY <1>1, <1>2, <1>4 DEF SystemInv, ApprovalIsCurrent
  <2> QED
    BY <2>1, <2>2 DEF ReviewInv
<1>5. /\ ReviewInv'
      /\ (row' = new /\ AfterIngest(j, new.status)) \/ Finish(j)
  BY <1>3, <1>4, ReviewStays DEF WriteRow
<1> QED
  BY <1>1, <1>2, <1>5, AfterIngestMoves, FinishMoves

\* What generation writes never approves, and a job past ingest stays past it.
LEMMA DraftingWrites ==
    ASSUME SystemInv, NEW j \in Jobs, UNCHANGED <<customer, approvedFor>>,
           job[j].pc \notin {"idle", "find", "insert"}, NEW new,
           DOMAIN new = DOMAIN NoRow, new.status # "APPROVED",
           new.version = row.version, new.replyState = row.replyState,
           new.publishedAt = row.publishedAt, row' \in {row, new}
    PROVE  ReviewInv' /\ row'.version # 0
<1>1. row.version # 0
  BY DEF SystemInv, Fits
<1>2. CASE row' = new
  BY <1>1, <1>2 DEF SystemInv, ReviewInv, RowIsSound, FreshIsUntouched,
                    PublishedIsUnclaimed, ApprovalIsCurrent
<1> QED
  BY <1>1, <1>2, ReviewStays

LEMMA MarkMoves ==
    ASSUME SystemInv, NEW j \in Jobs, Mark(j), UNCHANGED approvedFor
    PROVE  Moved(j) /\ ReviewInv'
<1> DEFINE new == markProcessing(row)
           l == [job[j] EXCEPT !.pc = "generate", !.version = new.version,
                               !.replyState = new.replyState]
<1>1. job[j].pc = "mark" /\ UNCHANGED customer /\ DOMAIN job[j] = DOMAIN NoJob
  BY DEF Mark, JobAt, SystemInv, Fits
<1>2. /\ DOMAIN new = DOMAIN NoRow /\ new.status # "APPROVED"
      /\ new.version = row.version /\ new.replyState = row.replyState
      /\ new.publishedAt = row.publishedAt
  BY DEF SystemInv, RowIsSound, NoRow, markProcessing, set_updated_at
<1>3. DOMAIN l = DOMAIN NoJob /\ l.pc = "generate"
  BY <1>1 DEF NoJob
<1>4. WriteRow(new, Continue(j, l), Finish(j))
  BY DEF Mark
<1> HIDE DEF new, l
<1>5. row' \in {row, new} /\ (Continue(j, l) \/ Finish(j))
  BY <1>4 DEF WriteRow
<1>6. ReviewInv' /\ row'.version # 0
  BY <1>1, <1>2, <1>5, DraftingWrites
<1>7. Fits(l, row')
  BY <1>3, <1>6 DEF Fits
<1> QED
  BY <1>1, <1>5, <1>6, <1>7, ContinueMoves, FinishMoves

LEMMA GenerateMoves ==
    ASSUME SystemInv, NEW j \in Jobs, Generate(j), UNCHANGED approvedFor
    PROVE  Moved(j) /\ ReviewInv'
<1> DEFINE l == [job[j] EXCEPT !.pc = "fail"]
<1>1. /\ job[j].pc = "generate" /\ UNCHANGED customer
      /\ DOMAIN job[j] = DOMAIN NoJob
  BY DEF Generate, JobAt, SystemInv, Fits
<1>2. DOMAIN l = DOMAIN NoJob /\ l.pc = "fail"
  BY <1>1 DEF NoJob
<1>3. \E draft, flag, decision :
          LET new == saveGeneratedResponse(row, draft, flag,
                                                  statusFor(decision))
          IN  WriteRow(new, Finish(j), Continue(j, l))
  BY DEF Generate
<1> HIDE DEF l
<1>4. PICK draft, flag, decision :
          WriteRow(saveGeneratedResponse(row, draft, flag,
                                                       statusFor(decision)),
                          Finish(j), Continue(j, l))
  BY <1>3
<1> DEFINE new == saveGeneratedResponse(row, draft, flag,
                                               statusFor(decision))
<1>5. /\ DOMAIN new = DOMAIN NoRow /\ new.status # "APPROVED"
      /\ new.version = row.version /\ new.replyState = row.replyState
      /\ new.publishedAt = row.publishedAt
  BY DEF SystemInv, RowIsSound, NoRow, saveGeneratedResponse, statusFor,
         set_updated_at
<1>6. row' \in {row, new} /\ (Continue(j, l) \/ Finish(j))
  BY <1>4 DEF WriteRow
<1> HIDE DEF new
<1>7. ReviewInv' /\ row'.version # 0
  BY <1>1, <1>5, <1>6, DraftingWrites
<1>8. Fits(l, row')
  BY <1>2, <1>7 DEF Fits
<1> QED
  BY <1>1, <1>6, <1>7, <1>8, ContinueMoves, FinishMoves

LEMMA MarkFailedMoves ==
    ASSUME SystemInv, NEW j \in Jobs, MarkFailed(j), UNCHANGED approvedFor
    PROVE  Moved(j) /\ ReviewInv'
<1> DEFINE new == markProcessingFailed(row)
<1>1. job[j].pc = "fail" /\ UNCHANGED customer
  BY DEF MarkFailed, JobAt
<1>2. /\ DOMAIN new = DOMAIN NoRow /\ new.status # "APPROVED"
      /\ new.version = row.version /\ new.replyState = row.replyState
      /\ new.publishedAt = row.publishedAt
  BY DEF SystemInv, RowIsSound, NoRow, markProcessingFailed,
         set_updated_at
<1>3. row' \in {row, new} /\ Finish(j)
  BY DEF MarkFailed, WriteRow
<1> HIDE DEF new
<1>4. ReviewInv'
  BY <1>1, <1>2, <1>3, DraftingWrites
<1> QED
  BY <1>1, <1>3, <1>4, FinishMoves

LEMMA TakingStep ==
    ASSUME JobsAlone, SystemInv, Taking, Alone' PROVE SystemInv'
<1>1. UNCHANGED approvedFor
  BY DEF Taking
<1>2. PICK j \in Jobs :
          JobStarts(j) \/ JobContinues(j) \/ Abort(j)
  BY DEF Taking, Pipeline
<1>3. CASE JobStarts(j)
  BY <1>1, <1>3, StartMoves, ReviewStays, MovedKeeps
<1>4. CASE Find(j) \/ Revise(j) \/ Read(j)
           \/ ModelFails(j) \/ Abort(j)
  BY <1>1, <1>4, FindMoves, QuietMoves, ReviewStays, MovedKeeps
<1>5. CASE Insert(j) \/ Apply(j) \/ Mark(j)
           \/ Generate(j) \/ MarkFailed(j)
  <2>1. job[j].pc # "idle"
    BY <1>5 DEF Insert, Apply, Mark, Generate,
                MarkFailed, JobAt
  <2>2. Moved(j) /\ ReviewInv'
    BY <1>1, <1>5, InsertMoves, ApplyMoves, MarkMoves, GenerateMoves, MarkFailedMoves
  <2> QED
    BY <2>1, <2>2, MovedKeeps
<1> QED
  BY <1>2, <1>3, <1>4, <1>5 DEF JobContinues

LEMMA OutsideStep ==
    ASSUME SystemInv, Outside, Alone' PROVE SystemInv'
<1>1. UNCHANGED <<row, job, approvedFor>>
  BY DEF Outside, CustomerWrites, Redeliver
<1>2. ReviewInv'
  BY <1>1, ReviewStays
<1>3. NewsExists'
  <2>1. CASE CustomerWrites
    BY <2>1 DEF CustomerWrites, NewsExists, SystemInv
  <2>2. CASE Redeliver
    BY <2>2 DEF Redeliver, NewsExists, SystemInv
  <2> QED
    BY <2>1, <2>2 DEF Outside
<1> QED
  BY <1>1, <1>2, <1>3 DEF SystemInv, ReviewInv

LEMMA SystemStep ==
    ASSUME JobsAlone
    PROVE  SystemInv /\ [SystemNext]_systemVars => SystemInv'
<1> SUFFICES ASSUME SystemInv, [SystemNext]_systemVars PROVE SystemInv'
  OBVIOUS
<1>1. CASE SystemNext
  BY <1>1, PublishingStep, TakingStep, OutsideStep DEF SystemNext
<1>2. CASE UNCHANGED systemVars
  <2>1. UNCHANGED <<row, local, job, customer, notified, approvedFor>>
    BY <1>2 DEF systemVars, vars, intakeVars
  <2>2. ReviewInv'
    BY <2>1, ReviewStays
  <2>3. Alone'
    BY <2>1 DEF SystemInv, Alone, WorkingJobs, Busy, Running, At, JobAt
  <2> QED
    BY <2>1, <2>2, <2>3 DEF SystemInv, ReviewInv, NewsExists
<1> QED
  BY <1>1, <1>2

LEMMA SystemInvariant == ASSUME JobsAlone PROVE SystemSpec => []SystemInv
BY SystemInvInit, SystemStep, PTL DEF SystemSpec

---------------------------------------------------------------------------
(* What follows for the review as a whole *)

\* Nothing in the pipeline touches the record of a publication, nor a reply state
\* that says there is somebody else's reply.
LEMMA TakingKeeps ==
    ASSUME SystemInv, Taking
    PROVE  /\ row'.publishedAt = row.publishedAt
           /\ row'.publishedBy = row.publishedBy
           /\ row.replyState = "EXISTING_REPLY_FOUND" => row'.replyState = row.replyState
<1> USE DEF set_updated_at
<1>1. PICK j \in Jobs :
          JobStarts(j) \/ JobContinues(j) \/ Abort(j)
  BY DEF Taking, Pipeline
<1>2. DOMAIN row = DOMAIN NoRow /\ Fits(job[j], row)
  BY DEF SystemInv, RowIsSound
<1>3. CASE row' = row
  BY <1>3
<1>4. CASE Insert(j)
  <2>1. row.replyState # "EXISTING_REPLY_FOUND"
    BY <1>2, <1>4 DEF Fits, Insert, JobAt, SystemInv, FreshIsUntouched
  <2>2. row' \in {row, insertReview(row, job[j].version, job[j].replyState)}
    BY <1>4 DEF Insert, WriteRow
  <2> QED
    BY <1>2, <2>1, <2>2 DEF NoRow, insertReview
<1>5. CASE Apply(j)
  <2>1. row.replyState = "EXISTING_REPLY_FOUND" => job[j].replyState = row.replyState
    BY <1>2, <1>5 DEF Fits, Apply, JobAt
  <2>2. row' \in {row, applyReviewEdit(row, job[j].version, job[j].replyState,
                                              job[j].changed, job[j].editCount)}
    BY <1>5 DEF Apply, WriteRow
  <2> QED
    BY <1>2, <2>1, <2>2 DEF NoRow, applyReviewEdit
<1>6. CASE Mark(j)
  <2>1. row' \in {row, markProcessing(row)}
    BY <1>6 DEF Mark, WriteRow
  <2> QED
    BY <1>2, <2>1 DEF NoRow, markProcessing
<1>7. CASE Generate(j)
  <2>1. \E draft, flag, status :
            row' \in {row, saveGeneratedResponse(row, draft, flag, status)}
    BY <1>7 DEF Generate, WriteRow
  <2>2. PICK draft, flag, status :
            row' \in {row, saveGeneratedResponse(row, draft, flag, status)}
    BY <2>1
  <2> QED
    BY <1>2, <2>2 DEF NoRow, saveGeneratedResponse
<1>8. CASE MarkFailed(j)
  <2>1. row' \in {row, markProcessingFailed(row)}
    BY <1>8 DEF MarkFailed, WriteRow
  <2> QED
    BY <1>2, <2>1 DEF NoRow, markProcessingFailed
<1>9. CASE JobStarts(j)
  BY <1>3, <1>9 DEF JobStarts, Deliver, Pull, Process,
                    Regenerate
<1>10. CASE Find(j) \/ Revise(j) \/ Read(j)
            \/ ModelFails(j) \/ Abort(j)
  BY <1>3, <1>10, FindMoves, QuietMoves
<1> QED
  BY <1>1, <1>4, <1>5, <1>6, <1>7, <1>8, <1>9, <1>10 DEF JobContinues

\* No step at all does.
LEMMA SystemKeeps ==
    ASSUME SystemInv, [SystemNext]_systemVars
    PROVE  /\ row.publishedAt => row'.publishedAt /\ row'.publishedBy = row.publishedBy
           /\ row.replyState = "EXISTING_REPLY_FOUND" => row'.replyState = row.replyState
<1>1. CASE Publishing
  BY <1>1, PublishingKeeps DEF Publishing, SystemInv
<1>2. CASE Taking
  BY <1>2, TakingKeeps
<1>3. CASE Outside \/ UNCHANGED systemVars
  BY <1>3 DEF Outside, CustomerWrites, Redeliver, systemVars, vars
<1> QED
  BY <1>1, <1>2, <1>3 DEF SystemNext

\* If no job overlaps a request or a sweep, a review that counts as approved holds the
\* words it was approved with, for any number of edits, crashes and failed writes.
THEOREM ApprovalIsCurrentCorrect ==
    ASSUME JobsAlone
    PROVE  SystemSpec => []ApprovalIsCurrent
BY SystemInvariant, PTL DEF SystemInv

\* The record of a publication is final, through edits and new drafts.
THEOREM SystemPublishedOnceCorrect ==
    ASSUME JobsAlone
    PROVE  SystemSpec => SystemPublishedOnce
<1>1. SystemInv /\ [SystemNext]_systemVars =>
        [row.publishedAt => /\ row'.publishedAt
                            /\ row'.publishedBy = row.publishedBy]_row
  BY SystemKeeps
<1> QED
  BY <1>1, SystemInvariant, PTL DEF SystemSpec, SystemPublishedOnce

\* A review once found to have somebody else's reply stays closed for good.
THEOREM BlockedForGoodCorrect ==
    ASSUME JobsAlone
    PROVE  SystemSpec => BlockedForGood
<1>1. SystemInv /\ [SystemNext]_systemVars =>
        [row.replyState = "EXISTING_REPLY_FOUND" =>
            row'.replyState = "EXISTING_REPLY_FOUND"]_row
  BY SystemKeeps
<1> QED
  BY <1>1, SystemInvariant, PTL DEF SystemSpec, BlockedForGood

---------------------------------------------------------------------------
(* The types of the whole, however the requests overlap *)

WholeInv == TypeInv /\ IntakeInv

\* What publishing leaves of the row for ingesting and drafting to build upon.
LEMMA PublishingFrame ==
    ASSUME Next, row \in ReviewRows
    PROVE  /\ row'.version = row.version
           /\ row'.humanReviewRequired = row.humanReviewRequired
           /\ row'.status \in {row.status, "APPROVED", "REJECTED", "PENDING_APPROVAL",
                               "PUBLISHED"}
           /\ row = NoRow => row' = NoRow
<1> USE DEF set_updated_at
<1>0. ~holdsClaim(NoRow) /\ NoRow.status = "RECEIVED"
  BY DEF holdsClaim, NoRow
<1> DEFINE Framed(r) == /\ r.version = row.version
                        /\ r.humanReviewRequired = row.humanReviewRequired
                        /\ r.status \in {row.status, "APPROVED", "REJECTED",
                                         "PENDING_APPROVAL", "PUBLISHED"}
<1>1. /\ \A t, a : Framed(markApproved(row, t, a))
      /\ Framed(markRejected(row))
      /\ \A t : Framed(updateFinalResponse(row, t))
      /\ Framed(markUnapproved(row))
      /\ Framed([row EXCEPT !.aged = TRUE])
      /\ Framed(claimReviewForPublishing(row))
      /\ Framed(claimStalePublishPendingReview(row))
      /\ \A t, a : Framed(markPublished(row, t, a))
      /\ Framed(markPublishBlockedByExistingReply(row))
      /\ Framed(markPublishFailed(row))
  BY DEF ReviewRows, markApproved, markRejected, updateFinalResponse, markUnapproved,
         claimReviewForPublishing, claimStalePublishPendingReview, markPublished,
         markPublishBlockedByExistingReply, markPublishFailed
<1>2. Framed(row)
  OBVIOUS
<1>3. Framed(row')
  <2> HIDE DEF Framed
  <2> QED
    BY <1>1, <1>2, PublishingStatements
<1>4. row = NoRow => row' = row
  BY <1>0, PublishingStatements
  DEF canMarkApproved, APPROVABLE_STATUSES, canMarkRejected, REJECTABLE_STATUSES,
      canUpdateFinalResponse, EDITABLE_STATUSES, canMarkUnapproved,
      canClaimReviewForPublishing, PUBLISHABLE_STATUSES
<1> QED
  BY <1>3, <1>4

LEMMA PublishingFaults == ASSUME Next PROVE UNCHANGED faults \/ Fault
<1>1. ASSUME NEW p \in Requests, RequestStep(p) PROVE UNCHANGED faults \/ Fault
  BY <1>1 DEF RequestStep, ApproveRead, ApproveWrite, RejectRead, RejectWrite, EditRead,
              EditWrite, Unapprove, Write
<1>2. ASSUME NEW p \in Procs, PublishStep(p) PROVE UNCHANGED faults \/ Fault
  BY <1>2 DEF PublishStep, PublishPrecheck, Claim, CheckLive, Put, Record, Block, Fail,
              Write
<1>3. ASSUME NEW s \in Sweepers, SweepStep(s) PROVE UNCHANGED faults \/ Fault
  BY <1>3 DEF SweepStep, SweepFindStale, Reclaim, SweepFindGenerated, Write
<1> QED
  BY <1>1, <1>2, <1>3 DEF Next, Environment, Crash, Age, OwnerReplies

LEMMA WholeInit == SystemInit => WholeInv
<1> SUFFICES ASSUME SystemInit PROVE WholeInv
  OBVIOUS
<1>1. IntakeInv
  BY IntakeTypeInit DEF SystemInit, IntakeInit
<1>2. Idle \in Locals /\ Idle.pc = "idle"
  BY DEF Idle, Locals, Pcs, TextOrNull
<1>3. row \in ReviewRows /\ live \in TextOrNull
  BY <1>1 DEF IntakeInv, IntakeTypeOK
<1>4. TypeInv
  BY <1>2, <1>3 DEF SystemInit, TypeInv, TypeOK, ApprovalsAreNamed, Holding, At
<1> QED
  BY <1>1, <1>4 DEF WholeInv

\* Publishing keeps what the jobs rely on.
LEMMA PublishingTypes ==
    ASSUME WholeInv, Publishing PROVE WholeInv'
<1>1. TypeInv'
  BY TypeStep DEF WholeInv, Publishing
<1>2. /\ row' \in ReviewRows /\ live' \in TextOrNull
      /\ row'.version = row.version
      /\ row = NoRow => row' = NoRow
      /\ UNCHANGED intakeVars
  BY <1>1, PublishingFrame DEF WholeInv, TypeInv, TypeOK, Publishing
<1>3. faults' \in 0..MaxFaults
  BY PublishingFaults, ReviewAssumption
  DEF Publishing, Fault, WholeInv, IntakeInv, IntakeTypeOK
<1>4. IntakeTypeOK' /\ VersionsInv' /\ \A j \in Jobs : JobIsSound(j)'
  BY <1>2, <1>3
  DEF intakeVars, WholeInv, IntakeInv, IntakeTypeOK, VersionsInv, JobIsSound, JobAt
<1> QED
  BY <1>1, <1>4 DEF WholeInv, IntakeInv

\* Taking in reviews, and what happens outside, leaves the handlers alone.
LEMMA IntakeTypesWhole ==
    ASSUME WholeInv, Taking \/ Outside PROVE WholeInv'
<1>1. IntakeInv'
  BY IntakeTypesStep DEF WholeInv, Taking, Outside, IntakeNext, World
<1>2. row' \in ReviewRows /\ live' \in TextOrNull /\ faults' \in Nat
  BY <1>1, ReviewAssumption DEF IntakeInv, IntakeTypeOK
<1>3. TypeInv'
  BY <1>2
  DEF WholeInv, Taking, Outside, TypeInv, TypeOK, ApprovalsAreNamed, Holding, At
<1> QED
  BY <1>1, <1>3 DEF WholeInv

LEMMA WholeStep == WholeInv /\ [SystemNext]_systemVars => WholeInv'
<1> SUFFICES ASSUME WholeInv, [SystemNext]_systemVars PROVE WholeInv'
  OBVIOUS
<1>1. CASE UNCHANGED systemVars
  <2>1. UNCHANGED vars /\ UNCHANGED ivars
    BY <1>1 DEF systemVars, vars, intakeVars, ivars
  <2> QED
    BY <2>1, TypeStep, IntakeTypesStep DEF WholeInv
<1> QED
  BY <1>1, PublishingTypes, IntakeTypesWhole DEF SystemNext

LEMMA WholeInvariant == SystemSpec => []WholeInv
BY WholeInit, WholeStep, PTL DEF SystemSpec

\* Every variable of either half stays in its range, and no job loses the version
\* it works on, while all requests, sweeps, deliveries and failures overlap freely.
THEOREM SystemTypes == SystemSpec => [](TypeOK /\ IntakeTypeOK)
<1>1. WholeInv => TypeOK /\ IntakeTypeOK
  BY DEF WholeInv, TypeInv, IntakeInv
<1> QED
  BY <1>1, WholeInvariant, PTL

---------------------------------------------------------------------------
(* What ReviewIntake promises holds of the whole *)

SoloWhole == WholeInv /\ SoloInv

LEMMA PublishingSolo ==
    ASSUME SoloWhole, Publishing PROVE SoloInv'
<1>1. /\ IntakeInv' /\ row \in ReviewRows
  BY PublishingTypes DEF SoloWhole, WholeInv, TypeInv, TypeOK
<1>2. /\ row'.version = row.version
      /\ row'.humanReviewRequired = row.humanReviewRequired
      /\ row'.status \in {row.status, "APPROVED", "REJECTED", "PENDING_APPROVAL",
                          "PUBLISHED"}
      /\ UNCHANGED <<customer, notified, job, revisions, stored, flagged, drafted>>
  BY <1>1, PublishingFrame DEF Publishing, intakeVars
<1>3. RowInv'
  BY <1>2
  DEF SoloWhole, SoloInv, RowInv, DraftsInv, FlagSticks, GeneratedIsEarned, Earned,
      NoWordsLost
<1>4. SingleJob' /\ \A j \in Jobs : Knows(j)'
  BY <1>2 DEF SoloWhole, SoloInv, SingleJob, JobAt, Knows
<1> QED
  BY <1>1, <1>3, <1>4 DEF SoloInv

LEMMA SoloWholeStep ==
    ASSUME OneAtATime
    PROVE  SoloWhole /\ [SystemNext]_systemVars => SoloWhole'
<1> SUFFICES ASSUME SoloWhole, [SystemNext]_systemVars PROVE SoloInv'
  BY WholeStep DEF SoloWhole
<1>1. CASE Taking \/ Outside \/ UNCHANGED systemVars
  <2>1. [IntakeNext]_ivars
    BY <1>1 DEF Taking, Outside, IntakeNext, World, systemVars, vars, intakeVars, ivars
  <2> QED
    BY <2>1, SoloStep DEF SoloWhole
<1> QED
  BY <1>1, PublishingSolo DEF SystemNext

\* What the jobs alone keep, approvals, publications, rejections and sweeps at any
\* moment do not break: the flag for a human sticks, a row that may post itself
\* earned it, no words of the customer are lost, no version is drafted twice.
THEOREM SystemKeepsIntake ==
    ASSUME OneAtATime
    PROVE  SystemSpec => [](FlagSticks /\ GeneratedIsEarned /\ NoWordsLost /\ DraftedOnce)
<1>1. SystemInit => SoloWhole
  BY WholeInit, SoloInit DEF SoloWhole, SystemInit, IntakeInit
<1>2. SoloWhole => FlagSticks /\ GeneratedIsEarned /\ NoWordsLost /\ DraftedOnce
  BY DEF SoloWhole, SoloInv, RowInv, DraftedOnce, Knows, JobAt, Jobs
<1> QED
  BY <1>1, <1>2, SoloWholeStep, PTL DEF SystemSpec

HeardWhole == WholeInv /\ HeardInv

LEMMA HeardWholeStep ==
    ASSUME OneAtATime, Named, ~DatabaseMayFail
    PROVE  HeardWhole /\ [SystemNext]_systemVars => HeardWhole'
<1> SUFFICES ASSUME HeardWhole, [SystemNext]_systemVars PROVE HeardInv'
  BY WholeStep DEF HeardWhole
<1>1. CASE Taking \/ Outside \/ UNCHANGED systemVars
  <2>1. [IntakeNext]_ivars
    BY <1>1 DEF Taking, Outside, IntakeNext, World, systemVars, vars, intakeVars, ivars
  <2> QED
    BY <2>1, HeardStep DEF HeardWhole
<1>2. CASE Publishing
  <2>1. SoloInv' /\ row \in ReviewRows
    BY <1>2, PublishingSolo DEF HeardWhole, HeardInv, SoloWhole, WholeInv, TypeInv, TypeOK
  <2>2. row'.version = row.version /\ UNCHANGED <<customer, notified, job>>
    BY <1>2, <2>1, PublishingFrame DEF Publishing, intakeVars
  <2> QED
    BY <2>1, <2>2 DEF HeardWhole, HeardInv, Heard, AckedIsStored
<1> QED
  BY <1>1, <1>2 DEF SystemNext

\* Pub/Sub still gets a 200 only for what the row has, whatever becomes of the
\* row's reply in the meantime.
THEOREM SystemAcksStored ==
    ASSUME OneAtATime, Named, ~DatabaseMayFail
    PROVE  SystemSpec => []AckedIsStored
<1>1. SystemInit => HeardWhole
  <2> SUFFICES ASSUME SystemInit PROVE HeardWhole
    OBVIOUS
  <2>1. WholeInv /\ SoloInv /\ customer = 0 /\ \A j \in Jobs : job[j].pc = "idle"
    BY WholeInit, SoloInit, NoJobType DEF SystemInit, IntakeInit, JobsInit
  <2> QED
    BY <2>1 DEF HeardWhole, HeardInv, Heard, AckedIsStored, Ingesting, Drafting
<1>2. HeardWhole => AckedIsStored
  BY DEF HeardWhole, HeardInv
<1> QED
  BY <1>1, <1>2, HeardWholeStep, PTL DEF SystemSpec

---------------------------------------------------------------------------
(* What PublishWorkflow promises holds of the whole, with no job in between *)

\* The statements a job runs.
LEMMA TakingWrites ==
    ASSUME SystemInv, WholeInv, Taking
    PROVE  \/ row' = row
           \/ \E j \in Jobs :
                 \/ /\ job[j].pc = "insert"
                    /\ row' = insertReview(row, job[j].version, job[j].replyState)
                 \/ /\ job[j].pc = "apply"
                    /\ row' = applyReviewEdit(row, job[j].version, job[j].replyState,
                                              job[j].changed, job[j].editCount)
                 \/ job[j].pc = "mark" /\ row' = markProcessing(row)
                 \/ /\ job[j].pc = "generate"
                    /\ \E d \in AiTexts, h \in BOOLEAN, s \in {"GENERATED", "PENDING_APPROVAL"} :
                          /\ row' = saveGeneratedResponse(row, d, h, s)
                          /\ s = "GENERATED" => ~RequireApprovalForAll
                 \/ job[j].pc = "fail" /\ row' = markProcessingFailed(row)
<1>1. PICK j \in Jobs :
          JobStarts(j) \/ JobContinues(j) \/ Abort(j)
  BY DEF Taking, Pipeline
<1>2. CASE JobStarts(j)
  BY <1>2 DEF JobStarts, Deliver, Pull, Process, Regenerate
<1>3. CASE Find(j) \/ Revise(j) \/ Read(j) \/ ModelFails(j) \/ Abort(j)
  BY <1>3 DEF Find, Revise, Read, ModelFails, Abort
<1>4. CASE Insert(j)
  BY <1>4 DEF Insert, WriteRow, JobAt
<1>5. CASE Apply(j)
  BY <1>5 DEF Apply, WriteRow, JobAt
<1>6. CASE Mark(j)
  BY <1>6 DEF Mark, WriteRow, JobAt
<1>7. CASE MarkFailed(j)
  BY <1>7 DEF MarkFailed, WriteRow, JobAt
<1>8. CASE Generate(j)
  <2>1. /\ job[j].pc = "generate" /\ job[j].prior \in BOOLEAN
        /\ job[j].version \in Versions
    <3>1. JobAt(j, "generate") /\ IntakeInv
      BY <1>8 DEF Generate, WholeInv
    <3> QED
      BY <3>1, JobFacts DEF JobAt, JobLocals
  <2>2. PICK draft \in AiTexts, ai \in [risk : RISK_LEVELS, needsHumanReview : BOOLEAN] :
            row' \in {row, saveGeneratedResponse(row, draft,
                                                 Evaluation(j, ai).humanReviewRequired,
                                                 statusFor(Evaluation(j, ai).decision))}
    BY <1>8 DEF Generate, WriteRow
  <2> DEFINE e == Evaluation(j, ai)
  <2>3. /\ e.humanReviewRequired \in BOOLEAN
        /\ statusFor(e.decision) \in {"GENERATED", "PENDING_APPROVAL"}
        /\ statusFor(e.decision) = "GENERATED" => ~RequireApprovalForAll
    BY <2>1, EvaluationFacts
  <2> QED
    BY <2>1, <2>2, <2>3
<1> QED
  BY <1>1, <1>2, <1>3, <1>4, <1>5, <1>6, <1>7, <1>8 DEF JobContinues

\* Only a job that was under way writes, and then no handler is.
LEMMA TakingIsAlone ==
    ASSUME JobsAlone, SystemInv, WholeInv, Taking
    PROVE  row' = row \/ \A p \in Procs : ~Running(p)
<1> SUFFICES ASSUME row' # row, NEW p \in Procs, Running(p) PROVE FALSE
  OBVIOUS
<1>1. PICK j \in Jobs : job[j].pc # "idle"
  BY TakingWrites
<1>2. p # j
  BY <1>1, WriterAssumption DEF Jobs
<1> QED
  BY <1>1, <1>2 DEF SystemInv, Alone, WorkingJobs, Busy, JobAt

\* Taking in a review shows Google nothing, and neither approves nor claims.
LEMMA TakingLeaves ==
    ASSUME SystemInv, WholeInv, Taking
    PROVE  /\ UNCHANGED <<live, local, approvals, shown, raced>>
           /\ holdsClaim(row)' => holdsClaim(row)
           /\ row'.status = "APPROVED" =>
                 row.status = "APPROVED" /\ UNCHANGED <<row.final, row.approvedBy>>
           /\ row'.status = "GENERATED" =>
                 row.status = "GENERATED" \/ ~RequireApprovalForAll
<1>1. UNCHANGED <<live, local, approvals, shown, raced>>
  BY DEF Taking, Pipeline, JobStarts, JobContinues, Abort, Deliver, Pull, Process,
         Regenerate, Find, Insert, Revise, Apply, Read, Mark, Generate, ModelFails,
         MarkFailed
<1>2. row \in ReviewRows
  BY DEF WholeInv, TypeInv, TypeOK
<1> DEFINE Left(r) ==
              /\ holdsClaim(r) => holdsClaim(row)
              /\ r.status = "APPROVED" => /\ row.status = "APPROVED"
                                          /\ r.final = row.final
                                          /\ r.approvedBy = row.approvedBy
              /\ r.status = "GENERATED" =>
                    row.status = "GENERATED" \/ ~RequireApprovalForAll
<1> USE DEF set_updated_at, holdsClaim, ReviewRows
<1>3. CASE row' = row
  BY <1>1, <1>3
<1>4. ASSUME NEW j \in Jobs, job[j].pc = "insert" PROVE
          Left(insertReview(row, job[j].version, job[j].replyState))
  <2>1. job[j].replyState \in {"NONE", "EXISTING_REPLY_FOUND"}
    BY <1>4 DEF SystemInv, Fits
  <2> QED
    BY <1>2, <2>1 DEF insertReview
<1>5. ASSUME NEW j \in Jobs, job[j].pc = "apply" PROVE
          Left(applyReviewEdit(row, job[j].version, job[j].replyState,
                               job[j].changed, job[j].editCount))
  <2>1. job[j].replyState \in {"EXISTING_REPLY_FOUND", row.replyState}
    BY <1>5 DEF SystemInv, Fits
  <2> QED
    BY <1>2, <2>1 DEF applyReviewEdit
<1>6. Left(markProcessing(row)) /\ Left(markProcessingFailed(row))
  BY <1>2 DEF markProcessing, markProcessingFailed
<1>7. ASSUME NEW d \in AiTexts, NEW h \in BOOLEAN,
             NEW s \in {"GENERATED", "PENDING_APPROVAL"},
             s = "GENERATED" => ~RequireApprovalForAll
      PROVE  Left(saveGeneratedResponse(row, d, h, s))
  BY <1>2, <1>7 DEF saveGeneratedResponse
<1>8. Left(row')
  <2> HIDE DEF Left
  <2>1. Left(row)
    BY DEF Left
  <2> QED
    BY <1>4, <1>5, <1>6, <1>7, <2>1, TakingWrites
<1> QED
  BY <1>1, <1>8

\* Neither does anything outside.
LEMMA OutsideLeaves ==
    ASSUME Outside \/ UNCHANGED systemVars
    PROVE  UNCHANGED <<row, live, local, approvals, shown, raced, job>>
BY DEF Outside, CustomerWrites, Redeliver, systemVars, vars, intakeVars

\* The lock of PublishWorkflow, on a row that the jobs write too: they write only
\* while no handler runs, and leave the claim as they found it.
LockWhole == SystemInv /\ WholeInv /\ SlotInv

LEMMA LockWholeInit == SystemInit => LockWhole
<1> SUFFICES ASSUME SystemInit PROVE LockWhole
  OBVIOUS
<1>1. SystemInv /\ WholeInv /\ Idle.pc = "idle"
  BY SystemInvInit, WholeInit DEF Idle
<1>2. \A p \in Procs : local[p].pc = "idle"
  BY <1>1 DEF SystemInit
<1> QED
  BY <1>1, <1>2 DEF LockWhole, WholeInv, SlotInv, LockInv, RunsAlone, HoldersClaim,
                    SlotWasFree, InPublish, PublishPcs, Holding, At

LEMMA LockWholeStep ==
    ASSUME JobsAlone, ThresholdCoversAttempt
    PROVE  LockWhole /\ [SystemNext]_systemVars => LockWhole'
<1> SUFFICES ASSUME LockWhole, [SystemNext]_systemVars PROVE SlotInv'
  BY SystemStep, WholeStep DEF LockWhole
<1>1. TypeInv'
  BY WholeStep DEF LockWhole, WholeInv
<1>2. CASE Publishing
  BY <1>2, SlotStep DEF LockWhole, Publishing
<1>3. ASSUME UNCHANGED <<row, live, local, raced>> PROVE SlotInv'
  BY <1>1, <1>3
  DEF LockWhole, SlotInv, LockInv, RunsAlone, HoldersClaim, SlotWasFree, InPublish,
      Holding, At
<1>4. CASE Taking
  <2>1. UNCHANGED <<live, local, raced>>
    BY <1>4, TakingLeaves DEF LockWhole
  <2>2. CASE row' = row
    BY <1>3, <2>1, <2>2
  <2>3. CASE \A p \in Procs : ~Running(p)
    <3>1. \A p \in Procs : local'[p].pc = "idle"
      BY <2>1, <2>3 DEF Running, At
    <3> QED
      BY <1>1, <3>1 DEF SlotInv, LockInv, RunsAlone, HoldersClaim, SlotWasFree,
                        InPublish, PublishPcs, Holding, At
  <2> QED
    BY <1>4, <2>2, <2>3, TakingIsAlone DEF LockWhole
<1> QED
  BY <1>2, <1>3, <1>4, OutsideLeaves DEF SystemNext

LEMMA LockWholeInvariant ==
    ASSUME JobsAlone, ThresholdCoversAttempt
    PROVE  SystemSpec => []LockWhole
BY LockWholeInit, LockWholeStep, PTL DEF SystemSpec

\* Requests and sweeps may race for the claim at any point of a review's life, over
\* claims that crashes left behind and rows ingested and drafted anew in between: at
\* most one attempt is between its claim and its outcome, and the row says so.
THEOREM SystemSinglePublisher ==
    ASSUME JobsAlone, ThresholdCoversAttempt
    PROVE  SystemSpec => []SinglePublisher
<1>1. LockWhole => SinglePublisher
  BY DEF LockWhole, SlotInv, LockInv, RunsAlone, HoldersClaim, SinglePublisher, Holding,
         InPublish, PublishPcs
<1> QED
  BY <1>1, LockWholeInvariant, PTL

\* Nor does the application, in all the life of a review, replace a reply that it
\* had the time to see, not even one it posted to the customer's earlier words.
THEOREM SystemNeverOverwrites ==
    ASSUME JobsAlone, ThresholdCoversAttempt
    PROVE  SystemSpec => NeverOverwrites
<1>1. LockWhole /\ [SystemNext]_systemVars =>
        [live # NoText /\ live' # live =>
            live' \in OwnerTexts \/ \E p \in raced : At(p, "put")]_live
  <2> SUFFICES ASSUME LockWhole, [SystemNext]_systemVars, live # NoText, live' # live,
                      live' \notin OwnerTexts
               PROVE  \E p \in raced : At(p, "put")
    OBVIOUS
  <2>1. [Next]_vars
    BY TakingLeaves, OutsideLeaves DEF LockWhole, SystemNext, Publishing
  <2>2. PICK p \in Procs : Put(p)
    BY <2>1, WhoChangesGoogle
  <2> QED
    BY <2>2 DEF LockWhole, SlotInv, SlotWasFree, Put
<1> QED
  BY <1>1, LockWholeInvariant, PTL DEF SystemSpec, NeverOverwrites

---------------------------------------------------------------------------
(* What goes out without an approval has earned it *)

\* A claim stands for an approval, for words that earned a reply of their own, or for
\* a row that was written anew under it.
ClaimIsEarned == holdsClaim(row) => row.status = "APPROVED" \/ Earned \/ redone

EarnedInv == LockWhole /\ SoloWhole /\ ClaimIsEarned /\ AutoPostIsEarned

\* An attempt on its way to the PUT was on its way before, or has just computed its
\* text from a row that it claimed or took over.
LEMMA WhoStartsPost ==
    ASSUME TypeInv, Next, NEW p \in Procs, local'[p].pc \in {"check", "put"}
    PROVE  \/ local[p].pc \in {"check", "put"} /\ local'[p].by = local[p].by
           \/ /\ canClaimReviewForPublishing(row) \/ isStalePublishPending(row)
              /\ local'[p] = Finalize(row)
<1> DEFINE Posting == local[p].pc \in {"check", "put"} /\ local'[p].by = local[p].by
           Starting == /\ canClaimReviewForPublishing(row) \/ isStalePublishPending(row)
                       /\ local'[p] = Finalize(row)
<1>1. ASSUME NEW q \in Procs, NEW l, Moves(q, l), l.pc \notin {"check", "put"}
      PROVE  Posting
  BY <1>1 DEF Moves
<1>2. /\ row \in ReviewRows /\ local \in [Procs -> Locals]
      /\ Idle.pc \notin {"check", "put"} /\ Idle \in Locals
      /\ Finalize(row) \in Locals
  BY FinalizeType DEF TypeInv, TypeOK, Idle, Locals, Pcs, TextOrNull
<1>3. ASSUME NEW q \in Requests, RequestStep(q)
      PROVE  Posting
  <2>q. q \in Procs
    BY DEF Procs
  <2>1. CASE ApproveWrite(q) \/ RejectWrite(q) \/ EditWrite(q) \/ Unapprove(q)
    BY <1>1, <1>2, <2>q, <2>1, RequestsKeepClaim
  <2>2. CASE \E actor \in Actors : ApproveRead(q, actor)
    BY <1>1, <2>q, <2>2, ReadMoves
  <2>3. CASE RejectRead(q) \/ \E text \in HumanTexts : EditRead(q, text)
    BY <1>1, <2>q, <2>3, ReadMoves
  <2> QED
    BY <1>3, <2>1, <2>2, <2>3 DEF RequestStep
<1>4. ASSUME NEW q \in Procs, Claim(q) \/ Reclaim(q)
      PROVE  Posting \/ Starting
  <2>1. \/ Goto(q, Idle)
        \/ /\ canClaimReviewForPublishing(row) \/ isStalePublishPending(row)
           /\ Goto(q, Finalize(row))
    BY <1>4 DEF Claim, Reclaim, Write
  <2>2. CASE Goto(q, Idle)
    BY <1>1, <1>2, <2>2, GotoMoves DEF Moves
  <2>3. CASE Goto(q, Finalize(row)) /\ q = p
    BY <1>2, <2>1, <2>2, <2>3, GotoMoves
  <2>4. CASE Goto(q, Finalize(row)) /\ q # p
    BY <1>2, <2>4, GotoMoves
  <2> QED
    BY <2>1, <2>2, <2>3, <2>4
<1>5. ASSUME NEW q \in Procs, PublishStep(q), ~Claim(q)
      PROVE  Posting
  <2>1. CASE PublishPrecheck(q)
    BY <1>1, <2>1, ReadMoves
  <2>2. CASE CheckLive(q) \/ Put(q)
    <3>1. CASE q = p
      BY <2>2, <3>1, AttemptMoves DEF CheckLive, Put, At
    <3>2. CASE q # p
      BY <2>2, <3>2, AttemptMoves
    <3> QED
      BY <3>1, <3>2
  <2>3. CASE Record(q) \/ Block(q) \/ Fail(q)
    <3>1. Failing(q).pc = "fail"
      BY <1>2 DEF Failing, Locals
    <3> QED
      BY <1>1, <1>2, <2>3, <3>1, OutcomeWrites
  <2> QED
    BY <1>5, <2>1, <2>2, <2>3 DEF PublishStep
<1>6. ASSUME NEW s \in Sweepers, SweepStep(s), ~Reclaim(s)
      PROVE  Posting
  <2>s. s \in Procs
    BY DEF Procs
  <2> QED
    BY <1>1, <1>6, <2>s, ReadMoves DEF SweepStep
<1>7. ASSUME Environment PROVE Posting
  <2>1. UNCHANGED local \/ \E q \in Procs : Goto(q, Idle)
    BY <1>7 DEF Environment, Crash, Age, OwnerReplies
  <2> QED
    BY <1>1, <1>2, <2>1, GotoMoves DEF Moves
<1>8. Posting \/ Starting
  <2> HIDE DEF Posting, Starting
  <2>1. ASSUME NEW q \in Procs, PublishStep(q) PROVE Posting \/ Starting
    <3>1. CASE Claim(q)
      BY <1>4, <3>1
    <3>2. CASE ~Claim(q)
      BY <1>5, <2>1, <3>2
    <3> QED
      BY <3>1, <3>2
  <2>2. ASSUME NEW q \in Sweepers, SweepStep(q) PROVE Posting \/ Starting
    <3>1. CASE Reclaim(q)
      <4>1. q \in Procs
        BY DEF Procs
      <4> QED
        BY <1>4, <3>1, <4>1
    <3>2. CASE ~Reclaim(q)
      BY <1>6, <2>2, <3>2
    <3> QED
      BY <3>1, <3>2
  <2> QED
    BY <1>3, <1>7, <2>1, <2>2 DEF Next
<1> QED
  BY <1>8

\* Publishing leaves what a verdict went by.
LEMMA PublishingEarns ==
    ASSUME row \in ReviewRows, Publishing
    PROVE  Earned' <=> Earned
<1>1. row'.version = row.version /\ flagged' = flagged
  BY PublishingFrame DEF Publishing, intakeVars
<1> QED
  BY <1>1 DEF Earned

LEMMA EarnedPublishingStep ==
    ASSUME EarnedInv, Publishing, LockWhole'
    PROVE  ClaimIsEarned' /\ AutoPostIsEarned'
<1>1. /\ TypeInv /\ row \in ReviewRows /\ Next
      /\ redone' = (redone /\ holdsClaim(row)')
  BY DEF EarnedInv, LockWhole, WholeInv, TypeInv, TypeOK, Publishing, holdsClaim
<1>2. Earned' <=> Earned
  BY <1>1, PublishingEarns
<1>3. row.status = "GENERATED" => Earned
  BY DEF EarnedInv, SoloWhole, SoloInv, RowInv, GeneratedIsEarned
<1>4. HoldersClaim'
  BY DEF LockWhole, SlotInv, LockInv
<1>5. ClaimIsEarned'
  <2> SUFFICES ASSUME holdsClaim(row)', row'.status # "APPROVED" PROVE Earned \/ redone
    BY <1>1, <1>2 DEF ClaimIsEarned
  <2>1. \/ row.status = "GENERATED"
        \/ holdsClaim(row) /\ row.status # "APPROVED"
    <3> USE <1>1 DEF set_updated_at, ReviewRows, holdsClaim
    <3>1. CASE row' = row
      BY <3>1
    <3>2. CASE \E t, a : row' = markApproved(row, t, a)
      BY <3>2 DEF markApproved
    <3>3. CASE canMarkRejected(row) /\ row' = markRejected(row)
      BY <3>3 DEF canMarkRejected, REJECTABLE_STATUSES, markRejected
    <3>4. CASE canUpdateFinalResponse(row) /\ \E t : row' = updateFinalResponse(row, t)
      BY <3>4 DEF canUpdateFinalResponse, EDITABLE_STATUSES, updateFinalResponse
    <3>5. CASE canMarkUnapproved(row) /\ row' = markUnapproved(row)
      BY <3>5 DEF canMarkUnapproved, UNAPPROVABLE_REPLY_STATES, markUnapproved
    <3>6. CASE row' = [row EXCEPT !.aged = TRUE]
      BY <3>6
    <3>7. CASE canClaimReviewForPublishing(row) /\ row' = claimReviewForPublishing(row)
      BY <3>7 DEF canClaimReviewForPublishing, PUBLISHABLE_STATUSES,
                  claimReviewForPublishing
    <3>8. CASE holdsClaim(row) /\ row' = claimStalePublishPendingReview(row)
      BY <3>8 DEF claimStalePublishPendingReview
    <3>9. CASE \E t, a : row' = markPublished(row, t, a)
      BY <3>9 DEF markPublished
    <3>10. CASE \/ row' = markPublishBlockedByExistingReply(row)
                \/ row' = markPublishFailed(row)
      BY <3>10 DEF markPublishBlockedByExistingReply, markPublishFailed
    <3> QED
      BY <3>1, <3>2, <3>3, <3>4, <3>5, <3>6, <3>7, <3>8, <3>9, <3>10, PublishingStatements
  <2> QED
    BY <1>3, <2>1 DEF EarnedInv, ClaimIsEarned
<1>6. AutoPostIsEarned'
  <2> SUFFICES ASSUME NEW p \in Procs, local'[p].pc \in {"check", "put"},
                      local'[p].by = "auto"
               PROVE  Earned \/ redone
    <3>1. \A p \in Procs : local'[p].pc \in {"check", "put"} => holdsClaim(row)'
      BY <1>4 DEF HoldersClaim, Holding
    <3> QED
      BY <1>1, <1>2, <3>1 DEF AutoPostIsEarned
  <2>1. CASE local[p].pc \in {"check", "put"} /\ local'[p].by = local[p].by
    BY <2>1 DEF EarnedInv, AutoPostIsEarned
  <2>2. CASE /\ canClaimReviewForPublishing(row) \/ isStalePublishPending(row)
             /\ local'[p] = Finalize(row)
    <3>1. publishedByOf(row) = "auto"
      BY <1>1, <2>2, FinalizeType
    <3>2. row.status # "APPROVED"
      BY <1>1, <3>1, TextAssumption DEF publishedByOf, ReviewRows
    <3>3. row.status = "GENERATED" \/ holdsClaim(row)
      BY <2>2, <3>2 DEF canClaimReviewForPublishing, PUBLISHABLE_STATUSES,
                        isStalePublishPending, holdsClaim
    <3> QED
      BY <1>3, <3>2, <3>3 DEF EarnedInv, ClaimIsEarned
  <2> QED
    BY <1>1, <2>1, <2>2, WhoStartsPost
<1> QED
  BY <1>5, <1>6

LEMMA EarnedTakingStep ==
    ASSUME EarnedInv, Taking, LockWhole'
    PROVE  ClaimIsEarned' /\ AutoPostIsEarned'
<1>1. /\ holdsClaim(row)' => holdsClaim(row)
      /\ UNCHANGED local
      /\ redone' = (holdsClaim(row)' /\ (redone \/ ~UNCHANGED <<row, flagged>>))
  BY TakingLeaves DEF EarnedInv, LockWhole, Taking, holdsClaim
<1>2. HoldersClaim'
  BY DEF LockWhole, SlotInv, LockInv
<1>3. CASE UNCHANGED <<row, flagged>>
  <2>1. (Earned' <=> Earned) /\ (holdsClaim(row)' => (redone' <=> redone))
    BY <1>1, <1>3 DEF Earned
  <2>2. ClaimIsEarned'
    BY <1>1, <1>3, <2>1 DEF EarnedInv, ClaimIsEarned
  <2>3. AutoPostIsEarned'
    BY <1>1, <1>2, <2>1 DEF EarnedInv, AutoPostIsEarned, HoldersClaim, Holding
  <2> QED
    BY <2>2, <2>3
<1>4. CASE ~UNCHANGED <<row, flagged>>
  <2>1. holdsClaim(row)' => redone'
    BY <1>1, <1>4
  <2> QED
    BY <1>2, <2>1 DEF ClaimIsEarned, AutoPostIsEarned, HoldersClaim, Holding
<1> QED
  BY <1>3, <1>4

\* A reply that nobody approved goes out only while the words in the row have earned
\* it, whatever edits, drafts, crashes and sweeps came between the verdict and the
\* PUT, unless the row was written anew under a claim that a crash left behind.
THEOREM AutoPostIsEarnedCorrect ==
    ASSUME JobsAlone, OneAtATime, ThresholdCoversAttempt
    PROVE  SystemSpec => []AutoPostIsEarned
<1>1. SystemInit => EarnedInv
  <2> SUFFICES ASSUME SystemInit PROVE EarnedInv
    OBVIOUS
  <2>1. LockWhole /\ SoloWhole
    BY LockWholeInit, WholeInit, SoloInit DEF SoloWhole, SystemInit, IntakeInit
  <2>2. ClaimIsEarned /\ AutoPostIsEarned
    BY DEF SystemInit, ClaimIsEarned, AutoPostIsEarned, holdsClaim, NoRow, Idle
  <2> QED
    BY <2>1, <2>2 DEF EarnedInv
<1>2. EarnedInv /\ [SystemNext]_systemVars => EarnedInv'
  <2> SUFFICES ASSUME EarnedInv, [SystemNext]_systemVars PROVE EarnedInv'
    OBVIOUS
  <2>1. LockWhole' /\ SoloWhole'
    BY LockWholeStep, SoloWholeStep DEF EarnedInv
  <2>2. CASE Outside \/ UNCHANGED systemVars
    <3>1. UNCHANGED <<row, local, flagged, redone>>
      BY <2>2 DEF Outside, CustomerWrites, Redeliver, intakeHistory, systemVars, vars,
                  intakeVars
    <3> QED
      BY <2>1, <3>1 DEF EarnedInv, ClaimIsEarned, AutoPostIsEarned, Earned, holdsClaim
  <2> QED
    BY <2>1, <2>2, EarnedPublishingStep, EarnedTakingStep DEF SystemNext, EarnedInv
<1> QED
  BY <1>1, <1>2, PTL DEF SystemSpec, EarnedInv

---------------------------------------------------------------------------
(* Approvals and records, through edits and faults *)

\* What SPEC.md's rule that a human approves everything needs: an edit re-opens a
\* review that a fault left PUBLISH_PENDING, and the sweep then publishes it as it
\* is, so there must not be both.
FaultsOrEdits == HumansOnly => MaxFaults = 0 \/ MaxVersion = 1

\* Under that rule nobody drafts a reply while another is claimed.
DraftsUnclaimed ==
    HumansOnly =>
        \A j \in Jobs : job[j].pc \in {"mark", "generate", "fail"} => ~holdsClaim(row)

\* Only a fault leaves a claim without an attempt that works on it.
NoneLeftBehind ==
    MaxFaults = 0 /\ holdsClaim(row) => \E p \in Procs : InPublish(p)

ClaimWhole ==
    /\ SystemInv /\ WholeInv
    /\ RecordInv
    /\ DraftsUnclaimed
    /\ NoneLeftBehind

LEMMA ClaimWholeInit == SystemInit => ClaimWhole
<1> SUFFICES ASSUME SystemInit PROVE ClaimWhole
  OBVIOUS
<1>1. SystemInv /\ WholeInv /\ TypeInv
  BY SystemInvInit, WholeInit DEF WholeInv
<1>2. row.status = "RECEIVED" /\ row.replyState = "NONE" /\ live = NoText
  BY DEF SystemInit, NoRow
<1>3. \A p \in Procs : local[p].pc = "idle"
  BY DEF SystemInit, Idle
<1>4. RowRecord /\ AttemptRecord
  BY <1>2, <1>3 DEF RowRecord, ApprovedIsOnRecord, HumansComeFirst, holdsClaim,
                    AttemptRecord, AttemptIsCleared, RecordedWasShown, Holding, At
<1> QED
  BY <1>1, <1>2, <1>4 DEF ClaimWhole, RecordInv, DraftsUnclaimed, NoneLeftBehind,
                          holdsClaim

\* While a job is under way no handler is.
LEMMA JobIsAlone ==
    ASSUME JobsAlone, SystemInv, NEW j \in Jobs, job[j].pc # "idle", NEW p \in Procs
    PROVE  ~Running(p)
<1>1. p # j
  BY WriterAssumption DEF Jobs
<1> QED
  BY <1>1 DEF SystemInv, Alone, WorkingJobs, Busy, JobAt

\* A job comes to draft only from a row that waits for it, or may be drafted anew.
LEMMA WhoDrafts ==
    ASSUME WholeInv, Taking, NEW k \in Jobs, job'[k].pc \in {"mark", "generate", "fail"}
    PROVE  \/ job[k].pc \in {"mark", "generate", "fail"}
           \/ row.status \in {"RECEIVED"} \cup REGENERATABLE_STATUSES
<1>1. job \in [Jobs -> JobLocals] /\ NoJob.pc = "idle"
  BY NoJobType DEF WholeInv, IntakeInv, IntakeTypeOK
<1>2. PICK j \in Jobs : JobStarts(j) \/ JobContinues(j) \/ Abort(j)
  BY DEF Taking, Pipeline
<1>3. ASSUME NEW l, Become(j, l), l.pc \notin {"mark", "generate", "fail"}
      PROVE  job[k].pc \in {"mark", "generate", "fail"}
  BY <1>1, <1>3 DEF Become
<1>4. ASSUME NEW status, AfterIngest(j, status) \/ Finish(j)
      PROVE  job[k].pc \in {"mark", "generate", "fail"}
  <2>1. [NoJob EXCEPT !.pc = "read", !.message = job[j].message].pc = "read"
    BY NoJobType DEF JobLocals
  <2> QED
    BY <1>1, <1>3, <1>4, <2>1 DEF AfterIngest, Finish, Continue
<1>5. CASE \E m \in Versions : Deliver(j, m)
  <2>1. \A m : Payload(m).pc = "find"
    BY DEF Payload, NoJob
  <2> QED
    BY <1>3, <1>5, <2>1 DEF Deliver, Continue
<1>6. CASE Pull(j)
  <2>1. Payload(0).pc = "find"
    BY DEF Payload, NoJob
  <2> QED
    BY <1>3, <1>6, <2>1 DEF Pull, Continue
<1>7. CASE Process(j)
  <2>1. [NoJob EXCEPT !.pc = "read"].pc = "read"
    BY DEF NoJob
  <2> QED
    BY <1>3, <1>7, <2>1 DEF Process, Continue
<1>8. CASE Regenerate(j)
  BY <1>8 DEF Regenerate
<1>9. CASE Find(j)
  <2>1. [job[j] EXCEPT !.pc = "insert"].pc = "insert"
    BY <1>1 DEF JobLocals
  <2>2. \A changed \in BOOLEAN :
            [job[j] EXCEPT !.pc = IF changed THEN "revise" ELSE "apply",
                           !.replyState = keptReplyState(@, row.replyState),
                           !.changed = changed, !.oldVersion = row.version,
                           !.editCount = row.editCount].pc \in {"revise", "apply"}
    BY <1>1 DEF JobLocals
  <2>3. hasContentChanged(job[j].version, row.version) \in BOOLEAN
    BY DEF hasContentChanged
  <2> QED
    BY <1>3, <1>4, <1>9, <2>1, <2>2, <2>3 DEF Find, Continue
<1>10. CASE Insert(j) \/ Apply(j) \/ MarkFailed(j)
  BY <1>4, <1>10 DEF Insert, Apply, MarkFailed, WriteRow
<1>11. CASE Revise(j)
  <2>1. [job[j] EXCEPT !.pc = "apply"].pc = "apply"
    BY <1>1 DEF JobLocals
  <2> QED
    BY <1>3, <1>4, <1>11, <2>1 DEF Revise, Continue
<1>12. CASE Read(j)
  BY <1>4, <1>12 DEF Read
<1>13. CASE Mark(j) \/ Generate(j) \/ ModelFails(j)
  <2>1. job[j].pc \in {"mark", "generate"}
    BY <1>13 DEF Mark, Generate, ModelFails, JobAt
  <2>2. \E l : Become(j, l)
    BY <1>13 DEF Mark, Generate, ModelFails, WriteRow, Finish, Continue
  <2> QED
    BY <1>1, <2>1, <2>2 DEF Become
<1>14. CASE Abort(j)
  BY <1>1, <1>3, <1>14 DEF Abort
<1> QED
  BY <1>2, <1>5, <1>6, <1>7, <1>8, <1>9, <1>10, <1>11, <1>12, <1>13, <1>14
  DEF JobStarts, JobContinues

\* Without faults an attempt gives up its claim together with its work.
LEMMA NoneLeftStep ==
    ASSUME TypeInv, NoneLeftBehind, Next
    PROVE  NoneLeftBehind'
<1> SUFFICES ASSUME MaxFaults = 0, holdsClaim(row)' PROVE \E p \in Procs : InPublish(p)'
  BY DEF NoneLeftBehind
<1> USE DEF set_updated_at
<1>1. ~Fault /\ row \in ReviewRows /\ local \in [Procs -> Locals]
  BY DEF Fault, TypeInv, TypeOK
<1>2. holdsClaim(row) => \E p \in Procs : InPublish(p)
  BY DEF NoneLeftBehind
<1>3. ASSUME NEW p \in Procs, ~InPublish(p), holdsClaim(row),
             \A q \in Procs \ {p} : local'[q] = local[q]
      PROVE  \E q \in Procs : InPublish(q)'
  BY <1>2, <1>3 DEF InPublish
<1>4. ASSUME NEW p \in Requests, RequestStep(p)
      PROVE  \E q \in Procs : InPublish(q)'
  <2>p. p \in Procs
    BY DEF Procs
  <2>1. ~InPublish(p)
    BY <1>4 DEF RequestStep, ApproveRead, ApproveWrite, RejectRead, RejectWrite,
                EditRead, EditWrite, Unapprove, At, InPublish, PublishPcs
  <2>2. \E l : Moves(p, l)
    <3>1. CASE ApproveWrite(p) \/ RejectWrite(p) \/ EditWrite(p) \/ Unapprove(p)
      BY <2>p, <3>1, RequestsKeepClaim
    <3> QED
      BY <1>4, <2>p, <3>1, ReadMoves DEF RequestStep
  <2>3. row'.replyState = row.replyState
    <3>1. CASE ApproveWrite(p) \/ RejectWrite(p) \/ EditWrite(p) \/ Unapprove(p)
      BY <2>p, <3>1, RequestsKeepClaim
    <3> QED
      BY <1>4, <3>1 DEF RequestStep, ApproveRead, RejectRead, EditRead
  <2> QED
    BY <1>3, <2>p, <2>1, <2>2, <2>3 DEF Moves, holdsClaim
<1>5. ASSUME NEW p \in Procs, Claim(p) \/ Reclaim(p)
      PROVE  \E q \in Procs : InPublish(q)'
  <2>1. ~InPublish(p)
    BY <1>5 DEF Claim, Reclaim, At, InPublish, PublishPcs
  <2>2. CASE \E l : Moves(p, l) /\ row' = row
    BY <1>3, <2>1, <2>2 DEF Moves, holdsClaim
  <2>3. CASE Moves(p, Finalize(row))
    BY <1>1, <2>3, FinalizeType DEF Moves, InPublish, PublishPcs
  <2>4. Moves(p, Finalize(row)) \/ (Moves(p, Idle) /\ row' = row)
    <3>1. CASE Claim(p)
      <4>1. \/ Goto(p, Finalize(row))
            \/ Goto(p, Idle) /\ row' = row
        BY <1>1, <3>1 DEF Claim, Write
      <4> QED
        BY <1>1, <4>1, FinalizeType, GotoMoves DEF Moves, Idle, Locals, Pcs, TextOrNull
    <3>2. CASE Reclaim(p)
      <4>1. \/ Goto(p, Finalize(row))
            \/ Goto(p, Idle) /\ row' = row
        BY <1>1, <3>2 DEF Reclaim, Write
      <4> QED
        BY <1>1, <4>1, FinalizeType, GotoMoves DEF Moves, Idle, Locals, Pcs, TextOrNull
    <3> QED
      BY <1>5, <3>1, <3>2
  <2> QED
    BY <2>2, <2>3, <2>4
<1>6. ASSUME NEW p \in Procs, PublishStep(p)
      PROVE  \E q \in Procs : InPublish(q)'
  <2>1. CASE PublishPrecheck(p)
    <3>1. ~InPublish(p) /\ row' = row
      BY <2>1 DEF PublishPrecheck, At, InPublish, PublishPcs
    <3>2. \A q \in Procs \ {p} : local'[q] = local[q]
      BY <2>1, ReadMoves DEF Moves
    <3> QED
      BY <1>3, <3>1, <3>2 DEF holdsClaim
  <2>2. CASE CheckLive(p) \/ Put(p)
    BY <2>2, AttemptMoves DEF InPublish
  <2>3. CASE Record(p) \/ Block(p) \/ Fail(p)
    <3>1. ASSUME holdsClaim(row) PROVE FALSE
      <4>1. CASE Record(p)
        BY <1>1, <3>1, <4>1 DEF Record, Write, markPublished, holdsClaim, ReviewRows
      <4>2. CASE Block(p)
        BY <1>1, <3>1, <4>2
        DEF Block, Write, markPublishBlockedByExistingReply, holdsClaim, ReviewRows
      <4>3. CASE Fail(p)
        BY <1>1, <3>1, <4>3 DEF Fail, Write, markPublishFailed, holdsClaim, ReviewRows
      <4> QED
        BY <2>3, <4>1, <4>2, <4>3
    <3>2. row' = row \/ holdsClaim(row)
      BY <2>3, OutcomeWrites DEF Applied
    <3> QED
      BY <3>1, <3>2 DEF holdsClaim
  <2> QED
    BY <1>5, <1>6, <2>1, <2>2, <2>3 DEF PublishStep
<1>7. ASSUME NEW s \in Sweepers, SweepStep(s)
      PROVE  \E q \in Procs : InPublish(q)'
  <2>s. s \in Procs
    BY DEF Procs
  <2>1. CASE SweepFindStale(s) \/ SweepFindGenerated(s)
    <3>1. ~InPublish(s) /\ row' = row
      BY <2>1 DEF SweepFindStale, SweepFindGenerated, At, InPublish, PublishPcs
    <3>2. \A q \in Procs \ {s} : local'[q] = local[q]
      BY <2>s, <2>1, ReadMoves DEF Moves
    <3> QED
      BY <1>3, <2>s, <3>1, <3>2 DEF holdsClaim
  <2> QED
    BY <1>5, <1>7, <2>s, <2>1 DEF SweepStep
<1>8. CASE Environment
  <2>1. UNCHANGED local /\ row'.replyState = row.replyState
    BY <1>1, <1>8 DEF Environment, Crash, Age, OwnerReplies, ReviewRows
  <2> QED
    BY <1>2, <2>1 DEF InPublish, holdsClaim
<1> QED
  BY <1>4, <1>6, <1>7, <1>8 DEF Next

\* A claim that an intake leaves in place is one on an approved review.
LEMMA TakingClaims ==
    ASSUME JobsAlone, FaultsOrEdits, HumansOnly, ClaimWhole, Taking, holdsClaim(row)'
    PROVE  row'.status = "APPROVED"
<1>1. SystemInv /\ WholeInv /\ IntakeInv /\ row \in ReviewRows
  BY DEF ClaimWhole, WholeInv, TypeInv, TypeOK
<1>2. holdsClaim(row) /\ row.status = "APPROVED"
  BY <1>1, TakingLeaves DEF ClaimWhole, RecordInv, RowRecord, HumansComeFirst
<1>3. CASE row' = row
  BY <1>2, <1>3
<1>4. CASE row' # row
  <2>1. MaxFaults # 0
    <3>1. \A p \in Procs : ~InPublish(p)
      BY <1>1, <1>4, TakingIsAlone DEF Running, At, InPublish, PublishPcs
    <3> QED
      BY <1>2, <3>1 DEF ClaimWhole, NoneLeftBehind
  <2>2. MaxVersion = 1
    BY <2>1 DEF FaultsOrEdits
  <2>3. PICK j \in Jobs :
            /\ job[j].pc = "apply"
            /\ row' = applyReviewEdit(row, job[j].version, job[j].replyState,
                                      job[j].changed, job[j].editCount)
    <3>1. ASSUME NEW j \in Jobs PROVE job[j].pc \notin {"insert", "mark", "generate", "fail"}
      <4>1. Fits(job[j], row)
        BY <1>1 DEF SystemInv
      <4>2. row.version # 0
        BY <1>1, <1>2 DEF IntakeInv, VersionsInv, NoRow
      <4> QED
        BY <1>2, <4>1, <4>2 DEF Fits, ClaimWhole, DraftsUnclaimed
    <3> QED
      BY <1>1, <1>4, <3>1, TakingWrites
  <2>4. job[j].version = row.version
    <3>1. /\ job[j].version \in Versions \cup {0} /\ row.version \in 0..customer
          /\ customer \in 0..MaxVersion
      BY <1>1, JobFacts DEF JobLocals, IntakeInv, IntakeTypeOK
    <3>2. job[j].version # 0 /\ row.version # 0
      BY <1>1, <2>3 DEF SystemInv, Fits
    <3> QED
      BY <2>2, <3>1, <3>2 DEF Versions
  <2>5. job[j].changed = FALSE
    BY <1>1, <2>3, <2>4 DEF SystemInv, Fits
  <2>6. row'.status = row.status
    BY <1>1, <2>3, <2>5, JobFacts, EditRow
  <2> QED
    BY <1>2, <2>6
<1> QED
  BY <1>3, <1>4

LEMMA ClaimWholeStep ==
    ASSUME JobsAlone, FaultsOrEdits
    PROVE  ClaimWhole /\ [SystemNext]_systemVars => ClaimWhole'
<1> SUFFICES ASSUME ClaimWhole, [SystemNext]_systemVars
             PROVE  RecordInv' /\ DraftsUnclaimed' /\ NoneLeftBehind'
  BY SystemStep, WholeStep DEF ClaimWhole
<1>1. TypeInv' /\ SystemInv /\ WholeInv /\ TypeInv
  BY WholeStep DEF ClaimWhole, WholeInv
<1>2. CASE Publishing
  <2>1. RecordInv' /\ NoneLeftBehind'
    BY <1>1, <1>2, RecordStep, NoneLeftStep DEF ClaimWhole, Publishing
  <2>2. ASSUME NEW j \in Jobs, job[j].pc # "idle" PROVE row'.replyState = row.replyState
    <3>1. \A p \in Procs : ~Running(p)
      BY <1>1, <2>2, JobIsAlone
    <3> QED
      BY <1>1, <1>2, <3>1, PublishingKeeps DEF Publishing, SystemInv
  <2>3. DraftsUnclaimed'
    BY <1>2, <2>2 DEF ClaimWhole, DraftsUnclaimed, holdsClaim, Publishing, intakeVars
  <2> QED
    BY <2>1, <2>3
<1>3. CASE Taking
  <2>1. /\ UNCHANGED <<live, local, approvals, shown, raced>>
        /\ holdsClaim(row)' => holdsClaim(row)
        /\ row'.status = "APPROVED" =>
              row.status = "APPROVED" /\ UNCHANGED <<row.final, row.approvedBy>>
        /\ row'.status = "GENERATED" =>
              row.status = "GENERATED" \/ ~RequireApprovalForAll
    BY <1>1, <1>3, TakingLeaves
  <2>2. ApprovedIsOnRecord'
    BY <2>1 DEF ClaimWhole, RecordInv, RowRecord, ApprovedIsOnRecord
  <2>3. HumansComeFirst'
    <3> SUFFICES ASSUME HumansOnly
                 PROVE  /\ row'.status # "GENERATED"
                        /\ holdsClaim(row)' => row'.status = "APPROVED"
      BY DEF HumansComeFirst, HumansOnly
    <3>1. row'.status # "GENERATED"
      BY <2>1 DEF ClaimWhole, RecordInv, RowRecord, HumansComeFirst, HumansOnly
    <3> QED
      BY <1>3, <3>1, TakingClaims
  <2>4. AttemptRecord'
    BY <2>1 DEF ClaimWhole, RecordInv, AttemptRecord, AttemptIsCleared, RecordedWasShown,
                Holding, At, HumansOnly
  <2>5. DraftsUnclaimed'
    <3> SUFFICES ASSUME HumansOnly, NEW k \in Jobs,
                        job'[k].pc \in {"mark", "generate", "fail"}, holdsClaim(row)
                 PROVE  FALSE
      BY <2>1 DEF DraftsUnclaimed, HumansOnly
    <3>1. row.status = "APPROVED"
      BY DEF ClaimWhole, RecordInv, RowRecord, HumansComeFirst
    <3>2. job[k].pc \notin {"mark", "generate", "fail"}
      BY DEF ClaimWhole, DraftsUnclaimed
    <3> QED
      BY <1>1, <1>3, <3>1, <3>2, WhoDrafts DEF REGENERATABLE_STATUSES
  <2>6. NoneLeftBehind'
    BY <2>1 DEF ClaimWhole, NoneLeftBehind, InPublish
  <2> QED
    BY <1>1, <2>2, <2>3, <2>4, <2>5, <2>6 DEF RecordInv, RowRecord
<1>4. CASE Outside \/ UNCHANGED systemVars
  <2>1. UNCHANGED <<row, live, local, approvals, shown, raced, job>>
    BY <1>4, OutsideLeaves
  <2> QED
    BY <1>1, <2>1
    DEF ClaimWhole, RecordInv, RowRecord, ApprovedIsOnRecord, HumansComeFirst,
        AttemptRecord, AttemptIsCleared, RecordedWasShown, Holding, At, DraftsUnclaimed,
        NoneLeftBehind, InPublish, HumansOnly
<1> QED
  BY <1>2, <1>3, <1>4 DEF SystemNext

LEMMA ClaimWholeInvariant ==
    ASSUME JobsAlone, FaultsOrEdits
    PROVE  SystemSpec => []ClaimWhole
BY ClaimWholeInit, ClaimWholeStep, PTL DEF SystemSpec

\* Every step is one of PublishWorkflow's, or leaves alone what it keeps account of.
LEMMA SystemActs ==
    ASSUME SystemInv, WholeInv, [SystemNext]_systemVars
    PROVE  [Next]_vars \/ UNCHANGED <<live, local, approvals, shown, raced>>
BY TakingLeaves, OutsideLeaves DEF SystemNext, Publishing

\* The step that sets published_at tells the truth about Google and about who stands
\* for the text.
PublishesTruly ==
    ~row.publishedAt /\ row'.publishedAt =>
        /\ row'.status = "PUBLISHED" /\ row'.replyState = "PUBLISHED"
        /\ \E t \in shown : row'.final \in {t, Trim[t]}
        /\ \/ <<row'.publishedBy, row'.final>> \in approvals
           \/ row'.publishedBy = "auto" /\ ~HumansOnly

\* markPublished records only what happened, in the whole life of the review and not
\* only in its first round: a human's name stands only for a text that human
\* approved, and `auto' only where the policy may publish.
THEOREM PublicationIsTrue ==
    ASSUME JobsAlone, FaultsOrEdits
    PROVE  SystemSpec => [][PublishesTruly]_systemVars
<1>1. ClaimWhole /\ [SystemNext]_systemVars => [PublishesTruly]_systemVars
  <2> SUFFICES ASSUME ClaimWhole, [SystemNext]_systemVars,
                      ~row.publishedAt, row'.publishedAt
               PROVE  PublishesTruly
    BY DEF PublishesTruly
  <2>1. Publishing
    BY TakingKeeps, OutsideLeaves DEF SystemNext, ClaimWhole
  <2> QED
    BY <2>1, WhoPublishes DEF ClaimWhole, Publishing, PublishesTruly
<1> QED
  BY <1>1, ClaimWholeInvariant, PTL DEF SystemSpec

\* Under REQUIRE_APPROVAL_FOR_ALL everything the application ever shows was approved
\* by a human, through any number of edits if nothing fails, and any number of
\* faults if the customer never edits.  With both it is not so, see
\* HumanApprovesEverything of MCSystemFindings.
THEOREM SystemOnlyApprovedShown ==
    ASSUME JobsAlone, HumansOnly, MaxFaults = 0 \/ MaxVersion = 1
    PROVE  SystemSpec => []OnlyApprovedShown
<1>1. FaultsOrEdits
  BY DEF FaultsOrEdits
<1>2. SystemInit => OnlyApprovedShown
  BY DEF SystemInit, OnlyApprovedShown
<1>3. ClaimWhole /\ OnlyApprovedShown /\ [SystemNext]_systemVars => OnlyApprovedShown'
  <2>1. ASSUME ClaimWhole, OnlyApprovedShown, [Next]_vars PROVE OnlyApprovedShown'
    BY <2>1, ShownStep DEF ClaimWhole, ShownInv
  <2>2. ASSUME OnlyApprovedShown, UNCHANGED <<approvals, shown>> PROVE OnlyApprovedShown'
    BY <2>2 DEF OnlyApprovedShown
  <2> QED
    BY <2>1, <2>2, SystemActs DEF ClaimWhole
<1> QED
  BY <1>1, <1>2, <1>3, ClaimWholeInvariant, PTL DEF SystemSpec

\* And while a reply may still go out, its approval still stands on the row, whatever
\* approvals, edits, rejections and unapprovals other requests try at that moment and
\* whatever round of the review's life it is.  That no job writes the row between the
\* claim and the PUT is the assumption here, not the result.
THEOREM SystemInFlightIsApproved ==
    ASSUME JobsAlone, ThresholdCoversAttempt, HumansOnly,
           MaxFaults = 0 \/ MaxVersion = 1
    PROVE  SystemSpec => []InFlightIsApproved
<1>1. FaultsOrEdits
  BY DEF FaultsOrEdits
<1>2. SystemInit => HeldAsApproved
  BY DEF SystemInit, HeldAsApproved, Holding, Idle
<1>3. ClaimWhole /\ LockWhole /\ HeldAsApproved /\ [SystemNext]_systemVars => HeldAsApproved'
  <2> SUFFICES ASSUME ClaimWhole, LockWhole, HeldAsApproved, [SystemNext]_systemVars
               PROVE  HeldAsApproved'
    OBVIOUS
  <2>1. CASE [Next]_vars
    BY <2>1, FlightStep DEF FlightInv, ClaimWhole, LockWhole, SlotInv
  <2>2. CASE UNCHANGED <<row, local>>
    BY <2>2 DEF HeldAsApproved, Holding
  <2>3. CASE UNCHANGED local /\ \A p \in Procs : ~Running(p)
    BY <2>3 DEF HeldAsApproved, Holding, Running, At
  <2> QED
    BY <2>1, <2>2, <2>3, TakingIsAlone, TakingLeaves, OutsideLeaves
    DEF SystemNext, Publishing, ClaimWhole
<1>4. ClaimWhole /\ HeldAsApproved => InFlightIsApproved
  BY DEF ClaimWhole, RecordInv, RowRecord, ApprovedIsOnRecord, HeldAsApproved, Holding,
         InFlightIsApproved
<1> QED
  BY <1>1, <1>2, <1>3, <1>4, ClaimWholeInvariant, LockWholeInvariant, PTL DEF SystemSpec
=============================================================================
