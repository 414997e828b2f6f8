----------------------- MODULE PublishWorkflowProofs -----------------------
(***************************************************************************)
(* Proofs about PublishWorkflow, for any number of requests, sweeps,       *)
(* admins, texts and faults, and whether or not an attempt may outlast the *)
(* stale threshold: what it keeps, and that it implements ReplySlot.       *)
(***************************************************************************)
EXTENDS PublishRefinement, TLAPS

---------------------------------------------------------------------------
(* How a process moves *)

\* Goto moves p to l and leaves every other process where it was.
LEMMA GotoMoves ==
    ASSUME local \in [Procs -> Locals], NEW p \in Procs, NEW l \in Locals,
           Goto(p, l)
    PROVE  /\ local' \in [Procs -> Locals]
           /\ local'[p] = l
           /\ \A q \in Procs : q # p => local'[q] = local[q]
BY DEF Goto

\* A process that jumps keeps the text and the name it holds.
LEMMA JumpMoves ==
    ASSUME local \in [Procs -> Locals], NEW p \in Procs, NEW label \in Pcs,
           Jump(p, label)
    PROVE  /\ local' \in [Procs -> Locals]
           /\ local'[p].pc = label
           /\ local'[p].text = local[p].text
           /\ local'[p].by = local[p].by
           /\ \A q \in Procs : q # p => local'[q] = local[q]
BY DEF Jump, Locals

---------------------------------------------------------------------------
(* What the statements do to the row *)

\* The SET clauses keep a row a row.
LEMMA StatementsType ==
    ASSUME NEW r \in ReviewRows
    PROVE  /\ \A t \in TextOrNull, a \in Actors : markApproved(r, t, a) \in ReviewRows
           /\ markRejected(r) \in ReviewRows
           /\ \A t \in TextOrNull : updateFinalResponse(r, t) \in ReviewRows
           /\ markUnapproved(r) \in ReviewRows
           /\ claimReviewForPublishing(r) \in ReviewRows
           /\ \A t \in TextOrNull, b \in Publishers \cup {Nobody} :
                 markPublished(r, t, b) \in ReviewRows
           /\ markPublishFailed(r) \in ReviewRows
           /\ markPublishBlockedByExistingReply(r) \in ReviewRows
           /\ claimStalePublishPendingReview(r) \in ReviewRows
           /\ [r EXCEPT !.aged = TRUE] \in ReviewRows
<1> USE DEF set_updated_at, ReviewRows, REVIEW_STATUSES, GOOGLE_REPLY_STATES
<1>1. \A t \in TextOrNull, a \in Actors : markApproved(r, t, a) \in ReviewRows
  BY DEF markApproved
<1>2. markRejected(r) \in ReviewRows /\ markUnapproved(r) \in ReviewRows
  BY DEF markRejected, markUnapproved
<1>3. \A t \in TextOrNull : updateFinalResponse(r, t) \in ReviewRows
  BY DEF updateFinalResponse
<1>4. /\ claimReviewForPublishing(r) \in ReviewRows
      /\ claimStalePublishPendingReview(r) \in ReviewRows
  BY DEF claimReviewForPublishing, claimStalePublishPendingReview
<1>5. \A t \in TextOrNull, b \in Publishers \cup {Nobody} :
          markPublished(r, t, b) \in ReviewRows
  BY DEF markPublished
<1>6. /\ markPublishFailed(r) \in ReviewRows
      /\ markPublishBlockedByExistingReply(r) \in ReviewRows
  BY DEF markPublishFailed, markPublishBlockedByExistingReply
<1>7. [r EXCEPT !.aged = TRUE] \in ReviewRows
  OBVIOUS
<1> QED
  BY <1>1, <1>2, <1>3, <1>4, <1>5, <1>6, <1>7

\* A claim hands its holder a text to publish, or sends it straight to the
\* failure path.
LEMMA FinalizeType ==
    ASSUME NEW r \in ReviewRows
    PROVE  /\ Finalize(r) \in Locals
           /\ Finalize(r).pc \in {"check", "fail"}
           /\ Finalize(r).text = responseOf(r)
           /\ Finalize(r).by = publishedByOf(r)
           /\ Finalize(r).pc = "check" => Finalize(r).text \in Texts
BY DEF Finalize, responseOf, publishedByOf, ReviewRows, Locals, Pcs,
       PublishPcs, TextOrNull, Publishers

---------------------------------------------------------------------------
(* Type correctness *)

\* An approval in flight names an admin and a text.
ApprovalsAreNamed ==
    \A p \in Procs : At(p, "approve") =>
        local[p].text \in Texts /\ local[p].by \in Actors

TypeInv == TypeOK /\ ApprovalsAreNamed

\* No process has started and nothing has been approved or shown yet.
LEMMA TypeInit == Init => TypeInv
<1> SUFFICES ASSUME Init PROVE TypeInv
  OBVIOUS
<1>1. row \in ReviewRows
  <2>1. ASSUME NEW s \in REVIEW_STATUSES, NEW t \in TextOrNull
        PROVE  FreshRow(s, t) \in ReviewRows
    BY DEF FreshRow, ReviewRows, GOOGLE_REPLY_STATES, TextOrNull
  <2>2. FreshStatuses \subseteq REVIEW_STATUSES /\ "FAILED" \in REVIEW_STATUSES
    BY DEF FreshStatuses, REVIEW_STATUSES
  <2>3. AiTexts \subseteq TextOrNull /\ NoText \in TextOrNull
    BY DEF TextOrNull, Texts
  <2> QED
    BY <2>1, <2>2, <2>3 DEF Init
<1>2. Idle \in Locals /\ Idle.pc = "idle"
  BY DEF Idle, Locals, Pcs, TextOrNull
<1> QED
  BY <1>1, <1>2 DEF Init, TypeInv, TypeOK, ApprovalsAreNamed, At, Holding, TextOrNull

---------------------------------------------------------------------------
(* What the steps with a guarded statement do *)

Moves(p, l) ==
    /\ local' \in [Procs -> Locals]
    /\ local'[p] = l
    /\ \A q \in Procs : q # p => local'[q] = local[q]

Applied(can, new) == row' = row \/ (can /\ row' = new)

\* The approval, rejection and editing statements return their caller to idle.
LEMMA RequestWrites ==
    ASSUME TypeInv, NEW p \in Procs
    PROVE  /\ ApproveWrite(p) =>
                /\ Moves(p, Idle)
                /\ Applied(canMarkApproved(row),
                           markApproved(row, local[p].text, local[p].by))
           /\ RejectWrite(p) =>
                Moves(p, Idle) /\ Applied(canMarkRejected(row), markRejected(row))
           /\ EditWrite(p) =>
                /\ Moves(p, Idle)
                /\ Applied(canUpdateFinalResponse(row),
                           updateFinalResponse(row, local[p].text))
           /\ Unapprove(p) =>
                Moves(p, Idle) /\ Applied(canMarkUnapproved(row), markUnapproved(row))
<1>1. local \in [Procs -> Locals] /\ Idle \in Locals
  BY DEF TypeInv, TypeOK, Idle, Locals, Pcs, TextOrNull
<1> USE <1>1 DEF Write, Goto, Moves, Applied
<1>2. ASSUME ApproveWrite(p)
      PROVE  /\ Moves(p, Idle)
             /\ Applied(canMarkApproved(row),
                        markApproved(row, local[p].text, local[p].by))
  BY <1>2 DEF ApproveWrite
<1>3. ASSUME RejectWrite(p)
      PROVE  Moves(p, Idle) /\ Applied(canMarkRejected(row), markRejected(row))
  BY <1>3 DEF RejectWrite
<1>4. ASSUME EditWrite(p)
      PROVE  /\ Moves(p, Idle)
             /\ Applied(canUpdateFinalResponse(row),
                        updateFinalResponse(row, local[p].text))
  BY <1>4 DEF EditWrite
<1>5. ASSUME Unapprove(p)
      PROVE  Moves(p, Idle) /\ Applied(canMarkUnapproved(row), markUnapproved(row))
  BY <1>5 DEF Unapprove
<1> QED
  BY <1>2, <1>3, <1>4, <1>5

\* A claim by either route takes effect, and its holder goes on with what the
\* claimed row says, or its caller returns to idle.
LEMMA ClaimWrites ==
    ASSUME TypeInv, NEW p \in Procs
    PROVE  /\ Claim(p) =>
                /\ Applied(canClaimReviewForPublishing(row),
                           claimReviewForPublishing(row))
                /\ \/ Moves(p, Idle)
                   \/ /\ canClaimReviewForPublishing(row)
                      /\ row' = claimReviewForPublishing(row)
                      /\ Moves(p, Finalize(row))
           /\ Reclaim(p) =>
                /\ Applied(isStalePublishPending(row),
                           claimStalePublishPendingReview(row))
                /\ \/ Moves(p, Idle)
                   \/ /\ isStalePublishPending(row)
                      /\ row' = claimStalePublishPendingReview(row)
                      /\ Moves(p, Finalize(row))
<1>1. local \in [Procs -> Locals] /\ Idle \in Locals /\ Finalize(row) \in Locals
  BY FinalizeType DEF TypeInv, TypeOK, Idle, Locals, Pcs, TextOrNull
<1> USE <1>1 DEF Write, Goto, Moves, Applied
<1>2. ASSUME Claim(p)
      PROVE  /\ Applied(canClaimReviewForPublishing(row),
                        claimReviewForPublishing(row))
             /\ \/ Moves(p, Idle)
                \/ /\ canClaimReviewForPublishing(row)
                   /\ row' = claimReviewForPublishing(row)
                   /\ Moves(p, Finalize(row))
  BY <1>2 DEF Claim
<1>3. ASSUME Reclaim(p)
      PROVE  /\ Applied(isStalePublishPending(row),
                        claimStalePublishPendingReview(row))
             /\ \/ Moves(p, Idle)
                \/ /\ isStalePublishPending(row)
                   /\ row' = claimStalePublishPendingReview(row)
                   /\ Moves(p, Finalize(row))
  BY <1>3 DEF Reclaim
<1> QED
  BY <1>2, <1>3

\* The statements that record an outcome leave their caller idle or failing.
LEMMA OutcomeWrites ==
    ASSUME TypeInv, NEW p \in Procs
    PROVE  /\ Record(p) =>
                /\ Moves(p, Idle) \/ Moves(p, Failing(p))
                /\ Applied(holdsClaim(row),
                           markPublished(row, local[p].text, local[p].by))
           /\ Block(p) =>
                /\ Moves(p, Idle) \/ Moves(p, Failing(p))
                /\ Applied(holdsClaim(row), markPublishBlockedByExistingReply(row))
           /\ Fail(p) =>
                Moves(p, Idle) /\ Applied(holdsClaim(row), markPublishFailed(row))
<1>1. /\ local \in [Procs -> Locals] /\ Idle \in Locals
      /\ Failing(p) \in Locals
  BY DEF TypeInv, TypeOK, Idle, Locals, Pcs, PublishPcs, TextOrNull, Failing
<1> USE <1>1 DEF Write, Goto, Moves, Applied
<1>2. ASSUME Record(p)
      PROVE  /\ Moves(p, Idle) \/ Moves(p, Failing(p))
             /\ Applied(holdsClaim(row),
                        markPublished(row, local[p].text, local[p].by))
  BY <1>2 DEF Record
<1>3. ASSUME Block(p)
      PROVE  /\ Moves(p, Idle) \/ Moves(p, Failing(p))
             /\ Applied(holdsClaim(row), markPublishBlockedByExistingReply(row))
  BY <1>3 DEF Block
<1>4. ASSUME Fail(p)
      PROVE  Moves(p, Idle) /\ Applied(holdsClaim(row), markPublishFailed(row))
  BY <1>4 DEF Fail
<1> QED
  BY <1>2, <1>3, <1>4

---------------------------------------------------------------------------
(* The steps without a statement *)

\* Reads and pre-checks move one process and touch nothing else.
LEMMA ReadMoves ==
    ASSUME TypeInv, NEW p \in Procs
    PROVE  /\ \A actor \in Actors : ApproveRead(p, actor) =>
                /\ Moves(p, [pc |-> "approve", text |-> responseOf(row), by |-> actor])
                /\ responseOf(row) \in Texts
           /\ RejectRead(p) => \E l \in Locals : l.pc = "reject" /\ Moves(p, l)
           /\ \A text \in HumanTexts : EditRead(p, text) =>
                \E l \in Locals : l.pc = "edit" /\ Moves(p, l)
           /\ PublishPrecheck(p) =>
                \E l \in Locals : l.pc \in {"claim", "idle"} /\ Moves(p, l)
           /\ SweepFindStale(p) => \E l \in Locals : l.pc = "reclaim" /\ Moves(p, l)
           /\ SweepFindGenerated(p) =>
                \E l \in Locals : l.pc = "precheck" /\ Moves(p, l)
<1> DEFINE To(label) == [pc |-> label, text |-> local[p].text, by |-> local[p].by]
<1>1. /\ local \in [Procs -> Locals] /\ row \in ReviewRows
      /\ \A label \in Pcs : To(label) \in Locals
  BY DEF TypeInv, TypeOK, Locals
<1>2. ASSUME NEW label \in Pcs, Jump(p, label)
      PROVE  \E l \in Locals : l.pc = label /\ Moves(p, l)
  <2>1. local'[p] \in Locals
    BY <1>1, <1>2, JumpMoves
  <2>2. local'[p].pc = label /\ Moves(p, local'[p])
    BY <1>1, <1>2, JumpMoves DEF Moves
  <2> QED
    BY <2>1, <2>2
<1>3. ASSUME NEW actor \in Actors, ApproveRead(p, actor)
      PROVE  /\ Moves(p, [pc |-> "approve", text |-> responseOf(row), by |-> actor])
             /\ responseOf(row) \in Texts
  <2>1. responseOf(row) \in Texts
    BY <1>1, <1>3 DEF ApproveRead, responseOf, ReviewRows, TextOrNull
  <2>2. [pc |-> "approve", text |-> responseOf(row), by |-> actor] \in Locals
    BY <2>1 DEF Locals, Pcs, TextOrNull, Publishers
  <2> QED
    BY <1>1, <1>3, <2>1, <2>2, GotoMoves DEF ApproveRead, Moves
<1>4. ASSUME NEW text \in HumanTexts, EditRead(p, text)
      PROVE  \E l \in Locals : l.pc = "edit" /\ Moves(p, l)
  <2>1. [pc |-> "edit", text |-> text, by |-> Nobody] \in Locals
    BY DEF Locals, Pcs, TextOrNull, Texts
  <2> QED
    BY <1>1, <1>4, <2>1, GotoMoves DEF EditRead, Moves
<1>5. ASSUME PublishPrecheck(p)
      PROVE  \E l \in Locals : l.pc \in {"claim", "idle"} /\ Moves(p, l)
  <2>1. Idle \in Locals /\ Idle.pc = "idle" /\ "claim" \in Pcs
    BY DEF Idle, Locals, Pcs, TextOrNull
  <2>2. CASE Jump(p, "claim")
    BY <1>2, <2>1, <2>2
  <2>3. CASE Goto(p, Idle)
    BY <1>1, <2>1, <2>3, GotoMoves DEF Moves
  <2> QED
    BY <1>5, <2>2, <2>3 DEF PublishPrecheck
<1>6. {"reject", "reclaim", "precheck"} \subseteq Pcs
  BY DEF Pcs
<1> QED
  BY <1>2, <1>3, <1>4, <1>5, <1>6 DEF RejectRead, SweepFindStale, SweepFindGenerated

\* Between its claim and its outcome a process keeps the text and the name.
LEMMA AttemptMoves ==
    ASSUME TypeInv, NEW p \in Procs, CheckLive(p) \/ Put(p)
    PROVE  /\ local' \in [Procs -> Locals]
           /\ local'[p].pc \in PublishPcs
           /\ local'[p].text = local[p].text
           /\ local'[p].by = local[p].by
           /\ \A q \in Procs : q # p => local'[q] = local[q]
<1>1. local \in [Procs -> Locals] /\ PublishPcs \subseteq Pcs
  BY DEF TypeInv, TypeOK, Pcs
<1>2. \E label \in PublishPcs : Jump(p, label)
  BY DEF CheckLive, Put, PublishPcs
<1> QED
  BY <1>1, <1>2, JumpMoves

---------------------------------------------------------------------------
(* Type correctness is inductive *)

\* Faults are counted.
LEMMA FaultsType == TypeInv /\ [Next]_vars => faults' \in Nat
<1> SUFFICES ASSUME TypeInv, [Next]_vars PROVE faults' \in Nat
  OBVIOUS
<1>1. faults \in Nat /\ (Fault => faults' \in Nat)
  BY DEF TypeInv, TypeOK, Fault
<1>2. ASSUME NEW p \in Requests, RequestStep(p)
      PROVE  faults' \in Nat
  BY <1>1, <1>2 DEF RequestStep, ApproveRead, ApproveWrite, RejectRead,
                    RejectWrite, EditRead, EditWrite, Unapprove, Write
<1>3. ASSUME NEW p \in Procs, PublishStep(p)
      PROVE  faults' \in Nat
  BY <1>1, <1>3 DEF PublishStep, PublishPrecheck, Claim, CheckLive, Put, Record,
                    Block, Fail, Write
<1>4. ASSUME NEW s \in Sweepers, SweepStep(s)
      PROVE  faults' \in Nat
  BY <1>1, <1>4 DEF SweepStep, SweepFindStale, Reclaim, SweepFindGenerated, Write
<1>5. CASE Environment
  BY <1>1, <1>5 DEF Environment, Crash, Age, OwnerReplies
<1>6. CASE UNCHANGED vars
  BY <1>1, <1>6 DEF vars
<1> QED
  BY <1>2, <1>3, <1>4, <1>5, <1>6 DEF Next

\* What a step of one process may leave behind, in the terms of TypeInv.
LEMMA TypeOfStep ==
    ASSUME TypeInv, [Next]_vars, NEW p \in Procs, local' \in [Procs -> Locals],
           \A q \in Procs : q # p => local'[q] = local[q],
           Holding(p)' => local'[p].text \in Texts,
           At(p, "approve")' => local'[p].text \in Texts /\ local'[p].by \in Actors,
           row' \in ReviewRows, live' \in TextOrNull,
           approvals' \subseteq Actors \X Texts, shown' \subseteq Texts,
           raced' \subseteq {q \in Procs : At(q, "put")'}
    PROVE  TypeInv'
<1>1. \A q \in Procs : Holding(q)' => local'[q].text \in Texts
  BY DEF TypeInv, TypeOK, Holding
<1>2. \A q \in Procs : At(q, "approve")' =>
          local'[q].text \in Texts /\ local'[q].by \in Actors
  BY DEF TypeInv, ApprovalsAreNamed, At
<1>3. faults' \in Nat
  BY FaultsType
<1> QED
  BY <1>1, <1>2, <1>3 DEF TypeInv, TypeOK, ApprovalsAreNamed

\* A process that is not about to PUT is not in raced, so it can move.
LEMMA RacedType ==
    ASSUME TypeInv, NEW p \in Procs, NEW l, Moves(p, l),
           ~At(p, "put"), UNCHANGED raced
    PROVE  raced' \subseteq {q \in Procs : At(q, "put")'}
BY DEF TypeInv, TypeOK, Moves, At

\* The approval workflow keeps the types.
LEMMA TypeRequestStep ==
    ASSUME TypeInv, [Next]_vars, NEW p \in Requests, RequestStep(p)
    PROVE  TypeInv'
<1>p. p \in Procs
  BY DEF Procs
<1>1. /\ Idle \in Locals /\ Idle.pc = "idle"
      /\ row \in ReviewRows /\ live \in TextOrNull /\ shown \subseteq Texts
      /\ approvals \subseteq Actors \X Texts
      /\ Texts \subseteq TextOrNull
      /\ local[p] \in Locals
  BY <1>p DEF TypeInv, TypeOK, Idle, Locals, Pcs, TextOrNull
<1>2. local[p].text \in TextOrNull
  BY <1>1 DEF Locals
<1>3. ASSUME NEW actor \in Actors, ApproveRead(p, actor)
      PROVE  TypeInv'
  <2> DEFINE l == [pc |-> "approve", text |-> responseOf(row), by |-> actor]
  <2>1. Moves(p, l) /\ responseOf(row) \in Texts
    BY <1>p, <1>3, ReadMoves
  <2>2. raced' \subseteq {q \in Procs : At(q, "put")'}
    BY <1>p, <1>3, <2>1, RacedType DEF ApproveRead, At, history
  <2> QED
    BY <1>p, <1>1, <1>3, <2>1, <2>2, TypeOfStep
       DEF Moves, Holding, At, ApproveRead, history
<1>4. ASSUME ApproveWrite(p)
      PROVE  TypeInv'
  <2>1. /\ Moves(p, Idle)
        /\ row' = row \/ row' = markApproved(row, local[p].text, local[p].by)
    BY <1>p, <1>4, RequestWrites DEF Applied
  <2>2. local[p].text \in Texts /\ local[p].by \in Actors
    BY <1>p, <1>4 DEF TypeInv, ApprovalsAreNamed, ApproveWrite
  <2>3. row' \in ReviewRows
    BY <1>1, <2>1, <2>2, StatementsType
  <2>4. approvals' \subseteq Actors \X Texts
    BY <1>1, <1>4, <2>2 DEF ApproveWrite
  <2>5. raced' \subseteq {q \in Procs : At(q, "put")'}
    BY <1>p, <1>4, <2>1, RacedType DEF ApproveWrite, At
  <2> QED
    BY <1>p, <1>1, <1>4, <2>1, <2>3, <2>4, <2>5, TypeOfStep
       DEF Moves, Holding, At, ApproveWrite
<1>5. ASSUME NEW l \in Locals, l.pc \in {"reject", "edit"}, Moves(p, l),
             At(p, "idle"), UNCHANGED <<row, live, faults, history>>
      PROVE  TypeInv'
  <2>1. raced' \subseteq {q \in Procs : At(q, "put")'}
    BY <1>p, <1>5, RacedType DEF At, history
  <2> QED
    BY <1>p, <1>1, <1>5, <2>1, TypeOfStep DEF Moves, Holding, At, history
<1>6. CASE RejectRead(p)
  BY <1>p, <1>5, <1>6, ReadMoves DEF RejectRead
<1>7. ASSUME NEW text \in HumanTexts, EditRead(p, text)
      PROVE  TypeInv'
  BY <1>p, <1>5, <1>7, ReadMoves DEF EditRead
<1>8. ASSUME Moves(p, Idle), ~At(p, "put"), row' \in ReviewRows,
             UNCHANGED <<live, history>>
      PROVE  TypeInv'
  <2>1. raced' \subseteq {q \in Procs : At(q, "put")'}
    BY <1>p, <1>8, RacedType DEF history
  <2> QED
    BY <1>p, <1>1, <1>8, <2>1, TypeOfStep DEF Moves, Holding, At, history
<1>9. /\ markRejected(row) \in ReviewRows
      /\ updateFinalResponse(row, local[p].text) \in ReviewRows
      /\ markUnapproved(row) \in ReviewRows
  BY <1>1, <1>2, StatementsType
<1>10. CASE RejectWrite(p)
  BY <1>p, <1>1, <1>8, <1>9, <1>10, RequestWrites DEF RejectWrite, Applied, At
<1>11. CASE EditWrite(p)
  BY <1>p, <1>1, <1>8, <1>9, <1>11, RequestWrites DEF EditWrite, Applied, At
<1>12. CASE Unapprove(p)
  BY <1>p, <1>1, <1>8, <1>9, <1>12, RequestWrites DEF Unapprove, Applied, At
<1> QED
  BY <1>3, <1>4, <1>6, <1>7, <1>10, <1>11, <1>12 DEF RequestStep

\* A publish attempt keeps the types.
LEMMA TypePublishStep ==
    ASSUME TypeInv, [Next]_vars, NEW p \in Procs, PublishStep(p)
    PROVE  TypeInv'
<1>1. /\ Idle \in Locals /\ Idle.pc = "idle"
      /\ row \in ReviewRows /\ live \in TextOrNull /\ shown \subseteq Texts
      /\ approvals \subseteq Actors \X Texts
      /\ raced \subseteq {q \in Procs : At(q, "put")}
      /\ Texts \subseteq TextOrNull
      /\ local[p] \in Locals
  BY DEF TypeInv, TypeOK, Idle, Locals, Pcs, TextOrNull
<1>2. local[p].text \in TextOrNull /\ local[p].by \in Publishers \cup {Nobody}
  BY <1>1 DEF Locals
<1>3. ASSUME NEW l \in Locals, Moves(p, l), l.pc # "approve",
             l.pc \in {"check", "put", "record", "block"} => l.text \in Texts,
             ~At(p, "put"), row' \in ReviewRows, UNCHANGED <<live, history>>
      PROVE  TypeInv'
  <2>1. raced' \subseteq {q \in Procs : At(q, "put")'}
    BY <1>3, RacedType DEF history
  <2> QED
    BY <1>1, <1>3, <2>1, TypeOfStep DEF Moves, Holding, At, history
<1>4. CASE PublishPrecheck(p)
  <2>1. PICK l \in Locals : l.pc \in {"claim", "idle"} /\ Moves(p, l)
    BY <1>4, ReadMoves
  <2> QED
    BY <1>1, <1>3, <1>4, <2>1 DEF PublishPrecheck, At
<1>5. CASE Claim(p)
  <2>1. claimReviewForPublishing(row) \in ReviewRows
    BY <1>1, StatementsType
  <2> QED
    BY <1>1, <1>3, <1>5, <2>1, ClaimWrites, FinalizeType DEF Claim, Applied, At
<1>6. Failing(p) \in Locals /\ Failing(p).pc = "fail"
  BY <1>1 DEF Failing, Locals, Pcs, PublishPcs
<1>7. CASE Record(p)
  <2>1. markPublished(row, local[p].text, local[p].by) \in ReviewRows
    BY <1>1, <1>2, StatementsType
  <2> QED
    BY <1>1, <1>3, <1>6, <1>7, <2>1, OutcomeWrites DEF Record, Applied, At
<1>8. CASE Block(p)
  <2>1. markPublishBlockedByExistingReply(row) \in ReviewRows
    BY <1>1, StatementsType
  <2> QED
    BY <1>1, <1>3, <1>6, <1>8, <2>1, OutcomeWrites DEF Block, Applied, At
<1>9. CASE Fail(p)
  <2>1. markPublishFailed(row) \in ReviewRows
    BY <1>1, StatementsType
  <2> QED
    BY <1>1, <1>3, <1>9, <2>1, OutcomeWrites DEF Fail, Applied, At
<1>10. CASE CheckLive(p) \/ Put(p)
  <2>1. /\ local' \in [Procs -> Locals]
        /\ local'[p].pc \in PublishPcs
        /\ local'[p].text = local[p].text
        /\ local'[p].by = local[p].by
        /\ \A q \in Procs : q # p => local'[q] = local[q]
    BY <1>10, AttemptMoves
  <2>2. local[p].text \in Texts
    BY <1>10 DEF TypeInv, TypeOK, CheckLive, Put, At, Holding
  <2>3. /\ row' \in ReviewRows /\ live' \in TextOrNull
        /\ shown' \subseteq Texts /\ approvals' \subseteq Actors \X Texts
    BY <1>1, <1>10, <2>2 DEF CheckLive, Put, TextOrNull
  <2>4. raced' \subseteq {q \in Procs : At(q, "put")'}
    <3>1. CASE raced' = raced \ {p}
      BY <1>1, <2>1, <3>1 DEF At
    <3>2. CASE raced' = raced /\ Jump(p, "put")
      <4>1. At(p, "put")'
        BY <3>2, JumpMoves DEF TypeInv, TypeOK, At, Pcs, PublishPcs
      <4> QED
        BY <1>1, <2>1, <3>2, <4>1 DEF At
    <3> QED
      BY <1>10, <3>1, <3>2 DEF CheckLive, Put
  <2> QED
    BY <2>1, <2>2, <2>3, <2>4, TypeOfStep DEF Holding, At, PublishPcs
<1> QED
  BY <1>4, <1>5, <1>7, <1>8, <1>9, <1>10 DEF PublishStep

\* The sweep keeps the types.
LEMMA TypeSweepStep ==
    ASSUME TypeInv, [Next]_vars, NEW s \in Sweepers, SweepStep(s)
    PROVE  TypeInv'
<1>s. s \in Procs
  BY DEF Procs
<1>1. /\ Idle \in Locals /\ Idle.pc = "idle"
      /\ row \in ReviewRows /\ live \in TextOrNull /\ shown \subseteq Texts
      /\ approvals \subseteq Actors \X Texts
  BY DEF TypeInv, TypeOK, Idle, Locals, Pcs, TextOrNull
<1>2. ASSUME NEW l \in Locals, Moves(s, l), l.pc # "approve",
             l.pc \in {"check", "put", "record", "block"} => l.text \in Texts,
             ~At(s, "put"), row' \in ReviewRows, UNCHANGED <<live, history>>
      PROVE  TypeInv'
  <2>1. raced' \subseteq {q \in Procs : At(q, "put")'}
    BY <1>s, <1>2, RacedType DEF history
  <2> QED
    BY <1>s, <1>1, <1>2, <2>1, TypeOfStep DEF Moves, Holding, At, history
<1>3. CASE SweepFindStale(s)
  BY <1>s, <1>1, <1>2, <1>3, ReadMoves DEF SweepFindStale, At
<1>4. CASE SweepFindGenerated(s)
  BY <1>s, <1>1, <1>2, <1>4, ReadMoves DEF SweepFindGenerated, At
<1>5. CASE Reclaim(s)
  <2>1. claimStalePublishPendingReview(row) \in ReviewRows
    BY <1>1, StatementsType
  <2> QED
    BY <1>s, <1>1, <1>2, <1>5, <2>1, ClaimWrites, FinalizeType DEF Reclaim, Applied, At
<1> QED
  BY <1>3, <1>4, <1>5 DEF SweepStep

\* Crashes, ageing and the owner's replies keep the types.
LEMMA TypeEnvironment ==
    ASSUME TypeInv, [Next]_vars, Environment
    PROVE  TypeInv'
<1>1. /\ Idle \in Locals /\ Idle.pc = "idle"
      /\ row \in ReviewRows /\ live \in TextOrNull /\ shown \subseteq Texts
      /\ approvals \subseteq Actors \X Texts
      /\ local \in [Procs -> Locals]
      /\ raced \subseteq {q \in Procs : At(q, "put")}
  BY DEF TypeInv, TypeOK, Idle, Locals, Pcs, TextOrNull
<1>2. ASSUME NEW p \in Procs, Crash(p)
      PROVE  TypeInv'
  <2>1. Moves(p, Idle)
    BY <1>1, <1>2, GotoMoves DEF Crash, Moves
  <2>2. raced' \subseteq {q \in Procs : At(q, "put")'}
    BY <1>1, <1>2, <2>1 DEF Crash, Moves, At
  <2> QED
    BY <1>1, <1>2, <2>1, <2>2, TypeOfStep DEF Moves, Crash, Holding, At
<1>3. CASE Age
  <2>1. row' \in ReviewRows /\ faults' \in Nat
    BY <1>1, <1>3, StatementsType, FaultsType DEF Age
  <2> QED
    BY <1>3, <2>1
       DEF Age, history, TypeInv, TypeOK, ApprovalsAreNamed, Holding, At
<1>4. ASSUME NEW text \in OwnerTexts, OwnerReplies(text)
      PROVE  TypeInv'
  <2>1. /\ live' \in TextOrNull /\ shown' \subseteq Texts
        /\ UNCHANGED <<row, local, faults, approvals>>
    BY <1>1, <1>4 DEF OwnerReplies, TextOrNull, Texts
  <2>2. raced' \subseteq {q \in Procs : At(q, "put")'}
    BY <1>1, <1>4 DEF OwnerReplies, At
  <2> QED
    BY <2>1, <2>2 DEF TypeInv, TypeOK, ApprovalsAreNamed, Holding, At
<1> QED
  BY <1>2, <1>3, <1>4 DEF Environment

\* So every step keeps the types.
LEMMA TypeStep == TypeInv /\ [Next]_vars => TypeInv'
<1> SUFFICES ASSUME TypeInv, [Next]_vars PROVE TypeInv'
  OBVIOUS
<1>1. CASE UNCHANGED vars
  BY <1>1 DEF vars, TypeInv, TypeOK, ApprovalsAreNamed, Holding, At
<1> QED
  BY <1>1, TypeRequestStep, TypePublishStep, TypeSweepStep, TypeEnvironment DEF Next

\* The variables always stay in their ranges, and an attempt past its claim
\* always holds a text to publish (finalizeClaimedPublish's early return).
THEOREM TypeCorrect == Spec => []TypeOK
<1>1. TypeInv => TypeOK
  BY DEF TypeInv
<1> QED
  BY TypeInit, TypeStep, <1>1, PTL DEF Spec

---------------------------------------------------------------------------
(* What the row says is true *)

\* An approved row names an approval that was given, of the text it holds.
ApprovedIsOnRecord ==
    row.status = "APPROVED" => <<row.approvedBy, row.final>> \in approvals

\* With approval required no row is GENERATED, and only an approved one is claimed.
HumansComeFirst ==
    HumansOnly =>
        row.status # "GENERATED" /\ (holdsClaim(row) => row.status = "APPROVED")

RowRecord == ApprovedIsOnRecord /\ HumansComeFirst

\* An attempt carries an approval, or the policy's leave where that is allowed.
AttemptIsCleared ==
    \A p \in Procs : Holding(p) =>
        \/ <<local[p].by, local[p].text>> \in approvals
        \/ local[p].by = "auto" /\ ~HumansOnly

\* An attempt about to record success has seen its text on Google.
RecordedWasShown ==
    \A p \in Procs : At(p, "record") => \E t \in shown : local[p].text \in {t, Trim[t]}

AttemptRecord ==
    /\ AttemptIsCleared
    /\ RecordedWasShown
    /\ live # NoText => live \in shown

RecordInv == TypeInv /\ RowRecord /\ AttemptRecord

\* A fresh row is neither approved nor claimed.
LEMMA RecordInit == Init => RecordInv
<1> SUFFICES ASSUME Init PROVE RecordInv
  OBVIOUS
<1>1. RowRecord
  BY DEF Init, RowRecord, ApprovedIsOnRecord, HumansComeFirst, holdsClaim,
         FreshRow, FreshStatuses
<1>2. AttemptRecord
  BY DEF Init, AttemptRecord, AttemptIsCleared, RecordedWasShown, Holding, At, Idle
<1> QED
  BY <1>1, <1>2, TypeInit DEF RecordInv

\* The statements keep the row's record true, the approval being entered with
\* the statement that writes it.
LEMMA StatementsRecord ==
    ASSUME RecordInv, approvals \subseteq approvals', shown \subseteq shown',
           \/ row' = row
           \/ \E t \in Texts, a \in Actors :
                 /\ canMarkApproved(row) /\ row' = markApproved(row, t, a)
                 /\ <<a, t>> \in approvals'
           \/ canMarkRejected(row) /\ row' = markRejected(row)
           \/ \E t \in TextOrNull :
                 canUpdateFinalResponse(row) /\ row' = updateFinalResponse(row, t)
           \/ canMarkUnapproved(row) /\ row' = markUnapproved(row)
           \/ /\ canClaimReviewForPublishing(row)
              /\ row' = claimReviewForPublishing(row)
           \/ /\ isStalePublishPending(row)
              /\ row' = claimStalePublishPendingReview(row)
           \/ holdsClaim(row) /\ row' = markPublishFailed(row)
           \/ holdsClaim(row) /\ row' = markPublishBlockedByExistingReply(row)
           \/ row' = [row EXCEPT !.aged = TRUE]
    PROVE  RowRecord'
<1> USE DEF RecordInv, RowRecord, ApprovedIsOnRecord, HumansComeFirst, holdsClaim
<1>r. row \in ReviewRows
  BY DEF TypeInv, TypeOK
<1> USE <1>r DEF ReviewRows, set_updated_at
<1>1. CASE row' = row
  BY <1>1
<1>2. ASSUME NEW t \in Texts, NEW a \in Actors, canMarkApproved(row),
             row' = markApproved(row, t, a), <<a, t>> \in approvals'
      PROVE  RowRecord'
  BY <1>2 DEF canMarkApproved, APPROVABLE_STATUSES, markApproved
<1>3. CASE canMarkRejected(row) /\ row' = markRejected(row)
  BY <1>3 DEF canMarkRejected, REJECTABLE_STATUSES, markRejected
<1>4. ASSUME NEW t \in TextOrNull, canUpdateFinalResponse(row),
             row' = updateFinalResponse(row, t)
      PROVE  RowRecord'
  BY <1>4 DEF canUpdateFinalResponse, EDITABLE_STATUSES, updateFinalResponse
<1>5. CASE canMarkUnapproved(row) /\ row' = markUnapproved(row)
  BY <1>5 DEF canMarkUnapproved, UNAPPROVABLE_REPLY_STATES, markUnapproved
<1>6. CASE canClaimReviewForPublishing(row) /\ row' = claimReviewForPublishing(row)
  BY <1>6 DEF canClaimReviewForPublishing, PUBLISHABLE_STATUSES,
              claimReviewForPublishing
<1>7. CASE isStalePublishPending(row) /\ row' = claimStalePublishPendingReview(row)
  BY <1>7 DEF isStalePublishPending, claimStalePublishPendingReview
<1>8. CASE holdsClaim(row) /\ row' = markPublishFailed(row)
  BY <1>8 DEF markPublishFailed
<1>9. CASE holdsClaim(row) /\ row' = markPublishBlockedByExistingReply(row)
  BY <1>9 DEF markPublishBlockedByExistingReply
<1>10. CASE row' = [row EXCEPT !.aged = TRUE]
  BY <1>10
<1> QED
  BY <1>1, <1>2, <1>3, <1>4, <1>5, <1>6, <1>7, <1>8, <1>9, <1>10

\* A process that moves without holding a claim afterwards leaves every other
\* attempt's record as it was.
LEMMA AttemptRecordOfMove ==
    ASSUME RecordInv, NEW p \in Procs, NEW l, Moves(p, l),
           l.pc \notin {"check", "put", "record", "block"},
           UNCHANGED <<live, shown>>, approvals \subseteq approvals'
    PROVE  AttemptRecord'
BY DEF RecordInv, AttemptRecord, AttemptIsCleared, RecordedWasShown, Moves,
       Holding, At

\* The approval workflow keeps the record true.
LEMMA RecordRequestStep ==
    ASSUME RecordInv, TypeInv', NEW p \in Requests, RequestStep(p)
    PROVE  RecordInv'
<1>p. p \in Procs /\ TypeInv
  BY DEF Procs, RecordInv
<1>1. Idle.pc \notin {"check", "put", "record", "block"}
  BY DEF Idle
<1>2. ASSUME row' = row, approvals' = approvals, shown' = shown
      PROVE  RowRecord'
  BY <1>2, StatementsRecord
<1>3. ASSUME NEW actor \in Actors, ApproveRead(p, actor)
      PROVE  RecordInv'
  BY <1>p, <1>2, <1>3, ReadMoves, AttemptRecordOfMove
     DEF ApproveRead, history, RecordInv
<1>4. CASE ApproveWrite(p)
  <2>1. /\ Moves(p, Idle)
        /\ Applied(canMarkApproved(row),
                   markApproved(row, local[p].text, local[p].by))
    BY <1>p, <1>4, RequestWrites
  <2>2. local[p].text \in Texts /\ local[p].by \in Actors
    BY <1>p, <1>4 DEF TypeInv, ApprovalsAreNamed, ApproveWrite
  <2>3. UNCHANGED <<live, shown>> /\ approvals \subseteq approvals'
    BY <1>4 DEF ApproveWrite
  <2>4. RowRecord'
    <3>1. CASE row' = row
      BY <2>3, <3>1, StatementsRecord
    <3>2. CASE row' # row
      BY <1>4, <2>1, <2>2, <2>3, <3>2, StatementsRecord DEF ApproveWrite, Applied
    <3> QED
      BY <3>1, <3>2
  <2> QED
    BY <1>p, <1>1, <2>1, <2>3, <2>4, AttemptRecordOfMove DEF RecordInv
<1>5. CASE RejectRead(p)
  BY <1>p, <1>2, <1>5, ReadMoves, AttemptRecordOfMove
     DEF RejectRead, history, RecordInv
<1>6. ASSUME NEW text \in HumanTexts, EditRead(p, text)
      PROVE  RecordInv'
  BY <1>p, <1>2, <1>6, ReadMoves, AttemptRecordOfMove
     DEF EditRead, history, RecordInv
<1>7. ASSUME Moves(p, Idle), UNCHANGED <<live, history>>, RowRecord'
      PROVE  RecordInv'
  BY <1>p, <1>1, <1>7, AttemptRecordOfMove DEF history, RecordInv
<1>8. CASE RejectWrite(p)
  BY <1>p, <1>7, <1>8, RequestWrites, StatementsRecord
     DEF RejectWrite, Applied, history
<1>9. CASE EditWrite(p)
  <2>1. local[p].text \in TextOrNull
    BY <1>p DEF TypeInv, TypeOK, Locals
  <2> QED
    BY <1>p, <1>7, <1>9, <2>1, RequestWrites, StatementsRecord
       DEF EditWrite, Applied, history
<1>10. CASE Unapprove(p)
  BY <1>p, <1>7, <1>10, RequestWrites, StatementsRecord
     DEF Unapprove, Applied, history
<1> QED
  BY <1>3, <1>4, <1>5, <1>6, <1>8, <1>9, <1>10 DEF RequestStep

\* A claim by either route gives its holder cleared text.
LEMMA RecordClaim ==
    ASSUME RecordInv, TypeInv', NEW p \in Procs, Claim(p) \/ Reclaim(p)
    PROVE  RecordInv'
<1>1. TypeInv /\ row \in ReviewRows /\ UNCHANGED <<live, history>>
  BY DEF RecordInv, TypeInv, TypeOK, Claim, Reclaim
<1>2. RowRecord'
  BY <1>1, ClaimWrites, StatementsRecord DEF Applied, history
<1>3. AttemptRecord'
  <2>1. CASE Moves(p, Idle)
    BY <1>1, <2>1, AttemptRecordOfMove DEF Idle, history
  <2>2. CASE /\ Moves(p, Finalize(row))
             /\ canClaimReviewForPublishing(row) \/ isStalePublishPending(row)
    <3>1. Holding(p)' => /\ local'[p].text = responseOf(row)
                         /\ local'[p].text \in Texts
                         /\ local'[p].by = publishedByOf(row)
                         /\ ~At(p, "record")'
      BY <1>1, <2>2, FinalizeType DEF Moves, Holding, At
    <3>2. CASE row.status = "APPROVED"
      <4>1. <<row.approvedBy, row.final>> \in approvals /\ approvals \subseteq Actors \X Texts
        BY <1>1, <3>2 DEF RecordInv, RowRecord, ApprovedIsOnRecord, TypeInv, TypeOK
      <4>2. publishedByOf(row) = row.approvedBy /\ responseOf(row) = row.final
        BY <3>2, <4>1, TextAssumption DEF publishedByOf, responseOf
      <4> QED
        BY <1>1, <2>2, <3>1, <4>1, <4>2
           DEF RecordInv, AttemptRecord, AttemptIsCleared, RecordedWasShown, Moves,
               Holding, At, history
    <3>3. CASE row.status # "APPROVED"
      <4>1. publishedByOf(row) = "auto" /\ ~HumansOnly
        BY <2>2, <3>3
           DEF publishedByOf, RecordInv, RowRecord, HumansComeFirst, holdsClaim,
               canClaimReviewForPublishing, PUBLISHABLE_STATUSES, isStalePublishPending
      <4> QED
        BY <1>1, <2>2, <3>1, <4>1
           DEF RecordInv, AttemptRecord, AttemptIsCleared, RecordedWasShown, Moves,
               Holding, At, history
    <3> QED
      BY <3>2, <3>3
  <2> QED
    BY <1>1, <2>1, <2>2, ClaimWrites
<1> QED
  BY <1>2, <1>3 DEF RecordInv

\* The live check and the PUT keep an attempt's text and name; what the attempt
\* goes on to record is what Google shows.
LEMMA RecordAttempt ==
    ASSUME RecordInv, TypeInv', NEW p \in Procs, CheckLive(p) \/ Put(p)
    PROVE  RecordInv'
<1>1. /\ local'[p].text = local[p].text
      /\ local'[p].by = local[p].by
      /\ \A q \in Procs : q # p => local'[q] = local[q]
  BY AttemptMoves DEF RecordInv
<1>2. Holding(p) /\ UNCHANGED <<row, approvals>> /\ shown \subseteq shown'
  BY DEF CheckLive, Put, Holding, At
<1>3. RowRecord'
  BY <1>2, StatementsRecord
<1>4. AttemptIsCleared'
  BY <1>1, <1>2 DEF RecordInv, AttemptRecord, AttemptIsCleared, Holding
<1>5. live' # NoText => live' \in shown'
  BY <1>2 DEF RecordInv, AttemptRecord, CheckLive, Put
<1>6. At(p, "record")' => \E t \in shown' : local'[p].text \in {t, Trim[t]}
  <2>1. CASE CheckLive(p)
    <3>1. /\ local \in [Procs -> Locals] /\ local[p].text \in Texts
          /\ NoText \notin Texts
      BY <1>2, TextAssumption DEF RecordInv, TypeInv, TypeOK
    <3>2. ASSUME At(p, "record")'
          PROVE  normalizeText(live) = local[p].text
      BY <2>1, <3>1, <3>2, JumpMoves DEF CheckLive, At, Pcs, PublishPcs
    <3> QED
      BY <1>1, <1>2, <3>1, <3>2 DEF normalizeText, RecordInv, AttemptRecord
  <2>2. CASE Put(p)
    <3>1. local \in [Procs -> Locals] /\ local[p].text \in Texts
      BY <1>2 DEF RecordInv, TypeInv, TypeOK
    <3>2. ASSUME At(p, "record")'
          PROVE  live' = local[p].text
      BY <2>2, <3>1, <3>2, JumpMoves DEF Put, At, Pcs, PublishPcs
    <3> QED
      BY <1>1, <2>2, <3>1, <3>2, TextAssumption DEF Put
  <2> QED
    BY <2>1, <2>2
<1>7. RecordedWasShown'
  BY <1>1, <1>2, <1>6 DEF RecordInv, AttemptRecord, RecordedWasShown, At
<1> QED
  BY <1>3, <1>4, <1>5, <1>7 DEF RecordInv, AttemptRecord

\* Recording an outcome gives the claim up.
LEMMA RecordOutcome ==
    ASSUME RecordInv, TypeInv', NEW p \in Procs, Record(p) \/ Block(p) \/ Fail(p)
    PROVE  RecordInv'
<1>1. UNCHANGED <<live, history>> /\ TypeInv
  BY DEF RecordInv, Record, Block, Fail
<1>2. AttemptRecord'
  <2>1. /\ Idle.pc \notin {"check", "put", "record", "block"}
        /\ Failing(p).pc \notin {"check", "put", "record", "block"}
    BY <1>1 DEF Idle, Failing, TypeInv, TypeOK, Locals
  <2> QED
    BY <1>1, <2>1, OutcomeWrites, AttemptRecordOfMove DEF history
<1>3. CASE Block(p) \/ Fail(p)
  BY <1>1, <1>2, <1>3, OutcomeWrites, StatementsRecord DEF Applied, RecordInv, history
<1>4. CASE Record(p)
  <2>1. CASE row' = row
    BY <1>1, <1>2, <2>1, StatementsRecord DEF RecordInv, history
  <2>2. CASE row' = markPublished(row, local[p].text, local[p].by)
    <3>1. /\ row'.status = "PUBLISHED" /\ row'.replyState = "PUBLISHED"
      BY <1>1, <2>2 DEF markPublished, set_updated_at, TypeInv, TypeOK, ReviewRows
    <3>2. RowRecord'
      BY <3>1 DEF RowRecord, ApprovedIsOnRecord, HumansComeFirst, holdsClaim
    <3> QED
      BY <1>2, <3>2 DEF RecordInv
  <2> QED
    BY <1>1, <1>4, <2>1, <2>2, OutcomeWrites DEF Applied
<1> QED
  BY <1>3, <1>4

\* Crashes, ageing and the owner's replies keep the record true.
LEMMA RecordEnvironment ==
    ASSUME RecordInv, TypeInv', Environment
    PROVE  RecordInv'
<1>1. ASSUME NEW p \in Procs, Crash(p)
      PROVE  RecordInv'
  <2>1. Moves(p, Idle) /\ Idle.pc \notin {"check", "put", "record", "block"}
    BY <1>1, GotoMoves
       DEF Crash, Moves, RecordInv, TypeInv, TypeOK, Idle, Locals, Pcs, TextOrNull
  <2> QED
    BY <1>1, <2>1, AttemptRecordOfMove, StatementsRecord DEF Crash, RecordInv
<1>2. CASE Age
  <2>1. RowRecord'
    BY <1>2, StatementsRecord DEF Age, history
  <2> QED
    BY <1>2, <2>1 DEF Age, history, RecordInv, AttemptRecord, AttemptIsCleared,
                      RecordedWasShown, Holding, At
<1>3. ASSUME NEW text \in OwnerTexts, OwnerReplies(text)
      PROVE  RecordInv'
  <2>1. /\ UNCHANGED <<row, local, faults, approvals>>
        /\ shown \subseteq shown' /\ live' \in shown'
    BY <1>3 DEF OwnerReplies
  <2>2. RowRecord'
    BY <2>1, StatementsRecord
  <2> QED
    BY <2>1, <2>2 DEF RecordInv, AttemptRecord, AttemptIsCleared,
                      RecordedWasShown, Holding, At
<1> QED
  BY <1>1, <1>2, <1>3 DEF Environment

\* So every step keeps the record true.
LEMMA RecordStep == RecordInv /\ [Next]_vars => RecordInv'
<1> SUFFICES ASSUME RecordInv, [Next]_vars PROVE RecordInv'
  OBVIOUS
<1>1. TypeInv /\ TypeInv'
  BY TypeStep DEF RecordInv
<1>2. ASSUME row' = row, local' = local, UNCHANGED <<live, history>>
      PROVE  RecordInv'
  BY <1>1, <1>2, StatementsRecord
     DEF RecordInv, AttemptRecord, AttemptIsCleared, RecordedWasShown, Holding, At,
         history
<1>3. ASSUME NEW p \in Procs, NEW l, Moves(p, l),
             l.pc \notin {"check", "put", "record", "block"},
             UNCHANGED <<row, live, history>>
      PROVE  RecordInv'
  BY <1>1, <1>3, AttemptRecordOfMove, StatementsRecord DEF RecordInv, history
<1>4. ASSUME NEW p \in Procs, PublishStep(p)
      PROVE  RecordInv'
  <2>1. CASE PublishPrecheck(p)
    BY <1>1, <1>3, <2>1, ReadMoves DEF PublishPrecheck
  <2> QED
    BY <1>1, <1>4, <2>1, RecordClaim, RecordAttempt, RecordOutcome DEF PublishStep
<1>5. ASSUME NEW s \in Sweepers, SweepStep(s)
      PROVE  RecordInv'
  <2>s. s \in Procs
    BY DEF Procs
  <2>1. CASE SweepFindStale(s)
    BY <1>1, <1>3, <2>s, <2>1, ReadMoves DEF SweepFindStale
  <2>2. CASE SweepFindGenerated(s)
    BY <1>1, <1>3, <2>s, <2>2, ReadMoves DEF SweepFindGenerated
  <2> QED
    BY <1>1, <1>5, <2>s, <2>1, <2>2, RecordClaim DEF SweepStep
<1>6. CASE UNCHANGED vars
  BY <1>2, <1>6 DEF vars, history
<1> QED
  BY <1>1, <1>4, <1>5, <1>6, RecordRequestStep, RecordEnvironment DEF Next

\* No statement matches a published row.
LEMMA PublishedRowStays ==
    ASSUME TypeInv, PublishedRecordIsTrue, [Next]_vars, row.publishedAt
    PROVE  row' = row
<1>1. row.status = "PUBLISHED" /\ row.replyState = "PUBLISHED"
  BY DEF PublishedRecordIsTrue
<1>2. TypeInv
  OBVIOUS
<1>3. /\ ~canMarkApproved(row) /\ ~canMarkRejected(row)
      /\ ~canUpdateFinalResponse(row) /\ ~canMarkUnapproved(row)
      /\ ~canClaimReviewForPublishing(row) /\ ~isStalePublishPending(row)
      /\ ~holdsClaim(row)
  BY <1>1 DEF canMarkApproved, APPROVABLE_STATUSES, canMarkRejected,
              REJECTABLE_STATUSES, canUpdateFinalResponse, EDITABLE_STATUSES,
              canMarkUnapproved, canClaimReviewForPublishing, PUBLISHABLE_STATUSES,
              isStalePublishPending, holdsClaim
<1>4. ASSUME NEW p \in Requests, RequestStep(p)
      PROVE  row' = row
  BY <1>2, <1>3, <1>4, RequestWrites
     DEF Procs, RequestStep, Applied, ApproveRead, RejectRead, EditRead
<1>5. ASSUME NEW p \in Procs, PublishStep(p)
      PROVE  row' = row
  BY <1>2, <1>3, <1>5, ClaimWrites, OutcomeWrites
     DEF PublishStep, Applied, PublishPrecheck, CheckLive, Put
<1>6. ASSUME NEW s \in Sweepers, SweepStep(s)
      PROVE  row' = row
  BY <1>2, <1>3, <1>6, ClaimWrites
     DEF Procs, SweepStep, Applied, SweepFindStale, SweepFindGenerated
<1>7. CASE Environment
  BY <1>1, <1>7 DEF Environment, Crash, Age, OwnerReplies
<1> QED
  BY <1>4, <1>5, <1>6, <1>7 DEF Next, vars

\* What was approved and what was shown stays so.
LEMMA HistoryGrows ==
    ASSUME [Next]_vars
    PROVE  approvals \subseteq approvals' /\ shown \subseteq shown'
<1>1. ASSUME NEW p \in Requests, RequestStep(p)
      PROVE  approvals \subseteq approvals' /\ shown \subseteq shown'
  BY <1>1 DEF RequestStep, ApproveRead, ApproveWrite, RejectRead, RejectWrite,
              EditRead, EditWrite, Unapprove, history
<1>2. ASSUME NEW p \in Procs, PublishStep(p)
      PROVE  approvals \subseteq approvals' /\ shown \subseteq shown'
  BY <1>2 DEF PublishStep, PublishPrecheck, Claim, CheckLive, Put, Record, Block,
              Fail, history
<1>3. ASSUME NEW s \in Sweepers, SweepStep(s)
      PROVE  approvals \subseteq approvals' /\ shown \subseteq shown'
  BY <1>3 DEF SweepStep, SweepFindStale, Reclaim, SweepFindGenerated, history
<1> QED
  BY <1>1, <1>2, <1>3 DEF Next, Environment, Crash, Age, OwnerReplies, vars, history

\* published_at is set by markPublished alone, and only for a text that was shown
\* and cleared.
LEMMA WhoPublishes ==
    ASSUME RecordInv, [Next]_vars, ~row.publishedAt, row'.publishedAt
    PROVE  /\ row'.status = "PUBLISHED" /\ row'.replyState = "PUBLISHED"
           /\ \E t \in shown : row'.final \in {t, Trim[t]}
           /\ \/ <<row'.publishedBy, row'.final>> \in approvals
              \/ row'.publishedBy = "auto" /\ ~HumansOnly
<1> USE DEF set_updated_at
<1>1. TypeInv /\ row \in ReviewRows /\ row' # row
  BY DEF RecordInv, TypeInv, TypeOK
<1> USE <1>1 DEF ReviewRows, Applied
<1>2. ASSUME NEW p \in Requests, RequestStep(p)
      PROVE  FALSE
  <2>p. p \in Procs
    BY DEF Procs
  <2>1. CASE ApproveWrite(p) \/ RejectWrite(p)
    BY <2>p, <2>1, RequestWrites DEF markApproved, markRejected
  <2>2. CASE EditWrite(p) \/ Unapprove(p)
    BY <2>p, <2>2, RequestWrites DEF updateFinalResponse, markUnapproved
  <2> QED
    BY <1>2, <2>1, <2>2 DEF RequestStep, ApproveRead, RejectRead, EditRead
<1>3. ASSUME NEW p \in Procs,
             Claim(p) \/ Reclaim(p) \/ Block(p) \/ Fail(p) \/ PublishPrecheck(p)
                \/ CheckLive(p) \/ Put(p)
      PROVE  FALSE
  <2>1. CASE Claim(p) \/ Reclaim(p)
    BY <2>1, ClaimWrites DEF claimReviewForPublishing, claimStalePublishPendingReview
  <2>2. CASE Block(p) \/ Fail(p)
    BY <2>2, OutcomeWrites DEF markPublishBlockedByExistingReply, markPublishFailed
  <2> QED
    BY <1>3, <2>1, <2>2 DEF PublishPrecheck, CheckLive, Put
<1>4. ASSUME NEW s \in Sweepers, SweepStep(s)
      PROVE  FALSE
  BY <1>3, <1>4 DEF SweepStep, SweepFindStale, SweepFindGenerated, Procs
<1>5. ASSUME Environment
      PROVE  FALSE
  BY <1>5 DEF Environment, Crash, Age, OwnerReplies
<1>6. PICK p \in Procs : Record(p)
  BY <1>2, <1>3, <1>4, <1>5 DEF Next, PublishStep, vars
<1>7. row' = markPublished(row, local[p].text, local[p].by)
  BY <1>6, OutcomeWrites
<1>8. /\ row'.status = "PUBLISHED" /\ row'.replyState = "PUBLISHED"
      /\ row'.final = local[p].text /\ row'.publishedBy = local[p].by
  BY <1>7 DEF markPublished
<1>9. /\ \E t \in shown : local[p].text \in {t, Trim[t]}
      /\ \/ <<local[p].by, local[p].text>> \in approvals
         \/ local[p].by = "auto" /\ ~HumansOnly
  BY <1>6 DEF Record, RecordInv, AttemptRecord, AttemptIsCleared, RecordedWasShown,
              Holding, At
<1> QED
  BY <1>8, <1>9

TruthInv == RecordInv /\ PublishedRecordIsTrue

LEMMA TruthInit == Init => TruthInv
BY RecordInit DEF TruthInv, Init, PublishedRecordIsTrue, FreshRow

LEMMA TruthStep == TruthInv /\ [Next]_vars => TruthInv'
<1> SUFFICES ASSUME TruthInv, [Next]_vars, row'.publishedAt
             PROVE  PublishedRecordIsTrue'
  BY RecordStep DEF TruthInv, PublishedRecordIsTrue
<1>1. approvals \subseteq approvals' /\ shown \subseteq shown'
  BY HistoryGrows
<1>2. CASE row.publishedAt
  <2>1. row' = row
    BY <1>2, PublishedRowStays DEF TruthInv, RecordInv
  <2> QED
    BY <1>1, <2>1 DEF TruthInv, PublishedRecordIsTrue
<1>3. CASE ~row.publishedAt
  BY <1>1, <1>3, WhoPublishes DEF TruthInv, PublishedRecordIsTrue
<1> QED
  BY <1>2, <1>3

\* Whatever crashes, retries, recoveries and overlapping attempts led there, a
\* published row holds a text Google has shown and names whoever cleared it.
THEOREM PublishedRecordCorrect == Spec => []PublishedRecordIsTrue
<1>1. TruthInv => PublishedRecordIsTrue
  BY DEF TruthInv
<1> QED
  BY TruthInit, TruthStep, <1>1, PTL DEF Spec

\* published_at, published_by and the published text are written once, even
\* where two attempts overlap.
THEOREM PublishedOnceCorrect == Spec => PublishedOnce
<1>1. TruthInv /\ [Next]_vars =>
        [row.publishedAt =>
            /\ row'.publishedAt
            /\ row'.publishedBy = row.publishedBy
            /\ row'.final = row.final]_row
  BY PublishedRowStays DEF TruthInv, RecordInv
<1> QED
  BY TruthInit, TruthStep, <1>1, PTL DEF Spec, PublishedOnce

---------------------------------------------------------------------------
(* Nothing unapproved is shown *)

ShownInv == RecordInv /\ OnlyApprovedShown

\* A text reaches Google only from an attempt, and what an attempt holds was approved.
LEMMA ShownStep ==
    ASSUME HumansOnly
    PROVE  ShownInv /\ [Next]_vars => ShownInv'
<1> SUFFICES ASSUME ShownInv, [Next]_vars PROVE ShownInv'
  BY DEF ShownInv
<1>1. RecordInv' /\ approvals \subseteq Actors \X Texts
  BY RecordStep DEF ShownInv, RecordInv, TypeInv, TypeOK
<1>2. approvals \subseteq approvals'
  BY HistoryGrows
<1>3. \A t \in shown' \ OwnerTexts :
          t \in shown \/ \E actor \in Actors : <<actor, t>> \in approvals
  <2>1. ASSUME NEW p \in Procs, Put(p)
        PROVE  \A t \in shown' : t \in shown \/ \E actor \in Actors : <<actor, t>> \in approvals
    <3>1. <<local[p].by, local[p].text>> \in approvals
      BY <2>1 DEF ShownInv, RecordInv, AttemptRecord, AttemptIsCleared, Put, Holding, At
    <3>2. live' \in {live, local[p].text} /\ shown' = shown \cup ({live'} \ {NoText})
      BY <2>1 DEF Put
    <3> QED
      BY <1>1, <3>1, <3>2 DEF ShownInv, RecordInv, AttemptRecord
  <2>2. ASSUME NEW p \in Requests, RequestStep(p)
        PROVE  shown' = shown
    BY <2>2 DEF RequestStep, ApproveRead, ApproveWrite, RejectRead, RejectWrite,
                EditRead, EditWrite, Unapprove, history
  <2>3. ASSUME NEW p \in Procs, PublishStep(p), ~Put(p)
        PROVE  shown' = shown
    BY <2>3 DEF PublishStep, PublishPrecheck, Claim, CheckLive, Record, Block,
                Fail, history
  <2>4. ASSUME NEW s \in Sweepers, SweepStep(s)
        PROVE  shown' = shown
    BY <2>4 DEF SweepStep, SweepFindStale, Reclaim, SweepFindGenerated, history
  <2>5. CASE Environment
    BY <2>5 DEF Environment, Crash, Age, OwnerReplies, history
  <2> QED
    BY <2>1, <2>2, <2>3, <2>4, <2>5 DEF Next, vars
<1> QED
  BY <1>1, <1>2, <1>3 DEF ShownInv, OnlyApprovedShown

\* While REQUIRE_APPROVAL_FOR_ALL is on, the application puts nothing on Google
\* that a human has not approved, even if attempts overlap.
THEOREM OnlyApprovedShownCorrect ==
    ASSUME HumansOnly
    PROVE  Spec => []OnlyApprovedShown
<1>1. Init => ShownInv
  BY RecordInit DEF ShownInv, OnlyApprovedShown, Init
<1>2. ShownInv => OnlyApprovedShown
  BY DEF ShownInv
<1> QED
  BY <1>1, <1>2, ShownStep, PTL DEF Spec

---------------------------------------------------------------------------
(* PUBLISH_PENDING works as a lock, provided no attempt is still running   *)
(* when the sweep takes its claim for abandoned.                           *)

\* While an attempt runs it runs alone, and nothing lets another one start: the
\* row cannot be claimed, and the claim is not old enough to be taken over.
RunsAlone ==
    \A p \in Procs : InPublish(p) =>
        /\ \A q \in Procs : InPublish(q) => q = p
        /\ row.replyState \notin PUBLISH_CLAIMABLE_REPLY_STATES
        /\ ~row.aged

HoldersClaim == \A p \in Procs : Holding(p) => holdsClaim(row)

LockInv == TypeInv /\ RunsAlone /\ HoldersClaim

\* No process holds a claim to begin with.
LEMMA LockInit == Init => LockInv
BY TypeInit DEF Init, LockInv, RunsAlone, HoldersClaim, InPublish, PublishPcs,
                Holding, Idle

\* Whoever can claim, or take over a claim, is not disturbing anyone.
LEMMA ClaimIsFree ==
    ASSUME LockInv, canClaimReviewForPublishing(row) \/ isStalePublishPending(row),
           NEW p \in Procs
    PROVE  ~InPublish(p)
BY DEF LockInv, RunsAlone, canClaimReviewForPublishing, isStalePublishPending

\* A process that moves outside its attempt does not touch the lock as long as
\* the reply state stays and the row gets no older.
LEMMA LockOfMove ==
    ASSUME LockInv, TypeInv', NEW p \in Procs, NEW l, Moves(p, l),
           l.pc \notin PublishPcs, row'.replyState = row.replyState,
           row'.aged => row.aged
    PROVE  LockInv'
BY DEF LockInv, RunsAlone, HoldersClaim, Moves, InPublish, Holding, holdsClaim,
       PublishPcs

\* Nobody runs an attempt after the step, so the lock says nothing.
LEMMA LockOfNobody ==
    ASSUME TypeInv', \A q \in Procs : ~InPublish(q)'
    PROVE  LockInv'
BY DEF LockInv, RunsAlone, HoldersClaim, InPublish, Holding, PublishPcs

\* Approving, rejecting, editing and unapproving leave the claim alone.
LEMMA RequestsKeepClaim ==
    ASSUME TypeInv, NEW p \in Procs,
           ApproveWrite(p) \/ RejectWrite(p) \/ EditWrite(p) \/ Unapprove(p)
    PROVE  /\ Moves(p, Idle)
           /\ row'.replyState = row.replyState
           /\ row'.aged => row.aged
           /\ UNCHANGED live
<1>1. row \in ReviewRows
  BY DEF TypeInv, TypeOK
<1>2. row' = row \/ (row'.replyState = row.replyState /\ ~row'.aged)
  <2> USE <1>1, RequestWrites DEF Applied, ReviewRows, set_updated_at
  <2>1. CASE ApproveWrite(p)
    BY <2>1 DEF markApproved
  <2>2. CASE RejectWrite(p)
    BY <2>2 DEF markRejected
  <2>3. CASE EditWrite(p)
    BY <2>3 DEF updateFinalResponse
  <2>4. CASE Unapprove(p)
    BY <2>4 DEF markUnapproved
  <2> QED
    BY <2>1, <2>2, <2>3, <2>4
<1>3. Moves(p, Idle) /\ UNCHANGED live
  BY RequestWrites DEF ApproveWrite, RejectWrite, EditWrite, Unapprove
<1> QED
  BY <1>2, <1>3

\* A claim is won only where nobody runs, so the winner runs alone.
LEMMA LockClaim ==
    ASSUME LockInv, TypeInv', NEW p \in Procs, Claim(p) \/ Reclaim(p)
    PROVE  LockInv'
<1>1. TypeInv /\ row \in ReviewRows /\ Idle.pc \notin PublishPcs
  BY DEF LockInv, TypeInv, TypeOK, Idle, PublishPcs
<1>2. CASE row' = row /\ Moves(p, Idle)
  BY <1>1, <1>2, LockOfMove
<1>3. CASE /\ canClaimReviewForPublishing(row) \/ isStalePublishPending(row)
           /\ Moves(p, Idle)
  <2>1. \A q \in Procs : ~InPublish(q)'
    BY <1>1, <1>3, ClaimIsFree DEF Moves, InPublish
  <2> QED
    BY <2>1, LockOfNobody
<1>4. CASE /\ canClaimReviewForPublishing(row) \/ isStalePublishPending(row)
           /\ Moves(p, Finalize(row))
           /\ \/ row' = claimReviewForPublishing(row)
              \/ row' = claimStalePublishPendingReview(row)
  <2>1. row'.replyState = "PUBLISH_PENDING" /\ ~row'.aged
    BY <1>1, <1>4 DEF claimReviewForPublishing, claimStalePublishPendingReview,
                      set_updated_at, ReviewRows
  <2>2. \A q \in Procs : q # p => ~InPublish(q)' /\ ~Holding(q)'
    BY <1>4, ClaimIsFree DEF Moves, InPublish, Holding, PublishPcs
  <2> QED
    BY <2>1, <2>2 DEF LockInv, RunsAlone, HoldersClaim, holdsClaim,
                      PUBLISH_CLAIMABLE_REPLY_STATES
<1> QED
  BY <1>1, <1>2, <1>3, <1>4, ClaimWrites DEF Applied

\* The live check and the PUT leave the claim with the attempt that has it.
LEMMA LockAttempt ==
    ASSUME LockInv, TypeInv', NEW p \in Procs, CheckLive(p) \/ Put(p)
    PROVE  LockInv'
<1>1. \A q \in Procs : q # p => local'[q] = local[q]
  BY AttemptMoves DEF LockInv
<1>2. Holding(p) /\ InPublish(p) /\ UNCHANGED row
  BY DEF CheckLive, Put, Holding, InPublish, PublishPcs, At
<1> QED
  BY <1>1, <1>2 DEF LockInv, RunsAlone, HoldersClaim, holdsClaim, InPublish, Holding

\* The outcome gives up the claim, and nobody else has one.
LEMMA LockOutcome ==
    ASSUME LockInv, TypeInv', NEW p \in Procs, Record(p) \/ Block(p) \/ Fail(p)
    PROVE  LockInv'
<1>1. /\ TypeInv /\ row \in ReviewRows
      /\ \A q \in Procs : InPublish(q) => q = p
      /\ row.replyState \notin PUBLISH_CLAIMABLE_REPLY_STATES /\ ~row.aged
  BY DEF LockInv, TypeInv, TypeOK, RunsAlone, Record, Block, Fail, InPublish,
         PublishPcs, At
<1>2. CASE Moves(p, Idle)
  <2>1. \A q \in Procs : ~InPublish(q)'
    BY <1>1, <1>2 DEF Moves, Idle, InPublish, PublishPcs
  <2> QED
    BY <2>1, LockOfNobody
<1>3. CASE Moves(p, Failing(p)) /\ (Record(p) \/ Block(p))
  <2>1. /\ \A q \in Procs : InPublish(q)' => q = p
        /\ \A q \in Procs : ~Holding(q)'
    BY <1>1, <1>3 DEF Moves, Failing, InPublish, Holding, PublishPcs, TypeInv,
                      TypeOK, Locals
  <2>2. row'.replyState \notin PUBLISH_CLAIMABLE_REPLY_STATES /\ ~row'.aged
    <3>1. \/ row' = row
          \/ row' = markPublished(row, local[p].text, local[p].by)
          \/ row' = markPublishBlockedByExistingReply(row)
      BY <1>1, <1>3, OutcomeWrites DEF Applied
    <3> QED
      BY <1>1, <3>1 DEF markPublished, markPublishBlockedByExistingReply,
                        set_updated_at, ReviewRows, PUBLISH_CLAIMABLE_REPLY_STATES
  <2> QED
    BY <2>1, <2>2 DEF LockInv, RunsAlone, HoldersClaim
<1> QED
  BY <1>1, <1>2, <1>3, OutcomeWrites

\* Every step keeps attempts apart, provided a claim only ages when nobody runs.
LEMMA LockStep ==
    ASSUME ThresholdCoversAttempt
    PROVE  LockInv /\ [Next]_vars => LockInv'
<1> SUFFICES ASSUME LockInv, [Next]_vars PROVE LockInv'
  OBVIOUS
<1>1. TypeInv /\ TypeInv' /\ Idle.pc \notin PublishPcs
  BY TypeStep DEF LockInv, Idle, PublishPcs
<1>2. ASSUME NEW p \in Procs, NEW l, Moves(p, l), l.pc \notin PublishPcs, row' = row
      PROVE  LockInv'
  BY <1>1, <1>2, LockOfMove
<1>3. ASSUME NEW p \in Requests, RequestStep(p)
      PROVE  LockInv'
  <2>p. p \in Procs
    BY DEF Procs
  <2>1. CASE ApproveWrite(p) \/ RejectWrite(p) \/ EditWrite(p) \/ Unapprove(p)
    BY <1>1, <2>p, <2>1, RequestsKeepClaim, LockOfMove
  <2>2. ASSUME NEW actor \in Actors, ApproveRead(p, actor)
        PROVE  LockInv'
    <3>1. Moves(p, [pc |-> "approve", text |-> responseOf(row), by |-> actor])
      BY <1>1, <2>p, <2>2, ReadMoves
    <3> QED
      BY <1>2, <2>p, <2>2, <3>1 DEF ApproveRead, PublishPcs
  <2>3. CASE RejectRead(p)
    BY <1>1, <1>2, <2>p, <2>3, ReadMoves DEF RejectRead, PublishPcs
  <2>4. ASSUME NEW text \in HumanTexts, EditRead(p, text)
        PROVE  LockInv'
    BY <1>1, <1>2, <2>p, <2>4, ReadMoves DEF EditRead, PublishPcs
  <2> QED
    BY <1>3, <2>1, <2>2, <2>3, <2>4 DEF RequestStep
<1>4. ASSUME NEW p \in Procs, PublishStep(p)
      PROVE  LockInv'
  <2>1. CASE PublishPrecheck(p)
    BY <1>1, <1>2, <2>1, ReadMoves DEF PublishPrecheck, PublishPcs
  <2> QED
    BY <1>1, <1>4, <2>1, LockClaim, LockAttempt, LockOutcome DEF PublishStep
<1>5. ASSUME NEW s \in Sweepers, SweepStep(s)
      PROVE  LockInv'
  <2>s. s \in Procs
    BY DEF Procs
  <2>1. CASE SweepFindStale(s)
    BY <1>1, <1>2, <2>s, <2>1, ReadMoves DEF SweepFindStale, PublishPcs
  <2>2. CASE SweepFindGenerated(s)
    BY <1>1, <1>2, <2>s, <2>2, ReadMoves DEF SweepFindGenerated, PublishPcs
  <2> QED
    BY <1>1, <1>5, <2>s, <2>1, <2>2, LockClaim DEF SweepStep
<1>6. CASE Environment
  <2>1. ASSUME NEW p \in Procs, Crash(p)
        PROVE  LockInv'
    <3>1. Moves(p, Idle) /\ row' = row
      BY <2>1, <1>1, GotoMoves
         DEF Crash, Moves, TypeInv, TypeOK, Idle, Locals, Pcs, TextOrNull
    <3> QED
      BY <1>1, <1>2, <3>1
  <2>2. CASE Age
    <3>1. \A q \in Procs : ~InPublish(q)'
      BY <2>2 DEF Age, InPublish
    <3> QED
      BY <1>1, <3>1, LockOfNobody
  <2>3. ASSUME NEW text \in OwnerTexts, OwnerReplies(text)
        PROVE  LockInv'
    BY <1>1, <2>3 DEF OwnerReplies, LockInv, RunsAlone, HoldersClaim, InPublish,
                      Holding, holdsClaim
  <2> QED
    BY <1>6, <2>1, <2>2, <2>3 DEF Environment
<1>7. CASE UNCHANGED vars
  BY <1>1, <1>7 DEF vars, LockInv, RunsAlone, HoldersClaim, InPublish, Holding,
                    holdsClaim
<1> QED
  BY <1>3, <1>4, <1>5, <1>6, <1>7 DEF Next

\* With a stale threshold that covers every attempt, at most one attempt holds
\* the review at a time and the row says so, for any number of requests, sweeps
\* and failures.
THEOREM SinglePublisherCorrect ==
    ASSUME ThresholdCoversAttempt
    PROVE  Spec => []SinglePublisher
<1>1. LockInv => SinglePublisher
  BY DEF LockInv, RunsAlone, HoldersClaim, SinglePublisher, Holding, InPublish,
         PublishPcs
<1> QED
  BY LockInit, LockStep, <1>1, PTL DEF Spec

---------------------------------------------------------------------------
(* What is in flight is what was approved *)

\* The claim freezes the approval it was made under.
HeldAsApproved ==
    \A p \in Procs : Holding(p) =>
        /\ row.status = "APPROVED"
        /\ row.final = local[p].text
        /\ row.approvedBy = local[p].by

FlightInv == RecordInv /\ LockInv /\ HeldAsApproved

\* No statement of an admin request matches an approved row that is claimed.
LEMMA ClaimedRowStays ==
    ASSUME RecordInv, HumansOnly, holdsClaim(row), NEW p \in Procs,
           ApproveWrite(p) \/ RejectWrite(p) \/ EditWrite(p) \/ Unapprove(p)
    PROVE  row' = row
<1>1. row.status = "APPROVED" /\ row.replyState = "PUBLISH_PENDING" /\ TypeInv
  BY DEF RecordInv, RowRecord, HumansComeFirst, holdsClaim
<1>2. /\ ~canMarkApproved(row) /\ ~canMarkRejected(row)
      /\ ~canUpdateFinalResponse(row) /\ ~canMarkUnapproved(row)
  BY <1>1 DEF canMarkApproved, APPROVABLE_STATUSES, canMarkRejected,
              REJECTABLE_STATUSES, canUpdateFinalResponse, EDITABLE_STATUSES,
              canMarkUnapproved, UNAPPROVABLE_REPLY_STATES
<1> QED
  BY <1>1, <1>2, RequestWrites DEF Applied

\* What a claim takes up is approved as the row has it, since no draft is GENERATED.
LEMMA FlightClaim ==
    ASSUME FlightInv, HumansOnly, NEW p \in Procs, Claim(p) \/ Reclaim(p)
    PROVE  HeldAsApproved'
<1>1. TypeInv /\ row \in ReviewRows /\ approvals \subseteq Actors \X Texts
  BY DEF FlightInv, RecordInv, TypeInv, TypeOK
<1>2. CASE row' = row /\ Moves(p, Idle)
  BY <1>2 DEF FlightInv, HeldAsApproved, Moves, Holding, Idle
<1>3. ASSUME canClaimReviewForPublishing(row) \/ isStalePublishPending(row)
      PROVE  \A q \in Procs : q # p /\ local'[q] = local[q] => ~Holding(q)'
  BY <1>3, ClaimIsFree DEF FlightInv, InPublish, Holding, PublishPcs
<1>4. CASE /\ canClaimReviewForPublishing(row) \/ isStalePublishPending(row)
           /\ Moves(p, Idle)
  BY <1>3, <1>4 DEF HeldAsApproved, Moves, Holding, Idle
<1>5. CASE /\ canClaimReviewForPublishing(row) \/ isStalePublishPending(row)
           /\ Moves(p, Finalize(row))
           /\ \/ row' = claimReviewForPublishing(row)
              \/ row' = claimStalePublishPendingReview(row)
  <2>1. row.status = "APPROVED"
    BY <1>5 DEF FlightInv, RecordInv, RowRecord, HumansComeFirst, holdsClaim,
                canClaimReviewForPublishing, PUBLISHABLE_STATUSES,
                isStalePublishPending
  <2>2. <<row.approvedBy, row.final>> \in approvals
    BY <2>1 DEF FlightInv, RecordInv, RowRecord, ApprovedIsOnRecord
  <2>3. /\ row.final # NoText /\ row.approvedBy # Nobody
        /\ row'.status = row.status /\ row'.final = row.final
        /\ row'.approvedBy = row.approvedBy
    <3>1. row.final # NoText /\ row.approvedBy # Nobody
      BY <1>1, <2>2, TextAssumption
    <3>2. /\ row'.status = row.status /\ row'.final = row.final
          /\ row'.approvedBy = row.approvedBy
      BY <1>1, <1>5 DEF claimReviewForPublishing, claimStalePublishPendingReview,
                        set_updated_at, ReviewRows
    <3> QED
      BY <3>1, <3>2
  <2>4. local'[p].text = row.final /\ local'[p].by = row.approvedBy
    BY <1>1, <1>5, <2>1, <2>3, FinalizeType DEF Moves, responseOf, publishedByOf
  <2> QED
    BY <1>3, <1>5, <2>1, <2>3, <2>4 DEF HeldAsApproved, Moves
<1> QED
  BY <1>1, <1>2, <1>4, <1>5, ClaimWrites DEF Applied

\* No step takes the approval away from an attempt that still may PUT.
LEMMA FlightStep ==
    ASSUME HumansOnly, ThresholdCoversAttempt
    PROVE  FlightInv /\ [Next]_vars => FlightInv'
<1> SUFFICES ASSUME FlightInv, [Next]_vars PROVE HeldAsApproved'
  BY RecordStep, LockStep DEF FlightInv
<1>1. /\ TypeInv /\ Idle.pc \notin {"check", "put", "record", "block"}
      /\ row \in ReviewRows
  BY DEF FlightInv, LockInv, Idle, TypeInv, TypeOK
<1>2. ASSUME NEW p \in Procs, NEW l, Moves(p, l),
             l.pc \notin {"check", "put", "record", "block"}, row' = row
      PROVE  HeldAsApproved'
  BY <1>2 DEF FlightInv, HeldAsApproved, Moves, Holding
<1>3. ASSUME NEW p \in Requests, RequestStep(p)
      PROVE  HeldAsApproved'
  <2>p. p \in Procs
    BY DEF Procs
  <2>1. CASE ApproveWrite(p) \/ RejectWrite(p) \/ EditWrite(p) \/ Unapprove(p)
    <3>1. Moves(p, Idle)
      BY <1>1, <2>p, <2>1, RequestsKeepClaim
    <3>2. CASE holdsClaim(row)
      BY <1>1, <1>2, <2>p, <2>1, <3>1, <3>2, ClaimedRowStays DEF FlightInv
    <3>3. CASE ~holdsClaim(row)
      BY <1>1, <2>p, <3>1, <3>3
         DEF FlightInv, LockInv, HoldersClaim, HeldAsApproved, Moves, Holding
    <3> QED
      BY <3>2, <3>3
  <2>2. ASSUME NEW actor \in Actors, ApproveRead(p, actor)
        PROVE  HeldAsApproved'
    BY <1>1, <1>2, <2>p, <2>2, ReadMoves DEF ApproveRead
  <2>3. CASE RejectRead(p)
    BY <1>1, <1>2, <2>p, <2>3, ReadMoves DEF RejectRead
  <2>4. ASSUME NEW text \in HumanTexts, EditRead(p, text)
        PROVE  HeldAsApproved'
    BY <1>1, <1>2, <2>p, <2>4, ReadMoves DEF EditRead
  <2> QED
    BY <1>3, <2>1, <2>2, <2>3, <2>4 DEF RequestStep
<1>4. ASSUME NEW p \in Procs, PublishStep(p)
      PROVE  HeldAsApproved'
  <2>1. CASE PublishPrecheck(p)
    BY <1>1, <1>2, <2>1, ReadMoves DEF PublishPrecheck
  <2>2. CASE CheckLive(p) \/ Put(p)
    <3>1. /\ local'[p].text = local[p].text /\ local'[p].by = local[p].by
          /\ \A q \in Procs : q # p => local'[q] = local[q]
          /\ row' = row /\ Holding(p)
      BY <1>1, <2>2, AttemptMoves DEF CheckLive, Put, Holding, At
    <3> QED
      BY <3>1 DEF FlightInv, HeldAsApproved, Holding
  <2>3. CASE Record(p) \/ Block(p) \/ Fail(p)
    <3>1. \A q \in Procs : q # p => ~Holding(q)
      BY <2>3 DEF FlightInv, LockInv, RunsAlone, InPublish, Holding, Record, Block,
                  Fail, At, PublishPcs
    <3>2. ~Holding(p)' /\ \A q \in Procs : q # p => local'[q] = local[q]
      BY <1>1, <2>3, OutcomeWrites
         DEF Moves, Idle, Failing, Holding, TypeInv, TypeOK, Locals
    <3> QED
      BY <3>1, <3>2 DEF HeldAsApproved, Holding
  <2> QED
    BY <1>4, <2>1, <2>2, <2>3, FlightClaim DEF PublishStep
<1>5. ASSUME NEW s \in Sweepers, SweepStep(s)
      PROVE  HeldAsApproved'
  <2>s. s \in Procs
    BY DEF Procs
  <2>1. CASE SweepFindStale(s)
    BY <1>1, <1>2, <2>s, <2>1, ReadMoves DEF SweepFindStale
  <2>2. CASE SweepFindGenerated(s)
    BY <1>1, <1>2, <2>s, <2>2, ReadMoves DEF SweepFindGenerated
  <2> QED
    BY <1>5, <2>s, <2>1, <2>2, FlightClaim DEF SweepStep
<1>6. CASE Environment
  <2>1. ASSUME NEW p \in Procs, Crash(p)
        PROVE  HeldAsApproved'
    <3>1. Moves(p, Idle) /\ row' = row
      BY <1>1, <2>1, GotoMoves
         DEF Crash, Moves, TypeInv, TypeOK, Idle, Locals, Pcs, TextOrNull
    <3> QED
      BY <1>1, <1>2, <3>1
  <2>2. CASE Age
    BY <1>1, <2>2 DEF Age, FlightInv, HeldAsApproved, Holding, ReviewRows
  <2>3. ASSUME NEW text \in OwnerTexts, OwnerReplies(text)
        PROVE  HeldAsApproved'
    BY <2>3 DEF OwnerReplies, FlightInv, HeldAsApproved, Holding
  <2> QED
    BY <1>6, <2>1, <2>2, <2>3 DEF Environment
<1>7. CASE UNCHANGED vars
  BY <1>7 DEF vars, FlightInv, HeldAsApproved, Holding
<1> QED
  BY <1>3, <1>4, <1>5, <1>6, <1>7 DEF Next

\* While approval is required, a reply on its way to Google is the text of the
\* approval the row still names: nobody can reject, edit or unapprove it.
THEOREM InFlightCorrect ==
    ASSUME HumansOnly, ThresholdCoversAttempt
    PROVE  Spec => []InFlightIsApproved
<1>1. Init => FlightInv
  BY RecordInit, LockInit DEF FlightInv, HeldAsApproved, Init, Holding, Idle
<1>2. FlightInv => InFlightIsApproved
  BY DEF FlightInv, RecordInv, RowRecord, ApprovedIsOnRecord, HeldAsApproved,
         InFlightIsApproved, Holding
<1> QED
  BY <1>1, <1>2, FlightStep, PTL DEF Spec

---------------------------------------------------------------------------
(* A visible reply is not overwritten *)

\* An attempt about to PUT has seen no reply on Google, and only the owner, or an
\* earlier try of its own PUT, can have put one there since.
SlotWasFree ==
    \A p \in Procs : At(p, "put") /\ live # NoText =>
        p \in raced \/ live = local[p].text

SlotInv == LockInv /\ SlotWasFree

\* Every step but a PUT, a live check, a crash and the owner's reply leaves Google
\* and raced alone, and starts no PUT.
LEMMA SlotOfMove ==
    ASSUME SlotInv, NEW p \in Procs, NEW l, Moves(p, l), l.pc # "put",
           UNCHANGED live, raced \ {p} \subseteq raced'
    PROVE  SlotWasFree'
BY DEF SlotInv, SlotWasFree, Moves, At

\* Every step leaves an attempt at its PUT with a slot that was free when it looked,
\* unless a reply has outdated that look.
LEMMA SlotStep ==
    ASSUME ThresholdCoversAttempt
    PROVE  SlotInv /\ [Next]_vars => SlotInv'
<1> SUFFICES ASSUME SlotInv, [Next]_vars PROVE SlotWasFree'
  BY LockStep DEF SlotInv
<1>1. /\ TypeInv /\ local \in [Procs -> Locals]
      /\ Idle.pc # "put" /\ Idle \in Locals
  BY DEF SlotInv, LockInv, TypeInv, TypeOK, Idle, Locals, Pcs, TextOrNull
<1>2. ASSUME NEW p \in Requests, RequestStep(p)
      PROVE  SlotWasFree'
  <2>p. p \in Procs
    BY DEF Procs
  <2>1. UNCHANGED <<live, raced>>
    BY <1>2 DEF RequestStep, ApproveRead, ApproveWrite, RejectRead, RejectWrite,
                EditRead, EditWrite, Unapprove, history
  <2>2. \E l : l.pc # "put" /\ Moves(p, l)
    <3>1. ASSUME NEW actor \in Actors, ApproveRead(p, actor)
          PROVE  \E l : l.pc # "put" /\ Moves(p, l)
      <4>1. Moves(p, [pc |-> "approve", text |-> responseOf(row), by |-> actor])
        BY <1>1, <2>p, <3>1, ReadMoves
      <4>2. [pc |-> "approve", text |-> responseOf(row), by |-> actor].pc # "put"
        OBVIOUS
      <4> QED
        BY <4>1, <4>2
    <3>2. CASE RejectRead(p)
      BY <1>1, <2>p, <3>2, ReadMoves
    <3>3. ASSUME NEW text \in HumanTexts, EditRead(p, text)
          PROVE  \E l : l.pc # "put" /\ Moves(p, l)
      BY <1>1, <2>p, <3>3, ReadMoves
    <3>4. CASE ApproveWrite(p) \/ RejectWrite(p) \/ EditWrite(p) \/ Unapprove(p)
      BY <1>1, <2>p, <3>4, RequestsKeepClaim
    <3> QED
      BY <1>2, <3>1, <3>2, <3>3, <3>4 DEF RequestStep
  <2> QED
    BY <2>p, <2>1, <2>2, SlotOfMove
<1>3. ASSUME NEW p \in Procs, Claim(p) \/ Reclaim(p)
      PROVE  SlotWasFree'
  <2>1. UNCHANGED <<live, raced>> /\ Finalize(row).pc # "put"
    BY <1>1, <1>3, FinalizeType DEF Claim, Reclaim, history, TypeInv, TypeOK
  <2> QED
    BY <1>1, <1>3, <2>1, ClaimWrites, SlotOfMove
<1>4. ASSUME NEW p \in Procs, PublishStep(p)
      PROVE  SlotWasFree'
  <2>1. CASE PublishPrecheck(p)
    BY <1>1, <2>1, ReadMoves, SlotOfMove DEF PublishPrecheck, history
  <2>2. CASE CheckLive(p)
    <3>1. /\ At(p, "put")' => live = NoText
          /\ \A q \in Procs : q # p => local'[q] = local[q]
          /\ raced' = raced \ {p} /\ UNCHANGED live
      BY <1>1, <2>2, JumpMoves DEF CheckLive, At, Pcs, PublishPcs
    <3> QED
      BY <3>1 DEF SlotInv, SlotWasFree, At
  <2>3. CASE Put(p)
    <3>1. \A q \in Procs : q # p => ~At(q, "put")
      BY <2>3 DEF SlotInv, LockInv, RunsAlone, InPublish, PublishPcs, Put, At
    <3>2. /\ local'[p].text = local[p].text
          /\ \A q \in Procs : q # p => local'[q] = local[q]
      BY <1>1, <2>3, AttemptMoves
    <3>3. At(p, "put")' => raced' = raced
      BY <1>1, <2>3, JumpMoves DEF Put, At, Pcs, PublishPcs
    <3>4. live' \in {live, local[p].text} /\ At(p, "put")
      BY <2>3 DEF Put
    <3> QED
      BY <3>1, <3>2, <3>3, <3>4 DEF SlotInv, SlotWasFree, At
  <2>4. CASE Record(p) \/ Block(p) \/ Fail(p)
    <3>1. UNCHANGED <<live, raced>> /\ Failing(p).pc # "put"
      BY <1>1, <2>4 DEF Record, Block, Fail, history, Failing, Locals
    <3> QED
      BY <1>1, <2>4, <3>1, OutcomeWrites, SlotOfMove
  <2> QED
    BY <1>3, <1>4, <2>1, <2>2, <2>3, <2>4 DEF PublishStep
<1>5. ASSUME NEW s \in Sweepers, SweepStep(s)
      PROVE  SlotWasFree'
  <2>s. s \in Procs
    BY DEF Procs
  <2>1. CASE SweepFindStale(s)
    BY <1>1, <2>s, <2>1, ReadMoves, SlotOfMove DEF SweepFindStale, history
  <2>2. CASE SweepFindGenerated(s)
    BY <1>1, <2>s, <2>2, ReadMoves, SlotOfMove DEF SweepFindGenerated, history
  <2> QED
    BY <1>3, <1>5, <2>s, <2>1, <2>2 DEF SweepStep
<1>6. CASE Environment
  <2>1. ASSUME NEW p \in Procs, Crash(p)
        PROVE  SlotWasFree'
    BY <1>1, <2>1, GotoMoves, SlotOfMove DEF Crash, Moves
  <2>2. CASE Age
    BY <2>2 DEF Age, history, SlotInv, SlotWasFree, At
  <2>3. ASSUME NEW text \in OwnerTexts, OwnerReplies(text)
        PROVE  SlotWasFree'
    BY <2>3 DEF OwnerReplies, SlotWasFree, At
  <2> QED
    BY <1>6, <2>1, <2>2, <2>3 DEF Environment
<1>7. CASE UNCHANGED vars
  BY <1>7 DEF vars, SlotInv, SlotWasFree, At
<1> QED
  BY <1>2, <1>4, <1>5, <1>6, <1>7 DEF Next

\* Google changes what it shows only by a PUT or by the owner.
LEMMA WhoChangesGoogle ==
    ASSUME [Next]_vars, live' # live
    PROVE  (\E p \in Procs : Put(p)) \/ live' \in OwnerTexts
<1>1. ASSUME NEW p \in Requests, RequestStep(p)
      PROVE  FALSE
  BY <1>1 DEF RequestStep, ApproveRead, ApproveWrite, RejectRead, RejectWrite,
              EditRead, EditWrite, Unapprove
<1>2. ASSUME NEW p \in Procs, PublishStep(p)
      PROVE  Put(p)
  BY <1>2 DEF PublishStep, PublishPrecheck, Claim, CheckLive, Record, Block, Fail
<1>3. ASSUME NEW s \in Sweepers, SweepStep(s)
      PROVE  FALSE
  BY <1>3 DEF SweepStep, SweepFindStale, Reclaim, SweepFindGenerated
<1> QED
  BY <1>1, <1>2, <1>3 DEF Next, Environment, Crash, Age, OwnerReplies, vars

\* With a stale threshold that covers every attempt, the application replaces a
\* reply customers can see only in the window between the live check and the PUT.
THEOREM NeverOverwritesCorrect ==
    ASSUME ThresholdCoversAttempt
    PROVE  Spec => NeverOverwrites
<1>1. Init => SlotInv
  BY LockInit DEF SlotInv, SlotWasFree, Init, At, Idle
<1>2. SlotInv /\ [Next]_vars =>
        [live # NoText /\ live' # live =>
            live' \in OwnerTexts \/ \E p \in raced : At(p, "put")]_live
  <2> SUFFICES ASSUME SlotInv, [Next]_vars, live # NoText, live' # live,
                      live' \notin OwnerTexts
               PROVE  \E p \in raced : At(p, "put")
    OBVIOUS
  <2>1. PICK p \in Procs : Put(p)
    BY WhoChangesGoogle
  <2> QED
    BY <2>1 DEF SlotInv, SlotWasFree, Put
<1> QED
  BY <1>1, <1>2, SlotStep, PTL DEF Spec, NeverOverwrites

---------------------------------------------------------------------------
(* PublishWorkflow implements ReplySlot *)

\* No statement but markPublished touches what the record is made of, as long
\* as the row is not published.
LEMMA RecordOnlyByMarkPublished ==
    ASSUME row \in ReviewRows, ~row.publishedAt,
           \/ row' = row
           \/ \E t \in TextOrNull, a \in Actors : row' = markApproved(row, t, a)
           \/ row' = markRejected(row)
           \/ \E t \in TextOrNull : row' = updateFinalResponse(row, t)
           \/ row' = markUnapproved(row)
           \/ row' = claimReviewForPublishing(row)
           \/ row' = claimStalePublishPendingReview(row)
           \/ row' = markPublishFailed(row)
           \/ row' = markPublishBlockedByExistingReply(row)
           \/ row' = [row EXCEPT !.aged = TRUE]
    PROVE  recordOf(row)' = recordOf(row)
<1>1. ~row'.publishedAt
  BY DEF ReviewRows, set_updated_at, markApproved, markRejected, updateFinalResponse,
         markUnapproved, claimReviewForPublishing, claimStalePublishPendingReview,
         markPublishFailed, markPublishBlockedByExistingReply
<1> QED
  BY <1>1 DEF recordOf

\* A step that changes neither Google's side nor the record is a stutter.
LEMMA Unseen ==
    ASSUME UNCHANGED <<live, shown, approvals>>, recordOf(row)' = recordOf(row)
    PROVE  UNCHANGED Slot!slotVars
BY DEF Slot!slotVars

\* A request approves one text or does nothing that is seen.
LEMMA RequestImplements ==
    ASSUME TruthInv, [Next]_vars, NEW p \in Requests, RequestStep(p)
    PROVE  [Slot!Next]_(Slot!slotVars)
<1>1. p \in Procs /\ TypeInv /\ row \in ReviewRows
  BY DEF Procs, TruthInv, RecordInv, TypeInv, TypeOK
<1>2. local[p].text \in TextOrNull /\ local[p].by \in Publishers \cup {Nobody}
  BY <1>1 DEF TypeInv, TypeOK, Locals
<1>3. UNCHANGED <<live, shown>>
  BY DEF RequestStep, ApproveRead, ApproveWrite, RejectRead, RejectWrite, EditRead,
         EditWrite, Unapprove, history
<1>4. recordOf(row)' = recordOf(row)
  <2>1. CASE row.publishedAt
    BY <1>1, <2>1, PublishedRowStays DEF TruthInv, recordOf
  <2>2. CASE ~row.publishedAt
    <3>1. CASE ApproveWrite(p)
      <4>1. local[p].by \in Actors
        BY <1>1, <3>1 DEF TypeInv, ApprovalsAreNamed, ApproveWrite
      <4> QED
        BY <1>1, <1>2, <2>2, <3>1, <4>1, RequestWrites, RecordOnlyByMarkPublished
           DEF Applied
    <3>2. CASE RejectWrite(p) \/ EditWrite(p) \/ Unapprove(p)
      BY <1>1, <1>2, <2>2, <3>2, RequestWrites, RecordOnlyByMarkPublished DEF Applied
    <3>3. ASSUME ~ApproveWrite(p), ~RejectWrite(p), ~EditWrite(p), ~Unapprove(p)
          PROVE  row' = row
      BY <3>3 DEF RequestStep, ApproveRead, RejectRead, EditRead
    <3> QED
      BY <1>1, <2>2, <3>1, <3>2, <3>3, RecordOnlyByMarkPublished
  <2> QED
    BY <2>1, <2>2
<1>5. CASE approvals' = approvals
  BY <1>3, <1>4, <1>5, Unseen
<1>6. CASE approvals' # approvals
  <2>1. ApproveWrite(p)
    BY <1>6 DEF RequestStep, ApproveRead, RejectRead, RejectWrite, EditRead,
                EditWrite, Unapprove, history
  <2>2. /\ local[p].by \in Actors /\ local[p].text \in Texts
        /\ approvals' = approvals \cup {<<local[p].by, local[p].text>>}
    BY <1>1, <1>6, <2>1 DEF TypeInv, ApprovalsAreNamed, ApproveWrite
  <2>3. Slot!Endorse(local[p].by, local[p].text)
    BY <1>3, <1>4, <2>2 DEF Slot!Endorse
  <2> QED
    BY <2>2, <2>3 DEF Slot!Next
<1> QED
  BY <1>5, <1>6

\* A PUT posts a text somebody stands for, or is not seen.
LEMMA PutImplements ==
    ASSUME TruthInv, NEW p \in Procs, Put(p)
    PROVE  [Slot!Next]_(Slot!slotVars)
<1>1. /\ UNCHANGED <<row, approvals>>
      /\ live' \in {live, local[p].text}
      /\ shown' = shown \cup ({live'} \ {NoText})
  BY DEF Put
<1>2. Holding(p) /\ local[p].text \in Texts
  BY DEF Put, Holding, At, TruthInv, RecordInv, TypeInv, TypeOK
<1>3. recordOf(row)' = recordOf(row)
  BY <1>1 DEF recordOf
<1>4. CASE live' = live
  <2>1. shown' = shown
    BY <1>1, <1>4 DEF TruthInv, RecordInv, AttemptRecord
  <2> QED
    BY <1>1, <1>3, <1>4, <2>1, Unseen
<1>5. CASE live' # live
  <2>1. live' = local[p].text /\ live' # NoText
    BY <1>1, <1>2, <1>5, TextAssumption
  <2>2. local[p].by \in Publishers /\ Slot!Cleared(local[p].by, local[p].text)
    <3>1. \/ <<local[p].by, local[p].text>> \in approvals
          \/ local[p].by = "auto" /\ ~HumansOnly
      BY <1>2 DEF TruthInv, RecordInv, AttemptRecord, AttemptIsCleared
    <3>2. approvals \subseteq Actors \X Texts
      BY DEF TruthInv, RecordInv, TypeInv, TypeOK
    <3> QED
      BY <3>1, <3>2 DEF Slot!Cleared, Publishers
  <2>3. Slot!Post(local[p].by, local[p].text)
    BY <1>1, <1>3, <2>1, <2>2 DEF Slot!Post, Slot!Show
  <2> QED
    BY <1>2, <2>2, <2>3 DEF Slot!Next
<1> QED
  BY <1>4, <1>5

\* markPublished records a text that was shown, for whoever stands for it, and
\* records nothing twice.
LEMMA RecordImplements ==
    ASSUME TruthInv, NEW p \in Procs, Record(p)
    PROVE  [Slot!Next]_(Slot!slotVars)
<1>1. TypeInv /\ row \in ReviewRows /\ UNCHANGED <<live, shown, approvals>>
  BY DEF TruthInv, RecordInv, TypeInv, TypeOK, Record, history
<1>2. CASE row' = row
  BY <1>1, <1>2, Unseen DEF recordOf
<1>3. CASE holdsClaim(row) /\ row' = markPublished(row, local[p].text, local[p].by)
  <2>1. Holding(p) /\ local[p].text \in Texts
    BY <1>1 DEF Record, Holding, At, TypeInv, TypeOK
  <2>2. recordOf(row) = <<>>
    BY <1>3 DEF holdsClaim, TruthInv, PublishedRecordIsTrue, recordOf
  <2>3. recordOf(row)' = <<local[p].by, local[p].text>>
    BY <1>1, <1>3 DEF markPublished, set_updated_at, ReviewRows, recordOf
  <2>4. local[p].by \in Publishers /\ Slot!Cleared(local[p].by, local[p].text)
    <3>1. \/ <<local[p].by, local[p].text>> \in approvals
          \/ local[p].by = "auto" /\ ~HumansOnly
      BY <2>1 DEF TruthInv, RecordInv, AttemptRecord, AttemptIsCleared
    <3>2. approvals \subseteq Actors \X Texts
      BY <1>1 DEF TypeInv, TypeOK
    <3> QED
      BY <3>1, <3>2 DEF Slot!Cleared, Publishers
  <2>5. \E t \in shown : local[p].text \in {t, Trim[t]}
    BY DEF Record, TruthInv, RecordInv, AttemptRecord, RecordedWasShown
  <2>6. Slot!Record(local[p].by, local[p].text)
    BY <1>1, <2>2, <2>3, <2>4, <2>5 DEF Slot!Record
  <2> QED
    BY <2>1, <2>4, <2>6 DEF Slot!Next
<1> QED
  BY <1>1, <1>2, <1>3, OutcomeWrites DEF Applied

\* The remaining steps of an attempt and of the sweep are not seen.
LEMMA ClaimsUnseen ==
    ASSUME TruthInv, [Next]_vars, NEW p \in Procs,
           \/ PublishStep(p) /\ ~Put(p) /\ ~Record(p)
           \/ SweepStep(p)
    PROVE  UNCHANGED Slot!slotVars
<1>1. TypeInv /\ row \in ReviewRows
  BY DEF TruthInv, RecordInv, TypeInv, TypeOK
<1>2. UNCHANGED <<live, shown, approvals>>
  BY DEF PublishStep, PublishPrecheck, Claim, CheckLive, Block, Fail, SweepStep,
         SweepFindStale, Reclaim, SweepFindGenerated, history
<1>3. CASE row.publishedAt
  BY <1>1, <1>2, <1>3, PublishedRowStays, Unseen DEF TruthInv, recordOf
<1>4. CASE ~row.publishedAt
  <2>1. CASE Claim(p) \/ Reclaim(p)
    BY <1>1, <1>2, <1>4, <2>1, ClaimWrites, RecordOnlyByMarkPublished, Unseen
       DEF Applied
  <2>2. CASE Block(p) \/ Fail(p)
    BY <1>1, <1>2, <1>4, <2>2, OutcomeWrites, RecordOnlyByMarkPublished, Unseen
       DEF Applied
  <2>3. ASSUME ~Claim(p), ~Reclaim(p), ~Block(p), ~Fail(p)
        PROVE  row' = row
    BY <2>3 DEF PublishStep, PublishPrecheck, CheckLive, SweepStep, SweepFindStale,
                SweepFindGenerated
  <2> QED
    BY <1>1, <1>2, <1>4, <2>1, <2>2, <2>3, RecordOnlyByMarkPublished, Unseen
<1> QED
  BY <1>3, <1>4

\* Of what happens around the handlers only the owner's reply is seen.
LEMMA EnvironmentImplements ==
    ASSUME TruthInv, Environment
    PROVE  [Slot!Next]_(Slot!slotVars)
<1>1. ASSUME NEW p \in Procs, Crash(p)
      PROVE  UNCHANGED Slot!slotVars
  BY <1>1, Unseen DEF Crash, recordOf
<1>2. CASE Age
  <2>1. /\ recordOf(row)' = recordOf(row)
        /\ UNCHANGED <<live, shown, approvals>>
    BY <1>2 DEF Age, history, recordOf, TruthInv, RecordInv, TypeInv, TypeOK, ReviewRows
  <2> QED
    BY <2>1, Unseen
<1>3. ASSUME NEW text \in OwnerTexts, OwnerReplies(text)
      PROVE  Slot!OwnerReplies(text)
  BY <1>3 DEF OwnerReplies, Slot!OwnerReplies, Slot!Show, recordOf
<1> QED
  BY <1>1, <1>2, <1>3 DEF Environment, Slot!Next

\* So every step of PublishWorkflow is one of ReplySlot or is not seen.
LEMMA StepImplements ==
    TruthInv /\ [Next]_vars => [Slot!Next]_(Slot!slotVars)
<1> SUFFICES ASSUME TruthInv, [Next]_vars PROVE [Slot!Next]_(Slot!slotVars)
  OBVIOUS
<1>1. ASSUME NEW p \in Procs, PublishStep(p)
      PROVE  [Slot!Next]_(Slot!slotVars)
  BY <1>1, PutImplements, RecordImplements, ClaimsUnseen
<1>2. ASSUME NEW s \in Sweepers, SweepStep(s)
      PROVE  [Slot!Next]_(Slot!slotVars)
  BY <1>2, ClaimsUnseen DEF Procs
<1>3. CASE UNCHANGED vars
  BY <1>3, Unseen DEF vars, recordOf
<1> QED
  BY <1>1, <1>2, <1>3, RequestImplements, EnvironmentImplements DEF Next

\* The detailed publish workflow implements the abstract reply slot.
THEOREM ReplySlotImplemented == Spec => ImplementsReplySlot
<1>1. Init => Slot!Init
  <2> SUFFICES ASSUME Init PROVE Slot!Init
    OBVIOUS
  <2>1. ~row.publishedAt
    BY DEF Init, FreshRow
  <2> QED
    BY <2>1 DEF Init, Slot!Init, recordOf
<1> QED
  BY TruthInit, TruthStep, StepImplements, <1>1, PTL
     DEF Spec, ImplementsReplySlot, Slot!Spec
=============================================================================
