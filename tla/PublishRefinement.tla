------------------------- MODULE PublishRefinement -------------------------
(***************************************************************************)
(* PublishWorkflow seen as a ReplySlot: the slot is what Google shows, the *)
(* endorsements are the approvals that reached the row, and the record is  *)
(* published_by with final_response as soon as published_at is set.        *)
(***************************************************************************)
EXTENDS PublishWorkflow

recordOf(r) == IF r.publishedAt THEN <<r.publishedBy, r.final>> ELSE <<>>

Slot ==
    INSTANCE ReplySlot
        WITH slot <- live, seen <- shown, endorsed <- approvals,
             record <- recordOf(row), PolicyMayPublish <- ~HumansOnly

\* Whatever the handlers, the sweep, crashes, retries and lost answers do, what
\* is visible from outside is a ReplySlot: every step of theirs approves one
\* text, posts one approved text, records one shown text, or shows nothing.
ImplementsReplySlot == Slot!Spec
=============================================================================
