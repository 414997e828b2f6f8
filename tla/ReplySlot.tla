----------------------------- MODULE ReplySlot -----------------------------
(***************************************************************************)
(* What publishing promises, without processes, claims, statuses, crashes  *)
(* or retries: a review has one slot for a reply on Google, everyone sees  *)
(* what is in it, and the business keeps one record of who let which text  *)
(* go there.                                                               *)
(***************************************************************************)
CONSTANTS
    Texts, OwnerTexts, NoText, Trim, Actors, Publishers,   \* as in ReviewRow
    PolicyMayPublish    \* the policy may clear a text in a human's stead

VARIABLES
    slot,       \* the reply Google shows, NoText if none
    seen,       \* every reply Google has shown
    endorsed,   \* <<actor, text>> pairs: the actor approved the text
    record      \* <<publisher, text>> once the publication is recorded, or <<>>

slotVars == <<slot, seen, endorsed, record>>

Cleared(by, text) == <<by, text>> \in endorsed \/ (by = "auto" /\ PolicyMayPublish)

Init ==
    /\ slot = NoText
    /\ seen = {}
    /\ endorsed = {}
    /\ record = <<>>

Endorse(actor, text) ==
    /\ endorsed' = endorsed \cup {<<actor, text>>}
    /\ UNCHANGED <<slot, seen, record>>

Show(text) == slot' = text /\ seen' = seen \cup {text}

OwnerReplies(text) == Show(text) /\ UNCHANGED <<endorsed, record>>

\* Only a text that somebody stands for is put into the slot.
Post(by, text) ==
    /\ Cleared(by, text)
    /\ Show(text)
    /\ UNCHANGED <<endorsed, record>>

\* The record is written once, of a text that was shown, in the name of whoever
\* stands for it.
Record(by, text) ==
    /\ record = <<>>
    /\ Cleared(by, text)
    /\ \E t \in seen : text \in {t, Trim[t]}
    /\ record' = <<by, text>>
    /\ UNCHANGED <<slot, seen, endorsed>>

Next ==
    \/ \E actor \in Actors, text \in Texts : Endorse(actor, text)
    \/ \E text \in OwnerTexts : OwnerReplies(text)
    \/ \E by \in Publishers, text \in Texts : Post(by, text) \/ Record(by, text)

Spec == Init /\ [][Next]_slotVars
=============================================================================
