------------------------------- MODULE Review -------------------------------
(***************************************************************************)
(* What every module about one review shares: its row, the one reply that  *)
(* Google shows for it, and the faults that bring down a round trip or a   *)
(* whole process.                                                          *)
(***************************************************************************)
EXTENDS ReviewRow

CONSTANTS
    RequireApprovalForAll,   \* the REQUIRE_APPROVAL_FOR_ALL setting
    MaxFaults                \* bound on crashes and failed round trips

ASSUME ReviewAssumption ==
    /\ RequireApprovalForAll \in BOOLEAN
    /\ MaxFaults \in Nat

VARIABLES
    row,        \* the review's database row
    live,       \* the reply Google shows, NoText if none
    faults      \* faults so far

\* One of the bounded number of crashes and failed round trips.
Fault == faults < MaxFaults /\ faults' = faults + 1
=============================================================================
