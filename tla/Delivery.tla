------------------------------ MODULE Delivery ------------------------------
(***************************************************************************)
(* What a capture promises, for every source and whatever its loop does:   *)
(* the abstract specification that Capture and PgCapture implement.        *)
(*                                                                         *)
(* A change is claimed once a restart would not ask the source for it, or  *)
(* the source may discard it.  The index may forget a change only as long  *)
(* as it is not claimed (a restart deletes what it is about to read again) *)
(* and a claim is never given up.  Once a loss is on record (excused) the  *)
(* promise is over: the operator has been told to take a new baseline.     *)
(***************************************************************************)
CONSTANT Changes

VARIABLES
    indexed,   \* the changes readers of the index see
    claimed,
    excused

vars == <<indexed, claimed, excused>>

Init == indexed = {} /\ claimed = {} /\ excused = FALSE

Index ==
    /\ indexed \subseteq indexed' /\ indexed' \subseteq Changes
    /\ UNCHANGED <<claimed, excused>>

Forget ==
    /\ claimed \subseteq indexed' /\ indexed' \subseteq indexed
    /\ UNCHANGED <<claimed, excused>>

\* A checkpoint: what was pending is indexed first, in the same step.
Claim ==
    /\ indexed \subseteq indexed' /\ indexed' \subseteq Changes
    /\ claimed \subseteq claimed' /\ claimed' \subseteq indexed'
    /\ UNCHANGED excused

RecordLoss ==
    /\ excused' = TRUE
    /\ indexed' \subseteq Changes /\ claimed' \subseteq Changes

Next == (~excused /\ (Index \/ Forget \/ Claim)) \/ RecordLoss

Spec == Init /\ [][Next]_vars
=============================================================================
