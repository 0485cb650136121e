---------------------------- MODULE MCMproTouch ----------------------------
(* Small instances of MproTouch for TLC.                                   *)
EXTENDS MproTouch, TLC

(* The slots are interchangeable.                                         *)
Symmetry == Permutations(Slot)

Environment(overlap, faults) == [overlap |-> overlap, faults |-> faults]

(* Callbacks that overlap on a bus that fails; callbacks that do not on a  *)
(* healthy one.                                                            *)
Environments ==
    {Environment(TRUE, {"status", "submit"}), Environment(FALSE, {})}

(* A healthy bus, with callbacks that do not overlap or that do.           *)
Alone == {Environment(FALSE, {})}
Overlapping == {Environment(TRUE, {})}
=============================================================================
