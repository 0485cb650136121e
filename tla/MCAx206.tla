------------------------------- MODULE MCAx206 -------------------------------
(* The systems Ax206 is checked in. *)
EXTENDS Ax206

System(actors, timeout) ==
    [actors |-> actors, timeout |-> timeout, noblank |-> FALSE, width |-> 1]

(***************************************************************************)
(* A panel of two pixels under a compositor, and panels of one pixel: with *)
(* a backlight writer, with writers of the idle settings, one that fails   *)
(* and one that is unplugged.                                              *)
(***************************************************************************)
Systems ==
    {[System({}, TRUE) EXCEPT !.width = 2],
     System({"bl"}, TRUE),
     System({"power", "noblank"}, FALSE),
     System({"errors", "noblank"}, TRUE),
     System({"remove"}, TRUE)}

BlankingSystem == {System({}, TRUE)}
RemoveSystem == {System({"remove"}, TRUE)}
=============================================================================
