---------------------------- MODULE MCBeadaPanel ----------------------------
(* The systems BeadaPanel is checked in. *)
EXTENDS BeadaPanel

System(actors) ==
    [actors |-> actors, noblank |-> FALSE, strict |-> FALSE]

(***************************************************************************)
(* A panel that autosuspends under a compositor and a writer, one that     *)
(* goes through system suspend, with strict firmware too, and one whose    *)
(* transfers fail and that is unplugged.                                   *)
(***************************************************************************)
Systems ==
    {System({"auto", "bl"}),
     [System({"auto", "clk"}) EXCEPT !.noblank = TRUE],
     System({"system", "gamma"}),
     [System({"system", "bl"}) EXCEPT !.strict = TRUE],
     System({"auto", "remove", "errors"})}
=============================================================================
