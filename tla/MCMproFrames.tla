---------------------------- MODULE MCMproFrames ----------------------------
(* Small instances of MproFrames for TLC.                                  *)
EXTENDS MproFrames

Box(x1, y1, x2, y2) == [x1 |-> x1, y1 |-> y1, x2 |-> x2, y2 |-> y2]
Turn(angle, rx) == [angle |-> angle, rx |-> rx, ry |-> FALSE]
EveryTurn == {Turn(a, x) : a \in 0..3, x \in BOOLEAN}

TopRow == Box(0, 0, 2, 1)
Middle == Box(1, 1, 2, 2)
BottomRow == Box(0, 2, 2, 3)
Column == Box(1, 0, 2, 2)
(* Two pixels that tell the eight orientations apart.                      *)
Corner == {Box(0, 0, 1, 1), Box(1, 0, 2, 1)}
Everything == Box(0, 0, 2, 3)

(* A system with enough memory, without stale framebuffers and overlap.    *)
System(partial, actors, damage, turns, commits) ==
    [partial |-> partial, actors |-> actors, damage |-> damage, turns |-> turns,
     stale |-> FALSE, overlap |-> FALSE, scarce |-> FALSE, commits |-> commits]

(* Partial updates that displace each other; partial updates with idle     *)
(* periods and without memory; partial updates with a rotation that comes  *)
(* and goes; full frames turned and mirrored in every way; full frames     *)
(* with idle periods and without memory, with rotations that change the    *)
(* mode, and with a sleep.                                                 *)
FrameSetups ==
    {System(TRUE, {}, {TopRow, Middle}, {Rotate0}, 3),
     [System(TRUE, {"wake"}, {Column, BottomRow}, {Rotate0}, 2) EXCEPT !.scarce = TRUE],
     System(TRUE, {"sysfs"}, {Column}, {Rotate0, Turn(2, FALSE)}, 2),
     System(FALSE, {}, Corner, EveryTurn, 2),
     [System(FALSE, {"wake"}, {Column}, {Turn(1, TRUE)}, 2) EXCEPT !.scarce = TRUE],
     System(FALSE, {"sysfs"}, {Column}, {Rotate0, Turn(1, FALSE)}, 2),
     System(FALSE, {"power"}, {Column}, {Turn(3, FALSE)}, 2)}

(* Wake-ups that overlap with commits.                                     *)
WakeOverlap ==
    {[System(FALSE, {"wake"}, {Everything}, {Rotate0}, 1) EXCEPT !.overlap = TRUE]}

(* Rotation stores that overlap with commits, of pictures drawn before.    *)
StoreOverlap ==
    {[System(FALSE, {"sysfs"}, {Column}, {Rotate0, Turn(1, FALSE)}, 0)
        EXCEPT !.overlap = TRUE]}

(* A compositor that goes on with its framebuffer after a rotation store.  *)
Stale ==
    {[System(FALSE, {"sysfs"}, {Column}, {Rotate0, Turn(1, FALSE)}, 1)
        EXCEPT !.stale = TRUE]}

Systems == FrameSetups \cup WakeOverlap \cup StoreOverlap \cup Stale
=============================================================================
