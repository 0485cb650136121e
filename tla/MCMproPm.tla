------------------------------ MODULE MCMproPm ------------------------------
(* Small instances of MproPm for TLC.                                      *)
EXTENDS MproPm

System(actors, fbdev, slow) ==
    [actors |-> actors, fbdev |-> fbdev, slow |-> slow]

(* DRM alone, with an idle delay as short as the handlers are long; DRM    *)
(* and the disconnect; DRM with the touchscreen, DRM with sysfs writers;   *)
(* touches and the disconnect, each against sysfs writers, on fbdev.       *)
SomeClients ==
    {System({}, FALSE, FALSE), System({"disconnect"}, FALSE, FALSE),
     System({"touch"}, FALSE, TRUE), System({"sysfs"}, FALSE, TRUE),
     System({"touch", "sysfs"}, TRUE, FALSE), System({"sysfs", "disconnect"}, TRUE, FALSE)}

(* DRM and touches only, for the touch that overtakes idle_work.           *)
TouchOnly == {System({"touch"}, FALSE, TRUE)}
=============================================================================
