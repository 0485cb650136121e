----------------------------- MODULE MCLifecycle -----------------------------
(* Small instances of Lifecycle for TLC.                                   *)
EXTENDS Lifecycle

System(driver, loaded, alone, lz4) ==
    [driver |-> driver, loaded |-> loaded, alone |-> alone, lz4 |-> lz4]

(* Every driver with its DRM and backlight children, mpro also with its    *)
(* touchscreen; with LZ4 from the start and from sysfs.                    *)
Drivers ==
    {System("mpro", {"drm", "bl"}, FALSE, "boot"), System("mpro", {"drm"}, TRUE, "store"),
     System("mpro", {"drm", "ts"}, FALSE, "none"), System("mpro", {"ts"}, TRUE, "none"),
     System("mpro", {"bl"}, TRUE, "none"),
     System("beada", {"drm", "bl"}, FALSE, "none"), System("beada", {"drm"}, TRUE, "none"),
     System("beada", {"bl"}, TRUE, "none"),
     System("ax206", {"drm", "bl"}, TRUE, "none")}

(* mpro with its DRM child that may be unbound, and a store to lz4_level.  *)
CardAlone == {System("mpro", {"drm"}, TRUE, "none")}
StoredLz4 == {System("mpro", {"drm"}, FALSE, "store")}
=============================================================================
