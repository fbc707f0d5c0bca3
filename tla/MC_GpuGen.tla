------------------------------ MODULE MC_GpuGen ------------------------------
(* GPU forms for TLC.  Pixel counts 1 and 3 with two bytes per pixel give *)
(* the rates 2, 6 and 18 B/s, whose sizing numerators 1, 3 and 9 reach a *)
(* burst of 4 or 16 bytes after 0 to 4 doublings; OT limits 1 and 8 make *)
(* the candidate full level smaller and larger than the threshold.       *)
EXTENDS GpuGen

MCPixels == {1, 3}
MCSizes == {4, 16}
MCOTLimits == {1, 8}
MCBases == {0, 64}
=============================================================================
