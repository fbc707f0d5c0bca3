----------------------------- MODULE MC_Builders -----------------------------
(* Both display forms for TLC, at the values of the former per-builder    *)
(* models.  GPU: pixel counts 1 and 3 at two bytes per pixel give rates   *)
(* whose sizing numerators reach bursts of 4 or 16 bytes after 0 to 4     *)
(* doublings, and OT limits 1 and 8 put the candidate full level on both  *)
(* sides of the threshold.  DPU: 8 and 12 bits per pixel give rates       *)
(* floored from a fraction, timings 0.5 and 4 s round half away from zero *)
(* and put the candidate below and above sizes 4 and 16, and size 0 takes *)
(* the failing path.                                                      *)
EXTENDS Builders

MCGPixels == {1, 3}
MCGSizes == {4, 16}
MCGOTLimits == {1, 8}
MCGBases == {0, 64}
MCDPixels == {1, 3}
MCDBitsPP == {8, 12}
MCDLayerCounts == {1, 3}
MCDTimings == {<<1, 2>>, <<4, 1>>}
MCDSizes == {0, 4, 16}
=============================================================================
