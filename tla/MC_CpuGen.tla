------------------------------ MODULE MC_CpuGen ------------------------------
(* CPU forms for TLC: all pointer chase, half and half, and all memory    *)
(* copy; a zero data size; linear and NORMAL addresses in each of the     *)
(* four address sections.                                                 *)
EXTENDS CpuGen

MCPercentages == {0, 50, 100}
MCSizes == {0, 8}
MCAddrTypes == {"LINEAR", "NORMAL"}
MCBases == {0, 64}
=============================================================================
