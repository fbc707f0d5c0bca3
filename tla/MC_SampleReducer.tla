--------------------------- MODULE MC_SampleReducer ---------------------------
(* Series of up to 7 samples against max_samples 2: strides and median     *)
(* blocks of 1 and 3 (2 made odd), windows that fit once, several times or *)
(* are clamped, and repeated positions for the zero-span guard.            *)
EXTENDS SampleReducer

MCMaxSamples == 2
MCMaxLen == 7
MCPositions == 0..2
MCSizes == {1, 2}
MCWindows == {1, 2, 10}

=============================================================================
