---------------------------- MODULE MC_AtpSession ----------------------------
(* Bounds for AtpSession: a buffer of up to four pieces (a header and three *)
(* appended profiles) and up to three notification windows.              *)
EXTENDS AtpSession

MCMaxBuffer == 4
MCMaxNotifications == 3

=============================================================================
