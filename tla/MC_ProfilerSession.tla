-------------------------- MODULE MC_ProfilerSession --------------------------
(* Files and window inputs for TLC.  The m3i files have a short READ     *)
(* series before a longer WRITE one (the clamp of one series reaches the *)
(* next), a single-transaction series (window 0), no records at all, and *)
(* a parse that fails part-way; the trace files have a non-empty and an  *)
(* empty series, a badly named file and a malformed line.  The user can  *)
(* type a negative, a zero, a small and the default window.              *)
EXTENDS ProfilerSession

Lens(r, w) == [READ |-> r, WRITE |-> w]

MCM3iFiles ==
  { [plain |-> Lens(2, 4), burst |-> Lens(4, 8), fails |-> FALSE],
    [plain |-> Lens(1, 3), burst |-> Lens(1, 3), fails |-> FALSE],
    [plain |-> Lens(0, 0), burst |-> Lens(0, 0), fails |-> FALSE],
    [plain |-> Lens(1, 0), burst |-> Lens(2, 0), fails |-> TRUE] }

MCTraceFiles ==
  { [type |-> "READ", len |-> 3, named |-> TRUE, fails |-> FALSE],
    [type |-> "WRITE", len |-> 0, named |-> TRUE, fails |-> FALSE],
    [type |-> "READ", len |-> 0, named |-> FALSE, fails |-> FALSE],
    [type |-> "WRITE", len |-> 1, named |-> TRUE, fails |-> TRUE] }

MCTraceTypes == {"READ", "WRITE"}
MCWindowInputs == {-1, 0, 2, 10}
===============================================================================
