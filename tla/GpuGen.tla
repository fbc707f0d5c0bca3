------------------------------- MODULE GpuGen -------------------------------
(***************************************************************************)
(* GPU_Gen.generate (src/utils/gpu.py) on the settings App.generate_atp    *)
(* collects from the GPU form (src/utils/ui.py).  The handler computes the *)
(* frame rate, sizes the FIFO (the loop of validate_full_level is one step *)
(* per iteration, the only part of the call that may not end), resolves   *)
(* the read and write address distributions and emits a read and a write  *)
(* profile block.  Text layout is left out: a block is the record of the   *)
(* values get_base_profile formats.                                        *)
(***************************************************************************)
EXTENDS Integers, Sequences, CapacitySizing

CONSTANTS
  Pixels,      \* values of the X and Y pixel fields
  FPSs,        \* values of the FPS field
  BytesPP,     \* values of the bytes-per-pixel field
  Frames,      \* values of the number-of-frames field
  Sizes,       \* values of the data size field
  OTLimits,    \* values of the OT limit field
  TotalTxns,   \* values of the total transactions field
  Bases,       \* values of the read and write address base fields
  Incrs        \* values of the read and write address increment fields

(* The form as App.generate_atp reads it: the number fields, and for each *)
(* of read and write the addressing type with its base and increment.    *)
Settings ==
  [ x_pixels : Pixels, y_pixels : Pixels, FPS : FPSs,
    bytes_per_pixel : BytesPP, frames : Frames, size : Sizes,
    ot_limit : OTLimits, total_txn : TotalTxns,
    read_type : AddressTypes, read_base : Bases, read_incr : Incrs,
    write_type : AddressTypes, write_base : Bases, write_incr : Incrs ]

VARIABLES
  s,                \* the settings dictionary handed to GPU_Gen
  pc,               \* "start", "sizing" (in the while loop) or "done"
  rate,             \* required rate in B/s
  full_level,       \* defaults["full_level"]
  next_full_level,  \* the running threshold of validate_full_level
  profiles          \* the emitted blocks, in file order

vars == << s, pc, rate, full_level, next_full_level, profiles >>

(* The base of the read block: get_random copies read_base_address. *)
ReadBase == s.read_base

(* The base of the write block.  When the read address is linear the    *)
(* base is first set past the read range; get_random on the write       *)
(* settings then copies write_base_address over it whenever the write   *)
(* address is linear, which is the only case where the base is emitted. *)
WriteBase ==
  LET advanced == IF s.read_type = "LINEAR"
                  THEN ReadBase + s.total_txn * s.read_incr
                  ELSE ReadBase
  IN IF s.write_type = "LINEAR" THEN s.write_base ELSE advanced

Block(name, type, start, kind, base, incr, wait_for) ==
  [ name |-> name, type |-> type, start_fifo_level |-> start,
    full_level |-> full_level', ot_limit |-> s.ot_limit,
    total_txn |-> s.total_txn, address |-> kind, base |-> base,
    increment |-> incr, wait_for |-> wait_for ]

Init ==
  /\ s \in Settings
  /\ pc = "start"
  /\ rate = 0
  /\ full_level = 0
  /\ next_full_level = 0
  /\ profiles = << >>

(* From the rate computation to the entry of the sizing loop. *)
Start ==
  /\ pc = "start"
  /\ rate' = s.x_pixels * s.y_pixels * s.FPS * s.bytes_per_pixel * s.frames
  /\ full_level' = s.ot_limit * s.size
  /\ next_full_level' = RateNumerator(rate')
  /\ pc' = "sizing"
  /\ UNCHANGED << s, profiles >>

(* One iteration of the while loop of validate_full_level. *)
SizingIteration ==
  /\ pc = "sizing"
  /\ SizingLoops(next_full_level, s.size)
  /\ next_full_level' = SizingStep(next_full_level)
  /\ UNCHANGED << s, pc, rate, full_level, profiles >>

(* Loop exit, and the rest of generate: the raised full level, the       *)
(* address resolution and the two blocks.                                *)
Emit ==
  /\ pc = "sizing"
  /\ ~SizingLoops(next_full_level, s.size)
  /\ full_level' = SizingResult(full_level, next_full_level)
  /\ profiles' =
       << Block("GPU_READS", "READ", "FULL", AddressKind(s.read_type),
                ReadBase, s.read_incr, << >>),
          Block("GPU_WRITES", "WRITE", "EMPTY", AddressKind(s.write_type),
                WriteBase, s.write_incr, << "GPU_READS PROFILE_LOCKED" >>) >>
  /\ pc' = "done"
  /\ UNCHANGED << s, rate, next_full_level >>

Next == Start \/ SizingIteration \/ Emit

(* generate() is a synchronous call: once started it keeps running. *)
Spec == Init /\ [][Next]_vars /\ WF_vars(Next)

(***************************************************************************)
(* Properties.                                                             *)
(***************************************************************************)

TypeOK ==
  /\ s \in Settings
  /\ pc \in {"start", "sizing", "done"}
  /\ rate \in Nat /\ full_level \in Nat /\ next_full_level \in Nat
  /\ Len(profiles) \in {0, 2}
  /\ \A i \in DOMAIN profiles : profiles[i].address \in AddressKinds

(* Both blocks carry the FIFO full level the specification's sizing rule *)
(* gives for the GPU: validate_full_level applied to the frame rate, the *)
(* data size and the candidate ot_limit * size that generate computes.   *)
FullLevelFollowsSpec ==
  pc = "done" =>
    \A i \in 1..2 :
      profiles[i].full_level =
        SpecValidateFullLevel(rate, s.size, s.ot_limit * s.size)

(* Every call of generate returns: the doubling loop of                  *)
(* validate_full_level ends and both blocks are emitted.                 *)
SizingTerminates == <>(pc = "done")

=============================================================================
