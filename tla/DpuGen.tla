------------------------------- MODULE DpuGen -------------------------------
(***************************************************************************)
(* DPU_Gen.generate (src/utils/dpu.py) on the settings App.generate_atp    *)
(* collects from the DPU form (src/utils/ui.py).  The handler computes the *)
(* display rate, the candidate FIFO full level and the OT limit, raises    *)
(* the full level by validate_full_level (its loop one step per            *)
(* iteration), resolves the address distribution and emits one read block  *)
(* per layer.  A block is the record of the values get_base_profile        *)
(* formats.                                                                *)
(***************************************************************************)
EXTENDS Integers, Sequences, CapacitySizing

CONSTANTS
  Pixels,       \* values of the X and Y pixel fields
  FPSs,         \* values of the FPS field
  BitsPP,       \* values of the bits-per-pixel field
  LayerCounts,  \* values of the number-of-layers field
  Timings,      \* values of the timing field, as pairs <<num, den>>
  Sizes,        \* values of the data size field
  TotalTxns,    \* values of the total transactions field
  Bases,        \* values of the address base field
  Incrs,        \* values of the address increment field
  BaseAdjusts   \* values dpu_address_base_adjust can hold

(* The DPU form as App.generate_atp reads it (ui.py:460-475). *)
Settings ==
  [ x_pixels : Pixels, y_pixels : Pixels, FPS : FPSs,
    bits_per_pixel : BitsPP, layers : LayerCounts, timing : Timings,
    size : Sizes, total_txn : TotalTxns, base_adjust : BaseAdjusts,
    read_type : AddressTypes, read_base : Bases, read_incr : Incrs ]

VARIABLES
  s,                \* the settings dictionary handed to DPU_Gen
  pc,               \* "start", "sizing", "done" or "failed" (exception)
  rate,             \* required rate in B/s
  full_level,       \* defaults["full_level"]
  ot_limit,         \* defaults["ot_limit"]
  next_full_level,  \* the running threshold of validate_full_level
  profiles          \* the emitted blocks, one per layer

vars == << s, pc, rate, full_level, ot_limit, next_full_level, profiles >>

(* x * y * FPS * bpp / 8 on Python 2 integers: floor division. *)
DisplayRate == (s.x_pixels * s.y_pixels * s.FPS * s.bits_per_pixel) \div 8

(* next_greatest_power_of_2(int(round(rate * timing))) *)
CandidateFullLevel(r) ==
  NextGreatestPowerOf2(Round(r * s.timing[1], s.timing[2]))

(* int(round(full_level / size)): Python 2 divides the two integers with  *)
(* floor division before round sees the quotient.                         *)
OtLimit(fl) == fl \div s.size

(* The base of layer i.  The loop adds total_txn * increment to the base  *)
(* on every layer after the first when the address is linear and          *)
(* base_adjust == "yes".                                                  *)
LayerBase(i) ==
  IF s.read_type = "LINEAR" /\ s.base_adjust = "yes"
  THEN s.read_base + (i - 1) * s.total_txn * s.read_incr
  ELSE s.read_base

Block(i, fl) ==
  [ layer |-> i, full_level |-> fl, ot_limit |-> ot_limit,
    total_txn |-> s.total_txn, address |-> AddressKind(s.read_type),
    base |-> LayerBase(i), increment |-> s.read_incr ]

LayerBlocksSkipFirst(fl) == [ i \in 1..(s.layers - 1) |-> Block(i + 1, fl) ]

(* for i in range(layers): one block per layer, in layer order. *)
LayerBlocks(fl) == [ i \in 1..s.layers |-> Block(i, fl) ]

Init ==
  /\ s \in Settings
  /\ pc = "start"
  /\ rate = 0 /\ full_level = 0 /\ ot_limit = 0 /\ next_full_level = 0
  /\ profiles = << >>

(* From the rate computation to the entry of the sizing loop. *)
Start ==
  /\ pc = "start"
  /\ s.size # 0
  /\ rate' = DisplayRate
  /\ full_level' = CandidateFullLevel(rate')
  /\ ot_limit' = OtLimit(full_level')
  /\ next_full_level' = RateNumerator(rate')
  /\ pc' = "sizing"
  /\ UNCHANGED << s, profiles >>

(* A zero data size: the OT limit division raises ZeroDivisionError, which *)
(* leaves generate_atp and the ATP text unchanged.                         *)
StartFails ==
  /\ pc = "start"
  /\ s.size = 0
  /\ pc' = "failed"
  /\ UNCHANGED << s, rate, full_level, ot_limit, next_full_level, profiles >>

(* One iteration of the while loop of validate_full_level. *)
SizingIteration ==
  /\ pc = "sizing"
  /\ SizingLoops(next_full_level, s.size)
  /\ next_full_level' = SizingStep(next_full_level)
  /\ UNCHANGED << s, pc, rate, full_level, ot_limit, profiles >>

(* Loop exit, and the rest of generate: the raised full level, the        *)
(* address resolution and the layer loop.                                 *)
Emit ==
  /\ pc = "sizing"
  /\ ~SizingLoops(next_full_level, s.size)
  /\ full_level' = SizingResult(full_level, next_full_level)
  /\ profiles' = LayerBlocks(full_level')
  /\ pc' = "done"
  /\ UNCHANGED << s, rate, ot_limit, next_full_level >>

Next == Start \/ StartFails \/ SizingIteration \/ Emit

(* generate() is a synchronous call: once started it keeps running. *)
Spec == Init /\ [][Next]_vars /\ WF_vars(Next)

(***************************************************************************)
(* Properties.                                                             *)
(***************************************************************************)

TypeOK ==
  /\ s \in Settings
  /\ pc \in {"start", "sizing", "done", "failed"}
  /\ rate \in Nat /\ full_level \in Nat /\ ot_limit \in Nat
  /\ next_full_level \in Nat
  /\ Len(profiles) \in {0, s.layers}

(* Every layer block carries the full level of the specification's sizing *)
(* rule: validate_full_level on the display rate, the data size and the   *)
(* candidate next_power_of_two(round(rate * timing)).                     *)
FullLevelFollowsSpec ==
  pc = "done" =>
    \A i \in DOMAIN profiles :
      profiles[i].full_level =
        SpecValidateFullLevel(rate, s.size, CandidateFullLevel(rate))

(* Every call of generate returns or raises: the doubling loop of         *)
(* validate_full_level ends.                                               *)
SizingTerminates == <>(pc \in {"done", "failed"})

=============================================================================
