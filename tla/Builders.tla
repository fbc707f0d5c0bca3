------------------------------ MODULE Builders ------------------------------
(***************************************************************************)
(* The display-traffic builders behind App.generate_atp (src/utils/ui.py). *)
(* The button reads the processor radio button and hands the matching     *)
(* form to one builder: DPU_Gen on the DPU form, GPU_Gen on the GPU form.  *)
(* Both size their FIFO with validate_full_level; this module composes    *)
(* the two builder modules, each with its own form fields, under that     *)
(* dispatch.  The builder the processor does not select keeps its initial *)
(* state.                                                                  *)
(***************************************************************************)
EXTENDS Integers

CONSTANTS
  Processors,                            \* values of the processor radio button
  GPixels, GFPSs, GBytesPP, GFrames,      \* the GPU form's fields
  GSizes, GOTLimits, GTotalTxns, GBases, GIncrs,
  DPixels, DFPSs, DBitsPP, DLayerCounts,  \* the DPU form's fields
  DTimings, DSizes, DTotalTxns, DBases, DIncrs, DBaseAdjusts

VARIABLES
  processor,                                          \* self.processor.get()
  gs, gpc, grate, gfull_level, gnext_full_level, gprofiles,        \* GPU_Gen
  ds, dpc, drate, dfull_level, dot_limit, dnext_full_level, dprofiles  \* DPU_Gen

G == INSTANCE GpuGen
       WITH Pixels <- GPixels, FPSs <- GFPSs, BytesPP <- GBytesPP,
            Frames <- GFrames, Sizes <- GSizes, OTLimits <- GOTLimits,
            TotalTxns <- GTotalTxns, Bases <- GBases, Incrs <- GIncrs,
            s <- gs, pc <- gpc, rate <- grate, full_level <- gfull_level,
            next_full_level <- gnext_full_level, profiles <- gprofiles

D == INSTANCE DpuGen
       WITH Pixels <- DPixels, FPSs <- DFPSs, BitsPP <- DBitsPP,
            LayerCounts <- DLayerCounts, Timings <- DTimings,
            Sizes <- DSizes, TotalTxns <- DTotalTxns, Bases <- DBases,
            Incrs <- DIncrs, BaseAdjusts <- DBaseAdjusts,
            s <- ds, pc <- dpc, rate <- drate, full_level <- dfull_level,
            ot_limit <- dot_limit, next_full_level <- dnext_full_level,
            profiles <- dprofiles

gvars == << gs, gpc, grate, gfull_level, gnext_full_level, gprofiles >>

dvars == << ds, dpc, drate, dfull_level, dot_limit, dnext_full_level, dprofiles >>

vars == << processor, gvars, dvars >>

(* generate_atp: the radio button selects the branch and its form; the    *)
(* other branch's builder is never constructed, so its state stays at     *)
(* "start" over one fixed form, whose value no property reads.           *)
Init ==
  /\ processor \in Processors
  /\ G!Init
  /\ D!Init
  /\ processor # "GPU" => gs = CHOOSE f \in G!Settings : TRUE
  /\ processor # "DPU" => ds = CHOOSE f \in D!Settings : TRUE

(* One step of the selected builder's generate(). *)
Next ==
  \/ processor = "GPU" /\ G!Next /\ UNCHANGED << processor, dvars >>
  \/ processor = "DPU" /\ D!Next /\ UNCHANGED << processor, gvars >>

(* generate() is a synchronous call on the Tk thread: it keeps running. *)
Spec == Init /\ [][Next]_vars /\ WF_vars(Next)

(***************************************************************************)
(* Properties: those of each builder, over the composition.                *)
(***************************************************************************)

(* The button and both builders' state stay within their types. *)
TypeOK ==
  /\ processor \in Processors
  /\ G!TypeOK
  /\ D!TypeOK

(* Whichever builder the button selects, every block it emits carries the *)
(* full level of the specification's sizing rule for that builder.        *)
FullLevelFollowsSpec == G!FullLevelFollowsSpec /\ D!FullLevelFollowsSpec

(* The Generate button returns, or raises, for every processor: the       *)
(* selected builder's doubling loop in validate_full_level ends.          *)
SizingTerminates ==
  <>( \/ processor = "GPU" /\ gpc = "done"
      \/ processor = "DPU" /\ dpc \in {"done", "failed"} )

=============================================================================
