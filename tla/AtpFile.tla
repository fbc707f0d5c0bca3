------------------------------- MODULE AtpFile -------------------------------
(***************************************************************************)
(* The round trip of an ATP profile through its text.  print_atp writes    *)
(* the form as the copyright notice and the comment header that            *)
(* GPU_Gen/DPU_Gen/CPU_Gen.get_info build (utils/gpu.py, dpu.py, cpu.py,   *)
(* base.py); open_atp (utils/ui.py) reads the header back line by line,    *)
(* dispatching on substrings and slicing values at fixed offsets.          *)
(*                                                                         *)
(* Strings are TLA+ strings (1-indexed); Python's 0-indexed slicing and    *)
(* str.find are written as PySlice and Find.  A form maps every Tk         *)
(* variable the header touches, named <<owner, name>> after the variable   *)
(* owner_name, to its value: an integer, or the addressing type string.    *)
(* The profile bodies after the header's blank line are never read by      *)
(* open_atp (its loop stops at the first line without "#"), so the file    *)
(* is modelled up to that line.                                            *)
(***************************************************************************)
EXTENDS Integers, Sequences, FiniteSetsExt, TLC

CONSTANTS
    Processors,     \* the processors of the forms saved: "GPU", "DPU", "CPU"
    Authors,        \* author strings typed into the form
    GpuChoices,     \* <<read type, write type>> of GPU forms
    DpuChoices,     \* <<addressing type, timing in thousandths>> of DPU forms
    CpuChoices,     \* <<type of the four address groups, pointer chase %,
                    \*   data limit, memory copy bandwidth in B/s>> of CPU forms
    Preset          \* the value of every other field of a form

VARIABLES
    form,    \* the Tk variables of the App
    saved,   \* the form as it was when the file was last written
    file,    \* the lines of the file up to its first blank line
    phase    \* "edit", or how the last open_atp ended: "opened" / "raised"

vars == <<form, saved, file, phase>>

-----------------------------------------------------------------------------
(* Python string primitives                                                *)

\* s[a:b]: a 0-based index k is position k + 1; negative bounds count from the end
PyIndex(s, k) == IF k < 0 THEN Max({0, Len(s) + k}) ELSE Min({k, Len(s)})

PySlice(s, a, b) == SubSeq(s, PyIndex(s, a) + 1, PyIndex(s, b))

PyTail(s, a) == PySlice(s, a, Len(s))

\* str.find: the 0-based index of the first occurrence of k in s, or -1
RECURSIVE FindFrom(_, _, _)
FindFrom(s, k, j) ==
    CASE j > Len(s) - Len(k) -> -1
      [] SubSeq(s, j + 1, j + Len(k)) = k -> j
      [] OTHER -> FindFrom(s, k, j + 1)

Find(s, k) == FindFrom(s, k, 0)

In(k, s) == Find(s, k) # -1

Digits == "0123456789"

IsDigits(s) == Len(s) > 0 /\ \A j \in 1..Len(s) : In(SubSeq(s, j, j), Digits)

RECURSIVE DigitsValue(_)
DigitsValue(s) ==
    IF s = "" THEN 0
    ELSE 10 * DigitsValue(SubSeq(s, 1, Len(s) - 1))
           + Find(Digits, SubSeq(s, Len(s), Len(s)))

RECURSIVE Strip(_)
Strip(s) ==
    CASE Len(s) > 0 /\ SubSeq(s, 1, 1) = " " -> Strip(PyTail(s, 1))
      [] Len(s) > 0 /\ SubSeq(s, Len(s), Len(s)) = " " -> Strip(SubSeq(s, 1, Len(s) - 1))
      [] OTHER -> s

\* A conversion either returns a value or raises ValueError
Ok(x) == [ok |-> TRUE, val |-> x]

ValueError == [ok |-> FALSE, val |-> 0]

\* int(s): decimal digits between blanks (no sign is ever written here)
PyInt(s) == IF IsDigits(Strip(s)) THEN Ok(DigitsValue(Strip(s))) ELSE ValueError

\* float(s) into thousandths: digits with an optional "." and up to 3 decimals
PyFloat(s) ==
    LET t   == Strip(s)
        dot == Find(t, ".")
        ip  == IF dot = -1 THEN t ELSE PySlice(t, 0, dot)
        fp  == IF dot = -1 THEN "" ELSE PyTail(t, dot + 1)
    IN  IF /\ ip \o fp # ""
           /\ ip = "" \/ IsDigits(ip)
           /\ fp = "" \/ (IsDigits(fp) /\ Len(fp) <= 3)
        THEN Ok(DigitsValue(ip) * 1000 + DigitsValue(fp) * 10^(3 - Len(fp)))
        ELSE ValueError

RECURSIVE Zeros(_)
Zeros(n) == IF n <= 0 THEN "" ELSE "0" \o Zeros(n - 1)

RECURSIVE StripZeros(_)
StripZeros(s) ==
    IF Len(s) > 0 /\ SubSeq(s, Len(s), Len(s)) = "0"
    THEN StripZeros(SubSeq(s, 1, Len(s) - 1)) ELSE s

\* str() of the float n / d, d a power of ten: Python 2 prints '%.12g', which
\* for values of at most twelve significant digits is the exact decimal with
\* the fraction's trailing zeros dropped, and ".0" after a whole number
FloatStr(n, d) ==
    LET frac == ToString(n % d)
        decimals == StripZeros(Zeros(Len(ToString(d)) - 1 - Len(frac)) \o frac)
    IN  ToString(n \div d) \o "." \o (IF decimals = "" THEN "0" ELSE decimals)

\* Base_Gen.convert_rate: B/s rendered in the largest unit not above it.  Its
\* " TB/s" branch (x >= 10^12) lies beyond TLC's integers (below 2^31) and
\* beyond every rate of the forms checked, and is left out, as is the
\* matching branch of convert_rate_to_KBS
convert_rate(x) ==
    CASE x >= 10^9  -> FloatStr(x, 10^9) \o " GB/s"
      [] x >= 10^6  -> FloatStr(x, 10^6) \o " MB/s"
      [] x >= 10^3  -> FloatStr(x, 10^3) \o " KB/s"
      [] OTHER      -> FloatStr(x, 1) \o " B/s"

\* App.convert_rate_to_KBS: the integer before the unit, scaled back to B/s
convert_rate_to_KBS(rate) ==
    LET Scaled(c, m) ==
            LET n == PyInt(PySlice(rate, 0, Find(rate, c) - 3))
            IN  IF n.ok THEN Ok(n.val * m) ELSE n
    IN  CASE In(" B/s", rate)  -> PyInt(PySlice(rate, 0, Find(rate, "/") - 4))
          [] In(" KB/s", rate) -> Scaled("K", 10^3)
          [] In(" MB/s", rate) -> Scaled("M", 10^6)
          [] In(" GB/s", rate) -> Scaled("G", 10^9)

-----------------------------------------------------------------------------
(* The form: the Tk variables of ui.py's App that a header records          *)

GpuScalars == {"x", "y", "fps", "bpp", "frames", "size", "total_txn", "ot"}

DpuScalars == {"x", "y", "fps", "bpp", "layers", "size", "total_txn", "timing"}

CpuScalars == {"point_chase_percentage", "data_limit", "data_size", "pc_ot_limit",
               "mc_ot_limit", "mc_fifo_full_level", "mc_bandwidth"}

CpuGroups == {"cpu_pc_read", "cpu_pc_write", "cpu_mc_read", "cpu_mc_write"}

Groups == {"gpu_read", "gpu_write", "dpu"} \cup CpuGroups

\* the parameters each addressing type writes, with the words that name them
TypeParams == [LINEAR  |-> <<<<"Base", "address_base">>, <<"Increment", "address_incr">>>>,
               UNIFORM |-> <<<<"Min", "address_min">>, <<"Max", "address_max">>>>,
               NORMAL  |-> <<<<"Standard Deviation", "address_std_dv">>, <<"Mean", "address_mean">>>>,
               POISSON |-> <<<<"Mean", "address_mean">>>>,
               WEIBULL |-> <<<<"Shape", "address_shape">>, <<"Scale", "address_scale">>>>]

Params == {"address_base", "address_incr", "address_min", "address_max",
           "address_std_dv", "address_mean", "address_shape", "address_scale"}

Fields == ({"gpu"} \X GpuScalars) \cup ({"dpu"} \X DpuScalars) \cup ({"cpu"} \X CpuScalars)
            \cup (Groups \X (Params \cup {"addressing_type"}))

IsText(f) == f[2] = "addressing_type"

\* TLC prints a string with its quotes and any other value without them
IsString(x) == SubSeq(ToString(x), 1, 1) = "\""

IsForm(f) ==
    /\ DOMAIN f = {"processor", "author", "v"}
    /\ f.processor \in Processors
    /\ f.author \in STRING
    /\ DOMAIN f.v = Fields
    /\ \A x \in Fields : IF IsText(x) THEN IsString(f.v[x])
                                    ELSE ~IsString(f.v[x]) /\ f.v[x] \in Int

Fill(p, a, choice) ==
    [processor |-> p, author |-> a,
     v |-> [f \in Fields |-> IF f \in DOMAIN choice THEN choice[f] ELSE Preset[f]]]

\* the forms saved: each processor's choices, every other field at its Preset
Forms ==
    LET Type(g) == <<g, "addressing_type">>
        Gpu == {Fill("GPU", a, Type("gpu_read") :> c[1] @@ Type("gpu_write") :> c[2]) :
                    a \in Authors, c \in GpuChoices}
        Dpu == {Fill("DPU", a, Type("dpu") :> c[1] @@ <<"dpu", "timing">> :> c[2]) :
                    a \in Authors, c \in DpuChoices}
        Cpu == {Fill("CPU", a, [f \in {Type(g) : g \in CpuGroups} |-> c[1]]
                                 @@ <<"cpu", "point_chase_percentage">> :> c[2]
                                 @@ <<"cpu", "data_limit">> :> c[3]
                                 @@ <<"cpu", "mc_bandwidth">> :> c[4]) :
                    a \in Authors, c \in CpuChoices}
    IN  UNION {CASE p = "GPU" -> Gpu [] p = "DPU" -> Dpu [] p = "CPU" -> Cpu : p \in Processors}

-----------------------------------------------------------------------------
(* The writer: print_atp -> generate_atp -> X_Gen.generate                  *)

\* Base_Gen.get_copyright: fifteen lines, the author on line 14.  The other
\* lines are the notice's fixed wording, which holds none of the substrings
\* open_atp dispatches on; only their leading "#" matters to the reader
get_copyright(author) ==
    [j \in 1..15 |-> IF j = 14 THEN "# Author: " \o author ELSE "#"]

\* str.format of each field: the text written for it
Text(v) == [f \in Fields |-> IF IsText(f) THEN v[f] ELSE ToString(v[f])]

\* Base_Gen.get_address_info (with choose_address_options, which picks the
\* settings it finds): the Type line, then the parameters of that type
get_address_info(text, g, transaction_type, type) ==
    LET t == text[<<g, "addressing_type">>]
        Line(word, value) == "# " \o type \o transaction_type \o " Address " \o word \o ": " \o value
    IN  <<Line("Type", t)>>
        \o [j \in DOMAIN TypeParams[t] |->
              Line(TypeParams[t][j][1], text[<<g, TypeParams[t][j][2]>>])]

\* generate_atp passes cpu_pc_write_address_std_dv.get, not .get(): the file
\* gets the bound method's repr (its address varies from run to run)
BoundMethod == "<bound method IntVar.get of <Tkinter.IntVar instance at 0x7f3a>>"

\* the text of a full_level that no reader key can match (GPU_Gen sizes it
\* with validate_full_level, modelled in GpuGen; open_atp never reads it)
FullLevelText == "4096"

GpuInfo(v) ==
    LET g(n) == ToString(v[<<"gpu", n>>])
        rate == v[<<"gpu", "x">>] * v[<<"gpu", "y">>] * v[<<"gpu", "fps">>]
                  * v[<<"gpu", "bpp">>] * v[<<"gpu", "frames">>]
    IN  << "# AMBA Traffic Profile GPU (flat bandwidth):", "#",
           "# Reading / Writing data equal to " \o g("x") \o " * " \o g("y") \o " * "
              \o g("bpp") \o " bytes per pixel",
           "# (" \o g("frames") \o " frame) at " \o g("fps") \o " Frames per second: "
              \o convert_rate(rate),
           "# ",
           "# X pixels: " \o g("x"), "# Y pixels: " \o g("y"), "# FPS: " \o g("fps"),
           "# Bytes per Pixel: " \o g("bpp"), "# Frames: " \o g("frames"),
           "# Data Size: " \o g("size"), "# Total Transactions: " \o g("total_txn"),
           "# OT: " \o g("ot"), "# FIFO : OT*PacketSize = " \o FullLevelText >>
        \o get_address_info(Text(v), "gpu_read", "READ", "")
        \o get_address_info(Text(v), "gpu_write", "WRITE", "")
        \o << "#", "" >>

DpuInfo(v) ==
    LET d(n) == ToString(v[<<"dpu", n>>])
        timing == FloatStr(v[<<"dpu", "timing">>], 1000)
        rate == (v[<<"dpu", "x">>] * v[<<"dpu", "y">>] * v[<<"dpu", "fps">>]
                   * v[<<"dpu", "bpp">>]) \div 8
    IN  << "# AMBA Traffic Profile DPU:", "#", "# It does simulate DPU processing",
           "# X pixels: " \o d("x"), "# Y pixels: " \o d("y"), "# FPS: " \o d("fps"),
           "# Bits per Pixel: " \o d("bpp"), "# Layers: " \o d("layers"),
           "# Data Size: " \o d("size"), "# Total Transactions: " \o d("total_txn"),
           "# Timings: " \o timing >>
        \o get_address_info(Text(v), "dpu", "READ", "")
        \o << "# Total needed rate: " \o d("x") \o " * " \o d("y") \o " * " \o d("fps")
                 \o " * " \o d("bpp") \o " / 8 = ",
              "# " \o convert_rate(rate) \o " on " \o d("layers") \o " layers.",
              "# FULL Level : data rate * " \o timing \o "s",
              "# OT : FULL Level / Packet Size", "" >>

\* pointer_chase is pct / 100.0; for the percentages checked (multiples of 25)
\* the float products below are exact, so int() of them is integer division
CpuInfo(v) ==
    LET c(n) == ToString(v[<<"cpu", n>>])
        pct == v[<<"cpu", "point_chase_percentage">>]
        total_txn == v[<<"cpu", "data_limit">>] \div v[<<"cpu", "data_size">>]
        pc_text == [Text(v) EXCEPT ![<<"cpu_pc_write", "address_std_dv">>] = BoundMethod]
        Data(kind, share) == "# CPU " \o kind \o " Data: " \o ToString((total_txn * share) \div 100)
                               \o "*" \o c("data_size") \o " Bytes"
    IN  << "# AMBA Traffic Profile CPU:", "#" >>
        \o (IF pct > 0
            THEN << "# " \o FloatStr(pct, 1) \o "% CPU Pointer Chasing:",
                    "# It does simulate a CPU issuing instruction with " \o c("pc_ot_limit")
                       \o " max OT each",
                    "# PC OT: " \o c("pc_ot_limit"),
                    "# PC FIFO : disabled (rate 0, level 0)",
                    "# PC Total bandwidth OT Limited (READS/WRITES 1:1)" >>
                 \o get_address_info(pc_text, "cpu_pc_read", "READ", "PC ")
                 \o get_address_info(pc_text, "cpu_pc_write", "WRITE", "PC ") \o <<"#">>
            ELSE << >>)
        \o (IF pct < 100
            THEN << "# " \o FloatStr(100 - pct, 1) \o "% CPU MEM COPY in foreground (flat bandwidth)",
                    "# It does simulate a CPU doing a mem copy operation",
                    "# MC OT: " \o c("mc_ot_limit"),
                    "# MC FIFO : " \o c("mc_fifo_full_level"),
                    "# MC Total bandwidth " \o convert_rate(v[<<"cpu", "mc_bandwidth">>])
                       \o " (READS/WRITES 1:1)" >>
                 \o get_address_info(Text(v), "cpu_mc_read", "READ", "MC ")
                 \o get_address_info(Text(v), "cpu_mc_write", "WRITE", "MC ") \o <<"#">>
            ELSE << >>)
        \o << "# Total Data Transferred: " >>
        \o (IF pct > 0 THEN <<Data("PC", pct)>> ELSE << >>)
        \o (IF pct < 100 THEN <<Data("MC", 100 - pct)>> ELSE << >>)
        \o << "" >>

\* the file print_atp writes, up to the first line without "#"
AtpText(f) ==
    get_copyright(f.author)
    \o CASE f.processor = "GPU" -> GpuInfo(f.v)
         [] f.processor = "DPU" -> DpuInfo(f.v)
         [] f.processor = "CPU" -> CpuInfo(f.v)

-----------------------------------------------------------------------------
(* The reader: open_atp                                                    *)

\* one branch of an if/elif chain: the substrings it tests, what it does
Rule(keys, kind, field, at) == [keys |-> keys, kind |-> kind, field |-> field, at |-> at]

Address(keys, g, specific_type, transaction_type) ==
    Rule(keys, "address", g, <<specific_type, transaction_type>>)

\* mutant: the Type value cut one character late
AddressRulesTypeShifted ==
    << <<" Address Type", "addressing_type", 22>>,
       <<" Address Base", "address_base", 20>>,
       <<" Address Increment", "address_incr", 25>>,
       <<" Address Min", "address_min", 20>>,
       <<" Address Max", "address_max", 20>>,
       <<" Address Standard Deviation", "address_std_dv", 35>>,
       <<" Address Mean", "address_mean", 21>>,
       <<" Address Shape", "address_shape", 22>>,
       <<" Address Scale", "address_scale", 22>> >>

\* read_address_options: the line's word, the field it sets, its offset
AddressRules ==
    << <<" Address Type", "addressing_type", 21>>,
       <<" Address Base", "address_base", 20>>,
       <<" Address Increment", "address_incr", 25>>,
       <<" Address Min", "address_min", 20>>,
       <<" Address Max", "address_max", 20>>,
       <<" Address Standard Deviation", "address_std_dv", 35>>,
       <<" Address Mean", "address_mean", 21>>,
       <<" Address Shape", "address_shape", 22>>,
       <<" Address Scale", "address_scale", 22>> >>

CpuRules ==
    << Rule({"Pointer Chasing"}, "percentage", <<"cpu", "point_chase_percentage">>, 0),
       Rule({"MEM COPY"}, "mem_copy", <<"cpu", "point_chase_percentage">>, 0),
       Rule({"CPU PC Data"}, "data", <<"cpu", "data_limit">>, 14),
       Rule({"CPU MC Data"}, "data", <<"cpu", "data_limit">>, 14),
       Rule({"PC OT"}, "int", <<"cpu", "pc_ot_limit">>, 8),
       Address({"PC", "READ Address"}, "cpu_pc_read", "PC ", "READ"),
       Address({"PC", "WRITE Address"}, "cpu_pc_write", "PC ", "WRITE"),
       Rule({"MC OT"}, "int", <<"cpu", "mc_ot_limit">>, 8),
       Rule({"MC FIFO"}, "int", <<"cpu", "mc_fifo_full_level">>, 11),
       Rule({"MC Total bandwidth"}, "rate", <<"cpu", "mc_bandwidth">>, 21),
       Address({"MC", "READ Address"}, "cpu_mc_read", "MC ", "READ"),
       Address({"MC", "WRITE Address"}, "cpu_mc_write", "MC ", "WRITE") >>

\* mutant: the DPU branch for "X pixels:" copied from the GPU one
DpuRulesGpuX ==
    << Rule({"X pixels:"}, "int", <<"gpu", "x">>, 11),
       Rule({"Y pixels:"}, "int", <<"dpu", "y">>, 11),
       Rule({"FPS:"}, "int", <<"dpu", "fps">>, 6),
       Rule({"Bits per Pixel:"}, "int", <<"dpu", "bpp">>, 17),
       Rule({"Layers:"}, "int", <<"dpu", "layers">>, 9),
       Rule({"Data Size:"}, "int", <<"dpu", "size">>, 13),
       Rule({"Total Transactions:"}, "int", <<"dpu", "total_txn">>, 22),
       Rule({"Timings:"}, "float", <<"dpu", "timing">>, 10),
       Address({"READ Address"}, "dpu", "", "READ") >>

DpuRules ==
    << Rule({"X pixels:"}, "int", <<"dpu", "x">>, 11),
       Rule({"Y pixels:"}, "int", <<"dpu", "y">>, 11),
       Rule({"FPS:"}, "int", <<"dpu", "fps">>, 6),
       Rule({"Bits per Pixel:"}, "int", <<"dpu", "bpp">>, 17),
       Rule({"Layers:"}, "int", <<"dpu", "layers">>, 9),
       Rule({"Data Size:"}, "int", <<"dpu", "size">>, 13),
       Rule({"Total Transactions:"}, "int", <<"dpu", "total_txn">>, 22),
       Rule({"Timings:"}, "float", <<"dpu", "timing">>, 10),
       Address({"READ Address"}, "dpu", "", "READ") >>

GpuRules ==
    << Rule({"X pixels:"}, "int", <<"gpu", "x">>, 11),
       Rule({"Y pixels:"}, "int", <<"gpu", "y">>, 11),
       Rule({"FPS:"}, "int", <<"gpu", "fps">>, 6),
       Rule({"Bytes per Pixel:"}, "int", <<"gpu", "bpp">>, 19),
       Rule({"Frames:"}, "int", <<"gpu", "frames">>, 9),
       Rule({"Data Size:"}, "int", <<"gpu", "size">>, 13),
       Rule({"Total Transactions:"}, "int", <<"gpu", "total_txn">>, 22),
       Rule({"OT:"}, "int", <<"gpu", "ot">>, 5),
       Address({"READ Address"}, "gpu_read", "", "READ"),
       Address({"WRITE Address"}, "gpu_write", "", "WRITE") >>

Rules(p) == CASE p = "CPU" -> CpuRules [] p = "DPU" -> DpuRules [] p = "GPU" -> GpuRules

\* the first branch all of whose substrings are in the line, or 0
RECURSIVE FirstMatchFrom(_, _, _)
FirstMatchFrom(rules, line, j) ==
    CASE j > Len(rules) -> 0
      [] \A k \in rules[j].keys : In(k, line) -> j
      [] OTHER -> FirstMatchFrom(rules, line, j + 1)

FirstMatch(rules, line) == FirstMatchFrom(rules, line, 1)

\* the outcome of reading a line: the form as the handler leaves it, and
\* whether it goes on (ok) or has raised ValueError
Done(v) == [ok |-> TRUE, v |-> v]

Raised(v) == [ok |-> FALSE, v |-> v]

Set(v, f, x) == IF x.ok THEN Done([v EXCEPT ![f] = x.val]) ELSE Raised(v)

read_address_options(line, g, specific_type, transaction_type, v) ==
    LET placement == (IF transaction_type = "WRITE" THEN 1 ELSE 0) + Len(specific_type)
        rules == [j \in DOMAIN AddressRules |->
                    [keys |-> {specific_type \o transaction_type \o AddressRules[j][1]}]]
        r == AddressRules[FirstMatch(rules, line)]
        value == PyTail(line, r[3] + placement)
    IN  CASE FirstMatch(rules, line) = 0 -> Done(v)
          [] r[2] = "addressing_type" -> Done([v EXCEPT ![<<g, r[2]>>] = value])
          [] OTHER -> Set(v, <<g, r[2]>>, PyInt(value))

\* "CPU PC/MC Data: n*size Bytes": cpu_data_size is set before the count is
\* parsed, and cpu_data_limit grows by n * size
ReadData(line, v) ==
    LET size == PyInt(PySlice(line, Find(line, "*") + 1, Find(line, "B") - 1))
        n == PyInt(PySlice(line, 14, Find(line, "*")))
        sized == [v EXCEPT ![<<"cpu", "data_size">>] = size.val]
    IN  CASE ~size.ok -> Raised(v)
          [] ~n.ok -> Raised(sized)
          [] OTHER -> Done([sized EXCEPT ![<<"cpu", "data_limit">>] =
                              n.val * size.val + sized[<<"cpu", "data_limit">>]])

Percentage(line) == PyInt(PySlice(line, 2, Find(line, "%") - 2))

\* mutant: a value stored as the text after its offset, without int()
ApplyUnparsed(r, line, v) ==
    CASE r.kind = "int" -> Done([v EXCEPT ![r.field] = PyTail(line, r.at)])
      [] r.kind = "float" -> Set(v, r.field, PyFloat(PyTail(line, r.at)))
      [] r.kind = "rate" -> Set(v, r.field, convert_rate_to_KBS(PyTail(line, r.at)))
      [] r.kind = "percentage" -> Set(v, r.field, Percentage(line))
      [] r.kind = "mem_copy" ->
            Set(v, r.field, IF Percentage(line).ok THEN Ok(100 - Percentage(line).val)
                            ELSE ValueError)
      [] r.kind = "data" -> ReadData(line, v)
      [] r.kind = "address" -> read_address_options(line, r.field, r.at[1], r.at[2], v)

Apply(r, line, v) ==
    CASE r.kind = "int" -> Set(v, r.field, PyInt(PyTail(line, r.at)))
      [] r.kind = "float" -> Set(v, r.field, PyFloat(PyTail(line, r.at)))
      [] r.kind = "rate" -> Set(v, r.field, convert_rate_to_KBS(PyTail(line, r.at)))
      [] r.kind = "percentage" -> Set(v, r.field, Percentage(line))
      [] r.kind = "mem_copy" ->
            Set(v, r.field, IF Percentage(line).ok THEN Ok(100 - Percentage(line).val)
                            ELSE ValueError)
      [] r.kind = "data" -> ReadData(line, v)
      [] r.kind = "address" -> read_address_options(line, r.field, r.at[1], r.at[2], v)

\* the loop of open_atp over the file from line k, for processor p
RECURSIVE ReadLines(_, _, _, _)
ReadLines(p, lines, k, v) ==
    IF k > Len(lines) \/ ~In("#", lines[k]) THEN Done(v)
    ELSE LET j == FirstMatch(Rules(p), lines[k])
             r == IF j = 0 THEN Done(v) ELSE Apply(Rules(p)[j], lines[k], v)
         IN  IF r.ok THEN ReadLines(p, lines, k + 1, r.v) ELSE r

\* linecache.getline: the line, or "" past the end
GetLine(lines, k) == IF k <= Len(lines) THEN lines[k] ELSE ""

\* open_atp on a form f: the author from line 14, the processor from line
\* 16 (a CPU file also zeroes cpu_data_limit), then the loop
open_atp(f, lines) ==
    LET pl == GetLine(lines, 16)
        p == CASE In("CPU", pl) -> "CPU" [] In("DPU", pl) -> "DPU"
               [] In("GPU", pl) -> "GPU" [] OTHER -> f.processor
        v0 == IF In("CPU", pl) THEN [f.v EXCEPT ![<<"cpu", "data_limit">>] = 0] ELSE f.v
        r == ReadLines(p, lines, 1, v0)
    IN  [ok |-> r.ok,
         form |-> [processor |-> p, author |-> PyTail(GetLine(lines, 14), 10), v |-> r.v]]

-----------------------------------------------------------------------------
(* The specification                                                       *)

Init ==
    /\ form \in Forms
    /\ saved = form
    /\ file = << >>
    /\ phase = "edit"

\* print_atp: generate_atp renders the form; the file holds the text
print_atp ==
    /\ phase = "edit"
    /\ saved' = form
    /\ file' = AtpText(form)
    /\ phase' = "edit"
    /\ UNCHANGED form

\* the user types other values into the form's widgets
Edit ==
    /\ form' \in Forms \ {form}
    /\ phase' = "edit"
    /\ UNCHANGED <<saved, file>>

\* open_atp on the saved file, reading it to its first line without "#"
OpenAtpCompletes ==
    /\ file # << >>
    /\ LET r == open_atp(form, file) IN r.ok /\ form' = r.form
    /\ phase' = "opened"
    /\ UNCHANGED <<saved, file>>

\* open_atp on the saved file, ended by a ValueError: the fields set so far
\* keep their values, choose_processor_options is never reached
OpenAtpRaises ==
    /\ file # << >>
    /\ LET r == open_atp(form, file) IN ~r.ok /\ form' = r.form
    /\ phase' = "raised"
    /\ UNCHANGED <<saved, file>>

Next == print_atp \/ Edit \/ OpenAtpCompletes \/ OpenAtpRaises

Spec == Init /\ [][Next]_vars

-----------------------------------------------------------------------------
(* Properties                                                              *)

\* the fields whose values a file written from form f prints
AddressFields(v, g) ==
    {<<g, "addressing_type">>}
    \cup {<<g, TypeParams[v[<<g, "addressing_type">>]][j][2]>> :
            j \in DOMAIN TypeParams[v[<<g, "addressing_type">>]]}

Recorded(f) ==
    LET pct == f.v[<<"cpu", "point_chase_percentage">>]
    IN  CASE f.processor = "GPU" ->
                ({"gpu"} \X GpuScalars) \cup AddressFields(f.v, "gpu_read")
                \cup AddressFields(f.v, "gpu_write")
          [] f.processor = "DPU" -> ({"dpu"} \X DpuScalars) \cup AddressFields(f.v, "dpu")
          [] f.processor = "CPU" ->
                {<<"cpu", "point_chase_percentage">>, <<"cpu", "data_limit">>,
                 <<"cpu", "data_size">>}
                \cup (IF pct > 0
                      THEN {<<"cpu", "pc_ot_limit">>} \cup AddressFields(f.v, "cpu_pc_read")
                           \cup AddressFields(f.v, "cpu_pc_write")
                      ELSE {})
                \cup (IF pct < 100
                      THEN {<<"cpu", "mc_ot_limit">>, <<"cpu", "mc_fifo_full_level">>,
                            <<"cpu", "mc_bandwidth">>}
                           \cup AddressFields(f.v, "cpu_mc_read")
                           \cup AddressFields(f.v, "cpu_mc_write")
                      ELSE {})

Restores(f, g) ==
    /\ f.processor = g.processor
    /\ f.author = g.author
    /\ \A x \in Recorded(g) : f.v[x] = g.v[x]

TypeOK ==
    /\ IsForm(form)
    /\ IsForm(saved)
    /\ file \in Seq(STRING)
    /\ phase \in {"edit", "opened", "raised"}

\* When open_atp runs to its end on a file print_atp wrote, every widget the
\* file records (processor, author, each value of the header's comment lines)
\* holds what it held when the file was saved, whatever was typed in between.
RecordedFieldsReadBack ==
    phase = "opened" => Restores(form, saved)

\* open_atp never changes a widget that the file does not record: the values
\* of other processors and of unused addressing types stay as they were
\* typed, also when it ends in a ValueError.
OpenTouchesOnlyRecorded ==
    [][phase' \in {"opened", "raised"} =>
         \A x \in Fields \ Recorded(saved) : form'.v[x] = form.v[x]]_vars

\* The round-trip contract of the profile text: opening a file print_atp
\* wrote completes and gives back the form that was saved.
RoundTripRestoresForm ==
    phase \in {"opened", "raised"} => phase = "opened" /\ Restores(form, saved)

====
