------------------------------- MODULE Gem5Atp -------------------------------
(***************************************************************************)
(* The gem5 configuration script gem5/atp.py, from its parsed options to   *)
(* the start of the simulation.  The script is sequential: each step of    *)
(* it is an action, pc names the next one, and it ends in "simulating", or *)
(* stops in "fatal" (gem5's fatal()) or "raised" (a Python exception).     *)
(*                                                                         *)
(* gem5 itself is outside this repository.  Its objects are abstracted to  *)
(* what the script sets on them: the memory controllers that config_mem    *)
(* creates (one per channel, of the class of the memory type), the         *)
(* ProfileGen parameters, the initStream calls, and the stats period.      *)
(* gem5's Addr() parameter conversion is the constant AddrValue.           *)
(***************************************************************************)
EXTENDS Integers, Sequences, SequencesExt, FiniteSetsExt, TLC

CONSTANTS
    MemKinds,       \* mem_list: memory type name -> its controller class
    MemTypes,       \* --mem-type values given (names outside MemKinds too)
    Channels,       \* --mem-channels values
    AddrMaps,       \* --addr_map values
    MaxTick,        \* m5.MaxTick, the default object of --abs-max-tick
    Ticks,          \* --abs-max-tick values given as numbers
    DumpStats,      \* --dump-stats values
    ConfigFiles,    \* --config_files strings ("" when absent)
    ConfigPaths,    \* --config-paths lists
    Walk,           \* path -> the joined names os.walk yields under it
    StreamLists,    \* --streams lists of strings
    AddrValue,      \* string -> the address gem5's Addr() makes of it
    MaxAddr         \* gem5's MaxAddr

VARIABLES
    options,   \* the parsed command line
    pc,        \* the next step of the script, or how it ended
    ctrls,     \* system.mem_ctrls
    i,         \* the index of the next memory controller to configure
    atp,       \* the ProfileGen parameters the script sets
    j,         \* the index of the next --streams argument
    calls,     \* the initStream calls made, in order
    period     \* <<the periodic stats dump period>>, or <<>> when none is set

vars == <<options, pc, ctrls, i, atp, j, calls, period>>

-----------------------------------------------------------------------------
(* Python string primitives                                                *)

\* s.split(c) for a one-character separator: adjacent separators give ""
RECURSIVE Split(_, _)
Split(s, c) ==
    LET at == {k \in 1..Len(s) : SubSeq(s, k, k) = c}
    IN  IF at = {} THEN <<s>>
        ELSE <<SubSeq(s, 1, Min(at) - 1)>> \o Split(SubSeq(s, Min(at) + 1, Len(s)), c)

DigitValue == [d \in {"0", "1", "2", "3", "4", "5", "6", "7", "8", "9"} |->
                  CHOOSE v \in 0..9 : SubSeq("0123456789", v + 1, v + 1) = d]

\* int(s): base-10 digits; anything else raises ValueError
IsInt(s) == Len(s) > 0 /\ \A k \in 1..Len(s) : SubSeq(s, k, k) \in DOMAIN DigitValue

RECURSIVE IntValue(_)
IntValue(s) ==
    IF s = "" THEN 0
    ELSE 10 * IntValue(SubSeq(s, 1, Len(s) - 1)) + DigitValue[SubSeq(s, Len(s), Len(s))]

\* Addr(v): raises unless gem5 converts the text to an address
IsAddr(s) == s \in DOMAIN AddrValue

-----------------------------------------------------------------------------
(* The script                                                              *)

\* ArgumentParser.parse_args: every option the later steps read, with the
\* defaults of the options left at them (the others' help is left out)
Options ==
    [mem_type : MemTypes, mem_channels : Channels, addr_map : AddrMaps,
     abs_max_tick : {MaxTick} \cup Ticks, dump_stats : DumpStats,
     exit_when_one_master_ends : BOOLEAN,
     config_files : ConfigFiles, config_paths : ConfigPaths,
     streams : StreamLists]

Init ==
    /\ options \in Options
    /\ pc = "start"
    /\ ctrls = <<>>
    /\ i = 1
    /\ atp = [config_files |-> <<>>, exit_when_done |-> FALSE,
              exit_when_one_master_ends |-> FALSE]
    /\ j = 1
    /\ calls = <<>>
    /\ period = <<>>

\* An unknown memory type is fatal; otherwise the system is built and
\* config_mem gives it one controller of the type's class per channel
Start ==
    /\ pc = "start"
    /\ IF options.mem_type \notin DOMAIN MemKinds
       THEN pc' = "fatal" /\ UNCHANGED ctrls
       ELSE /\ ctrls' = [c \in 1..options.mem_channels |->
                           [class |-> MemKinds[options.mem_type],
                            addr_mapping |-> "default", sink_latency |-> FALSE]]
            /\ pc' = "mem_ctrls"
    /\ UNCHANGED <<options, i, atp, j, calls, period>>

\* One pass of the mem_ctrls loop.  Only a DRAMCtrl looks at --addr_map,
\* and an invalid one is fatal there; a QoS sink takes the latencies
MemCtrl ==
    /\ pc = "mem_ctrls"
    /\ i <= Len(ctrls)
    /\ LET c == ctrls[i] IN
       CASE c.class = "DRAMCtrl" /\ options.addr_map \notin {0, 1} ->
                pc' = "fatal" /\ UNCHANGED <<ctrls, i>>
         [] c.class = "DRAMCtrl" ->
                /\ ctrls' = [ctrls EXCEPT ![i].addr_mapping =
                               IF options.addr_map = 0 THEN "RoCoRaBaCh" ELSE "RoRaBaCoCh"]
                /\ i' = i + 1 /\ UNCHANGED pc
         [] c.class = "QoSMemSinkCtrl" ->
                ctrls' = [ctrls EXCEPT ![i].sink_latency = TRUE] /\ i' = i + 1 /\ UNCHANGED pc
         [] OTHER -> i' = i + 1 /\ UNCHANGED <<ctrls, pc>>
    /\ UNCHANGED <<options, atp, j, calls, period>>

\* get_atp_files: the names of --config_files split on " ", and the files
\* under every --config-paths path, as a set; list() of it has no order
get_atp_files(o) ==
    (IF o.config_files # "" THEN ToSet(Split(o.config_files, " ")) ELSE {})
        \cup UNION {Walk[p] : p \in ToSet(o.config_paths)}

\* The kill switches are off when a run time is given; ProfileGen is created
ProfileGen ==
    /\ pc = "mem_ctrls"
    /\ i > Len(ctrls)
    /\ LET unbounded == options.abs_max_tick = MaxTick IN
       \E files \in SetToSeqs(get_atp_files(options)) :
          atp' = [config_files |-> files, exit_when_done |-> unbounded,
                  exit_when_one_master_ends |->
                     unbounded /\ options.exit_when_one_master_ends]
    /\ pc' = "streams"
    /\ UNCHANGED <<options, ctrls, i, j, calls, period>>

\* The address pair of a --streams group starting at field k
Pair(f, k) == <<AddrValue[f[k]], AddrValue[f[k + 1]]>>

\* mutant: the task id passed as its text, without int()
StreamTaskIdText(f) ==
    CASE Len(f) = 3 -> f[3]
      [] Len(f) = 6 -> f[6]
      [] Len(f) = 9 -> f[9]
      [] OTHER -> "1024"

\* The third field alone, or a last field after one or two groups, is the
\* task id; by default it is 1024
StreamTaskId(f) ==
    CASE Len(f) = 3 -> IntValue(f[3])
      [] Len(f) = 6 -> IntValue(f[6])
      [] Len(f) = 9 -> IntValue(f[9])
      [] OTHER -> 1024

\* mutant: the first group taken as the read range whatever its letter
StreamReadAnyLetter(f) ==
    IF Len(f) > 3 THEN Pair(f, 4) ELSE <<MaxAddr, MaxAddr>>

\* The first group is the read range when its letter is R
StreamRead(f) ==
    IF Len(f) > 3 /\ f[3] = "R" THEN Pair(f, 4) ELSE <<MaxAddr, MaxAddr>>

\* A second group is always the write range; a first one when its letter is W
StreamWrite(f) ==
    CASE Len(f) > 6 -> Pair(f, 7)
      [] Len(f) > 3 /\ f[3] = "W" -> Pair(f, 4)
      [] OTHER -> <<MaxAddr, MaxAddr>>

\* One --streams argument "<stream>,<master>[,...]" to the arguments of
\* initStream, or a raise: fewer than two fields, a third field alone that
\* is no integer, a group with one value of its pair, or a value that is
\* no address or integer
ParseStream(arg) ==
    LET f == Split(arg, ",")
        n == Len(f)
    IN  IF /\ n >= 2
           /\ n = 3 => IsInt(f[3])
           /\ n > 3 => n >= 5 /\ IsAddr(f[4]) /\ IsAddr(f[5])
           /\ n = 6 => IsInt(f[6])
           /\ n > 6 => n >= 8 /\ IsAddr(f[7]) /\ IsAddr(f[8])
           /\ n = 9 => IsInt(f[9])
        THEN [ok |-> TRUE,
              val |-> [master |-> f[2], rootp |-> f[1],
                       rbase |-> StreamRead(f)[1], rrange |-> StreamRead(f)[2],
                       wbase |-> StreamWrite(f)[1], wrange |-> StreamWrite(f)[2],
                       task_id |-> StreamTaskId(f)]]
        ELSE [ok |-> FALSE]

\* One pass of the streams loop: parse, then system.atp.initStream
InitStream ==
    /\ pc = "streams"
    /\ j <= Len(options.streams)
    /\ LET p == ParseStream(options.streams[j]) IN
       IF p.ok THEN calls' = Append(calls, p.val) /\ j' = j + 1 /\ UNCHANGED pc
       ELSE pc' = "raised" /\ UNCHANGED <<calls, j>>
    /\ UNCHANGED <<options, ctrls, i, atp, period>>

\* Ports are connected and gem5 instantiated; with a run time, stats are
\* dumped every abs_max_tick / dump_stats ticks (Python 2 integer division,
\* ZeroDivisionError at 0), then m5.simulate runs
Simulate ==
    /\ pc = "streams"
    /\ j > Len(options.streams)
    /\ IF options.abs_max_tick = MaxTick
       THEN pc' = "simulating" /\ UNCHANGED period
       ELSE IF options.dump_stats = 0
            THEN pc' = "raised" /\ UNCHANGED period
            ELSE period' = <<options.abs_max_tick \div options.dump_stats>> /\ pc' = "simulating"
    /\ UNCHANGED <<options, ctrls, i, atp, j, calls>>

Next == Start \/ MemCtrl \/ ProfileGen \/ InitStream \/ Simulate

\* The script runs to its end without waiting on anything
Spec == Init /\ [][Next]_vars /\ WF_vars(Next)

-----------------------------------------------------------------------------
(* Properties                                                              *)

Call == [master : STRING, rootp : STRING,
         rbase : Nat \cup {MaxAddr}, rrange : Nat \cup {MaxAddr},
         wbase : Nat \cup {MaxAddr}, wrange : Nat \cup {MaxAddr}, task_id : Nat]

Ctrl == [class : {"DRAMCtrl", "QoSMemSinkCtrl", "Other"},
         addr_mapping : {"default", "RoCoRaBaCh", "RoRaBaCoCh"}, sink_latency : BOOLEAN]

\* TLC's rendering of a string starts with a quote; no other value's does
IsString(x) == SubSeq(ToString(x), 1, 1) = "\""

TypeOK ==
    /\ options \in Options
    /\ pc \in {"start", "mem_ctrls", "streams", "simulating", "fatal", "raised"}
    /\ ctrls \in Seq(Ctrl) /\ i \in 1..Len(ctrls) + 1
    /\ atp \in [config_files : Seq(STRING), exit_when_done : BOOLEAN,
                exit_when_one_master_ends : BOOLEAN]
    /\ j \in 1..Len(options.streams) + 1
    /\ \A k \in DOMAIN calls : ~IsString(calls[k].task_id)
    /\ calls \in Seq(Call)
    /\ period \in Seq(Nat) /\ Len(period) <= 1

\* The forms the --streams help describes, each bracketed group optional:
\* <stream>,<master>[,R,<base>,<range>][,W,<base>,<range>][,<task_id>]
Group(letter) == {<<>>} \cup {<<letter, b, r>> : b, r \in DOMAIN AddrValue}

HelpForms(arg) ==
    LET f == Split(arg, ",")
        tasks == {<<>>} \cup {<<t>> : t \in {x \in ToSet(f) : IsInt(x)}}
    IN  IF Len(f) < 2 THEN {}
        ELSE {F \in [root : {f[1]}, master : {f[2]}, r : Group("R"), w : Group("W"),
                     task : tasks] :
                 <<F.root, F.master>> \o F.r \o F.w \o F.task = f}

\* What the help says a form asks initStream for
Intended(F) ==
    LET range(g) == IF g = <<>> THEN <<MaxAddr, MaxAddr>>
                    ELSE <<AddrValue[g[2]], AddrValue[g[3]]>>
    IN  [master |-> F.master, rootp |-> F.root,
         rbase |-> range(F.r)[1], rrange |-> range(F.r)[2],
         wbase |-> range(F.w)[1], wrange |-> range(F.w)[2],
         task_id |-> IF F.task = <<>> THEN 1024 ELSE IntValue(F.task[1])]

\* The streams loop of atp.py against the --streams help: an argument of a
\* documented form is initialised with the master, root profile, ranges and
\* task id that form asks for, and the loop raises only on an argument of no
\* such form.  Arguments of no documented form that the loop accepts (an
\* unknown group letter, groups in W,R order) are left unconstrained: they
\* are the divergences at atp.py:208 and atp.py:215.
StreamsInitialisedAsDocumented ==
    /\ \A k \in 1..Len(calls) :
          \A F \in HelpForms(options.streams[k]) : calls[k] = Intended(F)
    /\ pc = "raised" /\ j <= Len(options.streams) => HelpForms(options.streams[j]) = {}

=============================================================================
