------------------------------- MODULE CpuGen -------------------------------
(***************************************************************************)
(* CPU_Gen.generate (src/utils/cpu.py) on the settings App.generate_atp    *)
(* collects from the CPU form (src/utils/ui.py).  The data limit is split  *)
(* by the pointer-chase percentage into a pointer-chase read/write pair    *)
(* and a memory-copy read/write pair, each pair emitted only when its      *)
(* share is non-zero; the blocks are tied together by wait_for lines.     *)
(* A block is the record of the values get_base_profile formats; the text *)
(* comments of get_info and the rate strings are left out.                 *)
(***************************************************************************)
EXTENDS Integers, Sequences, Graphs, CapacitySizing

CONSTANTS
  Percentages,  \* values of the pointer-chase percentage field
  DataLimits,   \* values of the data limit field
  Sizes,        \* values of the data size field
  AddrTypes,    \* addressing types offered on the form
  Bases,        \* values of an address base field
  Incrs,        \* values of an address increment field
  StdDevs,      \* values of an address standard deviation field
  BoundMethod   \* the object IntVar.get, passed where its value was meant

(* One address section of the form: its type and the fields read for it. *)
AddressForm == [ type : AddrTypes, base : Bases, incr : Incrs,
                 std_dev : StdDevs ]

Settings ==
  [ pct : Percentages, data_limit : DataLimits, size : Sizes,
    pc_read : AddressForm, pc_write : AddressForm,
    mc_read : AddressForm, mc_write : AddressForm ]

VARIABLES
  s,        \* the CPU form handed to generate_atp
  pc,       \* "start", "done" or "failed" (an exception left generate)
  profiles  \* the emitted blocks, in file order

vars == << s, pc, profiles >>

PCR == "CPU_POINTER_READS_1"
PCW == "CPU_POINTER_WRITES_1"
MCR == "CPU_MEMCPY_READS"
MCW == "CPU_MEMCPY_WRITES"
BlockNames == {PCR, PCW, MCR, MCW}

(* choose_address_options followed by get_random: the address section as *)
(* it reaches a block.  The standard deviation is whatever was passed for *)
(* it, and is only rendered for a NORMAL address.                         *)
Address(form, std_dev, base) ==
  [ kind |-> AddressKind(form.type), base |-> base, incr |-> form.incr,
    std_dev |-> std_dev ]

(* The standard deviation App.generate_atp passes for each section: the  *)
(* pointer-chase write section passes the bound method, not its value.   *)
StdDevArg(section) ==
  IF section = "pc_write" THEN BoundMethod ELSE s[section].std_dev

(* total_txn = data_limit / size, Python 2 integer division. *)
TotalTxn == s.data_limit \div s.size

(* int(total_txn * pointer_chase) and int(total_txn * (1 - pointer_chase)) *)
(* with pointer_chase = pct / 100.0.                                       *)
PcTotal == (TotalTxn * s.pct) \div 100
McTotal == (TotalTxn * (100 - s.pct)) \div 100

(* The write base: advanced past the read range when the read address is *)
(* linear, then replaced by write_base_address when the write address is *)
(* linear (get_random).                                                   *)
WriteBase(read, write) ==
  IF write.type = "LINEAR" THEN write.base
  ELSE IF read.type = "LINEAR" THEN read.base + TotalTxn * read.incr
  ELSE 0

(* The wait_for lines a block emits: the first n entries of its table. *)
WaitFor(table, n) == SubSeq(table, 1, n)

MemCopyReadWaitForUnguarded == 2

(* mem_copy_read_wait_for: 2 with a pointer-chase pair, 0 without. *)
MemCopyReadWaitFor == IF s.pct > 0 THEN 2 ELSE 0

(* mem_copy_write_wait_for: 3 with a pointer-chase pair, 1 without. *)
MemCopyWriteWaitFor == IF s.pct > 0 THEN 3 ELSE 1

Block(name, type, start, total, address, wait_for) ==
  [ name |-> name, type |-> type, start_fifo_level |-> start,
    total_txn |-> total, address |-> address, wait_for |-> wait_for ]

PointerChaseBlocks ==
  << Block(PCR, "READ", "EMPTY", PcTotal,
           Address(s.pc_read, StdDevArg("pc_read"), s.pc_read.base), << >>),
     Block(PCW, "WRITE", "EMPTY", PcTotal,
           Address(s.pc_write, StdDevArg("pc_write"),
                   WriteBase(s.pc_read, s.pc_write)),
           << <<PCR, "PROFILE_LOCKED">> >>) >>

MemCopyBlocks ==
  << Block(MCR, "READ", "FULL", McTotal,
           Address(s.mc_read, StdDevArg("mc_read"), s.mc_read.base),
           WaitFor(<< <<PCR, "">>, <<PCW, "">> >>, MemCopyReadWaitFor)),
     Block(MCW, "WRITE", "EMPTY", McTotal,
           Address(s.mc_write, StdDevArg("mc_write"),
                   WriteBase(s.mc_read, s.mc_write)),
           WaitFor(<< <<MCR, "PROFILE_LOCKED">>, <<PCR, "">>, <<PCW, "">> >>,
                   MemCopyWriteWaitFor)) >>

Init ==
  /\ s \in Settings
  /\ pc = "start"
  /\ profiles = << >>

(* generate(): the pointer-chase pair when pointer_chase > 0, then the    *)
(* memory-copy pair when pointer_chase < 1.                               *)
Generate ==
  /\ pc = "start"
  /\ s.size # 0
  /\ profiles' = (IF s.pct > 0 THEN PointerChaseBlocks ELSE << >>)
                 \o (IF s.pct < 100 THEN MemCopyBlocks ELSE << >>)
  /\ pc' = "done"
  /\ UNCHANGED s

(* A zero data size: data_limit / size raises ZeroDivisionError. *)
GenerateFails ==
  /\ pc = "start"
  /\ s.size = 0
  /\ pc' = "failed"
  /\ UNCHANGED << s, profiles >>

Next == Generate \/ GenerateFails

Spec == Init /\ [][Next]_vars

(***************************************************************************)
(* Properties.                                                             *)
(***************************************************************************)

TypeOK ==
  /\ s \in Settings
  /\ pc \in {"start", "done", "failed"}
  /\ Len(profiles) \in {0, 2, 4}
  /\ \A i \in DOMAIN profiles :
       /\ profiles[i].name \in BlockNames
       /\ profiles[i].total_txn \in Nat
       /\ profiles[i].address.kind \in AddressKinds
       /\ profiles[i].wait_for \in Seq(BlockNames \X {"", "PROFILE_LOCKED"})

(* The wait_for graph of the emitted file: an edge from each block to the *)
(* blocks it waits for.                                                   *)
Names == { profiles[i].name : i \in DOMAIN profiles }

WaitGraph ==
  [ node |-> Names,
    edge |-> UNION { { <<profiles[i].name, w[1]>> :
                         w \in Range(profiles[i].wait_for) } :
                     i \in DOMAIN profiles } ]

(* Every wait_for line of the file names a block the same file defines,  *)
(* for every split of the data between pointer chase and memory copy,    *)
(* and the blocks can be started in some order: the dependencies form a *)
(* DAG, so the simulator never waits on a block that never comes.        *)
WaitForResolvable ==
  pc = "done" =>
    /\ \A i \in DOMAIN profiles :
         \A j \in DOMAIN profiles[i].wait_for :
           profiles[i].wait_for[j][1] \in Names
    /\ IsDag(WaitGraph)

=============================================================================
