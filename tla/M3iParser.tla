----------------------------- MODULE M3iParser -----------------------------
(***************************************************************************)
(* Analyzer.parse_m3i (src/utils/analyzer.py): the compact m3i trace       *)
(* parser and its burst reconstructor.  One step reads one line of the     *)
(* file; the loop over the tagged fields of the line and the expansion of  *)
(* the burst into transfers are part of that step, as they are part of one *)
(* iteration of the 'for line in ascii_in' loop.                           *)
(*                                                                         *)
(* A line is abstracted to its marker, its address and its list of fields; *)
(* a field is a record whose kind names the branch of the if/elif chain    *)
(* that recognises it (the chain tests the branches in the order size,     *)
(* L, V, C, fixed, incr, wrap, and a field matches at most one of them).   *)
(***************************************************************************)
EXTENDS Integers, Sequences, SequencesExt, Functions

CONSTANTS
  BusWidth,    \* Analyzer.bus_width: default transfer size in bytes
  Addrs,       \* addresses that may appear in the second column
  Markers,     \* first-column markers: "AR", "AW" and the ones skipped
  FieldLists,  \* token lists that may follow the address on a line
  MaxLines     \* number of lines of the parsed file (bound)

ASSUME BusWidth \in Nat \ {0}
ASSUME {"AR", "AW"} \subseteq Markers
ASSUME MaxLines \in Nat

VARIABLES
  addresses,          \* self.addresses[t]: one address per record
  sizes,              \* self.sizes[t]: one size per record
  cycles,             \* self.cycles[t]: one absolute cycle per record
  cumulative_cycles,  \* self.cumulative_cycles
  num_transactions,   \* self.num_transactions
  num_uncachables,    \* self.num_uncachables
  total_data,         \* self.total_data
  show_burst_mode,    \* self.show_burst_mode, fixed before the file is opened
  file,               \* the lines read so far (history, for the properties)
  eof,                \* TRUE once the loop has left the file
  result              \* the value parse_m3i returns, "NONE" before eof

vars == << addresses, sizes, cycles, cumulative_cycles, num_transactions,
           num_uncachables, total_data, show_burst_mode, file, eof, result >>

Types == {"READ", "WRITE"}

(* self.sizeDict: size-class names to bytes per transfer. *)
SizeDict == [ byte |-> 1, size8 |-> 1, size16 |-> 2, size32 |-> 4,
              size64 |-> 8, size128 |-> 16, size256 |-> 32, size512 |-> 64,
              size1024 |-> 128, half |-> 1, word |-> 2, dword |-> 4 ]

(* Constructors for the fields of a line. *)
SizeField(n)  == [kind |-> "size", name |-> n]
LField(n)     == [kind |-> "L", val |-> n]
VField(n)     == [kind |-> "V", val |-> n]
CField(last)  == [kind |-> "C", last |-> last]
BurstField(m) == [kind |-> "burst", mode |-> m]
OtherField    == [kind |-> "other"]

(* The type recorded for a line: computed before the AR/AW test. *)
TransactionType(marker) == IF marker = "AR" THEN "READ" ELSE "WRITE"

(* The per-line defaults set before the field loop, with the counters the *)
(* loop itself updates.                                                    *)
LineDefaults ==
  [ length |-> 1, data_size |-> BusWidth, burst_type |-> "incr",
    transaction_timing |-> 1, cum |-> cumulative_cycles,
    unc |-> num_uncachables ]

(* Mutation of ApplyField: the V field overwrites the counter. *)
ApplyFieldAssignV(st, f) ==
  CASE f.kind = "size"  -> [st EXCEPT !.data_size = SizeDict[f.name]]
    [] f.kind = "L"     -> [st EXCEPT !.length = f.val]
    [] f.kind = "V"     -> [st EXCEPT !.transaction_timing = f.val,
                                      !.cum = f.val]
    [] f.kind = "C"     -> IF f.last = "1" THEN st
                           ELSE [st EXCEPT !.unc = @ + 1]
    [] f.kind = "burst" -> [st EXCEPT !.burst_type = f.mode]
    [] OTHER            -> st

(* One iteration of 'for field in fields[2:]'. *)
ApplyField(st, f) ==
  CASE f.kind = "size"  -> [st EXCEPT !.data_size = SizeDict[f.name]]
    [] f.kind = "L"     -> [st EXCEPT !.length = f.val]
    [] f.kind = "V"     -> [st EXCEPT !.transaction_timing = f.val,
                                      !.cum = @ + f.val]
    [] f.kind = "C"     -> IF f.last = "1" THEN st
                           ELSE [st EXCEPT !.unc = @ + 1]
    [] f.kind = "burst" -> [st EXCEPT !.burst_type = f.mode]
    [] OTHER            -> st

(* Mutation of BeatStride: only incr bursts advance. *)
BeatStrideIncrOnly(st) == IF st.burst_type = "incr" THEN st.data_size * 8 ELSE 0

(* Address step between two transfers of a burst. *)
BeatStride(st) == IF st.burst_type = "fixed" THEN 0 ELSE st.data_size * 8

(* The records one AR/AW line appends: the whole burst as one record, or *)
(* one record per transfer when burst mode is on.                         *)
Transfers(addr, st) ==
  IF ~show_burst_mode
  THEN << [address |-> addr, size |-> st.data_size * st.length] >>
  ELSE [i \in 1..st.length |->
          [address |-> addr + (i - 1) * BeatStride(st), size |-> st.data_size]]

(* Mutation of LineData: the transfer count is left out. *)
LineDataNoLength(st) == st.data_size

(* The amount added to self.total_data for a line. *)
LineData(st) == st.data_size * st.length

(* Mutation of Stamp: one cycle per line, not per record. *)
StampOnce(xs, c) == << c >>

(* The cycles appended with the records xs of a line at cycle c. *)
Stamp(xs, c) == [i \in DOMAIN xs |-> c]

Init ==
  /\ addresses = [t \in Types |-> << >>]
  /\ sizes = [t \in Types |-> << >>]
  /\ cycles = [t \in Types |-> << >>]
  /\ cumulative_cycles = 0
  /\ num_transactions = 0
  /\ num_uncachables = 0
  /\ total_data = 0
  /\ show_burst_mode \in BOOLEAN
  /\ file = << >>
  /\ eof = FALSE
  /\ result = "NONE"

ReadLine(marker, addr, fields) ==
  /\ ~eof
  /\ Len(file) < MaxLines
  /\ file' = Append(file, [marker |-> marker, addr |-> addr, fields |-> fields])

(* A line whose marker is neither AR nor AW is skipped. *)
SkipLine(marker, addr, fields) ==
  /\ marker \notin {"AR", "AW"}
  /\ ReadLine(marker, addr, fields)
  /\ UNCHANGED << addresses, sizes, cycles, cumulative_cycles,
                  num_transactions, num_uncachables, total_data,
                  show_burst_mode, eof, result >>

(* An AR or AW line: fields parsed, records appended, counters updated. *)
ParseLine(marker, addr, fields) ==
  /\ marker \in {"AR", "AW"}
  /\ ReadLine(marker, addr, fields)
  /\ LET t  == TransactionType(marker)
         st == FoldLeft(ApplyField, LineDefaults, fields)
         xs == Transfers(addr, st)
     IN /\ addresses' = [addresses EXCEPT ![t] =
                           @ \o [i \in DOMAIN xs |-> xs[i].address]]
        /\ sizes' = [sizes EXCEPT ![t] = @ \o [i \in DOMAIN xs |-> xs[i].size]]
        /\ cycles' = [cycles EXCEPT ![t] = @ \o Stamp(xs, st.cum)]
        /\ cumulative_cycles' = st.cum
        /\ num_uncachables' = st.unc
        /\ num_transactions' = num_transactions + 1
        /\ total_data' = total_data + LineData(st)
  /\ UNCHANGED << show_burst_mode, eof, result >>

(* End of file: the type of the parsed trace is returned. *)
Finish ==
  /\ ~eof
  /\ eof' = TRUE
  /\ result' = CASE sizes["READ"] # << >> /\ sizes["WRITE"] # << >>
                      -> "READ/WRITE"
                 [] sizes["READ"] # << >> -> "READ"
                 [] OTHER -> "WRITE"
  /\ UNCHANGED << addresses, sizes, cycles, cumulative_cycles,
                  num_transactions, num_uncachables, total_data,
                  show_burst_mode, file >>

Next ==
  \/ \E m \in Markers, a \in Addrs, fs \in FieldLists :
        \/ SkipLine(m, a, fs)
        \/ ParseLine(m, a, fs)
  \/ Finish

Spec == Init /\ [][Next]_vars

-----------------------------------------------------------------------------
(***************************************************************************)
(* Properties.                                                             *)
(***************************************************************************)

TypeOK ==
  /\ \A t \in Types :
       /\ addresses[t] \in Seq(Nat)
       /\ sizes[t] \in Seq(Nat)
       /\ cycles[t] \in Seq(Nat)
       /\ Len(addresses[t]) = Len(sizes[t])
       /\ Len(sizes[t]) = Len(cycles[t])
  /\ cumulative_cycles \in Nat
  /\ num_transactions \in Nat
  /\ num_uncachables \in Nat
  /\ total_data \in Nat
  /\ show_burst_mode \in BOOLEAN
  /\ eof \in BOOLEAN
  /\ result \in {"NONE", "READ", "WRITE", "READ/WRITE"}

(* The record contract of the spec (sections 4.4 and 4.5), written from    *)
(* the spec and not from the loop: the transfer size is the size-class     *)
(* field or the bus width, the count is the L field or 1, the mode is the  *)
(* burst field or incr; without expansion one record of size               *)
(* size * count, with expansion count records of the transfer size whose   *)
(* address is fixed, or advances by size * 8 for incr and wrap.            *)
FieldOf(l, k, default, Val(_)) ==
  LET is == {i \in DOMAIN l.fields : l.fields[i].kind = k}
  IN IF is = {} THEN default ELSE Val(l.fields[CHOOSE i \in is : TRUE])

SpecSize(l)  == FieldOf(l, "size", BusWidth, LAMBDA f : SizeDict[f.name])
SpecCount(l) == FieldOf(l, "L", 1, LAMBDA f : f.val)
SpecMode(l)  == FieldOf(l, "burst", "incr", LAMBDA f : f.mode)

SpecRecords(l) ==
  IF ~show_burst_mode
  THEN << [address |-> l.addr, size |-> SpecSize(l) * SpecCount(l)] >>
  ELSE [j \in 1..SpecCount(l) |->
          [address |-> IF SpecMode(l) = "fixed" THEN l.addr
                       ELSE l.addr + (j - 1) * SpecSize(l) * 8,
           size |-> SpecSize(l)]]

IsRecordLine(l) == l.marker \in {"AR", "AW"}

(* The lines of file that produce records of type t, in file order. *)
LinesOf(t) ==
  SelectSeq(file, LAMBDA l : IsRecordLine(l) /\ TransactionType(l.marker) = t)

SpecRecordsOf(t) ==
  LET ls == LinesOf(t) IN FlattenSeq([k \in DOMAIN ls |-> SpecRecords(ls[k])])

(* RecordsFollowSpec: after every line, the address and size sequences of *)
(* each type are exactly the spec's expansion of that type's AR/AW lines,  *)
(* in file order (the field loop of parse_m3i, its defaults and the three  *)
(* burst branches together).                                               *)
RecordsFollowSpec ==
  \A t \in Types :
    LET rs == SpecRecordsOf(t)
    IN /\ addresses[t] = [i \in DOMAIN rs |-> rs[i].address]
       /\ sizes[t] = [i \in DOMAIN rs |-> rs[i].size]

(* TotalDataAccounted: the 'Total Data' statistic parse_m3i reports equals *)
(* the sum of the record sizes of both types, with and without burst       *)
(* expansion.                                                              *)
TotalDataAccounted ==
  total_data = SumFunction(sizes["READ"]) + SumFunction(sizes["WRITE"])

(* CyclesNonDecreasing: within each type, records carry non-decreasing     *)
(* absolute cycles, none later than the running counter, as the draw       *)
(* code and the bandwidth windows rely on.                                 *)
CyclesNonDecreasing ==
  \A t \in Types :
    \A i \in DOMAIN cycles[t] :
      /\ cycles[t][i] <= cumulative_cycles
      /\ i > 1 => cycles[t][i - 1] <= cycles[t][i]

=============================================================================
