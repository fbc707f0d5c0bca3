--------------------------- MODULE ProfilerSession ---------------------------
(***************************************************************************)
(* The profiler window (BarsFrame, src/utils/profiler.py) driving the      *)
(* Analyzer's drawing state (src/utils/analyzer.py).  wx runs one event    *)
(* handler at a time, so each handler is one action; an exception a        *)
(* handler does not catch ends it where it is raised, keeping what it      *)
(* already assigned, and the event loop carries on.                        *)
(*                                                                         *)
(* Parsed data are abstracted to the length of each series; the records    *)
(* themselves are the subject of M3iParser.  Sub-sampling never happens    *)
(* here: the series are far shorter than Analyzer.max_samples.             *)
(***************************************************************************)
EXTENDS Integers, Sequences, FiniteSets

CONSTANTS
  M3iFiles,      \* m3i files: series lengths per type, plain and burst
  TraceFiles,    \* trace files: name pattern, type, series length
  TraceTypes,    \* transaction types a trace file name can carry
  WindowInputs   \* integers the user can type in the window text box

M3iTypes == {"READ", "WRITE"}
Absent == -1

Widgets == {"textbox", "radio1", "radio2", "radio3", "radio4", "radio5",
            "radio6", "fitting", "toogle", "clear", "burst_mode"}
ShowModes == {"All", "Bandwidth Only", "Data Only"}

VARIABLES
  mode,             \* BarsFrame.mode: "", "m3i" or "trace"
  atype,            \* Analyzer.type
  cycles_len,       \* len(Analyzer.cycles[t]) for READ and WRITE
  times_len,        \* len(Analyzer.times[t]), Absent before any trace
  bw_window,        \* Analyzer.bw_window
  show,             \* Analyzer.show_bw_only / show_data_only
  show_histograms,  \* Analyzer.show_histograms
  show_burst_mode,  \* Analyzer.show_burst_mode
  enabled,          \* the widgets currently enabled
  rw_radio,         \* the READ / WRITE / READ/WRITE radio that is set
  show_radio,       \* the All / Bandwidth Only / Data Only radio that is set
  figure,           \* kinds of plot on the figure since its last clf()
  entered,          \* the window last given by the user (10 at start)
  used,             \* <<series length, window>> of each bandwidth call
                    \* of the last draw
  raised            \* exception that ended the last handler, or "none"

vars == << mode, atype, cycles_len, times_len, bw_window, show,
           show_histograms, show_burst_mode, enabled, rw_radio, show_radio,
           figure, entered, used, raised >>

ui == << enabled, rw_radio, show_radio >>

PyMin(a, b) == IF a <= b THEN a ELSE b

(***************************************************************************)
(* Drawing.  Analyzer.bandwidth clamps the window it is given, stores the  *)
(* clamp in self.bw_window, and walks xrange(w, len(x), w): a zero step    *)
(* raises ValueError, a negative one yields no window and the extension    *)
(* loop then reads mean_y[-1] of an empty list (IndexError).               *)
(***************************************************************************)
BandwidthClamp(bw, n) == PyMin(bw, n - 1)

(* Bandwidth plots of the series of lengths lens, in order, from window  *)
(* bw; a series that is empty or shown as histograms gets none.  The     *)
(* first exception ends the loop of draw_m3i.                            *)
RECURSIVE DrawSeries(_, _, _, _)
DrawSeries(bw, lens, plotted, hist) ==
  IF lens = << >> THEN [bw |-> bw, used |-> plotted, error |-> "none"]
  ELSE LET n == Head(lens) IN
       IF n = 0 \/ hist THEN DrawSeries(bw, Tail(lens), plotted, hist)
       ELSE LET w == BandwidthClamp(bw, n)
                p == Append(plotted, <<n, w>>)
            IN CASE w = 0 -> [bw |-> w, used |-> p, error |-> "ValueError"]
                 [] w < 0 -> [bw |-> w, used |-> p, error |-> "IndexError"]
                 [] OTHER -> DrawSeries(w, Tail(lens), p, hist)

(* self.type.split('/') *)
TypesOf(t) == IF t = "READ/WRITE" THEN << "READ", "WRITE" >> ELSE << t >>

(* The state a handler hands to draw(). *)
View == [ mode |-> mode, atype |-> atype, cycles_len |-> cycles_len,
          times_len |-> times_len, bw |-> bw_window, show |-> show,
          hist |-> show_histograms, figure |-> figure ]

(* The series draw_m3i and draw_trace hand to bandwidth, in order. *)
M3iSeries(v) ==
  [ i \in 1..Len(TypesOf(v.atype)) |-> v.cycles_len[TypesOf(v.atype)[i]] ]

TraceSeries(v) ==
  IF v.show = "Data Only" THEN << >> ELSE << v.times_len[v.atype] >>

(* Whether the analyzer puts any plot on the figure. *)
Plots(v) ==
  \/ v.mode = "m3i" /\ \E i \in DOMAIN M3iSeries(v) : M3iSeries(v)[i] > 0
  \/ v.mode = "trace" /\ v.times_len[v.atype] > 0

(* BarsFrame.draw on the view v: the analyzer's draw inside 'try ...      *)
(* except ValueError', then the statistics text, which for a trace reads  *)
(* times[type][-1].                                                       *)
Draw(v) ==
  LET d == CASE v.mode = "m3i"   -> DrawSeries(v.bw, M3iSeries(v), << >>, v.hist)
             [] v.mode = "trace" -> DrawSeries(v.bw, TraceSeries(v), << >>, v.hist)
             [] OTHER -> [bw |-> v.bw, used |-> << >>, error |-> "none"]
  IN /\ bw_window' = d.bw
     /\ used' = d.used
     /\ figure' = IF Plots(v) THEN v.figure \cup {v.mode} ELSE v.figure
     /\ raised' = IF d.error = "IndexError"
                     \/ (v.mode = "trace" /\ v.times_len[v.atype] = 0)
                  THEN "IndexError" ELSE "none"

(***************************************************************************)
(* Handlers.                                                               *)
(***************************************************************************)

(* parse_m3i's return value from the lengths of its two series. *)
ParseType(lens) ==
  CASE lens["READ"] > 0 /\ lens["WRITE"] > 0 -> "READ/WRITE"
    [] lens["READ"] > 0 -> "READ"
    [] OTHER -> "WRITE"

(* The READ/WRITE radios on_open_m3i enables for a parsed type. *)
RWRadios(t) ==
  CASE t = "READ" -> {"radio1"} [] t = "WRITE" -> {"radio2"}
    [] OTHER -> {"radio1", "radio2", "radio3"}

(* The labels of the radios, which the handlers read back. *)
RWLabel == [radio1 |-> "READ", radio2 |-> "WRITE", radio3 |-> "READ/WRITE"]

ShowLabelTypo == [radio4 |-> "All", radio5 |-> "Bandwidth Only",
                  radio6 |-> "Data only"]

ShowLabel == [radio4 |-> "All", radio5 |-> "Bandwidth Only",
              radio6 |-> "Data Only"]

(* The widgets enabled after on_open_m3i has parsed a file of type t. *)
M3iControls(en, t) ==
  (en \ {"radio1", "radio2", "radio3", "radio4", "radio5", "radio6",
         "burst_mode"})
  \cup {"textbox", "toogle", "clear"} \cup RWRadios(t)

(* The widgets enabled after on_open_trace has parsed a file. *)
TraceControls(en) ==
  (en \ {"burst_mode"}) \cup {"textbox", "toogle", "clear", "radio4",
                               "radio5", "radio6"}

M3iOpenAllowedAlways == TRUE

(* on_open_m3i goes on unless a trace file is shown. *)
M3iOpenAllowed == mode # "trace"

(* on_open_trace goes on unless an m3i file is shown. *)
TraceOpenAllowed == mode # "m3i"

ClearControlsMissingRadio3 == {"burst_mode"} \cup (enabled \cap {"radio3"})

(* The widgets enabled after on_clear: the burst checkbox alone. *)
ClearControls == {"burst_mode"}

Init ==
  /\ mode = ""
  /\ atype = "READ"
  /\ cycles_len = [t \in M3iTypes |-> Absent]
  /\ times_len = [t \in TraceTypes |-> Absent]
  /\ bw_window = 10
  /\ show = "All"
  /\ show_histograms = FALSE
  /\ show_burst_mode = FALSE
  /\ enabled = {"burst_mode"}
  /\ rw_radio = "READ"
  /\ show_radio = "All"
  /\ figure = {}
  /\ entered = 10
  /\ used = << >>
  /\ raised = "none"

(* on_open_m3i while a trace is shown: a pop-up, nothing else. *)
OnOpenM3iRefused ==
  /\ ~M3iOpenAllowed
  /\ raised' = "none"
  /\ UNCHANGED << mode, atype, cycles_len, times_len, bw_window, show,
                  show_histograms, show_burst_mode, ui, figure, entered, used >>

(* on_open_m3i: parse_m3i, the controls for the parsed type, draw.  The  *)
(* figure is not cleared first.                                          *)
OnOpenM3i(f) ==
  /\ M3iOpenAllowed
  /\ ~f.fails
  /\ LET lens == IF show_burst_mode THEN f.burst ELSE f.plain
         t == ParseType(lens)
     IN /\ atype' = t
        /\ cycles_len' = lens
        /\ mode' = "m3i"
        /\ enabled' = M3iControls(enabled, t)
        /\ rw_radio' = t
        /\ Draw([View EXCEPT !.mode = "m3i", !.atype = t, !.cycles_len = lens])
  /\ UNCHANGED << times_len, show, show_histograms, show_burst_mode,
                  show_radio, entered >>

(* parse_m3i raises part-way through the file (a blank line, a bad hex   *)
(* address): the series hold what was appended, the handler ends.       *)
OnOpenM3iFails(f) ==
  /\ M3iOpenAllowed
  /\ f.fails
  /\ cycles_len' = IF show_burst_mode THEN f.burst ELSE f.plain
  /\ raised' = "ValueError"
  /\ UNCHANGED << mode, atype, times_len, bw_window, show, show_histograms,
                  show_burst_mode, ui, figure, entered, used >>

(* on_open_trace while an m3i file is shown: a pop-up, nothing else. *)
OnOpenTraceRefused ==
  /\ ~TraceOpenAllowed
  /\ raised' = "none"
  /\ UNCHANGED << mode, atype, cycles_len, times_len, bw_window, show,
                  show_histograms, show_burst_mode, ui, figure, entered, used >>

(* on_open_trace: parse_trace, the controls, draw.  The All radio is set *)
(* but the analyzer's show switches are left as they are.               *)
OnOpenTrace(f) ==
  /\ TraceOpenAllowed
  /\ f.named /\ ~f.fails
  /\ times_len' = [times_len EXCEPT ![f.type] = f.len]
  /\ atype' = f.type
  /\ mode' = "trace"
  /\ enabled' = TraceControls(enabled)
  /\ show_radio' = "All"
  /\ Draw([View EXCEPT !.mode = "trace", !.atype = f.type,
                       !.times_len = times_len'])
  /\ UNCHANGED << cycles_len, show, show_histograms, show_burst_mode,
                  rw_radio, entered >>

(* parse_trace raises: the file name is not of the form <master>.<type>  *)
(* .trace (AttributeError, before any series changes) or a line is       *)
(* malformed (ValueError, the series holds what was appended).           *)
OnOpenTraceFails(f) ==
  /\ TraceOpenAllowed
  /\ ~f.named \/ f.fails
  /\ times_len' = IF f.named THEN [times_len EXCEPT ![f.type] = f.len]
                  ELSE times_len
  /\ raised' = IF f.named THEN "ValueError" ELSE "AttributeError"
  /\ UNCHANGED << mode, atype, cycles_len, bw_window, show, show_histograms,
                  show_burst_mode, ui, figure, entered, used >>

(* on_clear: every control disabled but the burst checkbox, the radios   *)
(* unset, mode "", the statistics reset, the figure cleared and drawn.   *)
OnClear ==
  /\ "clear" \in enabled
  /\ enabled' = ClearControls
  /\ rw_radio' = "none"
  /\ show_radio' = "none"
  /\ mode' = ""
  /\ Draw([View EXCEPT !.mode = "", !.figure = {}])
  /\ UNCHANGED << atype, cycles_len, times_len, show, show_histograms,
                  show_burst_mode, entered >>

(* on_radio_select_rw: the label becomes Analyzer.type; clf and draw. *)
OnRadioSelectRW(r) ==
  /\ r \in enabled
  /\ atype' = RWLabel[r]
  /\ rw_radio' = RWLabel[r]
  /\ Draw([View EXCEPT !.atype = RWLabel[r], !.figure = {}])
  /\ UNCHANGED << mode, cycles_len, times_len, show, show_histograms,
                  show_burst_mode, enabled, show_radio, entered >>

(* on_radio_select_show: the bandwidth-only / data-only switches. *)
OnRadioSelectShow(r) ==
  /\ r \in enabled
  /\ show' = ShowLabel[r]
  /\ show_radio' = ShowLabel[r]
  /\ Draw([View EXCEPT !.show = ShowLabel[r], !.figure = {}])
  /\ UNCHANGED << mode, atype, cycles_len, times_len, show_histograms,
                  show_burst_mode, enabled, rw_radio, entered >>

(* on_text_enter: the typed integer becomes Analyzer.bw_window. *)
OnTextEnter(w) ==
  /\ "textbox" \in enabled
  /\ entered' = w
  /\ Draw([View EXCEPT !.bw = w, !.figure = {}])
  /\ UNCHANGED << mode, atype, cycles_len, times_len, show, show_histograms,
                  show_burst_mode, ui >>

(* on_toggle: histograms on or off, the fitting checkbox with them. *)
OnToggle ==
  /\ "toogle" \in enabled
  /\ show_histograms' = ~show_histograms
  /\ enabled' = IF show_histograms' THEN enabled \cup {"fitting"}
                ELSE enabled \ {"fitting"}
  /\ Draw([View EXCEPT !.hist = ~show_histograms, !.figure = {}])
  /\ UNCHANGED << mode, atype, cycles_len, times_len, show, show_burst_mode,
                  rw_radio, show_radio, entered >>

(* on_check: the fitting switch (only the histograms read it); redraw. *)
OnCheck ==
  /\ "fitting" \in enabled
  /\ Draw([View EXCEPT !.figure = {}])
  /\ UNCHANGED << mode, atype, cycles_len, times_len, show, show_histograms,
                  show_burst_mode, ui, entered >>

(* on_burst_mode: the burst switch flips; redraw. *)
OnBurstMode ==
  /\ "burst_mode" \in enabled
  /\ show_burst_mode' = ~show_burst_mode
  /\ Draw([View EXCEPT !.figure = {}])
  /\ UNCHANGED << mode, atype, cycles_len, times_len, show, show_histograms,
                  ui, entered >>

Next ==
  \/ OnOpenM3iRefused \/ OnOpenTraceRefused
  \/ \E f \in M3iFiles : OnOpenM3i(f) \/ OnOpenM3iFails(f)
  \/ \E f \in TraceFiles : OnOpenTrace(f) \/ OnOpenTraceFails(f)
  \/ OnClear \/ OnToggle \/ OnCheck \/ OnBurstMode
  \/ \E r \in DOMAIN RWLabel : OnRadioSelectRW(r)
  \/ \E r \in DOMAIN ShowLabel : OnRadioSelectShow(r)
  \/ \E w \in WindowInputs : OnTextEnter(w)

Spec == Init /\ [][Next]_vars

(***************************************************************************)
(* Properties.                                                             *)
(***************************************************************************)

TypeOK ==
  /\ mode \in {"", "m3i", "trace"}
  /\ atype \in {"READ", "WRITE", "READ/WRITE"} \cup TraceTypes
  /\ cycles_len \in [M3iTypes -> Nat \cup {Absent}]
  /\ times_len \in [TraceTypes -> Nat \cup {Absent}]
  /\ bw_window \in Int /\ entered \in Int
  /\ show \in ShowModes
  /\ show_histograms \in BOOLEAN /\ show_burst_mode \in BOOLEAN
  /\ enabled \subseteq Widgets
  /\ rw_radio \in {"none", "READ", "WRITE", "READ/WRITE"}
  /\ show_radio \in {"none"} \cup ShowModes
  /\ figure \subseteq {"m3i", "trace"}
  /\ used \in Seq(Nat \X Int)
  /\ raised \in {"none", "ValueError", "AttributeError", "IndexError"}

(* The session implements LoadedKind: BarsFrame.mode is the loaded kind  *)
(* and the figure's plots are the plotted kinds.  The open handlers do    *)
(* not clear the figure, so on_open_m3i and on_open_trace must refuse     *)
(* while the other kind is shown, a failed parse must leave the mode and  *)
(* the figure alone, every other handler must clf before drawing, and     *)
(* on_clear must unload and clear: a file of one kind never joins or     *)
(* replaces one of the other without a Clear in between.                 *)
LoadedKindAbstract ==
  INSTANCE LoadedKind WITH Kinds <- {"m3i", "trace"},
                           loaded <- mode, plotted <- figure

LoadedKindRefined == LoadedKindAbstract!Spec

(* The enabled controls fit what is shown: the READ/WRITE radios only for *)
(* an m3i file, the All/Bandwidth/Data radios only for a trace, the burst *)
(* checkbox only while nothing is shown (so the burst switch a shown m3i  *)
(* file was parsed with is still in force), across every sequence of      *)
(* opens, failed opens and clears.                                        *)
ControlsMatchMode ==
  /\ {"radio1", "radio2", "radio3"} \cap enabled # {} => mode = "m3i"
  /\ {"radio4", "radio5", "radio6"} \cap enabled # {} => mode = "trace"
  /\ "burst_mode" \in enabled => mode = ""


=============================================================================
