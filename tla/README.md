# TLA+ models of the ATP-Engine tooling

This directory holds TLA+ models of the Python tools under `src/utils`, and
the TLC configurations that check them. The tools are the ATP profile
builder and the trace profiler. Each module is translated from the source.
Each property states what the specification (`spec.md`), a comment or the
code's own contract says. `PROJECT.json` records four things: which source
lines each definition models, every run, the mutants that show each passing
property can fail, and the findings and hazards.

## The system and how its parts interact

* **Profile builder** (`ui.py` `App`, plus `base.py`, `cpu.py`, `gpu.py`,
  `dpu.py`, `generic.py`): a Tk form. `generate_atp` collects the form into a
  settings dictionary and hands it to one builder (`CPU_Gen`, `GPU_Gen`,
  `DPU_Gen` or `Generic_Gen`). The builder's `generate` returns the profile
  text: blocks of `name`, `type`, FIFO `full_level`, `ot_limit`,
  `total_txn`, address distribution, base, increment and `wait_for`
  dependencies. The builders share the helpers of `Base_Gen`:
  `next_greatest_power_of_2`, `validate_full_level` (FIFO sizing) and
  `get_random` (resolving a distribution).
* **Profiler** (`profiler.py` `Profiler`, plus `analyzer.py` `Analyzer`): a
  Tk window whose handlers do the following:
  * open an `.m3i` or a `.trace` file and parse it into per-type series of
    addresses, sizes and cycles;
  * reduce the series with a sliding bandwidth window;
  * redraw a matplotlib figure and update the statistics labels.
* **gem5 integration** (`src/gem5`): configuration scripts that plug ATP
  into gem5. `atp.py` parses its options, builds the memory controllers,
  hands the `.atp` files to a `ProfileGen`, starts each `--streams` stream
  with `initStream`, and runs the simulation with a periodic stats dump.
  `baremetal_atp.py` and `ATPDevice.py` build a full Arm system and are not
  modelled (see below).

## Modules

| Module | Models | State | Actions |
|---|---|---|---|
| `M3iParser` | `Analyzer.parse_m3i` | input lines left, per-type addresses/sizes/cycles, cumulative cycles, per-type stats | `ReadLine`/`ParseLine` (one line: field defaults, burst expansion by burst type, cycle stamp), `SkipLine` (non-AR/AW line), `Finish` |
| `CapacitySizing` | `Base_Gen` helpers | none (operators) | `BitLength`, `NextGreatestPowerOf2`, `RateNumerator` (the `Fraction(rate/10^12)` numerator), the sizing-loop body, `Round` (Python 2), `AddressKind`; `SpecValidateFullLevel` is the specification's rule as a reference definition |
| `GpuGen` | `GPU_Gen.generate` | settings, pc, rate, full level, loop threshold, emitted blocks | `Start`, `SizingIteration` (one loop iteration), `Emit` |
| `DpuGen` | `DPU_Gen.generate` | as GPU plus `ot_limit` | `Start`, `StartFails` (`ZeroDivisionError` for size 0), `SizingIteration`, `Emit` (one block per layer) |
| `CpuGen` | `CPU_Gen.generate` with the settings `App.generate_atp` builds | settings, pc, blocks | `Generate`, `GenerateFails` (size 0) |
| `AtpSession` | every `App` handler of `ui.py` | processor, `atp_string` as its pieces (header, one profile per builder call), `generic_copyright`, whether each form makes `generate` return, the three buttons, the frozen main window, notification windows and `self.top`, the last file saved | `SelectProcessor`, `EditForm` (the user typing into the form: no code, so it has no map entry), `ClearFields`, `AppendAtp`, `PreviewAtp`, `PrintAtp(written)` (button, menu, Ctrl+S; saved or cancelled), `OpenAtp(kind, ok)` (menu, Ctrl+O), `OpenAtpFails`, `Dismiss(w)` |
| `SampleReducer` | `Analyzer.sample`, `median_sample`, `bandwidth`, and the reduction in `draw_trace`/`draw_m3i` | kind, series, window, plotted rate, pc | `Reduce`, `PlotBandwidth`, `PlotBandwidthFails` (window clamped to 0); the helpers are operators, `WindowLoop` RECURSIVE; the spec's reducer (`SpecStride`, `SpecMedian`, `SpecBandwidth`) as reference definitions |
| `LoadedKind` | the abstract profiler session: at most one kind of file loaded, the figure plots only that kind | `loaded`, `plotted` | `Load(k)`, `Redraw`, `Unload` |
| `AtpFile` | the profile text round trip: `print_atp` → `generate_atp` → `get_copyright` and each builder's `get_info` (with `get_address_info`, `convert_rate`), and `open_atp` with `read_address_options` and `convert_rate_to_KBS` | the form (every Tk variable a header touches, as `<<owner, name>>` ↦ value), the form when last saved, the file's lines up to its first blank line, how the last open ended | `print_atp`, `Edit` (the user types another form), `OpenAtpCompletes`, `OpenAtpRaises` (a `ValueError` mid-file) |
| `Builders` | `App.generate_atp`'s dispatch to `GPU_Gen` or `DPU_Gen` | the processor button, and `GpuGen`'s and `DpuGen`'s variables renamed (`gs`, `gpc`, ... / `ds`, `dpc`, ...) | the selected builder's actions; `INSTANCE GpuGen WITH` and `INSTANCE DpuGen WITH` each map the builder onto its own form fields |
| `Gem5Atp` | the script `src/gem5/atp.py` | the options, a program counter over the script's phases, the memory controllers, the `ProfileGen` settings, the `initStream` calls made, the stats period | `Start` (memory type check, channels), `MemCtrl` (one controller of the loop, with `addr_map` and the sink latency), `ProfileGen` (kill switches, `get_atp_files`), `InitStream` (one `--streams` argument, parsed by `ParseStream`), `Simulate` (dump period) |
| `ProfilerSession` | every `Profiler` handler, with `Analyzer.draw` / `bandwidth` | mode, loaded series lengths, window, show flags, enabled controls, radios, figure contents, raised error | open m3i/trace (refused, success, parse failure), clear, radios, text entry, toggle, check, burst mode |

Each module has an `MC_` module. It fixes the CONSTANTS to small sets of
form values and input files.

How the code maps to the model:
* A Tk handler runs atomically in the event loop, so each handler is one
  action.
* An uncaught exception ends the handler but keeps the assignments made
  before it. The model therefore keeps those assignments and records the
  error in `raised`.
* `validate_full_level` contains the only loop that may fail to end. Its
  iterations are steps of their own, so that TLC can check termination.
* Text formatting is left out, except in `AtpFile`, whose properties are
  about reading text back. There a line is a TLA+ string, and Python's
  0-based slicing, `str.find`, `int()`, `float()` and `str(float)` are
  operators (`PySlice`, `Find`, `PyInt`, `PyFloat`, `FloatStr`). Each
  `if/elif` chain of `open_atp` is a sequence of `Rule`s: the substrings a
  branch tests, the widget it sets and the offset it slices at. The first
  matching rule wins, as in the code. Elsewhere a block is the record of the values
  `get_base_profile` formats. In `AtpSession` the profile text is its
  sequence of pieces: the copyright header and one name per builder call.
* A bandwidth rate is kept as the pair (data, span) before the division,
  so that integer and float division need not be told apart.

## Runs

Passing runs, each with one mutant per property:

| Run | Checks | Shows |
|---|---|---|
| `m3i_records` | `TypeOK`, `RecordsFollowSpec`, `TotalDataAccounted`, `CyclesNonDecreasing` | For every input of up to 3 lines built from the field lists, in both burst modes, the records follow the spec's burst expansion. They account for all data and their cycles never decrease. |
| `builders_sizing` | `TypeOK`, `FullLevelFollowsSpec`, `SizingTerminates` | Whichever of GPU and DPU the button selects, the sizing loop ends for positive rates, and every block's full level equals the spec's least `n*2^k >= size`, raised to the candidate. A zero DPU size ends in the modelled failure. |
| `cpu_dependencies` | `TypeOK`, `WaitForResolvable` | For 0, 50 and 100 % pointer chase, every `wait_for` names a block of the file and the dependency graph is a DAG (`IsDag`). |
| `profiler_session` | `TypeOK`, `ControlsMatchMode`, `LoadedKindRefined` | Over every sequence of handlers (122k states), the session implements `LoadedKind` (see Refinement), and the enabled widgets match the loaded kind. |
| `atp_session` | `TypeOK`, `SavedSingleKind` | Over every order of processor changes, edits, clears, appends, previews, saves, opens and dismissals (39k states), no saved file mixes Generic profiles with a builder's. |
| `atp_roundtrip` | `TypeOK`, `RecordedFieldsReadBack`, `OpenTouchesOnlyRecorded` | Save any of 16 forms, type any other, then open the file: every widget the header records gets its saved value back, and no other widget changes, even when the open raises. The 16 forms cover GPU and DPU over all five addressing types, and CPU forms at 0, 25, 75 and 100 % with bandwidths in B/s, KB/s and MB/s. |
| `sample_reducer` | `TypeOK`, `ReductionFollowsSpec`, `BandwidthFollowsSpec` | For every series of up to 7 samples, both file kinds and windows {1,2,10}, the code's reductions are the spec's stride and median-block reductions, and `bandwidth` plots the spec's sliding-window rate. |
| `gem5_streams` | `TypeOK`, `StreamsInitialisedAsDocumented` | For every memory type, channel count, address map, run time, dump count, config source and list of up to two `--streams` arguments, every argument of a form the option's help describes is initialised with that form's master, root profile, read and write ranges and task id, and a script that raises on a stream raises on an argument of no described form. |

Violation runs. Each checks one property that the spec or the code states,
and each is a finding in `PROJECT.json`:

| Run | Property | What TLC shows |
|---|---|---|
| `gpu_zero_rate` | `SizingTerminates` | Rate 0 (frames left at 0) makes `validate_full_level` loop forever (`base.py:174`). |
| `atp_cpu_roundtrip` | `RoundTripRestoresForm` | Save a CPU form at 50 % and open it again. A data limit of 1000 with 64-byte packets comes back as 896, because the limit is rebuilt from truncated counts (`ui.py:548`). A bandwidth of 1500 B/s comes back as 1000, and 1250 B/s (`"1.25 KB/s"`) raises `ValueError` (`ui.py:104`). A NORMAL pointer-chase write address, saved as a bound method's text, also raises (`ui.py:432`). |
| `atp_header` | `SavedFileHasHeader` | Generic, append, save, dismiss, append, save: the second file has no copyright header, because only `choose_processor_options` resets `generic_copyright` (`ui.py:397`). Clear does not reset it either. |
| `atp_dismiss` | `NotificationsDismissable` | GPU, Preview (a notification; the buttons are disabled), then Open a CPU file from the menu, whose `choose_processor_options` re-enables Generate and Preview (`ui.py:691`), then Preview again: the second notification overwrites `self.top`, and the first can never be closed (`ui.py:353`). |

Reading the code against the spec turned up fifteen more divergences. The
models reproduce them, but no run checks them (see the hazards in
`PROJECT.json`):
* `DPU_Gen` computes `ot_limit` as `int(round(full_level / size))` under
  Python 2 integer division (`dpu.py:126`). That value is 0 whenever the
  full level is below the size, and it floors where the spec rounds.
* Both `GPU_Gen` and `CPU_Gen` overwrite the auto-advanced write base with
  the form's write base when the write address is linear (`gpu.py:179`,
  `cpu.py:324`).
* The memory-copy read block waits on the pointer-chase names without the
  `PROFILE_LOCKED` condition (`cpu.py:257`).
* Without a `V` field the m3i cycle does not advance. The spec's default
  delta of 1 is never applied (`analyzer.py:252`).
* `base_adjust == "yes"` never matches the form's `"Yes"`, so DPU layer
  bases never advance (`dpu.py:136`).
* `bandwidth` stores `min(bw_window, len(x) - 1)` back into `bw_window`,
  so the clamp of one short series persists into later series, draws and
  files (`analyzer.py:174`). `ProfilerSession` reproduces it: a trace
  with a one-record series followed by a longer one leaves the window at 0.
* `draw` catches only `ValueError`. An empty trace, or a negative window,
  raises `IndexError` out of the handler (`profiler.py:232`,
  `analyzer.py:176`). In `ProfilerSession` this is `raised = "IndexError"`.
* Opening a trace resets the All radio but not the show flags
  (`profiler.py:410`).
* `parse_trace` searches the name with `(.*)\.(.+)\.trace` unanchored, so
  `a.READ.trace.bak` is taken as a READ trace (`analyzer.py:321`). It also
  appends a line's time before converting its address and size, so a bad
  line leaves the series misaligned (`analyzer.py:336`).
* In `atp.py` a first range group whose letter is neither `R` nor `W` is
  accepted and ignored (`atp.py:208`), and a second group is always the
  write range whatever its letter, so `W,..,R,..` loses the read range
  (`atp.py:215`). `Gem5Atp` keeps both, and the `gem5_streams` run feeds
  it such arguments (`s,m,r,..`, `s,m,W,..,R,..`, `s,m,R,..,X,..`).
  `StreamsInitialisedAsDocumented` only says what happens to documented
  arguments and to raising ones, so it leaves these unconstrained; a
  property that every accepted argument is documented would fail on them.
* `spec.md` §8 takes `size64` as 64 bytes per transfer, where `sizeDict`
  (`analyzer.py:55`) maps it to 8. `M3iParser` follows the code, so
  `RecordsFollowSpec` compares with the code's table, not the example.
* `--dump-stats 0` with a run time raises `ZeroDivisionError` after
  `m5.instantiate`, and more dumps than ticks give a period of 0
  (`atp.py:234`).
* The kill switches test `is not m5.MaxTick`, object identity, so a typed
  `--abs-max-tick` equal to `MaxTick` counts as a run time (`atp.py:171`).
* `--config_files` is split on single spaces, so two spaces give an empty
  file name (`atp.py:176`).
* `baremetal_atp.py` declares `--atp-file` with `action='append'` and a
  non-empty default, so the default file is loaded besides every file given
  (`baremetal_atp.py:88`).

## Bounds, and why they are enough

* **Builders.**
  * Pixels are {1,3} and sizes {4,16}, with OT limits {1,8}. Between them
    these give rates below, equal to and above the size, candidates on both
    sides of the threshold, and a threshold that is not a power of two.
  * DPU timings `1/2` and `4/1` exercise Python 2 rounding at a half.
  * Sizes include 0, which reaches the failure paths.
  * CPU percentages {0,50,100} cover every branch of the split. The address
    types LINEAR and NORMAL cover both branches of `get_random`.
* **gem5 script.** Memory types of each controller class (DRAM,
  QoS sink, other) and one unknown; 1 and 2 channels; address maps 0, 1 and
  2 (the fatal one); a bounded and an unbounded run; dump counts 0 and 4;
  config files given or not, and config paths empty or one directory.
  Stream lists hold none, one or two arguments, over all 50 forms the help
  describes for one master and two addresses, six malformed arguments
  (too few fields, a group cut short, a bad address and a bad task id), and
  three undocumented arguments the parser accepts. These
  reach every branch of `initStream`'s parser and every phase of the script.
* **M3i.** Files of up to 3 lines over each line kind and burst type reach
  every branch of `parse_m3i`, including wrap bursts and lines without
  `V`/`L`.
* **Profiler.** The session has the following inputs:
  * four m3i files, one of which fails;
  * trace files with 3 records, 0 records, a name without a type, and one
    record that fails;
  * window entries {-1,0,2,10}.

  Together these reach clamps and all three error paths, in any order of
  handlers. Series lengths stand for the series, because the lengths are
  all the properties depend on.
* **Builder session.** Up to 4 pieces in the buffer and 3 notification
  windows. The header violation needs 2 appends and 2 saves, the dismiss
  violation 2 notifications; the cap on notifications is named
  `MaxNotifications` and is reached. Opened files are reduced to what line
  16 names (a builder or something else) and whether the comment lines
  parse.
* **Profile text.** The pass run has 16 forms: 5 GPU, 5 DPU and 6 CPU.
  Between them they use every addressing type for reads and for writes,
  every `get_address_info` branch, `PC `/`MC ` prefixes with the WRITE
  offset, and both CPU parts alone and together. Every other field holds a
  value that differs from field to field and group to group, so a value read
  into the wrong widget or cut at the wrong offset shows. `Edit` may replace
  the form with any other of the 16 before an open. One CPU form has a
  NORMAL pointer-chase write address, which drives `OpenAtpRaises`.
  `print_atp` is taken from an edited form only; saving a just-opened
  form unchanged is not explored. CPU percentages are multiples of 25, so
  `pct / 100.0` and its products are exact in binary and `int()` of them is
  integer division. Rates stay below 2^31, TLC's integer range, which is
  also why the `TB/s` branches are left out.
* **Sample reducer.** `max_samples` is 2 (the code's 10000 is out of
  reach). Series of up to 7 samples then cover the following:
  * lengths at and below the limit;
  * stride 1 to 3, with both odd and even `L // M`, where `median_sample`
    grows an even block;
  * a trailing remainder that the median drops;
  * repeated positions (span 0);
  * windows below, equal to and above `len - 1`, including the single-sample
    series that clamps the window to 0.

## Fairness

Only the builders and the gem5 script assume fairness. `Builders` has
`WF_vars(Next)` on `generate()`: the call is synchronous on the Tk thread, so
once it has started it keeps running, and `SizingTerminates` asks only
whether it returns. `Gem5Atp` has `WF_vars(Next)` because the script runs
to its end without waiting on anything; its run says `CHECK_DEADLOCK FALSE`
because a finished or failed script is a final state. The profiler's handlers are
user events, which nobody is obliged to send, so its model has no fairness
and no liveness property. The same holds for `AtpSession` and `AtpFile`, whose steps
are all user events; `AtpFile` checks deadlock (`Edit` is always enabled). `SampleReducer` steps through one draw and stops, so
its run says `CHECK_DEADLOCK FALSE`. The builder runs say `CHECK_DEADLOCK FALSE`
because a finished `generate` is a final state. The profiler run checks
deadlock, since some handler is always enabled.

## Not modelled

* **`Generic_Gen`'s block text:** it copies the form into one block and has
  no control. `AtpSession` models it by the piece it appends and by its
  copyright argument.
* **`open_atp` in `AtpSession`:** there its field parsing is abstracted to
  whether `generate` returns on the values read and whether `int()` fails.
  `AtpFile` models the parsing itself.
* **The copyright notice's wording and the GPU FIFO level's digits:** the
  notice lines contain none of the substrings `open_atp` dispatches on, and
  nothing reads the FIFO level back, so they are fixed text in `AtpFile`.
  The profile bodies after the header's blank line are modelled in the
  builder modules; `open_atp` stops before them.
* **Tk layout:** `generate_address_options` and `choose_processor_options`
  at the end of `open_atp` only show and hide widgets.
* **Matplotlib output and scipy fitting:** pure output.
* **`parse_trace` CSV details:** only the series lengths and the failure
  are modelled.
* **`baremetal_atp.py` and `ATPDevice.py`:** they build a full Arm system
  and a device-tree node from gem5 objects, with no control of their own
  beyond two flags. In `atp.py` gem5's objects are abstracted to what the
  script sets on them, and what gem5 and the ATP Engine's C++ do with them
  is outside this repository.
* **`m5.MaxTick` as a number:** it is 2^64-1, beyond TLC's integers, so
  it is a model value.
* **The float split `total_txn * pointer_chase`:** TLC cannot represent
  binary64, so integer percentages stand for it.

## Refinement

`LoadedKind` is the profiler's promise, stated with no widgets: the window
holds at most one kind of file (m3i or trace), a kind is loaded only when
nothing or that kind already is, and the figure plots only the loaded kind.
Clear unloads it. `ProfilerSession` instantiates it with `loaded <- mode`
and `plotted <- figure`. `LoadedKindRefined`, which is `LoadedKind!Spec`, is
a property of the `profiler_session` run. Every handler of the session is
therefore a `Load`, `Redraw` or `Unload` step of the abstract specification,
or leaves both variables unchanged. A mutant that drops the refusal in
`on_open_m3i` (`M3iOpenAllowed`) breaks it.

## Plan for later work

1. A `parse_trace` model of the CSV lines, to replace the series lengths
   `ProfilerSession` uses for a trace.
2. Saving a reopened form unchanged (`print_atp` after an open), which
   `AtpFile` can explore once the reader is cheaper for TLC.
3. A property for the gem5 dump period once the intended dump count of
   `--dump-stats` is stated somewhere a property can take it from.
