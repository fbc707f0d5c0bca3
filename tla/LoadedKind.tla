------------------------------ MODULE LoadedKind ------------------------------
(***************************************************************************)
(* What the Profiler window promises about the files it shows, stated     *)
(* without its controls: one kind of file is loaded at a time, a file of   *)
(* the other kind is loaded only after Clear, and the figure only ever     *)
(* holds plots of the loaded kind.  ProfilerSession implements it with    *)
(* loaded as BarsFrame.mode and plotted as the kinds on the figure.        *)
(***************************************************************************)
CONSTANT Kinds      \* the kinds of file the window opens

None == ""

VARIABLES
  loaded,   \* the kind of the files loaded, None when nothing is
  plotted   \* the kinds with a plot on the figure

vars == << loaded, plotted >>

Init == loaded = None /\ plotted = {}

(* A file of kind k is loaded when nothing or the same kind is loaded;   *)
(* its plots join the figure (or the figure is left as it was when they  *)
(* are empty).                                                           *)
Load(k) ==
  /\ loaded \in {None, k}
  /\ loaded' = k
  /\ plotted' \in {plotted, plotted \cup {k}}

(* The figure is cleared and the loaded kind, if any, is drawn again. *)
Redraw ==
  /\ plotted' \in SUBSET ({loaded} \ {None})
  /\ UNCHANGED loaded

(* Clear unloads and clears the figure. *)
Unload ==
  /\ loaded' = None
  /\ plotted' = {}

Next == (\E k \in Kinds : Load(k)) \/ Redraw \/ Unload

Spec == Init /\ [][Next]_vars

=============================================================================
