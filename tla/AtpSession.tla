------------------------------ MODULE AtpSession ------------------------------
(***************************************************************************)
(* The handlers of the ATP File Generator window, App in src/utils/ui.py:  *)
(* the processor choice, Clear, Add ATP Profile (append_atp), Preview,     *)
(* Generate/Save (print_atp, also on the File menu and Ctrl+S), Open       *)
(* (open_atp, also on the menu and Ctrl+O) and the Dismiss button of the   *)
(* notification windows.  Each Tk handler runs to its end before the next  *)
(* event, so each is one action.                                           *)
(*                                                                         *)
(* The profile text is abstracted to its pieces: the copyright header      *)
(* get_copyright writes, and one profile per builder call named by the     *)
(* processor that made it.  What a builder puts in its profile is the      *)
(* subject of CpuGen, GpuGen and DpuGen; here only whether generate        *)
(* returns or raises matters.                                              *)
(***************************************************************************)
EXTENDS Integers, Sequences, FiniteSets

CONSTANTS
  MaxBuffer,         \* bound on the pieces in atp_string (appends)
  MaxNotifications   \* bound on the notification windows created

Builders == {"CPU", "DPU", "GPU"}
Processors == Builders \cup {"Generic"}
Buttons == {"generate", "add", "preview"}
Header == "header"
\* What line 16 of an opened file names: a builder, or something else.
FileKinds == Builders \cup {"other"}

VARIABLES
  processor,          \* self.processor
  atp_string,         \* self.atp_string, as its sequence of pieces
  generic_copyright,  \* self.generic_copyright
  form_ok,            \* per processor: generate returns on the form's values
  enabled,            \* the three buttons configure() sets
  frozen,             \* every other widget disabled by change_widget_state
  tops,               \* notification windows on screen
  top,                \* the window self.top refers to (0 before the first)
  created,            \* notification windows created so far
  saved               \* contents of the last file print_atp wrote

vars == << processor, atp_string, generic_copyright, form_ok, enabled,
           frozen, tops, top, created, saved >>

(* Every IntVar of the forms starts at (and Clear resets it to) 0: the     *)
(* data size 0 makes CPU_Gen and DPU_Gen raise ZeroDivisionError; GPU_Gen  *)
(* and Generic_Gen return.                                                 *)
ZeroForm == [p \in Processors |-> p \in {"GPU", "Generic"}]

(* The button states choose_processor_options configures. *)
ButtonsFor(p) ==
  IF p = "Generic" THEN [b \in Buttons |-> b = "add"]
  ELSE [b \in Buttons |-> b # "add"]

(* The buffer choose_processor_options leaves: self.atp_string = "". *)
ChosenBufferKept(buf) == buf

ChosenBuffer(buf) == << >>

(* choose_processor_options(): reset the buffer and the copyright flag, *)
(* and configure the three buttons for processor p.                     *)
ChooseProcessorOptions(p) ==
  /\ atp_string' = ChosenBuffer(atp_string)
  /\ generic_copyright' = "not added"
  /\ enabled' = ButtonsFor(p)

(* create_notification followed by change_widget_state(default, disable) *)
Notify ==
  /\ created < MaxNotifications
  /\ created' = created + 1
  /\ tops' = tops \cup {created + 1}
  /\ top' = created + 1
  /\ frozen' = TRUE
  /\ enabled' = [b \in Buttons |-> FALSE]

(* generate_atp(): a builder's generate replaces the buffer with its     *)
(* header and profile; for Generic the method does nothing.              *)
GeneratedBuffer ==
  IF processor \in Builders THEN << Header, processor >> ELSE atp_string

(* generate_atp raises before assigning when the form makes generate     *)
(* raise, and the calling handler ends there with nothing changed.       *)
GenerateReturns == processor \notin Builders \/ form_ok[processor]

(* The processor open_atp leaves: set from line 16 when that names a     *)
(* builder, unchanged otherwise.                                         *)
ProcessorOfFileRaw(kind, current) == kind

ProcessorOfFile(kind, current) == IF kind \in Builders THEN kind ELSE current

Init ==
  /\ processor = "CPU"
  /\ atp_string = << >>
  /\ generic_copyright = "not added"
  /\ form_ok = ZeroForm
  /\ enabled = [b \in Buttons |-> b # "add"]
  /\ frozen = FALSE
  /\ tops = {} /\ top = 0 /\ created = 0
  /\ saved = << >>

(* The OptionMenu command. *)
SelectProcessor(p) ==
  /\ ~frozen
  /\ processor' = p
  /\ ChooseProcessorOptions(p)
  /\ UNCHANGED << form_ok, frozen, tops, top, created, saved >>

(* Typing into the entries of the shown form. *)
EditForm(ok) ==
  /\ ~frozen
  /\ form_ok' = [form_ok EXCEPT ![processor] = ok]
  /\ UNCHANGED << processor, atp_string, generic_copyright, enabled, frozen,
                  tops, top, created, saved >>

(* clear_fields(default): empties the buffer and zeroes every entry; the *)
(* copyright flag is left as it is.                                      *)
ClearFields ==
  /\ ~frozen
  /\ atp_string' = << >>
  /\ form_ok' = ZeroForm
  /\ UNCHANGED << processor, generic_copyright, enabled, frozen, tops, top,
                  created, saved >>

(* append_atp: reading the Generic form raises on an entry that is not a *)
(* number, before anything is assigned.  Then Generic_Gen.generate, with  *)
(* the copyright only while the flag says "not added" (the buffer is then *)
(* replaced), appended otherwise.                                         *)
AppendAtp ==
  /\ enabled["add"]
  /\ form_ok["Generic"]
  /\ Len(atp_string) < MaxBuffer
  /\ IF generic_copyright = "not added"
       THEN /\ atp_string' = << Header, "Generic" >>
            /\ generic_copyright' = "added"
       ELSE /\ atp_string' = Append(atp_string, "Generic")
            /\ UNCHANGED generic_copyright
  /\ Notify
  /\ UNCHANGED << processor, form_ok, saved >>

PreviewAtp ==
  /\ enabled["preview"]
  /\ GenerateReturns
  /\ atp_string' = GeneratedBuffer
  /\ Notify
  /\ UNCHANGED << processor, generic_copyright, form_ok, saved >>

(* print_atp from the button, the File menu or Ctrl+S (the last two are  *)
(* never disabled): generate_atp, the save dialog, then the buffer is    *)
(* emptied whether a file was written or the dialog cancelled.           *)
PrintAtp(written) ==
  /\ GenerateReturns
  /\ saved' = IF written THEN GeneratedBuffer ELSE saved
  /\ atp_string' = << >>
  /\ UNCHANGED << processor, generic_copyright, form_ok, enabled, frozen,
                  tops, top, created >>

(* open_atp from the button, the File menu or Ctrl+O: the processor from  *)
(* line 16, the form from the comment lines, then                         *)
(* choose_processor_options.                                              *)
OpenAtp(kind, ok) ==
  /\ processor' = ProcessorOfFile(kind, processor)
  /\ form_ok' = IF processor' \in Builders
               THEN [form_ok EXCEPT ![processor'] = ok] ELSE form_ok
  /\ ChooseProcessorOptions(processor')
  /\ UNCHANGED << frozen, tops, top, created, saved >>

(* A comment line int() cannot parse raises after the processor is set:  *)
(* choose_processor_options is never reached.                            *)
OpenAtpFails(kind) ==
  /\ processor' = ProcessorOfFile(kind, processor)
  /\ UNCHANGED << atp_string, generic_copyright, form_ok, enabled, frozen,
                  tops, top, created, saved >>

(* dismiss_notification, from the Dismiss button or the window manager's *)
(* close of window w: destroys self.top, whichever window w is, and sets *)
(* every widget of the main window to normal.                            *)
Dismiss(w) ==
  /\ w \in tops
  /\ tops' = tops \ {top}
  /\ frozen' = FALSE
  /\ enabled' = [b \in Buttons |-> TRUE]
  /\ UNCHANGED << processor, atp_string, generic_copyright, form_ok, top,
                  created, saved >>

Next ==
  \/ \E p \in Processors : SelectProcessor(p)
  \/ \E ok \in BOOLEAN : EditForm(ok)
  \/ ClearFields
  \/ AppendAtp
  \/ PreviewAtp
  \/ \E written \in BOOLEAN : PrintAtp(written)
  \/ \E kind \in FileKinds, ok \in BOOLEAN : OpenAtp(kind, ok)
  \/ \E kind \in FileKinds : OpenAtpFails(kind)
  \/ \E w \in tops : Dismiss(w)

(* No fairness: every step is a user event. *)
Spec == Init /\ [][Next]_vars

(***************************************************************************)
(* Properties.                                                             *)
(***************************************************************************)

Pieces == {Header} \cup Processors

TypeOK ==
  /\ processor \in Processors
  /\ atp_string \in Seq(Pieces) /\ Len(atp_string) <= MaxBuffer
  /\ generic_copyright \in {"not added", "added"}
  /\ form_ok \in [Processors -> BOOLEAN]
  /\ enabled \in [Buttons -> BOOLEAN]
  /\ frozen \in BOOLEAN
  /\ tops \subseteq 1..MaxNotifications
  /\ top \in 0..MaxNotifications /\ created \in 0..MaxNotifications
  /\ saved \in Seq(Pieces)

(* The profiles of one kind only: Generic profiles appended in one        *)
(* session never end up in a file together with a CPU, DPU or GPU         *)
(* profile, whatever the order of processor changes, opens, appends,      *)
(* previews and saves.                                                    *)
ProfileKinds(buf) == { buf[i] : i \in DOMAIN buf } \ {Header}

SavedSingleKind == Cardinality(ProfileKinds(saved)) <= 1

(* Every file print_atp writes that holds a profile starts with the       *)
(* copyright header: generic_copyright says "added" only while the        *)
(* header is in the buffer.                                               *)
SavedFileHasHeader == saved # << >> => saved[1] = Header

(* Every notification window on screen can be dismissed: it is the       *)
(* window dismiss_notification destroys.                                  *)
NotificationsDismissable == \A w \in tops : w = top

=============================================================================
