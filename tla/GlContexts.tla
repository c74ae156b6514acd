----------------------------- MODULE GlContexts -----------------------------
(***************************************************************************)
(* gl_profile.c: what the client's OpenGL goes through until a frame is    *)
(* shown.  A pixel format remembers the profile it was asked for, the      *)
(* context made from it gets that profile and Darling's own contexts do    *)
(* not; the EGL config, the subwindow and its surface are given a visual   *)
(* that fits; its frames turn vsync off.                                   *)
(*                                                                         *)
(* An object is its address, which the next object of its kind may get.  A *)
(* config stands for its native visual.  Logging and geometry are left out. *)
(***************************************************************************)
EXTENDS Naturals, Sequences, SequencesExt

CONSTANTS
    Threads,
    Formats, Contexts,   \* addresses of NSOpenGLPixelFormat and CGL context objects
    None,
    Slots,               \* 32 in `formats`
    Configured,          \* 8 in `configured`
    Visuals, Screen,     \* X visuals; the screen's default one
    Machines             \* drivers and environments

\* configs in EGL's order and those for windows and OpenGL, the visual of
\* Darling's windows, whether a surface needs the config of its window, the
\* Core versions, where the X server answers this process, whether
\* MACOBLOX_GL_COMPAT, MACOBLOX_KEEP_SUBWINDOW_VISUAL and MACOBLOX_VSYNC are unset,
\* and the addresses that objects get.
Machine == [configs : Seq(Visuals), capable : SUBSET Visuals, inherited : Visuals, picky : BOOLEAN,
            versions : SUBSET {"4.1", "3.2"}, answers : SUBSET {"config", "surface"},
            core : BOOLEAN, replace : BOOLEAN, fast : BOOLEAN,
            formats : SUBSET Formats, contexts : SUBSET Contexts]

ASSUME GlAssumption ==
    /\ None \notin Formats \cup Contexts \cup Visuals
    /\ Slots \in Nat \ {0} /\ Configured \in Nat \ {0}
    /\ Screen \in Visuals
    /\ \A m \in Machines : m \in Machine /\ m.configs # <<>>

VARIABLES
    machine,
    formats,      \* the table: the format in a slot and whether it asked for Core
    wanted,       \* wanted_profile of each thread: whether it is Core
    configured,   \* the contexts whose swap interval was set
    step,         \* where each thread is, and with which object
    format,       \* the pixel formats that exist
    context,      \* the client's contexts that exist
    darlings      \* observation: profiles that Darling's own contexts got

vars == <<machine, formats, wanted, configured, step, format, context, darlings>>

NoFormat == [asked |-> FALSE, config |-> None, lost |-> FALSE]
NoContext == [profile |-> "none", asked |-> FALSE, lost |-> FALSE,
              config |-> None, window |-> None, surface |-> FALSE, interval |-> 1, stale |-> FALSE]
NoStep == [at |-> "out", on |-> None, slot |-> 0]

Init ==
    /\ machine \in Machines
    /\ formats = [s \in 1..Slots |-> [format |-> None, core |-> FALSE]]
    /\ wanted = [t \in Threads |-> FALSE]
    /\ configured = [s \in 1..Configured |-> None]
    /\ step = [t \in Threads |-> NoStep]
    /\ format = [f \in Formats |-> NoFormat]
    /\ context = [c \in Contexts |-> NoContext]
    /\ darlings = {}

At(t, where) == step[t].at = where
Goes(t, where, object) == step' = [step EXCEPT ![t] = [NoStep EXCEPT !.at = where, !.on = object]]
Lives(c) == context[c].profile # "none"
------------------------------------------------------------------------------
(* Pixel formats *)

\* macoblox_raw_x_visuals has an answer.
Answers(where) == where \in machine.answers

\* config_for_visual
ConfigFor(visual) == IF visual \in machine.capable THEN visual ELSE None

\* macoblox_eglChooseConfig for Darling's attributes: the first config, or one
\* for the screen when that has another visual.
ChooseConfig ==
    LET first  == Head(machine.configs)
        better == ConfigFor(Screen)
    IN  IF Answers("config") /\ first # Screen /\ better # None THEN better ELSE first

\* Mutant: does not look for the address first.
SlotForEmpty(f) ==
    LET usable == {s \in 1..Slots : formats[s].format = None}
    IN  IF usable = {} THEN Slots ELSE CHOOSE s \in usable : \A u \in usable : s <= u

\* The slot that macoblox_note_pixel_format takes: the one of this address, the
\* first empty one, or the last.  (A slot that None is noted in stays empty.)
SlotFor(f) ==
    LET usable == {s \in 1..Slots : formats[s].format \in {f, None}}
    IN  IF usable = {} THEN Slots ELSE CHOOSE s \in usable : \A u \in usable : s <= u

\* Mutant: an address it has seen keeps its entry.
NoteFormatOnce(f, core) ==
    LET s == SlotFor(f)
    IN  formats' = IF formats[s].format = f THEN formats
                   ELSE [formats EXCEPT ![s] = [format |-> f, core |-> core]]

NoteFormat(f, core) == formats' = [formats EXCEPT ![SlotFor(f)] = [format |-> f, core |-> core]]

\* The initializer's hook: Darling makes a format or fails (None), the attributes are
\* noted either way.  The entry this may push out is lost to the format that had it.
NewFormat(t) ==
    /\ At(t, "out")
    /\ \E f \in machine.formats \cup {None}, core \in BOOLEAN :
           /\ f \in Formats => format[f].config = None
           /\ NoteFormat(f, core)
           /\ format' = [g \in Formats |->
                  IF g = f THEN [asked |-> core, config |-> ChooseConfig, lost |-> FALSE]
                  ELSE IF g = formats[SlotFor(f)].format THEN [format[g] EXCEPT !.lost = TRUE]
                  ELSE format[g]]
    /\ UNCHANGED <<machine, wanted, configured, step, context, darlings>>

ReleaseFormat ==
    /\ \E f \in Formats :
           /\ format[f].config # None /\ \A t \in Threads : step[t].on # f
           /\ format' = [format EXCEPT ![f] = NoFormat]
    /\ UNCHANGED <<machine, formats, wanted, configured, step, context, darlings>>
------------------------------------------------------------------------------
(* Contexts *)

\* The hook up to macoblox_prepare_context.
PrepareContext(t) ==
    /\ At(t, "out")
    /\ \E f \in Formats :
           /\ format[f].config # None
           /\ wanted' = [wanted EXCEPT ![t] =
                  machine.core /\ \E s \in 1..Slots : formats[s].format = f /\ formats[s].core]
           /\ Goes(t, "prepared", f)
    /\ UNCHANGED <<machine, formats, configured, format, context, darlings>>

\* macoblox_eglCreateContext's answer: Core 4.1, 3.2, or what was asked.
Profile(t) ==
    IF ~wanted[t] THEN "compatibility"
    ELSE IF "4.1" \in machine.versions THEN "4.1"
    ELSE IF "3.2" \in machine.versions THEN "3.2"
    ELSE "compatibility"

\* Darling's initializer makes a context, or fails before.
CreateContext(t) ==
    LET f == step[t].on
    IN  /\ At(t, "prepared")
        /\ \/ \E c \in machine.contexts :
                  /\ ~Lives(c)
                  /\ context' = [context EXCEPT ![c] = [NoContext EXCEPT
                         !.profile = Profile(t), !.asked = format[f].asked, !.lost = format[f].lost,
                         !.config = format[f].config]]
                  /\ wanted' = [wanted EXCEPT ![t] = FALSE]
           \/ UNCHANGED <<context, wanted>>
        /\ Goes(t, "created", f)
        /\ UNCHANGED <<machine, formats, configured, format, darlings>>

\* Mutant: leaves the mark when no context was made.
FinishContextBare(t) ==
    /\ At(t, "created")
    /\ step' = [step EXCEPT ![t] = NoStep]
    /\ UNCHANGED <<machine, formats, wanted, configured, format, context, darlings>>

FinishContext(t) ==
    /\ At(t, "created")
    /\ wanted' = [wanted EXCEPT ![t] = FALSE]
    /\ step' = [step EXCEPT ![t] = NoStep]
    /\ UNCHANGED <<machine, formats, configured, format, context, darlings>>

\* Darling makes one of its own, for its layers and windows.
DarlingContext(t) ==
    /\ At(t, "out")
    /\ darlings' = darlings \cup {Profile(t)}
    /\ UNCHANGED <<machine, formats, wanted, configured, step, format, context>>

DestroyContext ==
    /\ \E c \in Contexts :
           /\ Lives(c) /\ \A t \in Threads : step[t].on # c
           /\ context' = [context EXCEPT ![c] = NoContext]
    /\ UNCHANGED <<machine, formats, wanted, configured, step, format, darlings>>
------------------------------------------------------------------------------
(* Windows and surfaces *)

\* macoblox_replace_gl_subwindow: a subwindow with the screen's visual, unless the
\* environment forbids it.
Replacements == IF machine.replace THEN {Screen} ELSE {}

\* The subwindow's hook: Darling's own stays where Xlib lacks a function or X a window.
SubwindowVisuals == {machine.inherited} \cup Replacements

\* Mutant: the retry takes a config for the screen, not for the window.
SurfaceMadeForScreen(config, window) ==
    \/ ~machine.picky \/ config = window
    \/ /\ Answers("surface")
       /\ ConfigFor(Screen) \notin {None, config}
       /\ ConfigFor(Screen) = window

\* macoblox_eglCreateWindowSurface: with the config, then with the window's.
SurfaceMade(config, window) ==
    \/ ~machine.picky \/ config = window
    \/ Answers("surface") /\ ConfigFor(window) \notin {None, config}

IsConfigured(c) == \E s \in 1..Configured : configured[s] = c

\* setView: the client shows the context in a view, perhaps not its first: a new
\* subwindow and surface, which has the driver's own swap interval (1).
Attach(t) ==
    /\ At(t, "out")
    /\ \E c \in Contexts, visual \in SubwindowVisuals :
           /\ Lives(c) /\ \A u \in Threads : step[u].on # c
           /\ context' = [context EXCEPT ![c] = [context[c] EXCEPT
                  !.window = visual, !.surface = SurfaceMade(context[c].config, visual),
                  !.interval = 1, !.stale = IsConfigured(c)]]
    /\ UNCHANGED <<machine, formats, wanted, configured, step, format, darlings>>
------------------------------------------------------------------------------
(* Frames *)

\* The first free slot of `configured`, 0 without one.
FreeSlot == SelectInSeq(configured, LAMBDA x : x = None)

\* Mutant: the context is noted although the display refused.
SlotToNoteAnyway(set) == FreeSlot

\* The slot to note a context in after its interval was set, none (0) after a refusal.
SlotToNote(set) == IF set THEN FreeSlot ELSE 0

\* macoblox_frame_presenting up to the swap interval, which the display may refuse:
\* it stays as it was, and the next frame asks again.  No lock, so two threads may
\* find the same free slot.
Present(t) ==
    /\ At(t, "out")
    /\ \E c \in Contexts :
           /\ Lives(c) /\ context[c].surface
           /\ \A u \in Threads : step[u].on # c
           /\ IF machine.fast /\ ~IsConfigured(c)
              THEN \E set \in BOOLEAN :
                  /\ context' = IF set THEN [context EXCEPT ![c].interval = 0, ![c].stale = FALSE]
                                ELSE context
                  /\ step' = [step EXCEPT ![t] = [at |-> "frame", on |-> c,
                                                  slot |-> SlotToNote(set)]]
              ELSE Goes(t, "frame", c) /\ UNCHANGED context
    /\ UNCHANGED <<machine, formats, wanted, configured, format, darlings>>

\* It takes the slot, and Darling shows the frame.
ShowFrame(t) ==
    /\ At(t, "frame")
    /\ configured' = IF step[t].slot = 0 THEN configured
                     ELSE [configured EXCEPT ![step[t].slot] = step[t].on]
    /\ step' = [step EXCEPT ![t] = NoStep]
    /\ UNCHANGED <<machine, formats, wanted, format, context, darlings>>

Next ==
    \/ \E t \in Threads :
           NewFormat(t) \/ PrepareContext(t) \/ CreateContext(t) \/ FinishContext(t)
               \/ DarlingContext(t) \/ Attach(t) \/ Present(t) \/ ShowFrame(t)
    \/ ReleaseFormat \/ DestroyContext

Spec == Init /\ [][Next]_vars
------------------------------------------------------------------------------
\* The state has its types, and no address has two entries in the table.
TypeOK ==
    /\ machine \in Machines
    /\ formats \in [1..Slots -> [format : Formats \cup {None}, core : BOOLEAN]]
    /\ \A s, u \in 1..Slots : formats[s].format = formats[u].format /\ s # u => formats[s].format = None
    /\ wanted \in [Threads -> BOOLEAN] /\ configured \in [1..Configured -> Contexts \cup {None}]
    /\ step \in [Threads -> [at : {"out", "prepared", "created", "frame"},
                             on : Formats \cup Contexts \cup {None}, slot : 0..Configured]]
    /\ format \in [Formats -> [asked : BOOLEAN, config : Visuals \cup {None}, lost : BOOLEAN]]
    /\ context \in [Contexts -> [profile : {"none", "4.1", "3.2", "compatibility"}, asked : BOOLEAN,
                                 lost : BOOLEAN, config : Visuals \cup {None},
                                 window : Visuals \cup {None}, surface : BOOLEAN,
                                 interval : 0..1, stale : BOOLEAN]]
    /\ darlings \subseteq {"4.1", "3.2", "compatibility"}

\* Of two profiles the one the code prefers.
Newer(profile, than) == profile # than /\ (profile = "4.1" \/ than = "compatibility")

\* A context whose own pixel format asked for Core has the newest Core version there
\* is (Compatibility if there is none), and every other one has Compatibility,
\* whatever other threads create meanwhile, whoever had the format's address before
\* and whichever initializers failed.  A format pushed out of the full table, by
\* another one or by a failure, is the exception of the code: its contexts may be
\* Compatibility.
ProfileAsAsked ==
    \A c \in Contexts : Lives(c) =>
        LET asked   == machine.core /\ context[c].asked
            offered == {"compatibility"} \cup IF asked THEN machine.versions ELSE {}
        IN  \/ /\ context[c].profile \in offered
               /\ \A profile \in offered : ~Newer(profile, context[c].profile)
            \/ context[c].profile = "compatibility" /\ context[c].lost

\* Darling's own contexts stay Compatibility on every thread, also after an
\* initializer of the client's that failed.
DarlingsCompatible == darlings \subseteq {"compatibility"}

\* A window that some config fits gets its surface, on a driver that wants the
\* visuals to agree too, if X answers when the surface is made, or did when
\* the config was chosen and the window has the screen's visual.
SurfaceWhereOneFits ==
    \A c \in Contexts :
        /\ context[c].window \in machine.capable
        /\ Answers("surface") \/ (Answers("config") /\ context[c].window = Screen)
        => context[c].surface

\* A context whose swap interval the code will not set again, because its address is
\* in `configured`, has it at 0: a refusal, a full table or a slot that two threads
\* took never leaves a context noted and unset; its next frame asks again.  The
\* exception of the code is a surface made while the address was noted already, by
\* setView: again or by a context that a destroyed one left its address to: it keeps
\* vsync for good, although the interval "is set to 0 before the first frame of each
\* context" (gl_profile.c:307-308).
NotedAreSet ==
    \A c \in Contexts :
        context[c].surface /\ IsConfigured(c) => context[c].interval = 0 \/ context[c].stale
==============================================================================
