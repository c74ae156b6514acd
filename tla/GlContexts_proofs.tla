-------------------------- MODULE GlContexts_proofs --------------------------
(***************************************************************************)
(* Each context has the newest profile its own format allows, Darling's    *)
(* stay as they were, a window that a config fits gets its surface, and a  *)
(* context is noted only with its swap interval set, for any number of     *)
(* threads, formats, contexts and slots and on every driver.  The          *)
(* invariant follows a format's entry from the table to the mark of the    *)
(* thread that prepares a context, and from there into the context; and a  *)
(* swap interval from the frame that sets it to the table of contexts.     *)
(***************************************************************************)
EXTENDS GlContexts, FiniteSetTheorems, TLAPS

Entries == [format : Formats \cup {None}, core : BOOLEAN]
FormatType == [asked : BOOLEAN, config : Visuals \cup {None}, lost : BOOLEAN]
ContextType == [profile : {"none", "4.1", "3.2", "compatibility"}, asked : BOOLEAN,
                lost : BOOLEAN, config : Visuals \cup {None},
                window : Visuals \cup {None}, surface : BOOLEAN,
                interval : 0..1, stale : BOOLEAN]
StepType == [at : {"out", "prepared", "created", "frame"},
             on : Formats \cup Contexts \cup {None}, slot : 0..Configured]

Exists(f) == format[f].config # None
VsyncSet(c) == context[c].interval = 0 \/ context[c].stale

\* The newest Core version there is, Compatibility without one.
Newest == IF "4.1" \in machine.versions THEN "4.1"
          ELSE IF "3.2" \in machine.versions THEN "3.2" ELSE "compatibility"

\* The table fills from the front, so the address is found before an empty slot.
Prefix == \A s, u \in 1..Slots : s < u /\ formats[s].format = None => formats[u].format = None

\* A format's entry says what was asked of it; it has one unless it was pushed out.
FormatOK(f) ==
    Exists(f) =>
        /\ format[f].config = ChooseConfig
        /\ \A s \in 1..Slots : formats[s].format = f => formats[s].core = format[f].asked
        /\ format[f].lost \/ \E s \in 1..Slots : formats[s].format = f

\* The mark of a thread says what the format it is about was asked for, and is
\* clear outside; a frame that is about to note its context has set its interval.
StepOK(t) ==
    /\ step[t].at \in {"out", "frame"} => ~wanted[t]
    /\ step[t].at = "prepared" =>
           LET f == step[t].on
           IN  /\ f \in Formats /\ Exists(f)
               /\ wanted[t] => machine.core /\ format[f].asked
               /\ machine.core /\ format[f].asked => wanted[t] \/ format[f].lost
    /\ step[t].at = "frame" =>
           /\ step[t].on \in Contexts /\ Lives(step[t].on)
           /\ step[t].slot # 0 => VsyncSet(step[t].on)

\* A context has its format's config and the profile it asked for; noted, with a
\* surface, its swap interval is set.
ContextOK(c) ==
    /\ context[c].window # None => context[c].surface = SurfaceMade(context[c].config, context[c].window)
    /\ context[c].surface /\ IsConfigured(c) => VsyncSet(c)
    /\ IF ~Lives(c) THEN context[c].window = None
       ELSE /\ context[c].config = ChooseConfig
            /\ context[c].profile # "compatibility" =>
                   machine.core /\ context[c].asked /\ context[c].profile = Newest
            /\ context[c].profile = "compatibility" /\ machine.core /\ context[c].asked =>
                   context[c].lost \/ machine.versions = {}

GlInv ==
    /\ TypeOK
    /\ Prefix
    /\ \A f \in Formats : FormatOK(f)
    /\ \A t \in Threads : StepOK(t)
    /\ \A c \in Contexts : ContextOK(c)
    /\ DarlingsCompatible
------------------------------------------------------------------------------

\* A set of numbers that is not empty has a least one.
LEMMA Least ==
    ASSUME NEW T \in SUBSET Nat, T # {}
    PROVE  \E x \in T : \A y \in T : x <= y
<1> DEFINE below == {0..n : n \in T}
<1>1. below \subseteq FiniteSubsetsOf(Nat) /\ below # {}
  <2>1. \A n \in T : n \in Int /\ 0..n \subseteq Nat
    OBVIOUS
  <2>2. \A n \in T : IsFiniteSet(0..n)
    BY <2>1, FS_Interval
  <2> QED
    BY <2>1, <2>2 DEF FiniteSubsetsOf
<1>2. IsWellFoundedOn(StrictSubsetOrdering(Nat), FiniteSubsetsOf(Nat))
  BY FS_StrictSubsetOrderingWellFounded
<1> HIDE DEF below
<1>3. PICK m \in below : \A b \in below : ~ (<<b, m>> \in StrictSubsetOrdering(Nat))
  BY <1>1, <1>2, WFMin
<1>4. PICK x \in T : m = 0..x
  BY <1>3 DEF below
<1>5. ASSUME NEW y \in T, y < x PROVE FALSE
  <2>1. 0..y \in below
    BY DEF below
  <2>2. 0..y \subseteq 0..x /\ 0..y # 0..x /\ 0..y \in SUBSET Nat /\ 0..x \in SUBSET Nat
    <3>1. x \in 0..x /\ x \notin 0..y
      BY <1>5
    <3> QED
      BY <1>5, <3>1
  <2>3. <<0..y, 0..x>> \in StrictSubsetOrdering(Nat)
    BY <2>2 DEF StrictSubsetOrdering
  <2> QED
    BY <1>3, <1>4, <2>1, <2>3
<1> QED
  BY <1>5

\* What is known of the machine.
LEMMA MachineFacts ==
    ASSUME machine \in Machines
    PROVE  /\ machine.configs \in Seq(Visuals) /\ machine.configs # <<>>
           /\ machine.inherited \in Visuals /\ machine.picky \in BOOLEAN
           /\ machine.versions \subseteq {"4.1", "3.2"} /\ machine.core \in BOOLEAN
           /\ machine.fast \in BOOLEAN /\ machine.replace \in BOOLEAN
           /\ machine.formats \subseteq Formats /\ machine.contexts \subseteq Contexts
           /\ ChooseConfig \in Visuals
<1>1. machine \in Machine /\ machine.configs # <<>>
  BY GlAssumption
<1>2. /\ machine.configs \in Seq(Visuals)
      /\ machine.inherited \in Visuals /\ machine.picky \in BOOLEAN
      /\ machine.versions \subseteq {"4.1", "3.2"} /\ machine.core \in BOOLEAN
      /\ machine.fast \in BOOLEAN /\ machine.replace \in BOOLEAN
      /\ machine.formats \subseteq Formats /\ machine.contexts \subseteq Contexts
  BY <1>1 DEF Machine
<1>3. Head(machine.configs) \in Visuals
  BY <1>1, <1>2
<1>4. ChooseConfig \in Visuals
  BY <1>3, GlAssumption DEF ChooseConfig, ConfigFor
<1> QED
  BY <1>1, <1>2, <1>4

\* The slot a format, or a failure, is noted in: before it there is neither the format
\* nor an empty one.
LEMMA SlotFacts ==
    ASSUME GlInv, NEW f \in Formats \cup {None}
    PROVE  /\ SlotFor(f) \in 1..Slots
           /\ \A s \in 1..Slots : formats[s].format \in {f, None} =>
                 /\ SlotFor(f) <= s
                 /\ formats[SlotFor(f)].format \in {f, None}
           /\ SlotFor(f) # Slots => formats[SlotFor(f)].format \in {f, None}
<1> DEFINE usable == {s \in 1..Slots : formats[s].format \in {f, None}}
<1>1. CASE usable = {}
  BY <1>1, GlAssumption DEF SlotFor
<1>2. CASE usable # {}
  <2>1. usable \in SUBSET Nat
    BY GlAssumption
  <2>2. \E s \in usable : \A u \in usable : s <= u
    <3> HIDE DEF usable
    <3> QED
      BY <1>2, <2>1, Least
  <2>3. SlotFor(f) = CHOOSE s \in usable : \A u \in usable : s <= u
    BY <1>2 DEF SlotFor
  <2>4. SlotFor(f) \in usable /\ \A u \in usable : SlotFor(f) <= u
    <3> HIDE DEF usable
    <3> QED
      BY <2>2, <2>3
  <2> QED
    BY <2>4
<1> QED
  BY <1>1, <1>2

\* The table after a format or a failure was noted: the format's only entry is the new
\* one, no other changed.
LEMMA NotedFacts ==
    ASSUME GlInv, NEW f \in Formats \cup {None}, NEW core \in BOOLEAN, NoteFormat(f, core)
    PROVE  /\ formats' \in [1..Slots -> Entries]
           /\ SlotFor(f) \in 1..Slots
           /\ formats'[SlotFor(f)].format = f /\ formats'[SlotFor(f)].core = core
           /\ \A s \in 1..Slots \ {SlotFor(f)} : formats'[s] = formats[s] /\ (formats[s].format = f => f = None)
           /\ \A s, u \in 1..Slots :
                 formats'[s].format = formats'[u].format /\ s # u => formats'[s].format = None
           /\ Prefix'
<1> DEFINE slot == SlotFor(f)
<1>1. /\ slot \in 1..Slots
      /\ \A s \in 1..Slots : formats[s].format \in {f, None} =>
             slot <= s /\ formats[slot].format \in {f, None}
      /\ slot # Slots => formats[slot].format \in {f, None}
  BY SlotFacts
<1>2. /\ formats \in [1..Slots -> Entries]
      /\ \A s, u \in 1..Slots :
             formats[s].format = formats[u].format /\ s # u => formats[s].format = None
      /\ Prefix
  BY GlAssumption DEF GlInv, TypeOK, Entries
<1>3. formats' = [formats EXCEPT ![slot] = [format |-> f, core |-> core]]
  BY DEF NoteFormat
<1> HIDE DEF slot
<1>4. [format |-> f, core |-> core] \in Entries
  BY DEF Entries
<1>5. /\ formats' \in [1..Slots -> Entries]
      /\ formats'[slot] = [format |-> f, core |-> core]
      /\ \A s \in 1..Slots \ {slot} : formats'[s] = formats[s]
  BY <1>1, <1>2, <1>3, <1>4
<1>6. ASSUME NEW s \in 1..Slots \ {slot}, f # None PROVE formats[s].format # f
  <2>1. CASE formats[slot].format = None
    <3>1. SUFFICES ASSUME formats[s].format = f PROVE FALSE
      OBVIOUS
    <3>2. slot < s
      BY <1>1, <3>1, GlAssumption
    <3>3. formats[s].format = None
      BY <1>1, <1>2, <2>1, <3>2 DEF Prefix
    <3> QED
      BY <1>6, <3>1, <3>3
  <2>2. CASE formats[slot].format # None
    BY <1>1, <1>2, <1>6, <2>2
  <2> QED
    BY <2>1, <2>2
<1>7. Prefix'
  <2> SUFFICES ASSUME NEW s \in 1..Slots, NEW u \in 1..Slots, s < u, formats'[s].format = None
               PROVE  formats'[u].format = None
    BY DEF Prefix
  <2>1. CASE s # slot
    <3>1. formats[s].format = None
      BY <1>5, <2>1
    <3>2. slot < s
      BY <1>1, <2>1, <3>1, GlAssumption
    <3>3. u # slot
      BY <1>1, <3>2, GlAssumption
    <3> QED
      BY <1>2, <1>5, <3>1, <3>3 DEF Prefix
  <2>2. CASE s = slot
    <3>1. u # slot /\ formats'[u] = formats[u]
      BY <1>5, <2>2, GlAssumption
    <3>2. formats[slot].format = None
      <4>1. slot # Slots /\ f = None
        BY <1>1, <1>5, <2>2, GlAssumption
      <4> QED
        BY <1>1, <4>1
    <3> QED
      BY <1>2, <2>2, <3>1, <3>2 DEF Prefix
  <2> QED
    BY <2>1, <2>2
<1> QED
  BY <1>1, <1>2, <1>5, <1>6, <1>7 DEF slot
------------------------------------------------------------------------------

TableTypes == /\ formats \in [1..Slots -> Entries]
              /\ \A s, u \in 1..Slots :
                    formats[s].format = formats[u].format /\ s # u => formats[s].format = None
ThreadTypes == wanted \in [Threads -> BOOLEAN] /\ step \in [Threads -> StepType]
ObjectTypes == /\ configured \in [1..Configured -> Contexts \cup {None}]
               /\ format \in [Formats -> FormatType] /\ context \in [Contexts -> ContextType]
               /\ darlings \subseteq {"4.1", "3.2", "compatibility"}

\* The type invariant, part by part, before and after a step.
Types == machine \in Machines /\ TableTypes /\ ThreadTypes /\ ObjectTypes
LEMMA TypeParts == (TypeOK <=> Types) /\ (TypeOK' <=> Types')
  BY DEF TypeOK, Types, TableTypes, ThreadTypes, ObjectTypes, Entries, FormatType, ContextType,
         StepType

\* What does not depend on a thread's step or on its mark.
LEMMA SameMachine ==
    ASSUME machine' = machine
    PROVE  /\ ChooseConfig' = ChooseConfig /\ Newest' = Newest
           /\ \A v, w : SurfaceMade(v, w)' = SurfaceMade(v, w)
  BY DEF ChooseConfig, ConfigFor, Answers, SurfaceMade, Newest

\* A thread goes to another step.
LEMMA GoesTo ==
    ASSUME ThreadTypes, NEW t \in Threads, NEW at \in {"out", "prepared", "created", "frame"},
           NEW on \in Formats \cup Contexts, Goes(t, at, on)
    PROVE  /\ step' \in [Threads -> StepType]
           /\ step'[t].at = at /\ step'[t].on = on
           /\ \A u \in Threads \ {t} : step'[u] = step[u]
<1>1. PICK r : r = [NoStep EXCEPT !.at = at, !.on = on]
  OBVIOUS
<1>2. r = [at |-> at, on |-> on, slot |-> 0]
  BY <1>1 DEF NoStep
<1>3. r \in StepType /\ r.at = at /\ r.on = on
  BY <1>2, GlAssumption DEF StepType
<1>4. step' = [step EXCEPT ![t] = r]
  BY <1>1 DEF Goes
<1> QED
  BY <1>3, <1>4 DEF ThreadTypes

\* A thread is out of its call.
LEMMA GoesOut ==
    ASSUME ThreadTypes, NEW t \in Threads, step' = [step EXCEPT ![t] = NoStep]
    PROVE  /\ step' \in [Threads -> StepType] /\ step'[t].at = "out"
           /\ \A u \in Threads \ {t} : step'[u] = step[u]
  BY GlAssumption DEF ThreadTypes, NoStep, StepType

\* One context changes.
LEMMA OneContext ==
    ASSUME ObjectTypes, NEW c \in Contexts, NEW r \in ContextType,
           context' = [context EXCEPT ![c] = r]
    PROVE  /\ context' \in [Contexts -> ContextType] /\ context'[c] = r
           /\ \A d \in Contexts \ {c} : context'[d] = context[d]
  BY DEF ObjectTypes

\* What is said of a format, a thread and a context, when its own part of the state stays.
LEMMA FormatKept ==
    ASSUME NEW f \in Formats, FormatOK(f), machine' = machine, formats' = formats,
           format'[f] = format[f]
    PROVE  FormatOK(f)'
  BY SameMachine DEF FormatOK, Exists

LEMMA StepKept ==
    ASSUME NEW t \in Threads, StepOK(t), machine' = machine, step'[t] = step[t],
           wanted'[t] = wanted[t], format' = format,
           step[t].at = "frame" => context'[step[t].on] = context[step[t].on]
    PROVE  StepOK(t)'
  BY DEF StepOK, Exists, Lives, VsyncSet

LEMMA ContextKept ==
    ASSUME NEW c \in Contexts, ContextOK(c), machine' = machine, context'[c] = context[c],
           IsConfigured(c)' => IsConfigured(c) \/ VsyncSet(c)
    PROVE  ContextOK(c)'
<1>1. /\ ChooseConfig' = ChooseConfig /\ Newest' = Newest
      /\ \A v, w : SurfaceMade(v, w)' = SurfaceMade(v, w)
  BY SameMachine
<1>2. Lives(c)' = Lives(c) /\ VsyncSet(c)' = VsyncSet(c)
  BY DEF Lives, VsyncSet
<1>3. context[c].window # None =>
          context[c].surface = SurfaceMade(context[c].config, context[c].window)
  BY DEF ContextOK
<1>4. context'[c].window # None =>
          context'[c].surface = SurfaceMade(context[c].config, context[c].window)'
  BY <1>1, <1>3 DEF SurfaceMade
<1>5. CASE ~Lives(c)
  BY <1>2, <1>4, <1>5 DEF ContextOK
<1>6. CASE Lives(c)
  BY <1>1, <1>2, <1>4, <1>6 DEF ContextOK
<1> QED
  BY <1>5, <1>6
------------------------------------------------------------------------------

\* Initially there is nothing.
LEMMA InitInv == Init => GlInv
<1> SUFFICES ASSUME Init PROVE GlInv
  OBVIOUS
<1>1. /\ NoFormat \in FormatType /\ NoFormat.config = None
      /\ NoContext \in ContextType /\ NoContext.profile = "none" /\ NoContext.window = None
      /\ NoContext.surface = FALSE
      /\ NoStep \in StepType /\ NoStep.at = "out"
  BY GlAssumption DEF NoFormat, FormatType, NoContext, ContextType, NoStep, StepType
<1>2. Types
  BY <1>1, GlAssumption DEF Init, Types, TableTypes, ThreadTypes, ObjectTypes, Entries
<1>3. TypeOK
  BY <1>2, TypeParts
<1> QED
  BY <1>1, <1>3 DEF Init, GlInv, Prefix, FormatOK, Exists, StepOK, ContextOK, Lives,
                    DarlingsCompatible

\* A new format has its own entry; the one it pushed out is marked as lost.
LEMMA NewFormatInv == ASSUME GlInv, NEW t \in Threads, NewFormat(t) PROVE GlInv'
<1> DEFINE Noted(f, core) ==
           /\ f \in Formats => format[f].config = None
           /\ NoteFormat(f, core)
           /\ format' = [g \in Formats |->
                  IF g = f THEN [asked |-> core, config |-> ChooseConfig, lost |-> FALSE]
                  ELSE IF g = formats[SlotFor(f)].format THEN [format[g] EXCEPT !.lost = TRUE]
                  ELSE format[g]]
<1>1. PICK f \in machine.formats \cup {None}, core \in BOOLEAN : Noted(f, core)
  BY DEF NewFormat
<1>2. /\ f \in Formats => format[f].config = None
      /\ NoteFormat(f, core)
      /\ format' = [g \in Formats |->
             IF g = f THEN [asked |-> core, config |-> ChooseConfig, lost |-> FALSE]
             ELSE IF g = formats[SlotFor(f)].format THEN [format[g] EXCEPT !.lost = TRUE]
             ELSE format[g]]
      /\ UNCHANGED <<machine, wanted, configured, step, context, darlings>>
  BY <1>1 DEF NewFormat
<1> HIDE DEF Noted
<1>3. f \in Formats \cup {None} /\ None \notin Formats /\ ChooseConfig \in Visuals /\ Types
  BY MachineFacts, TypeParts, GlAssumption DEF GlInv, Types
<1> DEFINE slot == SlotFor(f)
<1>4. /\ formats' \in [1..Slots -> Entries]
      /\ slot \in 1..Slots
      /\ formats'[slot].format = f /\ formats'[slot].core = core
      /\ \A s \in 1..Slots \ {slot} :
             formats'[s] = formats[s] /\ (formats[s].format = f => f = None)
      /\ \A s, u \in 1..Slots :
             formats'[s].format = formats'[u].format /\ s # u => formats'[s].format = None
      /\ Prefix'
  BY <1>2, <1>3, NotedFacts
<1> HIDE DEF slot
<1>5. /\ f \in Formats => /\ format'[f].asked = core /\ format'[f].config = ChooseConfig
                          /\ format'[f] \in FormatType
      /\ \A g \in Formats \ {f} :
             /\ format'[g].asked = format[g].asked /\ format'[g].config = format[g].config
             /\ format'[g].lost <=> format[g].lost \/ formats[slot].format = g
             /\ format'[g] \in FormatType
  <2>1. f \in Formats => format'[f] = [asked |-> core, config |-> ChooseConfig, lost |-> FALSE]
    BY <1>2
  <2>2. ASSUME NEW g \in Formats \ {f}
        PROVE  /\ format'[g].asked = format[g].asked /\ format'[g].config = format[g].config
               /\ format'[g].lost <=> format[g].lost \/ formats[slot].format = g
               /\ format'[g] \in FormatType
    <3>1. format[g] \in FormatType
      BY <1>3 DEF Types, ObjectTypes
    <3>2. format'[g] = IF formats[slot].format = g THEN [format[g] EXCEPT !.lost = TRUE]
                       ELSE format[g]
      BY <1>2 DEF slot
    <3> QED
      BY <3>1, <3>2 DEF FormatType
  <2>3. ASSUME f \in Formats
        PROVE  /\ format'[f].asked = core /\ format'[f].config = ChooseConfig
               /\ format'[f] \in FormatType
    <3>1. PICK r : r = [asked |-> core, config |-> ChooseConfig, lost |-> FALSE]
      OBVIOUS
    <3>2. r \in FormatType /\ r.asked = core /\ r.config = ChooseConfig
      BY <1>3, <3>1 DEF FormatType
    <3> QED
      BY <2>1, <2>3, <3>1, <3>2
  <2> QED
    BY <2>2, <2>3
<1>6. TypeOK'
  <2>1. format' \in [Formats -> FormatType]
    BY <1>2, <1>5
  <2>2. Types'
    BY <1>2, <1>3, <1>4, <2>1 DEF Types, TableTypes, ThreadTypes, ObjectTypes
  <2> QED
    BY <2>2, TypeParts
<1>7. ASSUME NEW g \in Formats PROVE FormatOK(g)'
  <2>1. ChooseConfig' = ChooseConfig
    BY <1>2, SameMachine
  <2>2. CASE g = f
    BY <1>3, <1>4, <1>5, <2>1, <2>2 DEF FormatOK
  <2>3. CASE g # f
    <3>1. FormatOK(g)
      BY DEF GlInv
    <3>2. \A s \in 1..Slots : formats'[s].format = g => formats[s].format = g /\ formats'[s] = formats[s]
      BY <1>4, <2>3
    <3>3. \A s \in 1..Slots : formats[s].format = g => s = slot \/ formats'[s].format = g
      BY <1>4
    <3> QED
      BY <1>5, <2>1, <2>3, <3>1, <3>2, <3>3 DEF FormatOK, Exists
  <2> QED
    BY <2>2, <2>3
<1>8. ASSUME NEW u \in Threads PROVE StepOK(u)'
  <2>1. StepOK(u)
    BY DEF GlInv
  <2>2. CASE step[u].at = "prepared"
    <3>1. step[u].on \in Formats \ {f}
      BY <1>2, <2>1, <2>2 DEF StepOK, Exists
    <3> QED
      BY <1>2, <1>5, <2>1, <2>2, <3>1 DEF StepOK, Exists
  <2>3. CASE step[u].at # "prepared"
    BY <1>2, <2>1, <2>3 DEF StepOK, Lives, VsyncSet
  <2> QED
    BY <2>2, <2>3
<1>9. ASSUME NEW c \in Contexts PROVE ContextOK(c)'
  BY <1>2, ContextKept DEF GlInv, IsConfigured
<1> QED
  BY <1>2, <1>4, <1>6, <1>7, <1>8, <1>9 DEF GlInv, DarlingsCompatible

\* A format that is released is nobody's that prepares a context.
LEMMA ReleaseInv == ASSUME GlInv, ReleaseFormat PROVE GlInv'
<1>1. PICK f \in Formats :
          /\ format[f].config # None /\ \A t \in Threads : step[t].on # f
          /\ format' = [format EXCEPT ![f] = NoFormat]
  BY DEF ReleaseFormat
<1>2. UNCHANGED <<machine, formats, wanted, configured, step, context, darlings>>
  BY DEF ReleaseFormat
<1>3. Types /\ NoFormat \in FormatType /\ NoFormat.config = None
  BY TypeParts DEF GlInv, NoFormat, FormatType
<1>4. /\ format' \in [Formats -> FormatType] /\ format'[f].config = None
      /\ \A g \in Formats \ {f} : format'[g] = format[g]
  BY <1>1, <1>3 DEF Types, ObjectTypes
<1>5. TypeOK'
  BY <1>2, <1>3, <1>4, TypeParts DEF Types, TableTypes, ThreadTypes, ObjectTypes
<1>6. ASSUME NEW g \in Formats PROVE FormatOK(g)'
  <2>1. CASE g = f
    BY <1>4, <2>1 DEF FormatOK, Exists
  <2>2. CASE g # f
    BY <1>2, <1>4, <2>2, FormatKept DEF GlInv
  <2> QED
    BY <2>1, <2>2
<1>7. ASSUME NEW u \in Threads PROVE StepOK(u)'
  BY <1>1, <1>2, <1>4 DEF GlInv, StepOK, Exists, Lives, VsyncSet
<1>8. ASSUME NEW c \in Contexts PROVE ContextOK(c)'
  BY <1>2, ContextKept DEF GlInv, IsConfigured
<1> QED
  BY <1>2, <1>5, <1>6, <1>7, <1>8 DEF GlInv, Prefix, DarlingsCompatible

\* The mark a thread sets is its format's: there is one entry for the address.
LEMMA PrepareInv == ASSUME GlInv, NEW t \in Threads, PrepareContext(t) PROVE GlInv'
<1>1. PICK f \in Formats :
          /\ format[f].config # None
          /\ wanted' = [wanted EXCEPT ![t] =
                 machine.core /\ \E s \in 1..Slots : formats[s].format = f /\ formats[s].core]
          /\ Goes(t, "prepared", f)
  BY DEF PrepareContext
<1>2. UNCHANGED <<machine, formats, configured, format, context, darlings>>
  BY DEF PrepareContext
<1>3. Types
  BY TypeParts DEF GlInv
<1>4. /\ step' \in [Threads -> StepType] /\ step'[t].at = "prepared" /\ step'[t].on = f
      /\ \A u \in Threads \ {t} : step'[u] = step[u]
  BY <1>1, <1>3, GoesTo DEF Types
<1> DEFINE mark == machine.core /\ \E s \in 1..Slots : formats[s].format = f /\ formats[s].core
<1>5. mark \in BOOLEAN /\ wanted' = [wanted EXCEPT ![t] = mark]
  BY <1>1
<1>6. FormatOK(f) /\ Exists(f)
  BY <1>1 DEF GlInv, Exists
<1>7. /\ mark => machine.core /\ format[f].asked
      /\ machine.core /\ format[f].asked => mark \/ format[f].lost
  BY <1>6 DEF FormatOK
<1> HIDE DEF mark
<1>8. /\ wanted' \in [Threads -> BOOLEAN] /\ wanted'[t] = mark
      /\ \A u \in Threads \ {t} : wanted'[u] = wanted[u]
  BY <1>3, <1>5 DEF Types, ThreadTypes
<1>9. TypeOK'
  BY <1>2, <1>3, <1>4, <1>8, TypeParts DEF Types, TableTypes, ThreadTypes, ObjectTypes
<1>10. ASSUME NEW u \in Threads PROVE StepOK(u)'
  <2>1. CASE u = t
    BY <1>2, <1>4, <1>6, <1>7, <1>8, <2>1 DEF StepOK, Exists
  <2>2. CASE u # t
    BY <1>2, <1>4, <1>8, <2>2, StepKept DEF GlInv
  <2> QED
    BY <2>1, <2>2
<1>11. ASSUME NEW g \in Formats PROVE FormatOK(g)'
  BY <1>2, FormatKept DEF GlInv
<1>12. ASSUME NEW c \in Contexts PROVE ContextOK(c)'
  BY <1>2, ContextKept DEF GlInv, IsConfigured
<1> QED
  BY <1>2, <1>9, <1>10, <1>11, <1>12 DEF GlInv, Prefix, DarlingsCompatible

\* A context has the profile that its thread's mark says.
LEMMA CreateInv == ASSUME GlInv, NEW t \in Threads, CreateContext(t) PROVE GlInv'
<1> DEFINE f == step[t].on
<1>1. /\ step[t].at = "prepared" /\ Goes(t, "created", f)
      /\ UNCHANGED <<machine, formats, configured, format, darlings>>
  BY DEF CreateContext, At
<1>2. Types /\ f \in Formats /\ Exists(f) /\ StepOK(t) /\ FormatOK(f)
  BY <1>1, TypeParts DEF GlInv, StepOK
<1>3. /\ step' \in [Threads -> StepType] /\ step'[t].at = "created"
      /\ \A u \in Threads \ {t} : step'[u] = step[u]
  BY <1>1, <1>2, GoesTo DEF Types
<1>4. ASSUME NEW g \in Formats PROVE FormatOK(g)'
  BY <1>1, FormatKept DEF GlInv
<1>5. StepOK(t)'
  BY <1>3 DEF StepOK
<1>6. CASE UNCHANGED <<context, wanted>>
  <2>1. TypeOK'
    BY <1>1, <1>2, <1>3, <1>6, TypeParts DEF Types, TableTypes, ThreadTypes, ObjectTypes
  <2>2. ASSUME NEW u \in Threads \ {t} PROVE StepOK(u)'
    BY <1>1, <1>3, <1>6, StepKept DEF GlInv
  <2>3. ASSUME NEW d \in Contexts PROVE ContextOK(d)'
    BY <1>1, <1>6, ContextKept DEF GlInv, IsConfigured
  <2> QED
    BY <1>1, <1>4, <1>5, <2>1, <2>2, <2>3 DEF GlInv, Prefix, DarlingsCompatible
<1>7. ASSUME NEW c \in machine.contexts, ~Lives(c),
             context' = [context EXCEPT ![c] = [NoContext EXCEPT
                    !.profile = Profile(t), !.asked = format[f].asked, !.lost = format[f].lost,
                    !.config = format[f].config]],
             wanted' = [wanted EXCEPT ![t] = FALSE]
      PROVE  GlInv'
  <2>1. c \in Contexts /\ format[f] \in FormatType /\ format[f].config = ChooseConfig
    BY <1>2, MachineFacts DEF Types, ObjectTypes, FormatOK
  <2> DEFINE profile == Profile(t)
  <2>2. profile \in {"4.1", "3.2", "compatibility"}
    BY DEF Profile
  <2>3. /\ profile # "compatibility" => machine.core /\ format[f].asked /\ profile = Newest
        /\ profile = "compatibility" /\ machine.core /\ format[f].asked =>
               format[f].lost \/ machine.versions = {}
    <3>1. machine.versions \subseteq {"4.1", "3.2"}
      BY <1>2, MachineFacts DEF Types
    <3> QED
      BY <1>1, <1>2, <3>1 DEF Profile, StepOK, Newest
  <2> HIDE DEF profile
  <2>5. PICK r : r = [NoContext EXCEPT
             !.profile = profile, !.asked = format[f].asked, !.lost = format[f].lost,
             !.config = format[f].config]
    OBVIOUS
  <2>6. r = [profile |-> profile, asked |-> format[f].asked, lost |-> format[f].lost,
             config |-> format[f].config, window |-> None, surface |-> FALSE, interval |-> 1,
             stale |-> FALSE]
    BY <2>5 DEF NoContext
  <2>7. r \in ContextType
    BY <2>1, <2>2, <2>6 DEF FormatType, ContextType
  <2>8. context' = [context EXCEPT ![c] = r]
    BY <1>7, <2>5 DEF profile
  <2>9. /\ context' \in [Contexts -> ContextType] /\ context'[c] = r
        /\ \A d \in Contexts \ {c} : context'[d] = context[d]
    BY <1>2, <2>1, <2>7, <2>8, OneContext DEF Types
  <2>10. /\ wanted' \in [Threads -> BOOLEAN] /\ \A u \in Threads \ {t} : wanted'[u] = wanted[u]
    BY <1>2, <1>7 DEF Types, ThreadTypes
  <2>11. TypeOK'
    BY <1>1, <1>2, <1>3, <2>9, <2>10, TypeParts DEF Types, TableTypes, ThreadTypes, ObjectTypes
  <2>12. ASSUME NEW u \in Threads \ {t} PROVE StepOK(u)'
    <3>1. step[u].at = "frame" => step[u].on \in Contexts \ {c}
      BY <1>7 DEF GlInv, StepOK
    <3> QED
      BY <1>1, <1>3, <2>9, <2>10, <3>1, StepKept DEF GlInv
  <2>13. ASSUME NEW d \in Contexts PROVE ContextOK(d)'
    <3>1. CASE d = c
      <4>1. ChooseConfig' = ChooseConfig /\ Newest' = Newest
        BY <1>1, SameMachine
      <4>2. Lives(c)' /\ context'[c].window = None /\ context'[c].config = ChooseConfig
        BY <2>1, <2>2, <2>6, <2>9 DEF Lives
      <4>3. ~context'[c].surface
        BY <2>6, <2>9
      <4>4. /\ context'[c].profile = profile /\ context'[c].asked = format[f].asked
            /\ context'[c].lost = format[f].lost
        BY <2>6, <2>9
      <4> QED
        BY <1>1, <2>3, <3>1, <4>1, <4>2, <4>3, <4>4 DEF ContextOK
    <3>2. CASE d # c
      BY <1>1, <2>9, <3>2, ContextKept DEF GlInv, IsConfigured
    <3> QED
      BY <3>1, <3>2
  <2> QED
    BY <1>1, <1>4, <1>5, <2>11, <2>12, <2>13 DEF GlInv, Prefix, DarlingsCompatible
<1> QED
  BY <1>6, <1>7 DEF CreateContext

\* The mark is cleared when the call is over, with a context or without.
LEMMA FinishInv == ASSUME GlInv, NEW t \in Threads, FinishContext(t) PROVE GlInv'
<1>1. /\ wanted' = [wanted EXCEPT ![t] = FALSE] /\ step' = [step EXCEPT ![t] = NoStep]
      /\ UNCHANGED <<machine, formats, configured, format, context, darlings>>
  BY DEF FinishContext
<1>2. Types
  BY TypeParts DEF GlInv
<1>3. /\ step' \in [Threads -> StepType] /\ step'[t].at = "out"
      /\ \A u \in Threads \ {t} : step'[u] = step[u]
  BY <1>1, <1>2, GoesOut DEF Types
<1>4. /\ wanted' \in [Threads -> BOOLEAN] /\ wanted'[t] = FALSE
      /\ \A u \in Threads \ {t} : wanted'[u] = wanted[u]
  BY <1>1, <1>2 DEF Types, ThreadTypes
<1>5. TypeOK'
  BY <1>1, <1>2, <1>3, <1>4, TypeParts DEF Types, TableTypes, ThreadTypes, ObjectTypes
<1>6. ASSUME NEW u \in Threads PROVE StepOK(u)'
  <2>1. CASE u = t
    BY <1>3, <1>4, <2>1 DEF StepOK
  <2>2. CASE u # t
    BY <1>1, <1>3, <1>4, <2>2, StepKept DEF GlInv
  <2> QED
    BY <2>1, <2>2
<1>7. ASSUME NEW g \in Formats PROVE FormatOK(g)'
  BY <1>1, FormatKept DEF GlInv
<1>8. ASSUME NEW c \in Contexts PROVE ContextOK(c)'
  BY <1>1, ContextKept DEF GlInv, IsConfigured
<1> QED
  BY <1>1, <1>5, <1>6, <1>7, <1>8 DEF GlInv, Prefix, DarlingsCompatible

\* Outside its call a thread has no mark, so Darling's context stays as it was.
LEMMA DarlingInv == ASSUME GlInv, NEW t \in Threads, DarlingContext(t) PROVE GlInv'
<1>1. /\ step[t].at = "out" /\ darlings' = darlings \cup {Profile(t)}
      /\ UNCHANGED <<machine, formats, wanted, configured, step, format, context>>
  BY DEF DarlingContext, At
<1>2. Profile(t) = "compatibility"
  BY <1>1 DEF GlInv, StepOK, Profile
<1>3. DarlingsCompatible'
  BY <1>1, <1>2 DEF GlInv, DarlingsCompatible
<1>4. TypeOK'
  <2>1. Types
    BY TypeParts DEF GlInv
  <2> QED
    BY <1>1, <1>2, <2>1, TypeParts DEF Types, TableTypes, ThreadTypes, ObjectTypes
<1>5. ASSUME NEW u \in Threads PROVE StepOK(u)'
  BY <1>1, StepKept DEF GlInv
<1>6. ASSUME NEW g \in Formats PROVE FormatOK(g)'
  BY <1>1, FormatKept DEF GlInv
<1>7. ASSUME NEW c \in Contexts PROVE ContextOK(c)'
  BY <1>1, ContextKept DEF GlInv, IsConfigured
<1> QED
  BY <1>1, <1>3, <1>4, <1>5, <1>6, <1>7 DEF GlInv, Prefix

\* A context that is destroyed has no frame under way.
LEMMA DestroyInv == ASSUME GlInv, DestroyContext PROVE GlInv'
<1>1. PICK c \in Contexts :
          /\ Lives(c) /\ \A t \in Threads : step[t].on # c
          /\ context' = [context EXCEPT ![c] = NoContext]
  BY DEF DestroyContext
<1>2. UNCHANGED <<machine, formats, wanted, configured, step, format, darlings>>
  BY DEF DestroyContext
<1>3. Types /\ NoContext \in ContextType /\ NoContext.profile = "none" /\ NoContext.window = None
      /\ NoContext.surface = FALSE
  BY TypeParts DEF GlInv, NoContext, ContextType
<1>4. /\ context' \in [Contexts -> ContextType] /\ context'[c] = NoContext
      /\ \A d \in Contexts \ {c} : context'[d] = context[d]
  BY <1>1, <1>3, OneContext DEF Types
<1>5. TypeOK'
  BY <1>2, <1>3, <1>4, TypeParts DEF Types, TableTypes, ThreadTypes, ObjectTypes
<1>6. ASSUME NEW u \in Threads PROVE StepOK(u)'
  <2>1. step[u].at = "frame" => step[u].on \in Contexts \ {c}
    BY <1>1 DEF GlInv, StepOK
  <2> QED
    BY <1>2, <1>4, <2>1, StepKept DEF GlInv
<1>7. ASSUME NEW g \in Formats PROVE FormatOK(g)'
  BY <1>2, FormatKept DEF GlInv
<1>8. ASSUME NEW d \in Contexts PROVE ContextOK(d)'
  <2>1. CASE d = c
    BY <1>3, <1>4, <2>1 DEF ContextOK, Lives
  <2>2. CASE d # c
    BY <1>2, <1>4, <2>2, ContextKept DEF GlInv, IsConfigured
  <2> QED
    BY <2>1, <2>2
<1> QED
  BY <1>2, <1>5, <1>6, <1>7, <1>8 DEF GlInv, Prefix, DarlingsCompatible

\* A context that is shown in a view gets its window, and a surface if it fits.
LEMMA AttachInv == ASSUME GlInv, NEW t \in Threads, Attach(t) PROVE GlInv'
<1>1. PICK c \in Contexts, visual \in SubwindowVisuals :
          /\ Lives(c) /\ \A u \in Threads : step[u].on # c
          /\ context' = [context EXCEPT ![c] = [context[c] EXCEPT
                 !.window = visual, !.surface = SurfaceMade(context[c].config, visual),
                 !.interval = 1, !.stale = IsConfigured(c)]]
  BY DEF Attach
<1>2. UNCHANGED <<machine, formats, wanted, configured, step, format, darlings>>
  BY DEF Attach
<1>3. Types /\ context[c] \in ContextType
  BY TypeParts DEF GlInv, Types, ObjectTypes
<1>4. visual \in Visuals /\ visual # None
  BY <1>3, MachineFacts, GlAssumption DEF Types, SubwindowVisuals, Replacements
<1> DEFINE made == SurfaceMade(context[c].config, visual)
           stale == IsConfigured(c)
<1>5. made \in BOOLEAN /\ stale \in BOOLEAN
  BY <1>3, MachineFacts DEF Types, SurfaceMade, Answers, IsConfigured
<1> HIDE DEF made, stale
<1>6. PICK r : r = [context[c] EXCEPT !.window = visual, !.surface = made, !.interval = 1,
                                      !.stale = stale]
  OBVIOUS
<1>7. r = [profile |-> context[c].profile, asked |-> context[c].asked, lost |-> context[c].lost,
           config |-> context[c].config, window |-> visual, surface |-> made,
           interval |-> 1, stale |-> stale]
  BY <1>3, <1>6 DEF ContextType
<1>8. /\ r \in ContextType /\ r.profile = context[c].profile /\ r.asked = context[c].asked
      /\ r.lost = context[c].lost /\ r.config = context[c].config /\ r.window = visual
      /\ r.surface = made /\ r.stale = stale
  BY <1>3, <1>4, <1>5, <1>7 DEF ContextType
<1>9. context' = [context EXCEPT ![c] = r]
  BY <1>1, <1>6 DEF made, stale
<1>10. /\ context' \in [Contexts -> ContextType] /\ context'[c] = r
       /\ \A d \in Contexts \ {c} : context'[d] = context[d]
  BY <1>3, <1>8, <1>9, OneContext DEF Types
<1>11. TypeOK'
  BY <1>2, <1>3, <1>10, TypeParts DEF Types, TableTypes, ThreadTypes, ObjectTypes
<1>12. ASSUME NEW u \in Threads PROVE StepOK(u)'
  <2>1. step[u].at = "frame" => step[u].on \in Contexts \ {c}
    BY <1>1 DEF GlInv, StepOK
  <2> QED
    BY <1>2, <1>10, <2>1, StepKept DEF GlInv
<1>13. ASSUME NEW g \in Formats PROVE FormatOK(g)'
  BY <1>2, FormatKept DEF GlInv
<1>14. ASSUME NEW d \in Contexts PROVE ContextOK(d)'
  <2>1. CASE d = c
    <3>1. ContextOK(c) /\ Lives(c)
      BY <1>1 DEF GlInv
    <3>2. ChooseConfig' = ChooseConfig /\ Newest' = Newest /\ Lives(c)'
      BY <1>2, <1>8, <1>10, <3>1, SameMachine DEF Lives
    <3>3. context'[c].surface = SurfaceMade(context[c].config, context[c].window)'
      BY <1>2, <1>8, <1>10 DEF made, SurfaceMade, Answers, ConfigFor
    <3>4. IsConfigured(c)' => VsyncSet(c)'
      BY <1>2, <1>8, <1>10 DEF stale, IsConfigured, VsyncSet
    <3> QED
      BY <1>2, <1>8, <1>10, <2>1, <3>1, <3>2, <3>3, <3>4 DEF ContextOK
  <2>2. CASE d # c
    BY <1>2, <1>10, <2>2, ContextKept DEF GlInv, IsConfigured
  <2> QED
    BY <2>1, <2>2
<1> QED
  BY <1>2, <1>11, <1>12, <1>13, <1>14 DEF GlInv, Prefix, DarlingsCompatible

\* The slot a frame found is one of the table's, or none.
LEMMA FreeSlotType ==
    ASSUME configured \in [1..Configured -> Contexts \cup {None}]
    PROVE  FreeSlot \in 0..Configured
<1> DEFINE empty == {i \in 1..Len(configured) : configured[i] = None}
<1>1. FreeSlot = IF empty # {} THEN Min(empty) ELSE 0
  BY DEF FreeSlot, SelectInSeq
<1>2. empty \in SUBSET Nat /\ empty \subseteq 1..Configured
  <2>1. Configured \in Nat /\ configured \in Seq(Contexts \cup {None}) /\ Len(configured) = Configured
    BY GlAssumption
  <2> QED
    BY <2>1
<1>3. ASSUME empty # {} PROVE Min(empty) \in empty
  <2> HIDE DEF empty
  <2>1. \E i \in empty : \A j \in empty : i <= j
    BY <1>2, <1>3, Least
  <2> QED
    BY <2>1 DEF Min
<1> HIDE DEF empty
<1>4. CASE empty # {}
  <2>1. FreeSlot \in 1..Configured
    BY <1>1, <1>2, <1>3, <1>4
  <2> QED
    BY <2>1
<1>5. CASE empty = {}
  BY <1>1, <1>5, GlAssumption
<1> QED
  BY <1>4, <1>5

\* A frame sets its context's interval and takes a slot, or leaves both.
LEMMA PresentInv == ASSUME GlInv, NEW t \in Threads, Present(t) PROVE GlInv'
<1>1. /\ step[t].at = "out"
      /\ UNCHANGED <<machine, formats, wanted, configured, format, darlings>>
  BY DEF Present, At
<1>2. PICK c \in Contexts :
           /\ Lives(c) /\ context[c].surface
           /\ \A u \in Threads : step[u].on # c
           /\ IF machine.fast /\ ~IsConfigured(c)
              THEN \E set \in BOOLEAN :
                  /\ context' = IF set THEN [context EXCEPT ![c].interval = 0, ![c].stale = FALSE]
                                ELSE context
                  /\ step' = [step EXCEPT ![t] = [at |-> "frame", on |-> c,
                                                  slot |-> SlotToNote(set)]]
              ELSE Goes(t, "frame", c) /\ UNCHANGED context
  BY DEF Present
<1>3. Types /\ context[c] \in ContextType /\ ~wanted[t]
  BY <1>1, TypeParts DEF GlInv, Types, ObjectTypes, StepOK
<1>4. ASSUME NEW g \in Formats PROVE FormatOK(g)'
  BY <1>1, FormatKept DEF GlInv
<1>5. ASSUME \A d \in Contexts \ {c} : context'[d] = context[d],
             \A u \in Threads \ {t} : step'[u] = step[u], NEW u \in Threads \ {t}
      PROVE  StepOK(u)'
  <2>1. step[u].at = "frame" => step[u].on \in Contexts \ {c}
    BY <1>2 DEF GlInv, StepOK
  <2> QED
    BY <1>1, <1>5, <2>1, StepKept DEF GlInv
<1>6. ASSUME NEW slot \in 0..Configured, slot = 0, UNCHANGED context,
             step' = [step EXCEPT ![t] = [at |-> "frame", on |-> c, slot |-> slot]]
      PROVE  GlInv'
  <2>1. PICK r : r = [at |-> "frame", on |-> c, slot |-> slot]
    OBVIOUS
  <2>2. r \in StepType /\ r.at = "frame" /\ r.on = c /\ r.slot = 0
    BY <1>6, <2>1 DEF StepType
  <2>3. step' = [step EXCEPT ![t] = r]
    BY <1>6, <2>1
  <2>4. /\ step' \in [Threads -> StepType] /\ step'[t] = r
        /\ \A u \in Threads \ {t} : step'[u] = step[u]
    BY <1>3, <2>2, <2>3 DEF Types, ThreadTypes
  <2>5. TypeOK'
    BY <1>1, <1>3, <1>6, <2>4, TypeParts DEF Types, TableTypes, ThreadTypes, ObjectTypes
  <2>6. StepOK(t)'
    BY <1>1, <1>2, <1>3, <1>6, <2>2, <2>4 DEF StepOK, Lives
  <2>7. ASSUME NEW d \in Contexts PROVE ContextOK(d)'
    BY <1>1, <1>6, ContextKept DEF GlInv, IsConfigured
  <2> QED
    BY <1>1, <1>4, <1>5, <1>6, <2>4, <2>5, <2>6, <2>7 DEF GlInv, Prefix, DarlingsCompatible
<1>7. ASSUME NEW slot \in 0..Configured,
             context' = [context EXCEPT ![c].interval = 0, ![c].stale = FALSE],
             step' = [step EXCEPT ![t] = [at |-> "frame", on |-> c, slot |-> slot]]
      PROVE  GlInv'
  <2>1. PICK r : r = [at |-> "frame", on |-> c, slot |-> slot]
    OBVIOUS
  <2>2. r \in StepType /\ r.at = "frame" /\ r.on = c
    BY <2>1 DEF StepType
  <2>3. step' = [step EXCEPT ![t] = r]
    BY <1>7, <2>1
  <2>4. /\ step' \in [Threads -> StepType] /\ step'[t] = r
        /\ \A u \in Threads \ {t} : step'[u] = step[u]
    BY <1>3, <2>2, <2>3 DEF Types, ThreadTypes
  <2>5. PICK q : q = [context[c] EXCEPT !.interval = 0, !.stale = FALSE]
    OBVIOUS
  <2>6. q = [profile |-> context[c].profile, asked |-> context[c].asked, lost |-> context[c].lost,
             config |-> context[c].config, window |-> context[c].window,
             surface |-> context[c].surface, interval |-> 0, stale |-> FALSE]
    BY <1>3, <2>5 DEF ContextType
  <2>7. /\ q \in ContextType /\ q.interval = 0 /\ q.profile = context[c].profile
        /\ q.asked = context[c].asked /\ q.lost = context[c].lost
        /\ q.config = context[c].config /\ q.window = context[c].window
        /\ q.surface = context[c].surface
    BY <1>3, <2>6 DEF ContextType
  <2>8. context' = [context EXCEPT ![c] = q]
    BY <1>3, <1>7, <2>5 DEF Types, ObjectTypes
  <2>9. /\ context' \in [Contexts -> ContextType] /\ context'[c] = q
        /\ \A d \in Contexts \ {c} : context'[d] = context[d]
    BY <1>3, <2>7, <2>8, OneContext DEF Types
  <2>10. TypeOK'
    BY <1>1, <1>3, <2>4, <2>9, TypeParts DEF Types, TableTypes, ThreadTypes, ObjectTypes
  <2>11. VsyncSet(c)' /\ Lives(c)'
    BY <1>2, <2>7, <2>9 DEF VsyncSet, Lives
  <2>12. StepOK(t)'
    BY <1>1, <1>3, <2>2, <2>4, <2>11 DEF StepOK
  <2>13. ASSUME NEW d \in Contexts PROVE ContextOK(d)'
    <3>1. CASE d = c
      <4>1. ContextOK(c) /\ ChooseConfig' = ChooseConfig /\ Newest' = Newest
        BY <1>1, SameMachine DEF GlInv
      <4>2. context'[c].window # None =>
                context'[c].surface = SurfaceMade(context[c].config, context[c].window)'
        BY <1>1, <2>7, <2>9, <4>1 DEF ContextOK, SurfaceMade, Answers, ConfigFor
      <4> QED
        BY <1>1, <1>2, <2>7, <2>9, <2>11, <3>1, <4>1, <4>2 DEF ContextOK
    <3>2. CASE d # c
      BY <1>1, <2>9, <3>2, ContextKept DEF GlInv, IsConfigured
    <3> QED
      BY <3>1, <3>2
  <2> QED
    BY <1>1, <1>4, <1>5, <2>4, <2>9, <2>10, <2>12, <2>13 DEF GlInv, Prefix, DarlingsCompatible
<1>8. CASE machine.fast /\ ~IsConfigured(c)
  <2>1. PICK set \in BOOLEAN :
            /\ context' = IF set THEN [context EXCEPT ![c].interval = 0, ![c].stale = FALSE]
                          ELSE context
            /\ step' = [step EXCEPT ![t] = [at |-> "frame", on |-> c, slot |-> SlotToNote(set)]]
    BY <1>2, <1>8
  <2>2. SlotToNote(set) \in 0..Configured /\ (~set => SlotToNote(set) = 0)
    BY <1>3, FreeSlotType, GlAssumption DEF SlotToNote, Types, ObjectTypes
  <2>3. CASE set
    BY <1>7, <2>1, <2>2, <2>3
  <2>4. CASE ~set
    BY <1>6, <2>1, <2>2, <2>4
  <2> QED
    BY <2>3, <2>4
<1>9. CASE ~(machine.fast /\ ~IsConfigured(c))
  <2>1. Goes(t, "frame", c) /\ UNCHANGED context
    BY <1>2, <1>9
  <2>2. PICK r : r = [NoStep EXCEPT !.at = "frame", !.on = c]
    OBVIOUS
  <2>3. r = [at |-> "frame", on |-> c, slot |-> 0]
    BY <2>2 DEF NoStep
  <2>4. step' = [step EXCEPT ![t] = r]
    BY <2>1, <2>2 DEF Goes
  <2>5. PICK slot \in 0..Configured : slot = 0
    BY GlAssumption
  <2>6. step' = [step EXCEPT ![t] = [at |-> "frame", on |-> c, slot |-> slot]]
    BY <2>3, <2>4, <2>5
  <2> QED
    BY <1>6, <2>1, <2>5, <2>6
<1> QED
  BY <1>8, <1>9

\* The context of a frame that was shown takes its slot: its interval is set.
LEMMA ShowInv == ASSUME GlInv, NEW t \in Threads, ShowFrame(t) PROVE GlInv'
<1>1. /\ step[t].at = "frame"
      /\ configured' = IF step[t].slot = 0 THEN configured
                       ELSE [configured EXCEPT ![step[t].slot] = step[t].on]
      /\ step' = [step EXCEPT ![t] = NoStep]
      /\ UNCHANGED <<machine, formats, wanted, format, context, darlings>>
  BY DEF ShowFrame, At
<1>2. Types /\ step[t].on \in Contexts /\ ~wanted[t]
      /\ step[t].slot \in 0..Configured /\ (step[t].slot # 0 => VsyncSet(step[t].on))
  BY <1>1, TypeParts DEF GlInv, Types, ThreadTypes, StepType, StepOK
<1>3. /\ step' \in [Threads -> StepType] /\ step'[t].at = "out"
      /\ \A u \in Threads \ {t} : step'[u] = step[u]
  BY <1>1, <1>2, GoesOut DEF Types
<1>4. /\ configured' \in [1..Configured -> Contexts \cup {None}]
      /\ \A s \in 1..Configured :
             configured'[s] = configured[s] \/ (step[t].slot # 0 /\ configured'[s] = step[t].on)
  BY <1>1, <1>2, GlAssumption DEF Types, ObjectTypes
<1>5. TypeOK'
  BY <1>1, <1>2, <1>3, <1>4, TypeParts DEF Types, TableTypes, ThreadTypes, ObjectTypes
<1>6. ASSUME NEW u \in Threads PROVE StepOK(u)'
  <2>1. CASE u = t
    BY <1>1, <1>2, <1>3, <2>1 DEF StepOK
  <2>2. CASE u # t
    BY <1>1, <1>3, <2>2, StepKept DEF GlInv
  <2> QED
    BY <2>1, <2>2
<1>7. ASSUME NEW g \in Formats PROVE FormatOK(g)'
  BY <1>1, FormatKept DEF GlInv
<1>8. ASSUME NEW c \in Contexts PROVE ContextOK(c)'
  <2>1. IsConfigured(c)' => IsConfigured(c) \/ VsyncSet(c)
    BY <1>2, <1>4 DEF IsConfigured
  <2> QED
    BY <1>1, <2>1, ContextKept DEF GlInv
<1> QED
  BY <1>1, <1>5, <1>6, <1>7, <1>8 DEF GlInv, Prefix, DarlingsCompatible
------------------------------------------------------------------------------

\* Every step keeps the invariant.
LEMMA StepInv == GlInv /\ [Next]_vars => GlInv'
<1> SUFFICES ASSUME GlInv, [Next]_vars PROVE GlInv'
  OBVIOUS
<1>1. CASE UNCHANGED vars
  <2>1. UNCHANGED <<machine, formats, wanted, configured, step, format, context, darlings>>
    BY <1>1 DEF vars
  <2>2. TypeOK'
    BY <2>1 DEF GlInv, TypeOK
  <2>3. ASSUME NEW u \in Threads PROVE StepOK(u)'
    BY <2>1, StepKept DEF GlInv
  <2>4. ASSUME NEW g \in Formats PROVE FormatOK(g)'
    BY <2>1, FormatKept DEF GlInv
  <2>5. ASSUME NEW c \in Contexts PROVE ContextOK(c)'
    BY <2>1, ContextKept DEF GlInv, IsConfigured
  <2> QED
    BY <2>1, <2>2, <2>3, <2>4, <2>5 DEF GlInv, Prefix, DarlingsCompatible
<1> QED
  BY <1>1, NewFormatInv, ReleaseInv, PrepareInv, CreateInv, FinishInv, DarlingInv, DestroyInv,
     AttachInv, PresentInv, ShowInv DEF Next

\* A format's wish is kept from the table through the thread's mark to the context.
THEOREM GlInvariant == Spec => []GlInv
  BY InitInv, StepInv, PTL DEF Spec

\* The state keeps its types, and no address has two entries in the table.
THEOREM TypeCorrect == Spec => []TypeOK
<1>1. GlInv => TypeOK
  BY DEF GlInv
<1> QED
  BY <1>1, GlInvariant, PTL

\* A context has the newest version of the profile its own format asked for.
THEOREM ProfileKept == Spec => []ProfileAsAsked
<1>1. ASSUME GlInv PROVE ProfileAsAsked
  <2> SUFFICES ASSUME NEW c \in Contexts, Lives(c)
               PROVE  LET asked   == machine.core /\ context[c].asked
                          offered == {"compatibility"} \cup IF asked THEN machine.versions ELSE {}
                      IN  \/ /\ context[c].profile \in offered
                             /\ \A profile \in offered : ~Newer(profile, context[c].profile)
                          \/ context[c].profile = "compatibility" /\ context[c].lost
    BY DEF ProfileAsAsked
  <2>1. machine.versions \subseteq {"4.1", "3.2"}
    BY <1>1, MachineFacts DEF GlInv, TypeOK
  <2>2. /\ context[c].profile # "compatibility" =>
               machine.core /\ context[c].asked /\ context[c].profile = Newest
        /\ context[c].profile = "compatibility" /\ machine.core /\ context[c].asked =>
               context[c].lost \/ machine.versions = {}
    BY <1>1 DEF GlInv, ContextOK
  <2> DEFINE asked == machine.core /\ context[c].asked
             offered == {"compatibility"} \cup IF asked THEN machine.versions ELSE {}
  <2>3. CASE context[c].profile # "compatibility"
    <3>1. asked /\ offered = {"compatibility"} \cup machine.versions
      BY <2>2, <2>3
    <3>2. CASE "4.1" \in machine.versions
      <4>1. context[c].profile = "4.1"
        BY <2>2, <2>3, <3>2 DEF Newest
      <4> QED
        BY <2>1, <3>1, <3>2, <4>1 DEF Newer
    <3>3. CASE "4.1" \notin machine.versions
      <4>1. context[c].profile = "3.2" /\ "3.2" \in machine.versions
        BY <2>2, <2>3, <3>3 DEF Newest
      <4>2. \A profile \in offered : profile \in {"compatibility", "3.2"}
        BY <2>1, <3>1, <3>3
      <4> QED
        BY <3>1, <4>1, <4>2 DEF Newer
    <3> QED
      BY <3>2, <3>3
  <2>4. CASE context[c].profile = "compatibility" /\ ~context[c].lost
    <3>1. offered = {"compatibility"}
      BY <2>2, <2>4
    <3> QED
      BY <2>4, <3>1 DEF Newer
  <2>5. CASE context[c].profile = "compatibility" /\ context[c].lost
    BY <2>5
  <2> QED
    BY <2>3, <2>4, <2>5
<1> QED
  BY <1>1, GlInvariant, PTL

\* Darling's own contexts are left as they were.
THEOREM DarlingsAlone == Spec => []DarlingsCompatible
<1>1. GlInv => DarlingsCompatible
  BY DEF GlInv
<1> QED
  BY <1>1, GlInvariant, PTL

\* A window that some config fits gets its surface.
THEOREM SurfacesMade == Spec => []SurfaceWhereOneFits
<1>1. ASSUME GlInv PROVE SurfaceWhereOneFits
  <2> SUFFICES ASSUME NEW c \in Contexts, context[c].window \in machine.capable,
                      Answers("surface") \/ (Answers("config") /\ context[c].window = Screen)
               PROVE  context[c].surface
    BY DEF SurfaceWhereOneFits
  <2>1. context[c].window \in Visuals \cup {None} /\ machine.capable \subseteq Visuals
    <3>1. machine \in Machine
      BY <1>1, GlAssumption DEF GlInv, TypeOK
    <3> QED
      BY <1>1, <3>1 DEF GlInv, TypeOK, Machine
  <2>2. context[c].window # None /\ ContextOK(c)
    BY <1>1, <2>1, GlAssumption DEF GlInv
  <2>3. context[c].config = ChooseConfig
    BY <2>2 DEF ContextOK
  <2>4. SurfaceMade(context[c].config, context[c].window)
    <3>1. ConfigFor(context[c].window) = context[c].window
      BY DEF ConfigFor
    <3>2. CASE Answers("surface")
      BY <2>2, <3>1, <3>2 DEF SurfaceMade
    <3>3. CASE Answers("config") /\ context[c].window = Screen
      BY <2>2, <2>3, <3>1, <3>3 DEF SurfaceMade, ChooseConfig
    <3> QED
      BY <3>2, <3>3
  <2> QED
    BY <2>2, <2>4 DEF ContextOK
<1> QED
  BY <1>1, GlInvariant, PTL

\* What is noted as set is set, a surface made since then aside.
THEOREM NotedContextsSet == Spec => []NotedAreSet
<1>1. GlInv => NotedAreSet
  BY DEF GlInv, ContextOK, VsyncSet, NotedAreSet
<1> QED
  BY <1>1, GlInvariant, PTL
=============================================================================
