---------------------------- MODULE ScreenProofs ----------------------------
(***************************************************************************)
(* Proofs about the parts of the client that ScreenParts puts beside each  *)
(* other, and about the public links behind one of them.  The parts share  *)
(* no state, so each has an invariant of its own, found inductive for its  *)
(* own next-state relation; the theorems at the end put them together.     *)
(***************************************************************************)
EXTENDS ScreenParts, FiniteSetTheorems, SequenceTheorems, TLAPS

-----------------------------------------------------------------------------
(* RunOptions.  The two copies of a preference agree as long as no other    *)
(* tab writes: the model on the screen is the one the store resolves to,    *)
(* and level and search are what is stored.                                 *)

OptionsStates ==
  [on : BOOLEAN, ready : BOOLEAN, offered : SUBSET Models, webSearch : BOOLEAN,
   saved : Models \cup {None}, kept : Levels, wanted : BOOLEAN,
   model : Models \cup {None}, level : Levels, search : BOOLEAN,
   at : Chats \cup {"home"}, context : [Chats -> Contexts],
   applied : [chat : Chats \cup {"home"}, context : Contexts], foreign : BOOLEAN]
OptionsTypes == ro \in OptionsStates

CopiesAgree == ~ro.foreign => /\ ro.model = Resolve(ro)
                              /\ ro.level = ro.kept
                              /\ ro.search = ro.wanted

OptionsInv == OptionsTypes /\ CopiesAgree

(* The first of a set is one of it; resolving gives a model of the catalog  *)
(* or none, and a level is snapped onto a level.                            *)
LEMMA FirstIsIn == ASSUME NEW S, S # {} PROVE FirstOf(S) \in S
  BY DEF FirstOf

LEMMA ResolveTypes ==
  ASSUME NEW o, o.offered \subseteq Models, o.saved \in Models \cup {None}
  PROVE  Resolve(o) \in Models \cup {None}
<1>1. CASE o.offered = {}
  BY <1>1 DEF Resolve, FirstOf
<1>2. CASE o.offered # {}
  <2>1. FirstOf(o.offered) \in o.offered
    BY <1>2, FirstIsIn
  <2> QED
    BY <2>1 DEF Resolve
<1> QED
  BY <1>1, <1>2

LEMMA ClampTypes ==
  ASSUME NEW l \in Levels, NEW allowed \in SUBSET Levels
  PROVE  /\ ClampThinkingLevel(l, allowed) \in Levels
         /\ allowed # {} => ClampThinkingLevel(l, allowed) \in allowed
<1>1. CASE allowed = {} \/ l \in allowed
  BY <1>1 DEF ClampThinkingLevel
<1>2. CASE ~(allowed = {} \/ l \in allowed)
  <2>1. (CHOOSE x \in allowed : TRUE) \in allowed
    BY <1>2
  <2> QED
    BY <1>2, <2>1 DEF ClampThinkingLevel
<1> QED
  BY <1>1, <1>2

(* What the effect takes for a conversation is offered, or it is what the   *)
(* store resolves to.                                                       *)
LEMMA ImageModelOffered ==
  ASSUME NEW o, NEW c, c.state # "none"
  PROVE  ResolveForImageContext(o, c) \in o.offered \cup {None}
<1> DEFINE S == Compatible(o, c)
<1>1. S \subseteq o.offered
  BY DEF Compatible
<1>2. FirstOf(S) \in S \cup {None}
  BY FirstIsIn DEF FirstOf
<1> HIDE DEF S
<1>3. ResolveForImageContext(o, c) = IF c.recommended \in S THEN c.recommended
                                     ELSE IF o.saved \in S THEN o.saved ELSE FirstOf(S)
  BY DEF S, ResolveForImageContext
<1> QED
  BY <1>1, <1>2, <1>3

(* A model that is offered and picked is stored and shown, and the level is *)
(* snapped in both copies.                                                  *)
LEMMA PickedAgrees ==
  ASSUME OptionsTypes, NEW m \in ro.offered, NEW o, o = OnModelPicked(ro, m)
  PROVE  /\ o \in OptionsStates /\ o.saved = m /\ o.model = m
         /\ o = [ro EXCEPT !.saved = m, !.model = m, !.kept = o.kept, !.level = o.level]
         /\ ro.level = ro.kept => o.level = o.kept
<1> DEFINE l == ClampThinkingLevel(ro.kept, Tiers[m])
<1>1. ro \in OptionsStates /\ m \in Models /\ ro.kept \in Levels /\ Tiers[m] \in SUBSET Levels
  BY OptionsAssumption DEF OptionsTypes, OptionsStates
<1>2. l \in Levels
  BY <1>1, ClampTypes
<1>3. o = [ro EXCEPT !.saved = m, !.model = m,
                     !.kept = IF Tiers[m] # {} THEN l ELSE @,
                     !.level = IF Tiers[m] # {} THEN l ELSE @]
  BY DEF OnModelPicked
<1> HIDE DEF l
<1> QED
  BY <1>1, <1>2, <1>3 DEF OptionsStates

LEMMA OptionsInit == ASSUME NEW b \in BOOLEAN, ro = OptionsStart(b) PROVE OptionsInv
<1>1. Plain \in Contexts
  BY DEF Contexts
<1>2. [c \in Chats |-> Plain] \in [Chats -> Contexts]
  BY <1>1
<1>3. NoKey \in [chat : Chats \cup {"home"}, context : Contexts]
  BY <1>1 DEF NoKey
<1>4. OptionsTypes
  BY <1>2, <1>3 DEF OptionsTypes, OptionsStates, OptionsStart, Levels
<1>5. Resolve(ro) = None
  BY DEF Resolve, FirstOf, OptionsStart, None
<1> QED
  BY <1>4, <1>5 DEF OptionsInv, CopiesAgree, OptionsStart

LEMMA OptionsStep == OptionsInv /\ [OptionsNext]_ro => OptionsInv'
<1> SUFFICES ASSUME OptionsInv, OptionsNext PROVE OptionsInv'
  BY DEF OptionsInv, OptionsTypes, CopiesAgree, Resolve
<1> USE DEF OptionsInv, OptionsTypes
<1>t. ro \in OptionsStates /\ CopiesAgree
  OBVIOUS
<1>1. ASSUME NEW S \in SUBSET Models, NEW web \in BOOLEAN, CapabilitiesLoaded(S, web)
      PROVE  OptionsInv'
  <2> DEFINE o == [ro EXCEPT !.ready = TRUE, !.offered = S, !.webSearch = web]
  <2>1. ro' = [o EXCEPT !.model = Resolve(o)]
    BY <1>1 DEF CapabilitiesLoaded
  <2>2. o \in OptionsStates /\ o.offered = S /\ o.saved = ro.saved
    BY Zenon DEF OptionsStates
  <2>3. Resolve(o) \in Models \cup {None}
    BY <2>2, ResolveTypes, Zenon DEF OptionsStates
  <2>4. o.level = ro.level /\ o.kept = ro.kept /\ o.search = ro.search /\ o.wanted = ro.wanted
        /\ o.foreign = ro.foreign
    BY DEF OptionsStates
  <2> HIDE DEF o
  <2>5. ro' \in OptionsStates /\ ro'.model = Resolve(o)
    BY <2>1, <2>2, <2>3 DEF OptionsStates
  <2>6. ro'.offered = o.offered /\ ro'.saved = o.saved /\ ro'.level = o.level /\ ro'.kept = o.kept
        /\ ro'.search = o.search /\ ro'.wanted = o.wanted /\ ro'.foreign = o.foreign
    BY <2>1, <2>2 DEF OptionsStates
  <2>7. Resolve(ro') = Resolve(o)
    BY <2>6 DEF Resolve
  <2> QED
    BY <2>4, <2>5, <2>6, <2>7 DEF CopiesAgree
<1>2. CASE CapabilitiesFailed
  BY <1>2, Zenon DEF CapabilitiesFailed, OptionsStates, CopiesAgree, Resolve
<1>3. CASE ToggleSearch
  BY <1>3, Zenon DEF ToggleSearch, OptionsStates, CopiesAgree, Resolve
<1>4. CASE ApplyImageContext
  <2> DEFINE key == [chat |-> ro.at, context |-> ContextNow]
             m == ResolveForImageContext(ro, ContextNow)
             p == OnModelPicked(ro, m)
  <2>1. ro.at \in Chats /\ ContextNow \in Contexts /\ key \in [chat : Chats \cup {"home"}, context : Contexts]
    BY <1>4 DEF ApplyImageContext, ContextNow, OptionsStates
  <2>2. ro' = [(IF m = None \/ m = ro.model THEN ro ELSE p) EXCEPT !.applied = key]
    BY <1>4 DEF ApplyImageContext
  <2>3. CASE m = None \/ m = ro.model
    <3>1. ro' = [ro EXCEPT !.applied = key]
      BY <2>2, <2>3
    <3> HIDE DEF key
    <3> QED
      BY <2>1, <3>1 DEF OptionsStates, CopiesAgree, Resolve
  <2>4. CASE m # None /\ m # ro.model /\ m \in ro.offered
    <3>1. /\ p \in OptionsStates /\ p.saved = m /\ p.model = m
          /\ p = [ro EXCEPT !.saved = m, !.model = m, !.kept = p.kept, !.level = p.level]
          /\ ro.level = ro.kept => p.level = p.kept
      <4>1. p = OnModelPicked(ro, m) /\ m \in ro.offered
        BY <2>4
      <4> HIDE DEF p, m
      <4> QED
        BY <4>1, PickedAgrees
    <3>2. ro' = [p EXCEPT !.applied = key]
      BY <2>2, <2>4
    <3> HIDE DEF p, key, m
    <3>3. /\ p.offered = ro.offered /\ p.search = ro.search /\ p.wanted = ro.wanted
          /\ p.foreign = ro.foreign
      BY <3>1, Zenon DEF OptionsStates
    <3>4. ro' \in OptionsStates
      BY <2>1, <3>1, <3>2 DEF OptionsStates
    <3>5. /\ ro'.model = m /\ ro'.saved = m /\ ro'.offered = ro.offered
          /\ ro'.level = p.level /\ ro'.kept = p.kept
          /\ ro'.search = ro.search /\ ro'.wanted = ro.wanted /\ ro'.foreign = ro.foreign
      BY <3>1, <3>2, <3>3 DEF OptionsStates
    <3> QED
      BY <2>4, <3>1, <3>4, <3>5 DEF CopiesAgree, Resolve
  <2>5. CASE m # None /\ m # ro.model /\ m \notin ro.offered
    <3>1. ContextNow.state = "none" /\ m = Resolve(ro)
      BY <2>5, ImageModelOffered DEF ResolveForImageContext
    <3>2. Resolve(ro) \in ro.offered \cup {None}
      <4>1. FirstOf(ro.offered) \in ro.offered \cup {None}
        BY FirstIsIn DEF FirstOf
      <4> QED
        BY <4>1 DEF Resolve
    <3> QED
      BY <2>5, <3>1, <3>2
  <2> QED
    BY <2>3, <2>4, <2>5
<1>5. CASE ReloadPage
  <2>1. ro' = [OptionsStart(TRUE) EXCEPT !.saved = ro.saved, !.kept = ro.kept, !.wanted = ro.wanted,
                 !.level = ro.kept, !.search = ro.wanted, !.at = ro.at, !.context = ro.context]
    BY <1>5 DEF ReloadPage
  <2>2. OptionsStart(TRUE).applied \in [chat : Chats \cup {"home"}, context : Contexts]
    BY DEF OptionsStart, NoKey, Contexts
  <2>3. ro' \in OptionsStates
    BY <2>1, <2>2 DEF OptionsStates, OptionsStart
  <2>4. /\ ro'.offered = {} /\ ro'.model = None /\ ro'.level = ro'.kept /\ ro'.search = ro'.wanted
    BY <2>1 DEF OptionsStart
  <2>5. Resolve(ro') = None
    BY <2>4 DEF Resolve, FirstOf
  <2> QED
    BY <2>3, <2>4, <2>5 DEF CopiesAgree
<1>6. ASSUME NEW m \in Models, ChooseModel(m) PROVE OptionsInv'
  <2>1. m \in ro.offered /\ ro' = OnModelPicked(ro, m)
    BY <1>6 DEF ChooseModel, ModelSelectable
  <2>2. /\ ro' \in OptionsStates /\ ro'.saved = m /\ ro'.model = m
        /\ ro' = [ro EXCEPT !.saved = m, !.model = m, !.kept = ro'.kept, !.level = ro'.level]
        /\ ro.level = ro.kept => ro'.level = ro'.kept
    BY <2>1, PickedAgrees
  <2>3. /\ ro'.offered = ro.offered /\ ro'.search = ro.search /\ ro'.wanted = ro.wanted
        /\ ro'.foreign = ro.foreign
    BY <2>2, Zenon DEF OptionsStates
  <2> QED
    BY <2>1, <2>2, <2>3 DEF CopiesAgree, Resolve
<1>7. ASSUME NEW l \in Levels, ChooseLevel(l) PROVE OptionsInv'
  BY <1>7, Zenon DEF ChooseLevel, OptionsStates, CopiesAgree, Resolve
<1>8. ASSUME NEW c \in Chats \cup {"home"}, Navigate(c) PROVE OptionsInv'
  BY <1>8 DEF Navigate, OptionsStates, CopiesAgree, Resolve
<1>9. ASSUME NEW c \in Chats, NEW x \in Contexts, ContextChanges(c, x) PROVE OptionsInv'
  BY <1>9 DEF ContextChanges, OptionsStates, CopiesAgree, Resolve
<1>10. ASSUME NEW m \in Models, NEW l \in Levels, NEW s \in BOOLEAN, OtherTab(m, l, s)
       PROVE  OptionsInv'
  BY <1>10, Zenon DEF OtherTab, OptionsStates, CopiesAgree
<1> QED
  BY <1>1, <1>2, <1>3, <1>4, <1>5, <1>6, <1>7, <1>8, <1>9, <1>10 DEF OptionsNext

(* What is sent is what is shown, and it fits: from the agreement of the    *)
(* copies.                                                                  *)
LEMMA OptionsHold ==
  ASSUME OptionsInv PROVE OptionsTypeOK /\ SentAsShown /\ LevelFits /\ SeeingKept
<1> DEFINE m == Resolve(ro)
           r == CurrentRunOptions(ro)
           allowed == IF m = None THEN {} ELSE Tiers[m]
<1>t. ro \in OptionsStates /\ CopiesAgree
  BY DEF OptionsInv, OptionsTypes
<1>1. m \in Models \cup {None}
  BY <1>t, ResolveTypes DEF OptionsStates
<1>2. allowed \in SUBSET Levels
  BY <1>1, OptionsAssumption
<1>3. r.model = m /\ r.level = ClampThinkingLevel(ro.kept, allowed)
      /\ r.search = (ro.webSearch /\ ro.wanted)
  BY DEF CurrentRunOptions
<1>4. ro.kept \in Levels
  BY <1>t DEF OptionsStates
<1>5. allowed # {} => r.level \in allowed
  BY <1>2, <1>3, <1>4, ClampTypes
<1>6. SentAsShown
  <2> SUFFICES ASSUME ~ro.foreign
               PROVE  /\ r.model = ro.model /\ r.search = (ro.search /\ ro.webSearch)
                      /\ AllowedLevels # {} => r.level = EffectiveLevel
    BY DEF SentAsShown
  <2>1. m = ro.model /\ ro.level = ro.kept /\ ro.search = ro.wanted
    BY <1>t DEF CopiesAgree
  <2> HIDE DEF r
  <2>2. CASE m = None
    <3>1. r.level = ro.kept
      BY <1>3, <2>2 DEF ClampThinkingLevel
    <3>2. EffectiveLevel = ro.level
      BY <1>4, <2>1, <2>2 DEF EffectiveLevel, AllowedLevels, ClampThinkingLevel
    <3> QED
      BY <1>3, <2>1, <3>1, <3>2
  <2>3. CASE m # None
    <3>1. allowed = AllowedLevels
      BY <2>1, <2>3 DEF AllowedLevels
    <3> QED
      BY <1>3, <2>1, <3>1 DEF EffectiveLevel
  <2> QED
    BY <2>2, <2>3
<1>7. LevelFits
  BY <1>3, <1>5 DEF LevelFits
<1>8. SeeingKept
  BY <1>6 DEF SeeingKept, SentAsShown, VisionMutationBlocked
<1>9. OptionsTypeOK
  BY <1>t DEF OptionsTypeOK, OptionsStates
<1> QED
  BY <1>6, <1>7, <1>8, <1>9

-----------------------------------------------------------------------------
(* ComposerMenus.  One popover at a time; and a drag is counted only while  *)
(* files are over a page that takes them, so that the count is zero when    *)
(* the next one comes in.                                                   *)

MenusStates ==
  [on : BOOLEAN, tools : BOOLEAN, picker : BOOLEAN, submenu : {"none", "model", "level"},
   inline : BOOLEAN, allowed : BOOLEAN, over : BOOLEAN, pending : BOOLEAN,
   depth : Nat, drag : BOOLEAN, dropped : {"none", "taken", "browser"},
   offered : BOOLEAN, levels : BOOLEAN, text : {"none", "line", "long"}, wide : BOOLEAN]

DragCounted == /\ cm.drag => cm.depth > 0
               /\ ~cm.over \/ ~cm.allowed => cm.depth = 0 /\ ~cm.drag
               /\ cm.depth <= MaxDepth + 1

MenusInv == cm \in MenusStates /\ ~(cm.tools /\ cm.picker) /\ DragCounted

LEMMA MenusInit == ASSUME NEW b \in BOOLEAN, cm = MenusStart(b) PROVE MenusInv
<1>1. MaxDepth \in Nat
  BY DragAssumption
<1> QED
  BY <1>1 DEF MenusStart, MenusInv, MenusStates, DragCounted

(* What a step of the menus may change without touching the drag.           *)
LEMMA DragKept ==
  ASSUME MenusInv, cm' \in MenusStates, ~(cm'.tools /\ cm'.picker), cm'.drag = cm.drag,
         cm'.depth = cm.depth, cm'.over = cm.over,
         cm'.allowed = cm.allowed \/ cm'.allowed = TRUE
  PROVE  MenusInv'
  BY DEF MenusInv, DragCounted

LEMMA MenusStep == MenusInv /\ [MenusNext]_cm => MenusInv'
<1> SUFFICES ASSUME MenusInv, MenusNext PROVE MenusInv'
  BY DEF MenusInv, DragCounted
<1>m. MaxDepth \in Nat
  BY DragAssumption
<1>t. cm \in MenusStates /\ ~(cm.tools /\ cm.picker)
  BY DEF MenusInv
<1>1. CASE TogglePicker
  <2>1. cm' \in MenusStates /\ ~(cm'.tools /\ cm'.picker)
    BY <1>1, <1>t, Zenon DEF TogglePicker, MenusStates
  <2>2. cm'.drag = cm.drag /\ cm'.depth = cm.depth
    BY <1>1, <1>t DEF TogglePicker, MenusStates
  <2>3. cm'.over = cm.over /\ cm'.allowed = cm.allowed
    BY <1>1, <1>t DEF TogglePicker, MenusStates
  <2> QED
    BY <2>1, <2>2, <2>3, DragKept
<1>2. CASE ToggleTools
  <2>1. cm' \in MenusStates /\ ~(cm'.tools /\ cm'.picker)
    BY <1>2, <1>t, Zenon DEF ToggleTools, MenusStates
  <2>2. cm'.drag = cm.drag /\ cm'.depth = cm.depth
    BY <1>2, <1>t DEF ToggleTools, MenusStates
  <2>3. cm'.over = cm.over /\ cm'.allowed = cm.allowed
    BY <1>2, <1>t DEF ToggleTools, MenusStates
  <2> QED
    BY <2>1, <2>2, <2>3, DragKept
<1>3. CASE PickLevel
  <2>1. cm' \in MenusStates /\ ~(cm'.tools /\ cm'.picker)
    BY <1>3, <1>t DEF PickLevel, MenusStates
  <2>2. cm'.drag = cm.drag /\ cm'.depth = cm.depth
    BY <1>3, <1>t DEF PickLevel, MenusStates
  <2>3. cm'.over = cm.over /\ cm'.allowed = cm.allowed
    BY <1>3, <1>t DEF PickLevel, MenusStates
  <2> QED
    BY <2>1, <2>2, <2>3, DragKept
<1>4. CASE PressOutside
  <2>1. cm' \in MenusStates /\ ~(cm'.tools /\ cm'.picker)
    BY <1>4, <1>t, Zenon DEF PressOutside, MenusStates
  <2>2. cm'.drag = cm.drag /\ cm'.depth = cm.depth
    BY <1>4, <1>t DEF PressOutside, MenusStates
  <2>3. cm'.over = cm.over /\ cm'.allowed = cm.allowed
    BY <1>4, <1>t DEF PressOutside, MenusStates
  <2> QED
    BY <2>1, <2>2, <2>3, DragKept
<1>5. CASE OpenChooser
  <2>1. cm' \in MenusStates /\ ~(cm'.tools /\ cm'.picker)
    BY <1>5, <1>t, Zenon DEF OpenChooser, MenusStates
  <2>2. cm'.drag = cm.drag /\ cm'.depth = cm.depth
    BY <1>5, <1>t DEF OpenChooser, MenusStates
  <2>3. cm'.over = cm.over /\ cm'.allowed = cm.allowed
    BY <1>5, <1>t DEF OpenChooser, MenusStates
  <2> QED
    BY <2>1, <2>2, <2>3, DragKept
<1>6. ASSUME NEW m \in {"model", "level"}, NEW b \in BOOLEAN, ToggleSubmenu(m, b)
      PROVE  MenusInv'
  <2>1. cm' \in MenusStates /\ ~(cm'.tools /\ cm'.picker)
    BY <1>6, <1>t, Zenon DEF ToggleSubmenu, MenusStates
  <2>2. cm'.drag = cm.drag /\ cm'.depth = cm.depth
    BY <1>6, <1>t DEF ToggleSubmenu, MenusStates
  <2>3. cm'.over = cm.over /\ cm'.allowed = cm.allowed
    BY <1>6, <1>t DEF ToggleSubmenu, MenusStates
  <2> QED
    BY <2>1, <2>2, <2>3, DragKept
<1>7. ASSUME NEW b \in BOOLEAN, PickModel(b) PROVE MenusInv'
  <2>1. cm' \in MenusStates /\ ~(cm'.tools /\ cm'.picker)
    BY <1>7, <1>t, Zenon DEF PickModel, MenusStates
  <2>2. cm'.drag = cm.drag /\ cm'.depth = cm.depth
    BY <1>7, <1>t DEF PickModel, MenusStates
  <2>3. cm'.over = cm.over /\ cm'.allowed = cm.allowed
    BY <1>7, <1>t DEF PickModel, MenusStates
  <2> QED
    BY <2>1, <2>2, <2>3, DragKept
<1>8. ASSUME NEW b \in BOOLEAN, CapabilitiesArrive(b) PROVE MenusInv'
  <2>1. cm' \in MenusStates /\ ~(cm'.tools /\ cm'.picker)
    BY <1>8, <1>t, Zenon DEF CapabilitiesArrive, MenusStates
  <2>2. cm'.drag = cm.drag /\ cm'.depth = cm.depth
    BY <1>8, <1>t DEF CapabilitiesArrive, MenusStates
  <2>3. cm'.over = cm.over /\ cm'.allowed = TRUE
    BY <1>8, <1>t DEF CapabilitiesArrive, MenusStates
  <2> QED
    BY <2>1, <2>2, <2>3, DragKept, Zenon
<1>9. ASSUME NEW t \in {"none", "line", "long"}, MeasurePrompt(t) PROVE MenusInv'
  <2>1. cm' \in MenusStates /\ ~(cm'.tools /\ cm'.picker)
    BY <1>9, <1>t, Zenon DEF MeasurePrompt, MenusStates
  <2>2. cm'.drag = cm.drag /\ cm'.depth = cm.depth
    BY <1>9, <1>t DEF MeasurePrompt, MenusStates
  <2>3. cm'.over = cm.over /\ cm'.allowed = cm.allowed
    BY <1>9, <1>t DEF MeasurePrompt, MenusStates
  <2> QED
    BY <2>1, <2>2, <2>3, DragKept
<1>10. ASSUME NEW b \in BOOLEAN, AllowDrops(b) PROVE MenusInv'
  <2>1. CASE b
    <3>1. cm' = [cm EXCEPT !.allowed = TRUE]
      BY <1>10, <2>1, Zenon DEF AllowDrops, ResetDrag
    <3>g. ~cm.allowed
      BY <1>10, <2>1, Zenon DEF AllowDrops
    <3>4. cm' \in MenusStates
      BY <3>1, <1>t, Zenon DEF MenusStates
    <3>5. cm'.allowed = TRUE /\ cm'.over = cm.over
      BY <3>1, <1>t DEF MenusStates
    <3>6. cm'.depth = cm.depth /\ cm'.drag = cm.drag
      BY <3>1, <1>t DEF MenusStates
    <3>7. cm'.tools = cm.tools /\ cm'.picker = cm.picker
      BY <3>1, <1>t DEF MenusStates
    <3>8. cm.depth \in Nat /\ DragCounted
      BY <1>t DEF MenusInv, MenusStates
    <3>9. DragCounted'
      BY <2>1, <1>m, <3>g, <3>5, <3>6, <3>8 DEF DragCounted
    <3> QED
      BY <1>t, <3>4, <3>7, <3>9 DEF MenusInv
  <2>2. CASE ~b
    <3>1. cm' = [cm EXCEPT !.allowed = FALSE, !.depth = 0, !.drag = FALSE]
      BY <1>10, <2>2 DEF AllowDrops, ResetDrag
    <3>4. cm' \in MenusStates
      BY <3>1, <1>t, Zenon DEF MenusStates
    <3>5. cm'.allowed = FALSE /\ cm'.over = cm.over
      BY <3>1, <1>t DEF MenusStates
    <3>6. cm'.depth = 0 /\ cm'.drag = FALSE
      BY <3>1, <1>t DEF MenusStates
    <3>7. cm'.tools = cm.tools /\ cm'.picker = cm.picker
      BY <3>1, <1>t DEF MenusStates
    <3>8. cm.depth \in Nat /\ DragCounted
      BY <1>t DEF MenusInv, MenusStates
    <3>9. DragCounted'
      BY <2>2, <1>m, <3>5, <3>6, <3>8 DEF DragCounted
    <3> QED
      BY <1>t, <3>4, <3>7, <3>9 DEF MenusInv
  <2> QED
    BY <2>1, <2>2
<1>11. CASE DragIn
  <2>1. CASE cm.allowed
    <3>1. cm' = [cm EXCEPT !.depth = @ + 1, !.drag = TRUE, !.over = TRUE, !.dropped = "none"]
      BY <1>11, <2>1 DEF DragIn, OnDragEnter
    <3>g. ~cm.over
      BY <1>11, <2>1 DEF DragIn
    <3>2. cm.depth + 1 \in Nat
      BY <1>t, <2>1, <3>g DEF MenusStates
    <3>3. \A d \in Nat : [cm EXCEPT !.depth = d, !.drag = TRUE, !.over = TRUE, !.dropped = "none"]
               \in MenusStates
      BY <1>t, Zenon DEF MenusStates
    <3>4. cm' \in MenusStates
      BY <3>1, <3>2, <3>3
    <3>5. cm'.allowed = cm.allowed /\ cm'.over = TRUE
      BY <3>1, <1>t DEF MenusStates
    <3>6. cm'.depth = cm.depth + 1 /\ cm'.drag = TRUE
      BY <3>1, <1>t DEF MenusStates
    <3>7. cm'.tools = cm.tools /\ cm'.picker = cm.picker
      BY <3>1, <1>t DEF MenusStates
    <3>8. cm.depth \in Nat /\ DragCounted
      BY <1>t DEF MenusInv, MenusStates
    <3>9. DragCounted'
      BY <2>1, <1>m, <3>g, <3>5, <3>6, <3>8 DEF DragCounted
    <3> QED
      BY <1>t, <3>4, <3>7, <3>9 DEF MenusInv
  <2>2. CASE ~cm.allowed
    <3>1. cm' = [cm EXCEPT !.over = TRUE, !.dropped = "none"]
      BY <1>11, <2>2 DEF DragIn, OnDragEnter
    <3>4. cm' \in MenusStates
      BY <3>1, <1>t, Zenon DEF MenusStates
    <3>5. cm'.allowed = cm.allowed /\ cm'.over = TRUE
      BY <3>1, <1>t DEF MenusStates
    <3>6. cm'.depth = cm.depth /\ cm'.drag = cm.drag
      BY <3>1, <1>t DEF MenusStates
    <3>7. cm'.tools = cm.tools /\ cm'.picker = cm.picker
      BY <3>1, <1>t DEF MenusStates
    <3>8. cm.depth \in Nat /\ DragCounted
      BY <1>t DEF MenusInv, MenusStates
    <3>9. DragCounted'
      BY <2>2, <1>m, <3>5, <3>6, <3>8 DEF DragCounted
    <3> QED
      BY <1>t, <3>4, <3>7, <3>9 DEF MenusInv
  <2> QED
    BY <2>1, <2>2
<1>12. CASE DragAcross
  <2>p. PICK gone \in BOOLEAN : cm' = [OnDragEnter(cm) EXCEPT !.pending = ~gone]
    BY <1>12 DEF DragAcross
  <2>g. cm.depth < MaxDepth /\ cm.over
    BY <1>12 DEF DragAcross
  <2>1. CASE cm.allowed
    <3>1. cm' = [cm EXCEPT !.depth = @ + 1, !.drag = TRUE, !.pending = ~gone]
      BY <2>p, <2>1 DEF OnDragEnter
    <3>2. cm.depth + 1 \in Nat
      BY <1>t, <2>1 DEF MenusStates
    <3>3. \A d \in Nat : [cm EXCEPT !.depth = d, !.drag = TRUE, !.pending = ~gone]
               \in MenusStates
      BY <1>t, Zenon DEF MenusStates
    <3>4. cm' \in MenusStates
      BY <3>1, <3>2, <3>3
    <3>5. cm'.allowed = cm.allowed /\ cm'.over = cm.over
      BY <3>1, <1>t DEF MenusStates
    <3>6. cm'.depth = cm.depth + 1 /\ cm'.drag = TRUE
      BY <3>1, <1>t DEF MenusStates
    <3>7. cm'.tools = cm.tools /\ cm'.picker = cm.picker
      BY <3>1, <1>t DEF MenusStates
    <3>8. cm.depth \in Nat /\ DragCounted
      BY <1>t DEF MenusInv, MenusStates
    <3>9. DragCounted'
      BY <2>g, <2>1, <1>m, <3>5, <3>6, <3>8 DEF DragCounted
    <3> QED
      BY <1>t, <3>4, <3>7, <3>9 DEF MenusInv
  <2>2. CASE ~cm.allowed
    <3>1. cm' = [cm EXCEPT !.pending = ~gone]
      BY <2>p, <2>2 DEF OnDragEnter
    <3>4. cm' \in MenusStates
      BY <3>1, <1>t, Zenon DEF MenusStates
    <3>5. cm'.allowed = cm.allowed /\ cm'.over = cm.over
      BY <3>1, <1>t DEF MenusStates
    <3>6. cm'.depth = cm.depth /\ cm'.drag = cm.drag
      BY <3>1, <1>t DEF MenusStates
    <3>7. cm'.tools = cm.tools /\ cm'.picker = cm.picker
      BY <3>1, <1>t DEF MenusStates
    <3>8. cm.depth \in Nat /\ DragCounted
      BY <1>t DEF MenusInv, MenusStates
    <3>9. DragCounted'
      BY <2>g, <2>2, <1>m, <3>5, <3>6, <3>8, Zenon DEF DragCounted
    <3> QED
      BY <1>t, <3>4, <3>7, <3>9 DEF MenusInv
  <2> QED
    BY <2>1, <2>2
<1>13. CASE DragLeft
  <2>1. CASE ~cm.allowed
    <3>1. cm' = [cm EXCEPT !.pending = FALSE]
      BY <1>13, <2>1 DEF DragLeft, OnDragLeave, ResetDrag
    <3>4. cm' \in MenusStates
      BY <3>1, <1>t, Zenon DEF MenusStates
    <3>5. cm'.allowed = cm.allowed /\ cm'.over = cm.over
      BY <3>1, <1>t DEF MenusStates
    <3>6. cm'.depth = cm.depth /\ cm'.drag = cm.drag
      BY <3>1, <1>t DEF MenusStates
    <3>7. cm'.tools = cm.tools /\ cm'.picker = cm.picker
      BY <3>1, <1>t DEF MenusStates
    <3>8. cm.depth \in Nat /\ DragCounted
      BY <1>t DEF MenusInv, MenusStates
    <3>9. DragCounted'
      BY <2>1, <1>m, <3>5, <3>6, <3>8 DEF DragCounted
    <3> QED
      BY <1>t, <3>4, <3>7, <3>9 DEF MenusInv
  <2>2. CASE cm.allowed /\ cm.depth = 0
    <3>1. cm' = [cm EXCEPT !.depth = 0, !.drag = FALSE, !.pending = FALSE]
      BY <1>13, <2>2, Zenon DEF DragLeft, OnDragLeave, ResetDrag
    <3>4. cm' \in MenusStates
      BY <3>1, <1>t, Zenon DEF MenusStates
    <3>5. cm'.allowed = cm.allowed /\ cm'.over = cm.over
      BY <3>1, <1>t DEF MenusStates
    <3>6. cm'.depth = 0 /\ cm'.drag = FALSE
      BY <3>1, <1>t DEF MenusStates
    <3>7. cm'.tools = cm.tools /\ cm'.picker = cm.picker
      BY <3>1, <1>t DEF MenusStates
    <3>8. cm.depth \in Nat /\ DragCounted
      BY <1>t DEF MenusInv, MenusStates
    <3>9. DragCounted'
      BY <2>2, <1>m, <3>5, <3>6, <3>8, Zenon DEF DragCounted
    <3> QED
      BY <1>t, <3>4, <3>7, <3>9 DEF MenusInv
  <2>3. CASE cm.allowed /\ cm.depth = 1
    <3>a. cm.depth # 0 /\ cm.depth - 1 = 0
      BY <2>3
    <3>b. OnDragLeave(cm, FALSE) = ResetDrag([cm EXCEPT !.depth = 0])
      BY <2>3, <3>a DEF OnDragLeave
    <3>1. cm' = [cm EXCEPT !.depth = 0, !.drag = FALSE, !.pending = FALSE]
      BY <1>13, <3>b, Zenon DEF DragLeft, ResetDrag
    <3>4. cm' \in MenusStates
      BY <3>1, <1>t DEF MenusStates
    <3>5. cm'.allowed = cm.allowed /\ cm'.over = cm.over
      BY <3>1, <1>t DEF MenusStates
    <3>6. cm'.depth = 0 /\ cm'.drag = FALSE
      BY <3>1, <1>t DEF MenusStates
    <3>7. cm'.tools = cm.tools /\ cm'.picker = cm.picker
      BY <3>1, <1>t DEF MenusStates
    <3>8. cm.depth \in Nat /\ DragCounted
      BY <1>t DEF MenusInv, MenusStates
    <3>9. DragCounted'
      BY <2>3, <1>m, <3>5, <3>6, <3>8 DEF DragCounted
    <3> QED
      BY <1>t, <3>4, <3>7, <3>9 DEF MenusInv
  <2>4. CASE cm.allowed /\ cm.depth # 0 /\ cm.depth # 1
    <3>1. cm' = [cm EXCEPT !.depth = @ - 1, !.pending = FALSE]
      BY <1>13, <2>4 DEF DragLeft, OnDragLeave, ResetDrag
    <3>g. cm.over
      BY <1>13, <2>4, Zenon DEF DragLeft
    <3>2. cm.depth - 1 \in Nat
      BY <1>t, <2>4, <3>g DEF MenusStates
    <3>3. \A d \in Nat : [cm EXCEPT !.depth = d, !.pending = FALSE]
               \in MenusStates
      BY <1>t, Zenon DEF MenusStates
    <3>4. cm' \in MenusStates
      BY <3>1, <3>2, <3>3
    <3>5. cm'.allowed = cm.allowed /\ cm'.over = cm.over
      BY <3>1, <1>t DEF MenusStates
    <3>6. cm'.depth = cm.depth - 1 /\ cm'.drag = cm.drag
      BY <3>1, <1>t DEF MenusStates
    <3>7. cm'.tools = cm.tools /\ cm'.picker = cm.picker
      BY <3>1, <1>t DEF MenusStates
    <3>8. cm.depth \in Nat /\ DragCounted
      BY <1>t DEF MenusInv, MenusStates
    <3>9. DragCounted'
      BY <2>4, <1>m, <3>g, <3>5, <3>6, <3>8 DEF DragCounted
    <3> QED
      BY <1>t, <3>4, <3>7, <3>9 DEF MenusInv
  <2> QED
    BY <2>1, <2>2, <2>3, <2>4
<1>14. CASE DragOut
  <2>1. CASE cm.allowed
    <3>1. cm' = [cm EXCEPT !.depth = 0, !.drag = FALSE, !.over = FALSE]
      BY <1>14, <2>1, Zenon DEF DragOut, OnDragLeave, ResetDrag
    <3>4. cm' \in MenusStates
      BY <3>1, <1>t, Zenon DEF MenusStates
    <3>5. cm'.allowed = cm.allowed /\ cm'.over = FALSE
      BY <3>1, <1>t DEF MenusStates
    <3>6. cm'.depth = 0 /\ cm'.drag = FALSE
      BY <3>1, <1>t DEF MenusStates
    <3>7. cm'.tools = cm.tools /\ cm'.picker = cm.picker
      BY <3>1, <1>t DEF MenusStates
    <3>8. cm.depth \in Nat /\ DragCounted
      BY <1>t DEF MenusInv, MenusStates
    <3>9. DragCounted'
      BY <2>1, <1>m, <3>5, <3>6, <3>8 DEF DragCounted
    <3> QED
      BY <1>t, <3>4, <3>7, <3>9 DEF MenusInv
  <2>2. CASE ~cm.allowed
    <3>1. cm' = [cm EXCEPT !.over = FALSE]
      BY <1>14, <2>2 DEF DragOut, OnDragLeave, ResetDrag
    <3>4. cm' \in MenusStates
      BY <3>1, <1>t, Zenon DEF MenusStates
    <3>5. cm'.allowed = cm.allowed /\ cm'.over = FALSE
      BY <3>1, <1>t DEF MenusStates
    <3>6. cm'.depth = cm.depth /\ cm'.drag = cm.drag
      BY <3>1, <1>t DEF MenusStates
    <3>7. cm'.tools = cm.tools /\ cm'.picker = cm.picker
      BY <3>1, <1>t DEF MenusStates
    <3>8. cm.depth \in Nat /\ DragCounted
      BY <1>t DEF MenusInv, MenusStates
    <3>9. DragCounted'
      BY <2>2, <1>m, <3>5, <3>6, <3>8 DEF DragCounted
    <3> QED
      BY <1>t, <3>4, <3>7, <3>9 DEF MenusInv
  <2> QED
    BY <2>1, <2>2
<1>15. CASE OnDrop
  <2>1. CASE cm.allowed
    <3>1. cm' = [cm EXCEPT !.depth = 0, !.drag = FALSE, !.over = FALSE, !.dropped = "taken"]
      BY <1>15, <2>1 DEF OnDrop, ResetDrag
    <3>4. cm' \in MenusStates
      BY <3>1, <1>t, Zenon DEF MenusStates
    <3>5. cm'.allowed = cm.allowed /\ cm'.over = FALSE
      BY <3>1, <1>t DEF MenusStates
    <3>6. cm'.depth = 0 /\ cm'.drag = FALSE
      BY <3>1, <1>t DEF MenusStates
    <3>7. cm'.tools = cm.tools /\ cm'.picker = cm.picker
      BY <3>1, <1>t DEF MenusStates
    <3>8. cm.depth \in Nat /\ DragCounted
      BY <1>t DEF MenusInv, MenusStates
    <3>9. DragCounted'
      BY <2>1, <1>m, <3>5, <3>6, <3>8 DEF DragCounted
    <3> QED
      BY <1>t, <3>4, <3>7, <3>9 DEF MenusInv
  <2>2. CASE ~cm.allowed
    <3>1. cm' = [cm EXCEPT !.over = FALSE, !.dropped = "browser"]
      BY <1>15, <2>2 DEF OnDrop, ResetDrag
    <3>4. cm' \in MenusStates
      BY <3>1, <1>t, Zenon DEF MenusStates
    <3>5. cm'.allowed = cm.allowed /\ cm'.over = FALSE
      BY <3>1, <1>t DEF MenusStates
    <3>6. cm'.depth = cm.depth /\ cm'.drag = cm.drag
      BY <3>1, <1>t DEF MenusStates
    <3>7. cm'.tools = cm.tools /\ cm'.picker = cm.picker
      BY <3>1, <1>t DEF MenusStates
    <3>8. cm.depth \in Nat /\ DragCounted
      BY <1>t DEF MenusInv, MenusStates
    <3>9. DragCounted'
      BY <2>2, <1>m, <3>5, <3>6, <3>8 DEF DragCounted
    <3> QED
      BY <1>t, <3>4, <3>7, <3>9 DEF MenusInv
  <2> QED
    BY <2>1, <2>2
<1>16. CASE OnBlur
  <2>1. cm' = [cm EXCEPT !.depth = 0, !.drag = FALSE]
    BY <1>16 DEF OnBlur, ResetDrag
  <2>4. cm' \in MenusStates
    BY <2>1, <1>t, Zenon DEF MenusStates
  <2>5. cm'.allowed = cm.allowed /\ cm'.over = cm.over
    BY <2>1, <1>t DEF MenusStates
  <2>6. cm'.depth = 0 /\ cm'.drag = FALSE
    BY <2>1, <1>t DEF MenusStates
  <2>7. cm'.tools = cm.tools /\ cm'.picker = cm.picker
    BY <2>1, <1>t DEF MenusStates
  <2>8. cm.depth \in Nat /\ DragCounted
    BY <1>t DEF MenusInv, MenusStates
  <2>9. DragCounted'
    BY <1>m, <2>5, <2>6, <2>8 DEF DragCounted
  <2> QED
    BY <1>t, <2>4, <2>7, <2>9 DEF MenusInv
<1> QED
  BY <1>1, <1>2, <1>3, <1>4, <1>5, <1>6, <1>7, <1>8, <1>9, <1>10, <1>11, <1>12, <1>13, <1>14,
     <1>15, <1>16 DEF MenusNext

LEMMA MenusHold == ASSUME MenusInv PROVE MenusTypeOK /\ OneMenu /\ OverlayTrue
<1>1. cm \in MenusStates /\ cm.depth \in Nat /\ MaxDepth \in Nat
  BY DragAssumption DEF MenusInv, MenusStates
<1>2. cm.depth \in 0..(MaxDepth + 1)
  BY <1>1 DEF MenusInv, DragCounted
<1>3. MenusTypeOK
  BY <1>1, <1>2 DEF MenusTypeOK, MenusStates
<1>4. OneMenu
  BY DEF MenusInv, OneMenu, LevelItems, LevelRow, PickerMenu
<1>5. OverlayTrue
  BY <1>1 DEF MenusInv, DragCounted, OverlayTrue, DropOverlay, MenusStates
<1> QED
  BY <1>3, <1>4, <1>5

-----------------------------------------------------------------------------
(* Public links.  A create request that holds the row of a conversation and *)
(* saw no active link still sees none when it commits, because every other  *)
(* one waits for the row; links are only ever marked expired or revoked.    *)

LinkStates == [conv : ShareConvs, state : {"active", "expired", "revoked"}]
CallStates == [at : {"none", "asked", "locked", "done", "failed", "refused"}, conv : ShareConvs \cup {NoConv},
               confirm : BOOLEAN, seen : BOOLEAN, token : Nat]
DialogStates == [conv : ShareConvs \cup {NoConv}, loading : BOOLEAN, link : Nat, revoking : Nat]
QuickStates == [conv : ShareConvs \cup {NoConv}, at : {"none", "list", "copy", "create"}]
CardStates == [status : {"closed", "loading", "ready", "error"}, rows : SUBSET Nat, revoking : Nat]
PageStates == [status : {"closed", "loading", "ready", "reading", "error"}, token : Nat]
ShareStates ==
  [on : {"off", "card", "page"}, links : Seq(LinkStates), gone : SUBSET ShareConvs,
   lock : [ShareConvs -> Creators \cup {NoConv}], call : [Creators -> CallStates],
   shown : ShareConvs \cup {NoConv}, dialog : DialogStates, quick : QuickStates, card : CardStates,
   page : PageStates, told : SUBSET Nat]

(* Tokens that are held anywhere are tokens of links that were made.        *)
DialogRefs == sh.dialog.link <= Len(sh.links) /\ sh.dialog.revoking <= Len(sh.links)
CardRefs == (\A t \in sh.card.rows : t \in Tokens) /\ sh.card.revoking <= Len(sh.links)
PageRefs == sh.page.token <= Len(sh.links)
CallRefs == \A w \in Creators : sh.call[w].token <= Len(sh.links)
ToldRevoked == \A t \in sh.told : t \in Tokens /\ sh.links[t].state = "revoked"

(* Requests are for conversations, and one that is at work has the row.     *)
QuickAsks == sh.quick.at = "list" => sh.quick.conv \in ShareConvs
CallAsks == \A w \in Creators : sh.call[w].at \in {"asked", "locked"} => sh.call[w].conv \in ShareConvs
LockHeld == \A w \in Creators :
  sh.call[w].at = "locked" => /\ sh.lock[sh.call[w].conv] = w
                              /\ ~sh.call[w].seen => ActiveOf(sh.call[w].conv) = {}

OneOfEach == \A t, u \in Tokens :
  sh.links[t].conv = sh.links[u].conv /\ Active(t) /\ Active(u) => t = u

ShareInv == /\ sh \in ShareStates /\ Len(sh.links) <= MaxLinks
            /\ DialogRefs /\ CardRefs /\ PageRefs /\ CallRefs /\ ToldRevoked
            /\ QuickAsks /\ CallAsks /\ LockHeld /\ OneOfEach

LEMMA ShareBounds == MaxLinks \in Nat /\ MaxLinks > 0 /\ WithFiles \subseteq ShareConvs
  BY ShareAssumption

LEMMA ShareInit == ASSUME NEW on \in {"off", "card", "page"}, sh = ShareStart(on) PROVE ShareInv
<1>c. NoCall \in CallStates /\ NoQuick \in QuickStates
  BY DEF NoCall, NoQuick, CallStates, QuickStates
<1>d. [conv |-> NoConv, loading |-> FALSE, link |-> 0, revoking |-> 0] \in DialogStates
  BY DEF DialogStates
<1>e. [status |-> "closed", rows |-> {}, revoking |-> 0] \in CardStates
  BY DEF CardStates
<1>f. [status |-> "closed", token |-> 0] \in PageStates
  BY DEF PageStates
<1>g. [w \in Creators |-> NoCall] \in [Creators -> CallStates]
  BY <1>c
<1>h. <<>> \in Seq(LinkStates)
  OBVIOUS
<1>1. sh \in ShareStates
  BY <1>c, <1>d, <1>e, <1>f, <1>g, <1>h, Zenon DEF ShareStart, ShareStates
<1>2. sh.links = <<>> /\ sh.told = {} /\ sh.quick = NoQuick
  BY DEF ShareStart
<1>3. sh.dialog.link = 0 /\ sh.dialog.revoking = 0 /\ sh.card.rows = {} /\ sh.card.revoking = 0 /\ sh.page.token = 0
  BY DEF ShareStart
<1>4. \A w \in Creators : sh.call[w].at = "none" /\ sh.call[w].token = 0
  BY DEF ShareStart, NoCall
<1> QED
  BY <1>1, <1>2, <1>3, <1>4, ShareBounds
     DEF ShareInv, DialogRefs, CardRefs, PageRefs, CallRefs, ToldRevoked, QuickAsks, CallAsks, LockHeld,
         OneOfEach, NoQuick, Tokens

(* A step that leaves the links alone.                                      *)
LEMMA LinksKept ==
  ASSUME ShareInv, sh' \in ShareStates, sh'.links = sh.links, sh'.told = sh.told,
         \/ sh'.call = sh.call /\ sh'.lock = sh.lock
         \/ CallRefs' /\ CallAsks' /\ LockHeld',
         sh'.dialog = sh.dialog \/ DialogRefs', sh'.card = sh.card \/ CardRefs',
         sh'.page = sh.page \/ PageRefs', sh'.quick = sh.quick \/ QuickAsks'
  PROVE  ShareInv'
<1>1. Len(sh'.links) <= MaxLinks /\ ToldRevoked' /\ OneOfEach'
  BY DEF ShareInv, ToldRevoked, OneOfEach, Tokens, Active
<1>2. DialogRefs' /\ CardRefs' /\ PageRefs' /\ QuickAsks'
  BY DEF ShareInv, DialogRefs, CardRefs, PageRefs, QuickAsks, Tokens
<1>3. CallRefs' /\ CallAsks' /\ LockHeld'
  BY DEF ShareInv, CallRefs, CallAsks, LockHeld, ActiveOf, Tokens, Active
<1> QED
  BY <1>1, <1>2, <1>3 DEF ShareInv

(* A step that marks links expired or revoked.                              *)
LinksMarked ==
  /\ Len(sh'.links) = Len(sh.links)
  /\ \A u \in Tokens : /\ sh'.links[u].conv = sh.links[u].conv
                       /\ sh'.links[u].state = "active" => sh.links[u].state = "active"
                       /\ sh.links[u].state = "revoked" => sh'.links[u].state = "revoked"
  /\ \A u \in sh'.told : u \in sh.told \/ (u \in Tokens /\ sh'.links[u].state = "revoked")

LEMMA LinkMarked ==
  ASSUME ShareInv, sh' \in ShareStates, LinksMarked,
         sh'.call = sh.call, sh'.lock = sh.lock, sh'.quick = sh.quick, sh'.page = sh.page,
         sh'.dialog = sh.dialog \/ (sh'.dialog.link = 0 /\ sh'.dialog.revoking = 0),
         sh'.card = sh.card \/ (sh'.card.rows \subseteq sh.card.rows /\ sh'.card.revoking = 0)
  PROVE  ShareInv'
<1>s. sh \in ShareStates /\ sh.links \in Seq(LinkStates) /\ Len(sh.links) \in Nat
  BY DEF ShareInv, ShareStates
<1>1. Len(sh'.links) = Len(sh.links) /\ Tokens' = Tokens
  BY DEF LinksMarked, Tokens
<1>4. \A u \in Tokens : /\ sh'.links[u].conv = sh.links[u].conv
                        /\ Active(u)' => Active(u)
  BY DEF LinksMarked, Active
<1>5. OneOfEach'
  BY <1>1, <1>4 DEF OneOfEach, ShareInv, Active
<1>6. LockHeld'
  <2>1. ASSUME NEW c PROVE ActiveOf(c)' \subseteq ActiveOf(c)
    BY <1>1, <1>4 DEF ActiveOf
  <2> QED
    BY <2>1, <1>1, <1>4 DEF LockHeld, ShareInv, ActiveOf
<1>7. ToldRevoked'
  BY <1>1 DEF ToldRevoked, ShareInv, LinksMarked
<1>8. CallRefs' /\ CallAsks' /\ QuickAsks' /\ PageRefs' /\ Len(sh'.links) <= MaxLinks
  BY <1>1 DEF ShareInv, CallRefs, CallAsks, QuickAsks, PageRefs
<1>9. DialogRefs' /\ CardRefs'
  BY <1>1, <1>s DEF ShareInv, DialogRefs, CardRefs
<1> QED
  BY <1>5, <1>6, <1>7, <1>8, <1>9 DEF ShareInv

(* The newest active link is one that was made.                             *)
LEMMA ListedMade == ASSUME ShareInv, NEW c PROVE Listed(c) \in Nat /\ Listed(c) <= Len(sh.links)
<1>1. Tokens = 1..Len(sh.links) /\ Len(sh.links) \in Nat
  BY DEF Tokens, ShareInv, ShareStates
<1>2. ASSUME NEW t \in ActiveOf(c) PROVE t \in Nat /\ \A u \in ActiveOf(c) : u <= t
  BY <1>1, <1>2 DEF ActiveOf, ShareInv, OneOfEach
<1>3. CASE ActiveOf(c) = {}
  BY <1>1, <1>3 DEF Listed
<1>4. CASE ActiveOf(c) # {}
  <2>1. PICK t \in ActiveOf(c) : \A u \in ActiveOf(c) : u <= t
    BY <1>2, <1>4
  <2>2. Listed(c) \in ActiveOf(c)
    BY <1>4, <2>1 DEF Listed
  <2> QED
    BY <1>1, <2>2 DEF ActiveOf
<1> QED
  BY <1>3, <1>4

(* A link that is marked is a link.                                         *)
LEMMA MarkedLinks ==
  ASSUME NEW s \in Seq(LinkStates), NEW t \in 1..Len(s), NEW x \in {"expired", "revoked"}
  PROVE  /\ [s EXCEPT ![t].state = x] \in Seq(LinkStates)
         /\ Len([s EXCEPT ![t].state = x]) = Len(s)
         /\ \A u \in 1..Len(s) : u # t => [s EXCEPT ![t].state = x][u] = s[u]
         /\ [s EXCEPT ![t].state = x][t].state = x
         /\ [s EXCEPT ![t].state = x][t].conv = s[t].conv
<1>1. PICK y \in LinkStates : y = [s[t] EXCEPT !.state = x]
  <2>1. s[t] \in LinkStates
    OBVIOUS
  <2> QED
    BY <2>1, Zenon DEF LinkStates
<1>2. [s EXCEPT ![t].state = x] = [s EXCEPT ![t] = y]
  BY <1>1
<1>3. y.state = x /\ y.conv = s[t].conv
  BY <1>1 DEF LinkStates
<1> QED
  BY <1>2, <1>3, ExceptSeq
LEMMA ShareStep == ShareInv /\ [ShareNext]_sh => ShareInv'
<1>a. CASE sh' = sh
  BY <1>a DEF ShareInv, DialogRefs, CardRefs, PageRefs, CallRefs, ToldRevoked, QuickAsks, CallAsks, LockHeld,
              OneOfEach, Tokens, Active, ActiveOf
<1> SUFFICES ASSUME ShareInv, ShareNext PROVE ShareInv'
  BY <1>a
<1>t. sh \in ShareStates
  BY DEF ShareInv
<1>i. DialogRefs /\ CardRefs /\ PageRefs /\ CallRefs /\ ToldRevoked /\ QuickAsks /\ CallAsks /\ LockHeld /\ OneOfEach
  BY DEF ShareInv
<1>b. Len(sh.links) \in Nat /\ 0 \in Nat /\ MaxLinks \in Nat /\ Len(sh.links) >= 0
  BY <1>t, ShareBounds DEF ShareStates
<1>1. ASSUME NEW t \in 1..MaxLinks, VisitShare(t) PROVE ShareInv'
  <2>g. t \in Nat /\ t <= Len(sh.links)
    BY <1>1, <1>b DEF VisitShare, Tokens
  <2>v. PICK p \in PageStates : p = [status |-> "loading", token |-> t]
    BY <2>g, Zenon DEF PageStates
  <2>e. sh' = [sh EXCEPT !.page = p]
    BY <1>1, <2>v DEF VisitShare
  <2>y. p \in PageStates
    OBVIOUS
  <2>t. sh' \in ShareStates
    BY <1>t, <2>e, <2>y DEF ShareStates
  <2>k. sh'.links = sh.links /\ sh'.told = sh.told /\ sh'.call = sh.call /\ sh'.lock = sh.lock
    BY <1>t, <2>e DEF ShareStates
  <2>l. sh'.dialog = sh.dialog /\ sh'.card = sh.card /\ sh'.quick = sh.quick
    BY <1>t, <2>e DEF ShareStates
  <2>n. sh'.page = p
    BY <1>t, <2>e DEF ShareStates
  <2>c0. PageRefs'
    BY <2>v, <2>g, <2>n, <2>k, <2>l DEF PageRefs
  <2> QED
    BY <2>t, <2>n, <2>k, <2>l, <2>c0, LinksKept
<1>2. ASSUME NEW ok \in BOOLEAN, GetPublic(ok) PROVE ShareInv'
  <2>v. PICK p \in PageStates : p = [sh.page EXCEPT !.status = IF ok /\ Active(sh.page.token) THEN "ready" ELSE "error"]
    BY <1>t, Zenon DEF ShareStates, PageStates
  <2>p. p.token = sh.page.token
    BY <1>t, <2>v DEF ShareStates, PageStates
  <2>e. sh' = [sh EXCEPT !.page = p]
    BY <1>2, <2>v DEF GetPublic
  <2>y. p \in PageStates
    OBVIOUS
  <2>t. sh' \in ShareStates
    BY <1>t, <2>e, <2>y DEF ShareStates
  <2>k. sh'.links = sh.links /\ sh'.told = sh.told /\ sh'.call = sh.call /\ sh'.lock = sh.lock
    BY <1>t, <2>e DEF ShareStates
  <2>l. sh'.dialog = sh.dialog /\ sh'.card = sh.card /\ sh'.quick = sh.quick
    BY <1>t, <2>e DEF ShareStates
  <2>n. sh'.page = p
    BY <1>t, <2>e DEF ShareStates
  <2>c0. PageRefs'
    BY <1>i, <2>p, <2>n, <2>k, <2>l DEF PageRefs
  <2> QED
    BY <2>t, <2>n, <2>k, <2>l, <2>c0, LinksKept
<1>3. CASE ReadShared
  <2>v. PICK p \in PageStates : p = [sh.page EXCEPT !.status = "reading"]
    BY <1>t, Zenon DEF ShareStates, PageStates
  <2>p. p.token = sh.page.token
    BY <1>t, <2>v DEF ShareStates, PageStates
  <2>e. sh' = [sh EXCEPT !.page = p]
    BY <1>3, <2>v DEF ReadShared
  <2>y. p \in PageStates
    OBVIOUS
  <2>t. sh' \in ShareStates
    BY <1>t, <2>e, <2>y, Zenon DEF ShareStates
  <2>k. sh'.links = sh.links /\ sh'.told = sh.told /\ sh'.call = sh.call /\ sh'.lock = sh.lock
    BY <1>t, <2>e DEF ShareStates
  <2>l. sh'.dialog = sh.dialog /\ sh'.card = sh.card /\ sh'.quick = sh.quick
    BY <1>t, <2>e DEF ShareStates
  <2>n. sh'.page = p
    BY <1>t, <2>e DEF ShareStates
  <2>c0. PageRefs'
    BY <1>i, <2>p, <2>n, <2>k, <2>l DEF PageRefs
  <2> QED
    BY <2>t, <2>n, <2>k, <2>l, <2>c0, LinksKept
<1>4. CASE LeavePage
  <2>v. PICK p \in PageStates : p = [status |-> "closed", token |-> 0]
    BY <1>b, Zenon DEF PageStates
  <2>e. sh' = [sh EXCEPT !.page = p]
    BY <1>4, <2>v DEF LeavePage
  <2>y. p \in PageStates
    OBVIOUS
  <2>t. sh' \in ShareStates
    BY <1>t, <2>e, <2>y DEF ShareStates
  <2>k. sh'.links = sh.links /\ sh'.told = sh.told /\ sh'.call = sh.call /\ sh'.lock = sh.lock
    BY <1>t, <2>e DEF ShareStates
  <2>l. sh'.dialog = sh.dialog /\ sh'.card = sh.card /\ sh'.quick = sh.quick
    BY <1>t, <2>e DEF ShareStates
  <2>n. sh'.page = p
    BY <1>t, <2>e DEF ShareStates
  <2>c0. PageRefs'
    BY <1>b, <2>v, <2>n, <2>k, <2>l DEF PageRefs
  <2> QED
    BY <2>t, <2>n, <2>k, <2>l, <2>c0, LinksKept
<1>5. CASE OpenMyShares
  <2>v. PICK c \in CardStates : c = [status |-> "loading", rows |-> {}, revoking |-> 0]
    BY <1>b, Zenon DEF CardStates
  <2>e. sh' = [sh EXCEPT !.card = c]
    BY <1>5, <2>v DEF OpenMyShares
  <2>y. c \in CardStates
    OBVIOUS
  <2>t. sh' \in ShareStates
    BY <1>t, <2>e, <2>y, Zenon DEF ShareStates
  <2>k. sh'.links = sh.links /\ sh'.told = sh.told /\ sh'.call = sh.call /\ sh'.lock = sh.lock
    BY <1>t, <2>e DEF ShareStates
  <2>l. sh'.dialog = sh.dialog /\ sh'.page = sh.page /\ sh'.quick = sh.quick
    BY <1>t, <2>e DEF ShareStates
  <2>n. sh'.card = c
    BY <1>t, <2>e DEF ShareStates
  <2>c0. CardRefs'
    BY <1>b, <2>v, <2>n, <2>k, <2>l DEF CardRefs
  <2> QED
    BY <2>t, <2>n, <2>k, <2>l, <2>c0, LinksKept
<1>6. CASE CloseCard
  <2>v. PICK c \in CardStates : c = [status |-> "closed", rows |-> {}, revoking |-> 0]
    BY <1>b, Zenon DEF CardStates
  <2>e. sh' = [sh EXCEPT !.card = c]
    BY <1>6, <2>v DEF CloseCard
  <2>y. c \in CardStates
    OBVIOUS
  <2>t. sh' \in ShareStates
    BY <1>t, <2>e, <2>y DEF ShareStates
  <2>k. sh'.links = sh.links /\ sh'.told = sh.told /\ sh'.call = sh.call /\ sh'.lock = sh.lock
    BY <1>t, <2>e DEF ShareStates
  <2>l. sh'.dialog = sh.dialog /\ sh'.page = sh.page /\ sh'.quick = sh.quick
    BY <1>t, <2>e DEF ShareStates
  <2>n. sh'.card = c
    BY <1>t, <2>e DEF ShareStates
  <2>c0. CardRefs'
    BY <1>b, <2>v, <2>n, <2>k, <2>l DEF CardRefs
  <2> QED
    BY <2>t, <2>n, <2>k, <2>l, <2>c0, LinksKept
<1>7. ASSUME NEW ok \in BOOLEAN, CardLoaded(ok) PROVE ShareInv'
  <2>r. PICK rows \in SUBSET Nat : rows = (IF ok THEN Mine ELSE sh.card.rows) /\ \A u \in rows : u \in Tokens
    <3>1. Mine \in SUBSET Nat /\ \A u \in Mine : u \in Tokens
      BY <1>b DEF Mine, Tokens
    <3>2. sh.card.rows \in SUBSET Nat /\ \A u \in sh.card.rows : u \in Tokens
      BY <1>t, <1>i DEF CardRefs, ShareStates, CardStates
    <3> QED
      BY <3>1, <3>2
  <2>v. PICK c \in CardStates : c = [sh.card EXCEPT !.status = IF ok THEN "ready" ELSE "error", !.rows = rows]
    BY <1>t, Zenon DEF ShareStates, CardStates
  <2>p. c.rows = rows /\ c.revoking = sh.card.revoking
    BY <1>t, <2>v DEF ShareStates, CardStates
  <2>e. sh' = [sh EXCEPT !.card = c]
    BY <1>7, <2>r, <2>v, Zenon DEF CardLoaded
  <2>y. c \in CardStates
    OBVIOUS
  <2>t. sh' \in ShareStates
    BY <1>t, <2>e, <2>y DEF ShareStates
  <2>k. sh'.links = sh.links /\ sh'.told = sh.told /\ sh'.call = sh.call /\ sh'.lock = sh.lock
    BY <1>t, <2>e DEF ShareStates
  <2>l. sh'.dialog = sh.dialog /\ sh'.page = sh.page /\ sh'.quick = sh.quick
    BY <1>t, <2>e DEF ShareStates
  <2>n. sh'.card = c
    BY <1>t, <2>e DEF ShareStates
  <2>c0. CardRefs'
    BY <1>i, <2>r, <2>p, <2>n, <2>k, <2>l, Zenon DEF CardRefs, Tokens
  <2> QED
    BY <2>t, <2>n, <2>k, <2>l, <2>c0, LinksKept
<1>8. ASSUME NEW t \in 1..MaxLinks, CardRevoke(t) PROVE ShareInv'
  <2>g. t \in Nat /\ t <= Len(sh.links)
    BY <1>8, <1>b, <1>i DEF CardRevoke, CardRefs, Tokens
  <2>v. PICK c \in CardStates : c = [sh.card EXCEPT !.revoking = t]
    BY <1>t, <2>g, Zenon DEF ShareStates, CardStates
  <2>p. c.rows = sh.card.rows /\ c.revoking = t
    BY <1>t, <2>v DEF ShareStates, CardStates
  <2>e. sh' = [sh EXCEPT !.card = c]
    BY <1>8, <2>v DEF CardRevoke
  <2>y. c \in CardStates
    OBVIOUS
  <2>t. sh' \in ShareStates
    BY <1>t, <2>e, <2>y DEF ShareStates
  <2>k. sh'.links = sh.links /\ sh'.told = sh.told /\ sh'.call = sh.call /\ sh'.lock = sh.lock
    BY <1>t, <2>e DEF ShareStates
  <2>l. sh'.dialog = sh.dialog /\ sh'.page = sh.page /\ sh'.quick = sh.quick
    BY <1>t, <2>e DEF ShareStates
  <2>n. sh'.card = c
    BY <1>t, <2>e DEF ShareStates
  <2>c0. CardRefs'
    BY <1>i, <2>g, <2>p, <2>n, <2>k, <2>l DEF CardRefs, Tokens
  <2> QED
    BY <2>t, <2>n, <2>k, <2>l, <2>c0, LinksKept
<1>9. ASSUME NEW c \in ShareConvs, OpenShare(c) PROVE ShareInv'
  <2>v. PICK d \in DialogStates : d = [conv |-> c, loading |-> TRUE, link |-> 0, revoking |-> 0]
    BY <1>b, Zenon DEF DialogStates
  <2>e. sh' = [sh EXCEPT !.dialog = d]
    BY <1>9, <2>v DEF OpenShare
  <2>y. d \in DialogStates
    OBVIOUS
  <2>t. sh' \in ShareStates
    BY <1>t, <2>e, <2>y DEF ShareStates
  <2>k. sh'.links = sh.links /\ sh'.told = sh.told /\ sh'.call = sh.call /\ sh'.lock = sh.lock
    BY <1>t, <2>e DEF ShareStates
  <2>l. sh'.card = sh.card /\ sh'.page = sh.page /\ sh'.quick = sh.quick
    BY <1>t, <2>e DEF ShareStates
  <2>n. sh'.dialog = d
    BY <1>t, <2>e DEF ShareStates
  <2>c0. DialogRefs'
    BY <1>b, <2>v, <2>n, <2>k, <2>l DEF DialogRefs
  <2> QED
    BY <2>t, <2>n, <2>k, <2>l, <2>c0, LinksKept
<1>10. CASE CloseShare
  <2>v. PICK d \in DialogStates : d = [conv |-> NoConv, loading |-> FALSE, link |-> 0, revoking |-> 0]
    BY <1>b, Zenon DEF DialogStates
  <2>e. sh' = [sh EXCEPT !.dialog = d]
    BY <1>10, <2>v DEF CloseShare
  <2>y. d \in DialogStates
    OBVIOUS
  <2>t. sh' \in ShareStates
    BY <1>t, <2>e, <2>y, Zenon DEF ShareStates
  <2>k. sh'.links = sh.links /\ sh'.told = sh.told /\ sh'.call = sh.call /\ sh'.lock = sh.lock
    BY <1>t, <2>e DEF ShareStates
  <2>l. sh'.card = sh.card /\ sh'.page = sh.page /\ sh'.quick = sh.quick
    BY <1>t, <2>e DEF ShareStates
  <2>n. sh'.dialog = d
    BY <1>t, <2>e DEF ShareStates
  <2>c0. DialogRefs'
    BY <1>b, <2>v, <2>n, <2>k, <2>l DEF DialogRefs
  <2> QED
    BY <2>t, <2>n, <2>k, <2>l, <2>c0, LinksKept
<1>11. ASSUME NEW ok \in BOOLEAN, DialogLoaded(ok) PROVE ShareInv'
  <2>r. PICK x \in Nat : /\ x = IF ok /\ Visible(sh.dialog.conv) THEN Listed(sh.dialog.conv) ELSE 0
                        /\ x <= Len(sh.links)
    BY <1>b, ListedMade
  <2>v. PICK d \in DialogStates : d = [sh.dialog EXCEPT !.loading = FALSE, !.link = x]
    BY <1>t, Zenon DEF ShareStates, DialogStates
  <2>p. d.link = x /\ d.revoking = sh.dialog.revoking
    BY <1>t, <2>v DEF ShareStates, DialogStates
  <2>e. sh' = [sh EXCEPT !.dialog = d]
    BY <1>11, <2>r, <2>v, Zenon DEF DialogLoaded
  <2>y. d \in DialogStates
    OBVIOUS
  <2>t. sh' \in ShareStates
    BY <1>t, <2>e, <2>y, Zenon DEF ShareStates
  <2>k. sh'.links = sh.links /\ sh'.told = sh.told /\ sh'.call = sh.call /\ sh'.lock = sh.lock
    BY <1>t, <2>e DEF ShareStates
  <2>l. sh'.card = sh.card /\ sh'.page = sh.page /\ sh'.quick = sh.quick
    BY <1>t, <2>e DEF ShareStates
  <2>n. sh'.dialog = d
    BY <1>t, <2>e DEF ShareStates
  <2>c0. DialogRefs'
    BY <1>i, <2>r, <2>p, <2>n, <2>k, <2>l DEF DialogRefs
  <2> QED
    BY <2>t, <2>n, <2>k, <2>l, <2>c0, LinksKept
<1>12. CASE DialogRevoke
  <2>v. PICK d \in DialogStates : d = [sh.dialog EXCEPT !.revoking = sh.dialog.link]
    BY <1>t, Zenon DEF ShareStates, DialogStates
  <2>p. d.link = sh.dialog.link /\ d.revoking = sh.dialog.link
    BY <1>t, <2>v DEF ShareStates, DialogStates
  <2>e. sh' = [sh EXCEPT !.dialog = d]
    BY <1>12, <2>v DEF DialogRevoke
  <2>y. d \in DialogStates
    OBVIOUS
  <2>t. sh' \in ShareStates
    BY <1>t, <2>e, <2>y DEF ShareStates
  <2>k. sh'.links = sh.links /\ sh'.told = sh.told /\ sh'.call = sh.call /\ sh'.lock = sh.lock
    BY <1>t, <2>e DEF ShareStates
  <2>l. sh'.card = sh.card /\ sh'.page = sh.page /\ sh'.quick = sh.quick
    BY <1>t, <2>e DEF ShareStates
  <2>n. sh'.dialog = d
    BY <1>t, <2>e DEF ShareStates
  <2>c0. DialogRefs'
    BY <1>i, <2>p, <2>n, <2>k, <2>l DEF DialogRefs
  <2> QED
    BY <2>t, <2>n, <2>k, <2>l, <2>c0, LinksKept
<1>13. CASE QuickShare
  <2>g. sh.shown \in ShareConvs
    BY <1>t, <1>13 DEF QuickShare, ShareStates
  <2>v. PICK q \in QuickStates : q = [conv |-> sh.shown, at |-> "list"]
    BY <2>g, Zenon DEF QuickStates
  <2>e. sh' = [sh EXCEPT !.quick = q]
    BY <1>13, <2>v DEF QuickShare
  <2>y. q \in QuickStates
    OBVIOUS
  <2>t. sh' \in ShareStates
    BY <1>t, <2>e, <2>y, Zenon DEF ShareStates
  <2>k. sh'.links = sh.links /\ sh'.told = sh.told /\ sh'.call = sh.call /\ sh'.lock = sh.lock
    BY <1>t, <2>e DEF ShareStates
  <2>l. sh'.dialog = sh.dialog /\ sh'.card = sh.card /\ sh'.page = sh.page
    BY <1>t, <2>e DEF ShareStates
  <2>n. sh'.quick = q
    BY <1>t, <2>e DEF ShareStates
  <2>c0. QuickAsks'
    BY <2>g, <2>v, <2>n DEF QuickAsks
  <2> QED
    BY <2>t, <2>n, <2>k, <2>l, <2>c0, LinksKept
<1>14. CASE QuickCopied
  <2>v. PICK q \in QuickStates : q = NoQuick
    BY <1>b, Zenon DEF NoQuick, QuickStates
  <2>e. sh' = [sh EXCEPT !.quick = q]
    BY <1>14, <2>v DEF QuickCopied
  <2>y. q \in QuickStates
    OBVIOUS
  <2>t. sh' \in ShareStates
    BY <1>t, <2>e, <2>y DEF ShareStates
  <2>k. sh'.links = sh.links /\ sh'.told = sh.told /\ sh'.call = sh.call /\ sh'.lock = sh.lock
    BY <1>t, <2>e DEF ShareStates
  <2>l. sh'.dialog = sh.dialog /\ sh'.card = sh.card /\ sh'.page = sh.page
    BY <1>t, <2>e DEF ShareStates
  <2>n. sh'.quick = q
    BY <1>t, <2>e DEF ShareStates
  <2>c0. QuickAsks'
    BY <2>v, <2>n DEF QuickAsks, NoQuick
  <2> QED
    BY <2>t, <2>n, <2>k, <2>l, <2>c0, LinksKept
<1>15. ASSUME NEW c \in ShareConvs, ShowChat(c) PROVE ShareInv'
  <2>v. PICK s \in ShareConvs \cup {NoConv} : s = c
    OBVIOUS
  <2>e. sh' = [sh EXCEPT !.shown = s]
    BY <1>15, <2>v DEF ShowChat
  <2>y. s \in ShareConvs \cup {NoConv}
    OBVIOUS
  <2>t. sh' \in ShareStates
    BY <1>t, <2>e, <2>y, Zenon DEF ShareStates
  <2>k. sh'.links = sh.links /\ sh'.told = sh.told /\ sh'.call = sh.call /\ sh'.lock = sh.lock
    BY <1>t, <2>e DEF ShareStates
  <2>l. sh'.dialog = sh.dialog /\ sh'.card = sh.card /\ sh'.page = sh.page /\ sh'.quick = sh.quick
    BY <1>t, <2>e DEF ShareStates
  <2>n. sh'.shown = s
    BY <1>t, <2>e DEF ShareStates
  <2> QED
    BY <2>t, <2>n, <2>k, <2>l, LinksKept
<1>16. ASSUME NEW c \in ShareConvs, DeleteShared(c) PROVE ShareInv'
  <2>v. PICK g \in SUBSET ShareConvs, s \in ShareConvs \cup {NoConv} :
          g = sh.gone \cup {c} /\ s = IF sh.shown = c THEN NoConv ELSE sh.shown
    BY <1>t, Zenon DEF ShareStates
  <2>e. sh' = [sh EXCEPT !.gone = g, !.shown = s]
    BY <1>16, <2>v DEF DeleteShared
  <2>y. g \in SUBSET ShareConvs /\ s \in ShareConvs \cup {NoConv}
    OBVIOUS
  <2>t. sh' \in ShareStates
    BY <1>t, <2>e, <2>y, Zenon DEF ShareStates
  <2>k. sh'.links = sh.links /\ sh'.told = sh.told /\ sh'.call = sh.call /\ sh'.lock = sh.lock
    BY <1>t, <2>e DEF ShareStates
  <2>l. sh'.dialog = sh.dialog /\ sh'.card = sh.card /\ sh'.page = sh.page /\ sh'.quick = sh.quick
    BY <1>t, <2>e DEF ShareStates
  <2>n. sh'.gone = g /\ sh'.shown = s
    BY <1>t, <2>e DEF ShareStates
  <2> QED
    BY <2>t, <2>n, <2>k, <2>l, LinksKept
<1>17. ASSUME NEW w \in Creators, CreateLost(w) PROVE ShareInv'
  <2>w. sh.call[w] \in CallStates
    BY <1>t DEF ShareStates
  <2>x. PICK x \in CallStates : x = [sh.call[w] EXCEPT !.at = "failed"]
    BY <2>w, Zenon DEF CallStates
  <2>p. x.at = "failed" /\ x.token = sh.call[w].token
    BY <2>w, <2>x DEF CallStates
  <2>v. PICK k \in [Creators -> CallStates] : k = [sh.call EXCEPT ![w] = x]
    BY <1>t, <2>x, Zenon DEF ShareStates
  <2>o. k[w] = x /\ \A v \in Creators : v # w => k[v] = sh.call[v]
    BY <1>t, <2>v DEF ShareStates
  <2>e. sh' = [sh EXCEPT !.call = k]
    BY <1>17, <2>x, <2>v DEF CreateLost
  <2>y. k \in [Creators -> CallStates]
    OBVIOUS
  <2>t. sh' \in ShareStates
    BY <1>t, <2>e, <2>y, Zenon DEF ShareStates
  <2>k. sh'.links = sh.links /\ sh'.told = sh.told /\ sh'.lock = sh.lock /\ sh'.dialog = sh.dialog
    BY <1>t, <2>e DEF ShareStates
  <2>l. sh'.card = sh.card /\ sh'.page = sh.page /\ sh'.quick = sh.quick
    BY <1>t, <2>e DEF ShareStates
  <2>n. sh'.call = k
    BY <1>t, <2>e DEF ShareStates
  <2>c0. CallRefs'
    BY <1>i, <2>o, <2>p, <2>n, <2>k, <2>l DEF CallRefs
  <2>c1. CallAsks'
    BY <1>i, <2>o, <2>p, <2>n, <2>k, <2>l DEF CallAsks
  <2>c2. LockHeld'
    BY <1>i, <2>o, <2>p, <2>n, <2>k, <2>l DEF LockHeld, ActiveOf, Tokens, Active
  <2> QED
    BY <2>t, <2>n, <2>k, <2>l, <2>c0, <2>c1, <2>c2, LinksKept
<1>18. CASE DialogCreate
  <2>w. PICK w \in Creators : w = "dialog"
    BY DEF Creators
  <2>g. sh.dialog.conv \in ShareConvs
    BY <1>t, <1>18 DEF DialogCreate, DialogForm, DialogOpen, ShareStates, DialogStates
  <2>h. PICK f \in BOOLEAN : f = AttachmentNotice
    <3>1. AttachmentNotice \in BOOLEAN
      BY DEF AttachmentNotice
    <3> QED
      BY <3>1
  <2>x. PICK x \in CallStates : x = [at |-> "asked", conv |-> sh.dialog.conv, confirm |-> f, seen |-> FALSE,
                                     token |-> 0]
    BY <1>b, <2>g, Zenon DEF CallStates
  <2>p. x.at = "asked" /\ x.token = 0 /\ x.conv \in ShareConvs
    BY <2>g, <2>x
  <2>v. PICK k \in [Creators -> CallStates] : k = [sh.call EXCEPT ![w] = x]
    BY <1>t, <2>x, Zenon DEF ShareStates
  <2>o. k[w] = x /\ \A v \in Creators : v # w => k[v] = sh.call[v]
    BY <1>t, <2>v DEF ShareStates
  <2>e. sh' = [sh EXCEPT !.call = k]
    BY <1>18, <2>h, <2>w, <2>x, <2>v DEF DialogCreate, Ask
  <2>y. k \in [Creators -> CallStates]
    OBVIOUS
  <2>t. sh' \in ShareStates
    BY <1>t, <2>e, <2>y, Zenon DEF ShareStates
  <2>k. sh'.links = sh.links /\ sh'.told = sh.told /\ sh'.lock = sh.lock /\ sh'.dialog = sh.dialog
    BY <1>t, <2>e DEF ShareStates
  <2>l. sh'.card = sh.card /\ sh'.page = sh.page /\ sh'.quick = sh.quick
    BY <1>t, <2>e DEF ShareStates
  <2>n. sh'.call = k
    BY <1>t, <2>e DEF ShareStates
  <2>c0. CallRefs'
    BY <1>b, <1>i, <2>o, <2>p, <2>n, <2>k, <2>l DEF CallRefs
  <2>c1. CallAsks'
    BY <1>i, <2>o, <2>p, <2>n, <2>k, <2>l DEF CallAsks
  <2>c2. LockHeld'
    BY <1>i, <2>o, <2>p, <2>n, <2>k, <2>l DEF LockHeld, ActiveOf, Tokens, Active
  <2> QED
    BY <2>t, <2>n, <2>k, <2>l, <2>c0, <2>c1, <2>c2, LinksKept
<1>19. CASE DialogCreated
  <2>w. PICK w \in Creators : w = "dialog"
    BY DEF Creators
  <2>x. PICK x \in CallStates : x = NoCall
    BY <1>b, Zenon DEF NoCall, CallStates
  <2>p. x.at = "none" /\ x.token = 0
    BY <2>x DEF NoCall
  <2>a. PICK k \in [Creators -> CallStates] : k = [sh.call EXCEPT ![w] = x]
    BY <1>t, <2>x, Zenon DEF ShareStates
  <2>o. k[w] = x /\ \A v \in Creators : v # w => k[v] = sh.call[v]
    BY <1>t, <2>a DEF ShareStates
  <2>r. PICK y \in Nat : /\ y = IF DialogOpen /\ sh.call[w].at = "done" THEN sh.call[w].token ELSE sh.dialog.link
                        /\ y <= Len(sh.links)
    BY <1>t, <1>i DEF ShareStates, CallStates, DialogStates, CallRefs, DialogRefs
  <2>d. PICK d \in DialogStates : d = [sh.dialog EXCEPT !.link = y]
    BY <1>t, <2>r, Zenon DEF ShareStates, DialogStates
  <2>v. k \in [Creators -> CallStates] /\ d \in DialogStates
    OBVIOUS
  <2>q. d.link = y /\ d.revoking = sh.dialog.revoking
    BY <1>t, <2>d DEF ShareStates, DialogStates
  <2>e. sh' = [sh EXCEPT !.call = k, !.dialog = d]
    BY <1>19, <2>w, <2>x, <2>a, <2>r, <2>d DEF DialogCreated
  <2>y. k \in [Creators -> CallStates] /\ d \in DialogStates
    OBVIOUS
  <2>t. sh' \in ShareStates
    BY <1>t, <2>e, <2>y, Zenon DEF ShareStates
  <2>k. sh'.links = sh.links /\ sh'.told = sh.told /\ sh'.lock = sh.lock /\ sh'.card = sh.card
    BY <1>t, <2>e DEF ShareStates
  <2>l. sh'.page = sh.page /\ sh'.quick = sh.quick
    BY <1>t, <2>e DEF ShareStates
  <2>n. sh'.call = k /\ sh'.dialog = d
    BY <1>t, <2>e DEF ShareStates
  <2>c0. CallRefs'
    BY <1>b, <1>i, <2>o, <2>p, <2>n, <2>k, <2>l DEF CallRefs
  <2>c1. CallAsks'
    BY <1>i, <2>o, <2>p, <2>n, <2>k, <2>l DEF CallAsks
  <2>c2. LockHeld'
    BY <1>i, <2>o, <2>p, <2>n, <2>k, <2>l DEF LockHeld, ActiveOf, Tokens, Active
  <2>c3. DialogRefs'
    BY <1>i, <2>r, <2>q, <2>n, <2>k, <2>l DEF DialogRefs
  <2> QED
    BY <2>t, <2>n, <2>k, <2>l, <2>c0, <2>c1, <2>c2, <2>c3, LinksKept
<1>20. CASE QuickCreated
  <2>w. PICK w \in Creators : w = "quick"
    BY DEF Creators
  <2>x. PICK x \in CallStates : x = NoCall
    BY <1>b DEF NoCall, CallStates
  <2>p. x.at = "none" /\ x.token = 0
    BY <2>x DEF NoCall
  <2>a. PICK k \in [Creators -> CallStates] : k = [sh.call EXCEPT ![w] = x]
    BY <1>t, <2>x DEF ShareStates
  <2>o. k[w] = x /\ \A v \in Creators : v # w => k[v] = sh.call[v]
    BY <1>t, <2>a DEF ShareStates
  <2>d. PICK q \in QuickStates : q = IF sh.call[w].at = "done" THEN [sh.quick EXCEPT !.at = "copy"] ELSE NoQuick
    BY <1>t, Zenon DEF ShareStates, QuickStates, NoQuick
  <2>v. k \in [Creators -> CallStates] /\ q \in QuickStates
    OBVIOUS
  <2>q. q.at # "list"
    BY <1>t, <2>d DEF ShareStates, QuickStates, NoQuick
  <2>e. sh' = [sh EXCEPT !.call = k, !.quick = q]
    BY <1>20, <2>w, <2>x, <2>a, <2>d DEF QuickCreated
  <2>y. k \in [Creators -> CallStates] /\ q \in QuickStates
    OBVIOUS
  <2>t. sh' \in ShareStates
    BY <1>t, <2>e, <2>y, Zenon DEF ShareStates
  <2>k. sh'.links = sh.links /\ sh'.told = sh.told /\ sh'.lock = sh.lock /\ sh'.dialog = sh.dialog
    BY <1>t, <2>e DEF ShareStates
  <2>l. sh'.card = sh.card /\ sh'.page = sh.page
    BY <1>t, <2>e DEF ShareStates
  <2>n. sh'.call = k /\ sh'.quick = q
    BY <1>t, <2>e DEF ShareStates
  <2>c0. CallRefs'
    BY <1>b, <1>i, <2>o, <2>p, <2>n, <2>k, <2>l DEF CallRefs
  <2>c1. CallAsks'
    BY <1>i, <2>o, <2>p, <2>n, <2>k, <2>l DEF CallAsks
  <2>c2. LockHeld'
    BY <1>i, <2>o, <2>p, <2>n, <2>k, <2>l DEF LockHeld, ActiveOf, Tokens, Active
  <2>c3. QuickAsks'
    BY <2>q, <2>n DEF QuickAsks
  <2> QED
    BY <2>t, <2>n, <2>k, <2>l, <2>c0, <2>c1, <2>c2, <2>c3, LinksKept
<1>21. ASSUME NEW w \in Creators, CreateBegin(w) PROVE ShareInv'
  <2>c. PICK c \in ShareConvs : c = sh.call[w].conv
    BY <1>21, <1>i DEF CreateBegin, CallAsks
  <2>q0. CASE ~Visible(c)
    <3>w. sh.call[w] \in CallStates
      BY <1>t DEF ShareStates
    <3>x. PICK x \in CallStates : x = [sh.call[w] EXCEPT !.at = "failed"]
      BY <3>w, Zenon DEF CallStates
    <3>p. x.at = "failed" /\ x.token = sh.call[w].token /\ x.conv = sh.call[w].conv
      BY <3>w, <3>x DEF CallStates
    <3>v. PICK k \in [Creators -> CallStates] : k = [sh.call EXCEPT ![w] = x]
      BY <1>t, <3>x, Zenon DEF ShareStates
    <3>o. k[w] = x /\ \A v \in Creators : v # w => k[v] = sh.call[v]
      BY <1>t, <3>v DEF ShareStates
    <3>e. sh' = [sh EXCEPT !.call = k]
      BY <1>21, <2>q0, <3>x, <3>v, <2>c DEF CreateBegin
    <3>y. k \in [Creators -> CallStates]
      OBVIOUS
    <3>t. sh' \in ShareStates
      BY <1>t, <3>e, <3>y, Zenon DEF ShareStates
    <3>k. sh'.links = sh.links /\ sh'.told = sh.told /\ sh'.lock = sh.lock /\ sh'.dialog = sh.dialog
      BY <1>t, <3>e DEF ShareStates
    <3>l. sh'.card = sh.card /\ sh'.page = sh.page /\ sh'.quick = sh.quick
      BY <1>t, <3>e DEF ShareStates
    <3>n. sh'.call = k
      BY <1>t, <3>e DEF ShareStates
    <3>c0. CallRefs'
      BY <1>i, <3>o, <3>p, <3>n, <3>k, <3>l DEF CallRefs
    <3>c1. CallAsks'
      BY <1>i, <3>o, <3>p, <3>n, <3>k, <3>l DEF CallAsks
    <3>c2. LockHeld'
      BY <1>i, <3>o, <3>p, <3>n, <3>k, <3>l DEF LockHeld, ActiveOf, Tokens, Active
    <3> QED
      BY <3>t, <3>n, <3>k, <3>l, <3>c0, <3>c1, <3>c2, LinksKept
  <2>q1. CASE Visible(c)
    <3>w. sh.call[w] \in CallStates
      BY <1>t DEF ShareStates
    <3>h. PICK f \in BOOLEAN : f = (ActiveOf(c) # {})
      BY Zenon
    <3>x. PICK x \in CallStates : x = [sh.call[w] EXCEPT !.at = "locked", !.seen = f]
      BY <3>w, Zenon DEF CallStates
    <3>p. x.at = "locked" /\ x.token = sh.call[w].token /\ x.conv = sh.call[w].conv /\ x.seen = f
      BY <3>w, <3>x DEF CallStates
    <3>a. PICK k \in [Creators -> CallStates] : k = [sh.call EXCEPT ![w] = x]
      BY <1>t, <3>x, Zenon DEF ShareStates
    <3>o. k[w] = x /\ \A v \in Creators : v # w => k[v] = sh.call[v]
      BY <1>t, <3>a DEF ShareStates
    <3>m. PICK m \in [ShareConvs -> Creators \cup {NoConv}] : m = [sh.lock EXCEPT ![c] = w]
      BY <1>t, Zenon DEF ShareStates
    <3>s. m[c] = w /\ \A d \in ShareConvs : d # c => m[d] = sh.lock[d]
      BY <1>t, <3>m DEF ShareStates
    <3>v. k \in [Creators -> CallStates] /\ m \in [ShareConvs -> Creators \cup {NoConv}]
      OBVIOUS
    <3>f. sh.lock[c] = NoConv /\ \A v \in Creators : v # NoConv
      BY <1>21, <2>q1, <2>c DEF CreateBegin, Creators, NoConv
    <3>e. sh' = [sh EXCEPT !.call = k, !.lock = m]
      BY <1>21, <2>q1, <3>h, <3>x, <3>a, <3>m, <2>c, Zenon DEF CreateBegin
    <3>y. k \in [Creators -> CallStates] /\ m \in [ShareConvs -> Creators \cup {NoConv}]
      OBVIOUS
    <3>t. sh' \in ShareStates
      BY <1>t, <3>e, <3>y, Zenon DEF ShareStates
    <3>k. sh'.links = sh.links /\ sh'.told = sh.told /\ sh'.dialog = sh.dialog /\ sh'.card = sh.card
      BY <1>t, <3>e DEF ShareStates
    <3>l. sh'.page = sh.page /\ sh'.quick = sh.quick
      BY <1>t, <3>e DEF ShareStates
    <3>n. sh'.call = k /\ sh'.lock = m
      BY <1>t, <3>e DEF ShareStates
    <3>c0. CallRefs'
      BY <1>i, <3>o, <3>p, <3>n, <3>k, <3>l DEF CallRefs
    <3>c1. CallAsks'
      BY <1>i, <2>c, <3>o, <3>p, <3>n, <3>k, <3>l DEF CallAsks
    <3>c2. ActiveOf(c)' = ActiveOf(c)
      BY <3>k, <3>l DEF ActiveOf, Tokens, Active
    <3>c3. \A v \in Creators : v # w /\ sh.call[v].at = "locked" => sh.call[v].conv \in ShareConvs /\ sh.call[v].conv # c
      BY <1>i, <3>f DEF CallAsks, LockHeld
    <3>c4. \A v \in Creators : v # w /\ sh'.call[v].at = "locked" => /\ sh'.call[v] = sh.call[v] /\ sh.call[v].at = "locked"
                                                                 /\ sh'.lock[sh.call[v].conv] = sh.lock[sh.call[v].conv]
                                                                 /\ ActiveOf(sh.call[v].conv)' = ActiveOf(sh.call[v].conv)
      BY <3>o, <3>s, <3>c3, <3>n, <3>k, <3>l DEF ActiveOf, Tokens, Active
    <3>c5. sh'.call[w].conv = c /\ sh'.lock[c] = w /\ (~sh'.call[w].seen => ActiveOf(c) = {})
      BY <2>c, <3>h, <3>o, <3>p, <3>s, <3>n, Zenon
    <3>c6. LockHeld'
      BY <1>i, <3>c2, <3>c4, <3>c5, Zenon DEF LockHeld
    <3> QED
      BY <3>t, <3>n, <3>k, <3>l, <3>c0, <3>c1, <3>c2, <3>c3, <3>c4, <3>c5, <3>c6, LinksKept
  <2> QED
    BY <2>q0, <2>q1
<1>22. ASSUME NEW w \in Creators, CreateCommit(w) PROVE ShareInv'
  <2>c. PICK c \in ShareConvs : c = sh.call[w].conv
    BY <1>22, <1>i DEF CreateCommit, CallAsks
  <2>g. /\ sh.call[w].at = "locked" /\ sh.lock[c] = w /\ Len(sh.links) < MaxLinks
        /\ ~sh.call[w].seen => ActiveOf(c) = {}
    BY <1>22, <1>i, <2>c, Zenon DEF CreateCommit, LockHeld
  <2>m. PICK m \in [ShareConvs -> Creators \cup {NoConv}] : m = [sh.lock EXCEPT ![c] = NoConv]
    BY <1>t, Zenon DEF ShareStates
  <2>s. m[c] = NoConv /\ \A d \in ShareConvs : d # c => m[d] = sh.lock[d]
    BY <1>t, <2>m DEF ShareStates
  <2>w. sh.call[w] \in CallStates
    BY <1>t DEF ShareStates
  <2>o. \A v \in Creators : v # w /\ sh.call[v].at = "locked" =>
           sh.call[v].conv \in ShareConvs /\ sh.call[v].conv # c /\ sh.lock[sh.call[v].conv] = v
    BY <1>i, <2>g DEF CallAsks, LockHeld
  <2>1. ASSUME NEW a \in {"failed", "refused"}, sh' = [[sh EXCEPT !.lock[c] = NoConv] EXCEPT !.call[w].at = a]
        PROVE  ShareInv'
    <3>x. PICK x \in CallStates : x = [sh.call[w] EXCEPT !.at = a]
      BY <2>w, Zenon DEF CallStates
    <3>p. x.at = a /\ x.token = sh.call[w].token
      BY <2>w, <3>x DEF CallStates
    <3>a. PICK k \in [Creators -> CallStates] : k = [sh.call EXCEPT ![w] = x]
      BY <1>t, <3>x, Zenon DEF ShareStates
    <3>o. k[w] = x /\ \A v \in Creators : v # w => k[v] = sh.call[v]
      BY <1>t, <3>a DEF ShareStates
    <3>y. k \in [Creators -> CallStates] /\ m \in [ShareConvs -> Creators \cup {NoConv}]
      OBVIOUS
    <3>e. sh' = [sh EXCEPT !.lock = m, !.call = k]
      BY <1>t, <2>1, <2>m, <3>x, <3>a DEF ShareStates
    <3>t. sh' \in ShareStates
      BY <1>t, <3>e, <3>y, Zenon DEF ShareStates
    <3>n. sh'.call = k /\ sh'.lock = m
      BY <1>t, <3>e DEF ShareStates
    <3>k. sh'.links = sh.links /\ sh'.told = sh.told /\ sh'.dialog = sh.dialog /\ sh'.card = sh.card
      BY <1>t, <3>e DEF ShareStates
    <3>l. sh'.page = sh.page /\ sh'.quick = sh.quick
      BY <1>t, <3>e DEF ShareStates
    <3>1. CallRefs'
      BY <1>i, <3>o, <3>p, <3>n, <3>k DEF CallRefs
    <3>2. CallAsks'
      BY <1>i, <3>o, <3>p, <3>n DEF CallAsks
    <3>3. LockHeld'
      BY <1>i, <2>o, <2>s, <3>o, <3>p, <3>n, <3>k DEF LockHeld, ActiveOf, Tokens, Active
    <3> QED
      BY <3>t, <3>k, <3>l, <3>1, <3>2, <3>3, LinksKept
  <2>2. CASE ~sh.call[w].seen /\ ~(c \in WithFiles /\ ~sh.call[w].confirm)
    <3>r. PICK r \in LinkStates : r = [conv |-> c, state |-> "active"]
      BY Zenon DEF LinkStates
    <3>z. PICK z \in Nat : z = Len(sh.links) + 1
      BY <1>b
    <3>s. sh.links \in Seq(LinkStates)
      BY <1>t DEF ShareStates
    <3>0. Append(sh.links, r) \in Seq(LinkStates)
      BY <3>s
    <3>b. PICK b \in Seq(LinkStates) : b = Append(sh.links, r)
      BY <3>0, Zenon
    <3>c. Len(b) = z /\ b[z] = r /\ \A t \in Tokens : b[t] = sh.links[t]
      BY <1>t, <3>b, <3>z DEF ShareStates, Tokens
    <3>x. PICK x \in CallStates : x = [sh.call[w] EXCEPT !.at = "done", !.token = z]
      BY <2>w, Zenon DEF CallStates
    <3>p. x.at = "done" /\ x.token = z
      BY <2>w, <3>x DEF CallStates
    <3>a. PICK k \in [Creators -> CallStates] : k = [sh.call EXCEPT ![w] = x]
      BY <1>t, <3>x, Zenon DEF ShareStates
    <3>o. k[w] = x /\ \A v \in Creators : v # w => k[v] = sh.call[v]
      BY <1>t, <3>a DEF ShareStates
    <3>y. k \in [Creators -> CallStates] /\ m \in [ShareConvs -> Creators \cup {NoConv}] /\ b \in Seq(LinkStates)
      OBVIOUS
    <3>f. sh' = [[sh EXCEPT !.lock[c] = NoConv] EXCEPT !.links = b, !.call[w].at = "done", !.call[w].token = z]
      BY <1>t, <1>22, <2>2, <2>c, <3>r, <3>b, <3>z DEF CreateCommit, ShareStates
    <3>e. sh' = [sh EXCEPT !.lock = m, !.links = b, !.call = k]
      BY <1>t, <2>m, <3>f, <3>x, <3>a, Zenon DEF ShareStates
    <3>t. sh' \in ShareStates
      BY <1>t, <3>e, <3>y, Zenon DEF ShareStates
    <3>n. sh'.call = k /\ sh'.lock = m /\ sh'.links = b /\ sh'.told = sh.told
      BY <1>t, <3>e DEF ShareStates
    <3>k. sh'.dialog = sh.dialog /\ sh'.card = sh.card /\ sh'.page = sh.page /\ sh'.quick = sh.quick
      BY <1>t, <3>e DEF ShareStates
    <3>l. Len(sh'.links) = z /\ Tokens' = Tokens \cup {z} /\ z \notin Tokens
      BY <1>b, <3>n, <3>c, <3>z DEF Tokens
    <3>d. \A t \in Tokens : sh'.links[t] = sh.links[t]
      BY <3>n, <3>c
    <3>u. sh'.links[z].conv = c /\ sh'.links[z] = r
      BY <3>n, <3>c, <3>r
    <3>v. \A t \in Tokens : Active(t) => sh.links[t].conv # c
      BY <2>2, <2>g DEF ActiveOf
    <3>w. \A v \in Creators : sh.call[v].token \in Nat
      BY <1>t DEF ShareStates, CallStates
    <3>1. CallRefs'
      BY <1>i, <1>b, <3>w, <3>o, <3>p, <3>n, <3>l, <3>z DEF CallRefs
    <3>9. CallAsks'
      BY <1>i, <3>o, <3>p, <3>n DEF CallAsks
    <3>2. ASSUME NEW d, d # c PROVE ActiveOf(d)' = ActiveOf(d)
      BY <3>2, <3>l, <3>d, <3>u DEF ActiveOf, Active
    <3>q. \A v \in Creators : sh'.call[v].at = "locked" =>
             /\ v # w /\ sh'.call[v] = sh.call[v] /\ sh.call[v].at = "locked" /\ sh.call[v].conv # c
             /\ sh'.lock[sh.call[v].conv] = v
      BY <2>o, <2>s, <3>o, <3>p, <3>n
    <3>3. LockHeld'
      BY <1>i, <3>q, <3>l, <3>d, <3>u DEF LockHeld, ActiveOf, Active
    <3>4. OneOfEach'
      BY <1>i, <3>l, <3>d, <3>u, <3>v DEF OneOfEach, Active
    <3>5. ToldRevoked'
      BY <1>i, <3>n, <3>l, <3>d DEF ToldRevoked
    <3>6. DialogRefs' /\ PageRefs' /\ QuickAsks'
      BY <1>i, <1>b, <1>t, <3>k, <3>l, <3>z DEF DialogRefs, PageRefs, QuickAsks, ShareStates, DialogStates, PageStates
    <3>7. CardRefs'
      BY <1>i, <1>b, <1>t, <3>k, <3>l, <3>z DEF CardRefs, ShareStates, CardStates
    <3>8. Len(sh'.links) <= MaxLinks
      BY <1>b, <2>g, <3>l, <3>z
    <3> QED
      BY <3>t, <3>1, <3>9, <3>3, <3>4, <3>5, <3>6, <3>7, <3>8 DEF ShareInv
  <2>3. CASE sh.call[w].seen
    BY <1>22, <2>1, <2>3, <2>c DEF CreateCommit
  <2>4. CASE ~sh.call[w].seen /\ c \in WithFiles /\ ~sh.call[w].confirm
    BY <1>22, <2>1, <2>4, <2>c DEF CreateCommit
  <2> QED
    BY <2>2, <2>3, <2>4
<1>23. ASSUME NEW t \in 1..MaxLinks, Expire(t) PROVE ShareInv'
  <2>g. t \in Tokens /\ Active(t)
    BY <1>23 DEF Expire
  <2>x. PICK x \in {"expired", "revoked"} : x = "expired"
    OBVIOUS
  <2>l. PICK l \in Seq(LinkStates) : l = [sh.links EXCEPT ![t].state = x]
    BY <1>t, <2>g, MarkedLinks, Zenon DEF ShareStates, Tokens
  <2>y. l \in Seq(LinkStates)
    OBVIOUS
  <2>e. sh' = [sh EXCEPT !.links = l]
    BY <1>23, <2>x, <2>l DEF Expire
  <2>t. sh' \in ShareStates
    BY <1>t, <2>e, <2>y, Zenon DEF ShareStates
  <2>n. sh'.links = l /\ sh'.told = sh.told /\ sh'.call = sh.call /\ sh'.lock = sh.lock
    BY <1>t, <2>e DEF ShareStates
  <2>k. sh'.dialog = sh.dialog /\ sh'.card = sh.card /\ sh'.page = sh.page /\ sh'.quick = sh.quick
    BY <1>t, <2>e DEF ShareStates
  <2>m. LinksMarked
    <3>1. /\ Len(l) = Len(sh.links) /\ \A u \in Tokens : u # t => l[u] = sh.links[u]
          /\ l[t].state = x /\ l[t].conv = sh.links[t].conv
      BY <1>t, <2>g, <2>x, <2>l, MarkedLinks DEF ShareStates, Tokens
    <3> QED
      BY <1>i, <2>g, <2>x, <2>n, <3>1 DEF LinksMarked, Active
  <2> QED
    BY <2>m, <2>t, <2>n, <2>k, LinkMarked
<1>24. ASSUME NEW ok \in BOOLEAN, DialogRevoked(ok) PROVE ShareInv'
  <2>1. CASE ~(ok /\ Visible(sh.dialog.conv))
    <3>d. PICK d \in DialogStates : d = [sh.dialog EXCEPT !.revoking = 0]
      BY <1>t, Zenon DEF ShareStates, DialogStates
    <3>p. d.link = sh.dialog.link /\ d.revoking = 0
      BY <1>t, <3>d DEF ShareStates, DialogStates
    <3>y. d \in DialogStates
      OBVIOUS
    <3>e. sh' = [sh EXCEPT !.dialog = d]
      BY <1>24, <2>1, <3>d DEF DialogRevoked
    <3>t. sh' \in ShareStates
      BY <1>t, <3>e, <3>y DEF ShareStates
    <3>n. sh'.dialog = d /\ sh'.links = sh.links /\ sh'.told = sh.told /\ sh'.call = sh.call
      BY <1>t, <3>e DEF ShareStates
    <3>k. sh'.lock = sh.lock /\ sh'.card = sh.card /\ sh'.page = sh.page /\ sh'.quick = sh.quick
      BY <1>t, <3>e DEF ShareStates
    <3>1. DialogRefs'
      BY <1>b, <1>i, <3>p, <3>n DEF DialogRefs
    <3> QED
      BY <3>t, <3>n, <3>k, <3>1, LinksKept
  <2>2. CASE ok /\ Visible(sh.dialog.conv)
    <3>g. sh.dialog.revoking \in Nat /\ sh.dialog.revoking <= Len(sh.links) /\ sh.dialog.revoking # 0
      BY <1>24, <1>t, <1>i DEF DialogRevoked, ShareStates, DialogStates, DialogRefs
    <3>h. PICK t \in Tokens : t = sh.dialog.revoking
      BY <1>b, <3>g DEF Tokens
    <3>x. PICK x \in {"expired", "revoked"} : x = "revoked"
      OBVIOUS
    <3>z. PICK zero \in Nat : zero = 0
      OBVIOUS
    <3>l. PICK l \in Seq(LinkStates) : l = [sh.links EXCEPT ![t].state = x]
      BY <1>t, MarkedLinks, Zenon DEF ShareStates, Tokens
    <3>d. PICK d \in DialogStates : d = [sh.dialog EXCEPT !.revoking = zero, !.link = zero]
      BY <1>t, Zenon DEF ShareStates, DialogStates
    <3>p. d.link = 0 /\ d.revoking = 0
      BY <1>t, <3>z, <3>d DEF ShareStates, DialogStates
    <3>r. PICK r \in SUBSET Nat : r = sh.told \cup {t}
      BY <1>t, <3>g, <3>h, Zenon DEF ShareStates
    <3>y. l \in Seq(LinkStates) /\ d \in DialogStates /\ r \in SUBSET Nat
      OBVIOUS
    <3>f. sh' = [[[sh EXCEPT !.dialog.revoking = zero] EXCEPT !.links[t].state = x]
                    EXCEPT !.dialog.link = zero, !.told = r]
      BY <1>t, <1>24, <2>2, <3>h, <3>x, <3>z, <3>r, Zenon DEF DialogRevoked, Revoked, ShareStates
    <3>e. sh' = [sh EXCEPT !.links = l, !.dialog = d, !.told = r]
      BY <1>t, <3>f, <3>l, <3>d, Zenon DEF ShareStates
    <3>t. sh' \in ShareStates
      BY <1>t, <3>e, <3>y, Zenon DEF ShareStates
    <3>n. sh'.links = l /\ sh'.told = r /\ sh'.dialog = d /\ sh'.call = sh.call
      BY <1>t, <3>e DEF ShareStates
    <3>k. sh'.lock = sh.lock /\ sh'.card = sh.card /\ sh'.page = sh.page /\ sh'.quick = sh.quick
      BY <1>t, <3>e DEF ShareStates
    <3>m. LinksMarked
      <4>1. /\ Len(l) = Len(sh.links) /\ \A u \in Tokens : u # t => l[u] = sh.links[u]
            /\ l[t].state = x /\ l[t].conv = sh.links[t].conv
        BY <1>t, <3>h, <3>x, <3>l, MarkedLinks DEF ShareStates, Tokens
      <4> QED
        BY <1>i, <3>h, <3>x, <3>r, <3>n, <4>1 DEF LinksMarked
    <3>v. sh'.dialog.link = 0 /\ sh'.dialog.revoking = 0
      BY <3>n, <3>p
    <3> QED
      BY <3>m, <3>v, <3>t, <3>n, <3>k, LinkMarked
  <2> QED
    BY <2>1, <2>2
<1>25. ASSUME NEW ok \in BOOLEAN, CardRevoked(ok) PROVE ShareInv'
  <2>g. sh.card.revoking \in Nat /\ sh.card.revoking <= Len(sh.links) /\ sh.card.revoking # 0
    BY <1>25, <1>t, <1>i DEF CardRevoked, ShareStates, CardStates, CardRefs
  <2>h. PICK t \in Tokens : t = sh.card.revoking
    BY <1>b, <2>g DEF Tokens
  <2>1. CASE ~(ok /\ Visible(sh.links[t].conv))
    <3>d. PICK d \in CardStates : d = [sh.card EXCEPT !.revoking = 0]
      BY <1>t, Zenon DEF ShareStates, CardStates
    <3>p. d.rows = sh.card.rows /\ d.revoking = 0
      BY <1>t, <3>d DEF ShareStates, CardStates
    <3>y. d \in CardStates
      OBVIOUS
    <3>e. sh' = [sh EXCEPT !.card = d]
      BY <1>25, <2>1, <2>h, <3>d DEF CardRevoked
    <3>t. sh' \in ShareStates
      BY <1>t, <3>e, <3>y DEF ShareStates
    <3>n. sh'.card = d /\ sh'.links = sh.links /\ sh'.told = sh.told /\ sh'.call = sh.call
      BY <1>t, <3>e DEF ShareStates
    <3>k. sh'.lock = sh.lock /\ sh'.dialog = sh.dialog /\ sh'.page = sh.page /\ sh'.quick = sh.quick
      BY <1>t, <3>e DEF ShareStates
    <3>1. CardRefs'
      BY <1>b, <1>i, <3>p, <3>n DEF CardRefs, Tokens
    <3> QED
      BY <3>t, <3>n, <3>k, <3>1, LinksKept
  <2>2. CASE ok /\ Visible(sh.links[t].conv)
    <3>x. PICK x \in {"expired", "revoked"} : x = "revoked"
      OBVIOUS
    <3>z. PICK zero \in Nat : zero = 0
      OBVIOUS
    <3>l. PICK l \in Seq(LinkStates) : l = [sh.links EXCEPT ![t].state = x]
      BY <1>t, MarkedLinks DEF ShareStates, Tokens
    <3>s. PICK s \in SUBSET Nat : s = sh.card.rows \ {t}
      BY <1>t, Zenon DEF ShareStates, CardStates
    <3>d. PICK d \in CardStates : d = [sh.card EXCEPT !.revoking = zero, !.rows = s]
      BY <1>t, Zenon DEF ShareStates, CardStates
    <3>p. d.rows = s /\ d.revoking = 0
      BY <1>t, <3>z, <3>d DEF ShareStates, CardStates
    <3>r. PICK r \in SUBSET Nat : r = sh.told \cup {t}
      BY <1>t, <2>g, <2>h, Zenon DEF ShareStates
    <3>y. l \in Seq(LinkStates) /\ d \in CardStates /\ r \in SUBSET Nat
      OBVIOUS
    <3>f. sh' = [[[sh EXCEPT !.card.revoking = zero] EXCEPT !.links[t].state = x] EXCEPT !.card.rows = s, !.told = r]
      BY <1>t, <1>25, <2>2, <2>h, <3>x, <3>z, <3>r, <3>s, Zenon DEF CardRevoked, Revoked, ShareStates, CardStates
    <3>e. sh' = [sh EXCEPT !.links = l, !.card = d, !.told = r]
      BY <1>t, <3>f, <3>l, <3>d, Zenon DEF ShareStates
    <3>t. sh' \in ShareStates
      BY <1>t, <3>e, <3>y, Zenon DEF ShareStates
    <3>n. sh'.links = l /\ sh'.told = r /\ sh'.card = d /\ sh'.call = sh.call
      BY <1>t, <3>e DEF ShareStates
    <3>k. sh'.lock = sh.lock /\ sh'.dialog = sh.dialog /\ sh'.page = sh.page /\ sh'.quick = sh.quick
      BY <1>t, <3>e DEF ShareStates
    <3>q. d.rows \subseteq sh.card.rows
      BY <3>s, <3>p
    <3>m. LinksMarked
      <4>1. /\ Len(l) = Len(sh.links) /\ \A u \in Tokens : u # t => l[u] = sh.links[u]
            /\ l[t].state = x /\ l[t].conv = sh.links[t].conv
        BY <1>t, <2>h, <3>x, <3>l, MarkedLinks DEF ShareStates, Tokens
      <4> QED
        BY <1>i, <2>h, <3>x, <3>r, <3>n, <4>1 DEF LinksMarked
    <3>v. sh'.card.rows \subseteq sh.card.rows /\ sh'.card.revoking = 0
      BY <3>n, <3>p, <3>q
    <3> QED
      BY <3>m, <3>v, <3>t, <3>n, <3>k, LinkMarked
  <2> QED
    BY <2>1, <2>2
<1>26. ASSUME NEW ok \in BOOLEAN, QuickListed(ok) PROVE ShareInv'
  <2>1. ASSUME NEW q \in QuickStates, q.at # "list", sh' = [sh EXCEPT !.quick = q] PROVE ShareInv'
    <3>y. q \in QuickStates
      OBVIOUS
    <3>t. sh' \in ShareStates
      BY <1>t, <2>1, <3>y DEF ShareStates
    <3>n. sh'.quick = q /\ sh'.links = sh.links /\ sh'.told = sh.told /\ sh'.call = sh.call
      BY <1>t, <2>1 DEF ShareStates
    <3>k. sh'.lock = sh.lock /\ sh'.dialog = sh.dialog /\ sh'.page = sh.page /\ sh'.card = sh.card
      BY <1>t, <2>1 DEF ShareStates
    <3>1. QuickAsks'
      BY <2>1, <3>n DEF QuickAsks
    <3> QED
      BY <3>t, <3>n, <3>k, <3>1, LinksKept
  <2>2. CASE ~ok \/ ~Visible(sh.quick.conv)
    <3>1. NoQuick \in QuickStates /\ NoQuick.at # "list"
      BY DEF NoQuick, QuickStates
    <3> QED
      BY <1>26, <2>1, <2>2, <3>1 DEF QuickListed
  <2>3. ASSUME NEW a \in {"copy", "create"} PROVE /\ [sh.quick EXCEPT !.at = a] \in QuickStates
                                                 /\ [sh.quick EXCEPT !.at = a].at = a
    BY <1>t DEF ShareStates, QuickStates
  <2>4. CASE ok /\ Visible(sh.quick.conv) /\ Listed(sh.quick.conv) # 0
    <3>1. sh' = [sh EXCEPT !.quick = [sh.quick EXCEPT !.at = "copy"]]
      BY <1>26, <2>4 DEF QuickListed
    <3> QED
      BY <2>1, <2>3, <3>1, Zenon
  <2>5. CASE ok /\ Visible(sh.quick.conv) /\ Listed(sh.quick.conv) = 0
    <3>w. PICK w \in Creators : w = "quick"
      BY DEF Creators
    <3>g. PICK c \in ShareConvs : c = sh.quick.conv
      BY <1>26, <1>i DEF QuickListed, QuickAsks
    <3>q. PICK q \in QuickStates : q = [sh.quick EXCEPT !.at = "create"]
      BY <2>3
    <3>a. q.at # "list"
      BY <2>3, <3>q
    <3>h. PICK f \in BOOLEAN : f = (c \in WithFiles)
      <4>1. (c \in WithFiles) \in BOOLEAN
        OBVIOUS
      <4> QED
        BY <4>1, Zenon
    <3>x. PICK x \in CallStates : x = [at |-> "asked", conv |-> c, confirm |-> f, seen |-> FALSE, token |-> 0]
      BY <1>b, Zenon DEF CallStates
    <3>p. x.at = "asked" /\ x.token = 0 /\ x.conv = c
      BY <3>x
    <3>d. PICK k \in [Creators -> CallStates] : k = [sh.call EXCEPT ![w] = x]
      BY <1>t, <3>x, Zenon DEF ShareStates
    <3>o. k[w] = x /\ \A v \in Creators : v # w => k[v] = sh.call[v]
      BY <1>t, <3>d DEF ShareStates
    <3>y. k \in [Creators -> CallStates] /\ q \in QuickStates
      OBVIOUS
    <3>e. sh' = [sh EXCEPT !.call = k, !.quick = q]
      BY <1>t, <1>26, <2>5, <3>w, <3>g, <3>h, <3>x, <3>d, <3>q DEF QuickListed, Ask, ShareStates
    <3>t. sh' \in ShareStates
      BY <1>t, <3>e, <3>y, Zenon DEF ShareStates
    <3>n. sh'.quick = q /\ sh'.links = sh.links /\ sh'.told = sh.told /\ sh'.call = k
      BY <1>t, <3>e DEF ShareStates
    <3>k. sh'.lock = sh.lock /\ sh'.dialog = sh.dialog /\ sh'.page = sh.page /\ sh'.card = sh.card
      BY <1>t, <3>e DEF ShareStates
    <3>1. CallRefs'
      BY <1>b, <1>i, <3>o, <3>p, <3>n DEF CallRefs
    <3>2. CallAsks'
      BY <1>i, <3>o, <3>p, <3>n DEF CallAsks
    <3>3. LockHeld'
      BY <1>i, <3>o, <3>p, <3>n, <3>k DEF LockHeld, ActiveOf, Tokens, Active
    <3>4. QuickAsks'
      BY <3>a, <3>n DEF QuickAsks
    <3> QED
      BY <3>t, <3>n, <3>k, <3>1, <3>2, <3>3, <3>4, LinksKept
  <2> QED
    BY <2>2, <2>4, <2>5
<1> QED
  BY <1>1, <1>2, <1>3, <1>4, <1>5, <1>6, <1>7, <1>8, <1>9, <1>10, <1>11, <1>12, <1>13, <1>14, <1>15, <1>16, <1>17, <1>18, <1>19, <1>20, <1>21, <1>22, <1>23, <1>24, <1>25, <1>26 DEF ShareNext

LEMMA ShareHold == ASSUME ShareInv PROVE ShareTypeOK /\ OneActiveLink /\ RevokedIsDead
<1>t. sh \in ShareStates /\ Len(sh.links) \in Nat /\ Len(sh.links) <= MaxLinks /\ MaxLinks \in Nat
  BY ShareBounds DEF ShareInv, ShareStates
<1>1. ShareTypeOK
  <2>1. sh.gone \subseteq ShareConvs /\ sh.page \in PageStates /\ sh.card \in CardStates
    BY <1>t DEF ShareStates
  <2>2. \A w \in Creators : sh.call[w] \in CallStates
    BY <1>t DEF ShareStates
  <2>3. sh.page.token \in 0..MaxLinks
    BY <1>t, <2>1 DEF ShareInv, PageRefs, PageStates
  <2>4. sh.card.rows \subseteq 1..MaxLinks
    BY <1>t DEF ShareInv, CardRefs, Tokens
  <2> QED
    BY <1>t, <2>1, <2>2, <2>3, <2>4 DEF ShareTypeOK, CallStates
<1>2. OneActiveLink
  <2> SUFFICES ASSUME NEW c \in ShareConvs PROVE Cardinality(ActiveOf(c)) <= 1
    BY DEF OneActiveLink
  <2>1. \A t, u \in ActiveOf(c) : t = u
    BY DEF ActiveOf, ShareInv, OneOfEach
  <2>2. CASE ActiveOf(c) = {}
    BY <2>2, FS_EmptySet
  <2>3. ASSUME NEW t \in ActiveOf(c) PROVE Cardinality(ActiveOf(c)) <= 1
    <3>1. ActiveOf(c) = {t}
      BY <2>1
    <3> QED
      BY <3>1, FS_Singleton
  <2> QED
    BY <2>2, <2>3
<1>3. RevokedIsDead
  BY DEF ShareInv, ToldRevoked, RevokedIsDead, Active
<1> QED
  BY <1>1, <1>2, <1>3

(* What a visitor is shown is only taken from a link that is active.        *)
LEMMA VisitStep ==
  ASSUME ShareInv, [ShareNext]_sh, NEW t \in sh.told, sh'.page.token = t, sh'.page.status \in {"ready", "reading"}
  PROVE  sh'.page = sh.page
<1>t. sh \in ShareStates /\ ~Active(t)
  BY DEF ShareInv, ToldRevoked, Active
<1>1. CASE sh'.page = sh.page
  BY <1>1
<1>2. ASSUME NEW ok \in BOOLEAN, GetPublic(ok) PROVE FALSE
  <2>1. /\ sh'.page = [sh.page EXCEPT !.status = IF ok /\ Active(sh.page.token) THEN "ready" ELSE "error"]
        /\ sh.page \in PageStates
    BY <1>t, <1>2 DEF GetPublic, ShareStates
  <2>2. sh'.page.token = sh.page.token /\ sh'.page.status = IF ok /\ Active(sh.page.token) THEN "ready" ELSE "error"
    BY <2>1 DEF PageStates
  <2> QED
    BY <1>t, <2>2
<1>3. CASE ReadShared
  <2>1. sh'.page = [sh.page EXCEPT !.status = "reading"] /\ sh.page \in PageStates /\ Active(sh.page.token)
    BY <1>t, <1>3 DEF ReadShared, ShareStates
  <2>2. sh'.page.token = sh.page.token
    BY <2>1 DEF PageStates
  <2> QED
    BY <1>t, <2>1, <2>2
<1>4. CASE LeavePage
  <2>1. sh'.page.status = "closed"
    BY <1>t, <1>4 DEF LeavePage, ShareStates
  <2> QED
    BY <2>1
<1>5. ASSUME NEW u, VisitShare(u) PROVE FALSE
  <2>1. sh'.page.status = "loading"
    BY <1>t, <1>5 DEF VisitShare, ShareStates
  <2> QED
    BY <2>1
<1>6. ASSUME NEW w \in Creators, CreateBegin(w) \/ CreateCommit(w) \/ CreateLost(w) PROVE sh'.page = sh.page
  BY <1>t, <1>6, Zenon DEF CreateBegin, CreateCommit, CreateLost, ShareStates
<1>7. ASSUME NEW c \in ShareConvs, DeleteShared(c) \/ ShowChat(c) \/ OpenShare(c) PROVE sh'.page = sh.page
  BY <1>t, <1>7, Zenon DEF DeleteShared, ShowChat, OpenShare, ShareStates
<1>8. ASSUME NEW u \in 1..MaxLinks, Expire(u) \/ CardRevoke(u) PROVE sh'.page = sh.page
  BY <1>t, <1>8 DEF Expire, CardRevoke, ShareStates
<1>9. ASSUME NEW ok \in BOOLEAN, DialogLoaded(ok) \/ CardLoaded(ok) PROVE sh'.page = sh.page
  BY <1>t, <1>9, Zenon DEF DialogLoaded, CardLoaded, ShareStates
<1>10. ASSUME NEW ok \in BOOLEAN, DialogRevoked(ok) \/ CardRevoked(ok) \/ QuickListed(ok) PROVE sh'.page = sh.page
  BY <1>t, <1>10, Zenon DEF DialogRevoked, CardRevoked, QuickListed, Revoked, Ask, ShareStates
<1>11. CASE DialogCreate \/ DialogCreated \/ DialogRevoke \/ CloseShare
  BY <1>t, <1>1, <1>11, Zenon DEF DialogCreate, DialogCreated, DialogRevoke, CloseShare, Ask, ShareStates
<1>12. CASE QuickShare \/ QuickCreated \/ QuickCopied \/ OpenMyShares \/ CloseCard
  BY <1>t, <1>1, <1>12, Zenon DEF QuickShare, QuickCreated, QuickCopied, OpenMyShares, CloseCard, ShareStates
<1> QED
  BY <1>1, <1>2, <1>3, <1>4, <1>5, <1>6, <1>7, <1>8, <1>9, <1>10, <1>11, <1>12 DEF ShareNext

-----------------------------------------------------------------------------
(* Favorites.  While nothing crossed there is at most one request, and its  *)
(* step says which of the stars are ahead of the service.                   *)

FavoriteCalls ==
  [id : Nat, to : BOOLEAN, was : BOOLEAN, had : BOOLEAN, mount : Nat,
   step : {"sent", "saved", "failed"}]
FavoriteStates ==
  [on : BOOLEAN, server : BOOLEAN, index : BOOLEAN, open : BOOLEAN,
   status : {"loading", "ready", "error"}, retry : BOOLEAN, listed : BOOLEAN, row : BOOLEAN,
   match : BOOLEAN, calls : SUBSET FavoriteCalls, mount : Nat, n : Nat,
   crossed : BOOLEAN, saved : BOOLEAN]

(* c is the one request: the index is ahead, and so is the row of the       *)
(* dialog it was made in, which still shows its list.                       *)
Ahead(c) == /\ fv.calls = {c} /\ c.to = ~c.had /\ fv.index = c.to
            /\ fv.server = (IF c.step = "saved" THEN c.to ELSE c.had)
            /\ fv.open => /\ fv.status = "ready" /\ fv.listed
                          /\ c.mount = fv.mount /\ c.was = c.had /\ fv.row = c.to
            /\ ~fv.open => ~fv.listed

CallsAhead == \A c \in fv.calls : Ahead(c)
StarsBounded == fv.n <= MaxToggles

FavoritesInv == /\ fv \in FavoriteStates /\ StarsBounded
                /\ fv.crossed \/ (StarsTrueAlone /\ CallsAhead)

LEMMA FavoritesInit == ASSUME NEW b \in BOOLEAN, fv = FavoritesStart(b) PROVE FavoritesInv
  BY ToggleAssumption DEF FavoritesStart, FavoritesInv, FavoriteStates, StarsTrueAlone, CallsAhead,
     StarsBounded

(* When nothing crossed, a request to settle is the only one.               *)
LEMMA FavoritesStep == FavoritesInv /\ [FavoritesNext]_fv => FavoritesInv'
<1> SUFFICES ASSUME FavoritesInv, FavoritesNext PROVE FavoritesInv'
  BY DEF FavoritesInv, StarsTrueAlone, Ahead, CallsAhead, StarsBounded
<1>t. fv \in FavoriteStates
  BY DEF FavoritesInv
<1>m. MaxToggles \in Nat /\ fv.n \in Nat /\ fv.n + 1 \in Nat /\ StarsBounded
  BY ToggleAssumption DEF FavoritesInv, FavoriteStates
<1>1. CASE OpenFavorites
  <2>1. fv' \in FavoriteStates /\ fv'.n = fv.n
    BY <1>1, <1>t DEF OpenFavorites, FavoriteStates
  <2>2. fv'.crossed = (fv.crossed \/ fv.calls # {}) /\ fv'.calls = fv.calls
    BY <1>1, <1>t DEF OpenFavorites, FavoriteStates
  <2>3. fv'.index = fv.index /\ fv'.server = fv.server /\ fv'.listed = FALSE
    BY <1>1, <1>t DEF OpenFavorites, FavoriteStates
  <2>n. StarsBounded'
    BY <1>m, <2>1 DEF StarsBounded
  <2> QED
    BY <2>n, <2>1, <2>2, <2>3, Zenon DEF FavoritesInv, StarsTrueAlone, CallsAhead
<1>2. CASE RetryFavorites
  <2>1. fv' \in FavoriteStates /\ fv'.n = fv.n
    BY <1>2, <1>t DEF RetryFavorites, FavoriteStates
  <2>2. fv'.crossed = (fv.crossed \/ fv.calls # {}) /\ fv'.calls = fv.calls
    BY <1>2, <1>t DEF RetryFavorites, FavoriteStates
  <2>3. fv'.index = fv.index /\ fv'.server = fv.server /\ fv'.listed = fv.listed
    BY <1>2, <1>t DEF RetryFavorites, FavoriteStates
  <2>4. fv'.open = fv.open /\ fv'.row = fv.row
    BY <1>2, <1>t DEF RetryFavorites, FavoriteStates
  <2>n. StarsBounded'
    BY <1>m, <2>1 DEF StarsBounded
  <2> QED
    BY <2>n, <2>1, <2>2, <2>3, <2>4, Zenon DEF FavoritesInv, StarsTrueAlone, CallsAhead
<1>3. CASE CloseFavorites
  <2>1. fv' \in FavoriteStates /\ fv'.n = fv.n
    BY <1>3, <1>t, Zenon DEF CloseFavorites, FavoriteStates
  <2>2. fv'.crossed = fv.crossed /\ fv'.calls = fv.calls
    BY <1>3, <1>t DEF CloseFavorites, FavoriteStates
  <2>3. fv'.index = fv.index /\ fv'.server = fv.server /\ fv'.listed = FALSE /\ fv'.open = FALSE
    BY <1>3, <1>t DEF CloseFavorites, FavoriteStates
  <2>n. StarsBounded'
    BY <1>m, <2>1 DEF StarsBounded
  <2> QED
    BY <2>n, <2>1, <2>2, <2>3 DEF FavoritesInv, StarsTrueAlone, CallsAhead, Ahead
<1>4. CASE FilterFavorites
  <2>1. fv' \in FavoriteStates /\ fv'.n = fv.n
    BY <1>4, <1>t, Zenon DEF FilterFavorites, FavoriteStates
  <2>2. fv'.crossed = fv.crossed /\ fv'.calls = fv.calls
    BY <1>4, <1>t DEF FilterFavorites, FavoriteStates
  <2>3. fv'.index = fv.index /\ fv'.server = fv.server /\ fv'.listed = fv.listed
    BY <1>4, <1>t DEF FilterFavorites, FavoriteStates
  <2>4. fv'.open = fv.open /\ fv'.row = fv.row /\ fv'.status = fv.status /\ fv'.mount = fv.mount
    BY <1>4, <1>t, Zenon DEF FilterFavorites, FavoriteStates
  <2>n. StarsBounded'
    BY <1>m, <2>1 DEF StarsBounded
  <2> QED
    BY <2>n, <2>1, <2>2, <2>3, <2>4 DEF FavoritesInv, StarsTrueAlone, CallsAhead, Ahead
<1>5. CASE Toggle
  <2> DEFINE new == [id |-> fv.n, to |-> ~fv.index, was |-> fv.row, had |-> fv.index,
                     mount |-> fv.mount, step |-> "sent"]
  <2>1. PICK c \in FavoriteCalls : c = new
    <3>1. \A x \in BOOLEAN : [id |-> fv.n, to |-> x, was |-> fv.row, had |-> fv.index,
                            mount |-> fv.mount, step |-> "sent"] \in FavoriteCalls
      BY <1>t DEF FavoriteStates, FavoriteCalls
    <3>2. (~fv.index) \in BOOLEAN
      OBVIOUS
    <3> QED
      BY <3>1, <3>2, Zenon
  <2>2. c.to = ~fv.index /\ c.had = fv.index /\ c.was = fv.row /\ c.mount = fv.mount /\ c.step = "sent"
    BY <2>1
  <2>3. fv' = [fv EXCEPT !.n = fv.n + 1, !.row = ~fv.row, !.index = ~fv.index,
                 !.crossed = fv.crossed \/ fv.calls # {}, !.calls = fv.calls \cup {c}]
    BY <1>5, <2>1 DEF Toggle
  <2>g. FavoritesRows /\ fv.n < MaxToggles
    BY <1>5 DEF Toggle
  <2>4. \A k \in Nat, x, y, z \in BOOLEAN :
          [fv EXCEPT !.n = k, !.row = x, !.index = y, !.crossed = z, !.calls = fv.calls \cup {c}]
            \in FavoriteStates
    BY <1>t, <2>1, Zenon DEF FavoriteStates
  <2>a. (~fv.row) \in BOOLEAN /\ (~fv.index) \in BOOLEAN
    OBVIOUS
  <2>b. (fv.crossed \/ fv.calls # {}) \in BOOLEAN
    OBVIOUS
  <2>5. fv' \in FavoriteStates
    BY <1>m, <2>3, <2>4, <2>a, <2>b
  <2>6. fv'.n = fv.n + 1 /\ fv'.row = ~fv.row /\ fv'.index = ~fv.index
    BY <1>t, <2>3 DEF FavoriteStates
  <2>7. fv'.crossed = (fv.crossed \/ fv.calls # {}) /\ fv'.calls = fv.calls \cup {c}
    BY <1>t, <2>3 DEF FavoriteStates
  <2>8. fv'.server = fv.server /\ fv'.listed = fv.listed /\ fv'.open = fv.open
    BY <1>t, <2>3 DEF FavoriteStates
  <2>9. fv'.status = fv.status /\ fv'.mount = fv.mount
    BY <1>t, <2>3 DEF FavoriteStates
  <2>10. StarsBounded'
    BY <1>m, <2>6, <2>g DEF StarsBounded
  <2>11. ASSUME ~fv'.crossed PROVE StarsTrueAlone' /\ CallsAhead'
    <3>1. ~fv.crossed /\ fv.calls = {} /\ fv'.calls = {c}
      BY <2>7, <2>11, Zenon
    <3>2. fv.index = fv.server /\ fv.row = fv.server /\ fv.open /\ fv.listed /\ fv.status = "ready"
      BY <3>1, <2>g DEF FavoritesInv, StarsTrueAlone, FavoritesRows
    <3>b. fv.index \in BOOLEAN /\ fv.row \in BOOLEAN
      BY <1>t DEF FavoriteStates
    <3>3. c.to = ~c.had /\ fv'.index = c.to /\ c.was = c.had /\ fv'.row = c.to
      BY <2>2, <2>6, <3>2, <3>b
    <3>4. fv'.server = (IF c.step = "saved" THEN c.to ELSE c.had)
      BY <2>2, <2>8, <3>2, Zenon
    <3>5. fv'.open /\ fv'.listed /\ fv'.status = "ready" /\ c.mount = fv'.mount
      BY <2>2, <2>8, <2>9, <3>2, Zenon
    <3>6. Ahead(c)'
      BY <3>1, <3>3, <3>4, <3>5 DEF Ahead
    <3>7. CallsAhead'
      BY <3>1, <3>6 DEF CallsAhead
    <3>8. StarsTrueAlone'
      BY <3>1 DEF StarsTrueAlone
    <3> QED
      BY <3>7, <3>8
  <2> QED
    BY <2>5, <2>7, <2>10, <2>11 DEF FavoritesInv
<1>6. ASSUME NEW ok \in BOOLEAN, FavoritesLoaded(ok) PROVE FavoritesInv'
  <2>g. fv.open /\ fv.status = "loading"
    BY <1>6 DEF FavoritesLoaded, FavoritesLoading
  <2>1. fv' \in FavoriteStates /\ fv'.n = fv.n
    BY <1>6, <1>t, Zenon DEF FavoritesLoaded, FavoriteStates
  <2>2. fv'.crossed = fv.crossed /\ fv'.calls = fv.calls
    BY <1>6, <1>t DEF FavoritesLoaded, FavoriteStates
  <2>3. fv'.index = fv.index /\ fv'.server = fv.server /\ fv'.open = fv.open
    BY <1>6, <1>t DEF FavoritesLoaded, FavoriteStates
  <2>4. fv'.row = fv.server \/ (fv'.row = fv.row /\ fv'.listed = fv.listed)
    BY <1>6, <1>t DEF FavoritesLoaded, FavoriteStates
  <2>5. fv.crossed \/ fv.calls = {}
    BY <2>g DEF FavoritesInv, CallsAhead, Ahead
  <2>n. StarsBounded'
    BY <1>m, <2>1 DEF StarsBounded
  <2> QED
    BY <2>n, <2>1, <2>2, <2>3, <2>4, <2>5 DEF FavoritesInv, StarsTrueAlone, CallsAhead
<1>7. ASSUME NEW c \in fv.calls, NEW ok \in BOOLEAN, FavoriteSaved(c, ok) PROVE FavoritesInv'
  <2> DEFINE d == [c EXCEPT !.step = IF ok THEN "saved" ELSE "failed"]
  <2>1. c \in FavoriteCalls
    BY <1>t DEF FavoriteStates
  <2>2. d \in FavoriteCalls /\ d.step = (IF ok THEN "saved" ELSE "failed")
    BY <2>1 DEF FavoriteCalls
  <2>3. d.to = c.to /\ d.had = c.had /\ d.was = c.was /\ d.mount = c.mount
    BY <2>1 DEF FavoriteCalls
  <2>4. fv' = [fv EXCEPT !.server = IF ok THEN c.to ELSE @, !.saved = @ \/ ok,
                         !.calls = (@ \ {c}) \cup {d}]
    BY <1>7 DEF FavoriteSaved
  <2>s. c.step = "sent" /\ c.to \in BOOLEAN
    BY <1>7, <2>1 DEF FavoriteSaved, FavoriteCalls
  <2> HIDE DEF d
  <2>5. fv' \in FavoriteStates
    BY <1>t, <2>2, <2>4, <2>s, Zenon DEF FavoriteStates
  <2>6. fv'.n = fv.n /\ fv'.crossed = fv.crossed
    BY <1>t, <2>4 DEF FavoriteStates
  <2>7. fv'.calls = (fv.calls \ {c}) \cup {d} /\ fv'.server = (IF ok THEN c.to ELSE fv.server)
    BY <1>t, <2>4 DEF FavoriteStates
  <2>8. fv'.index = fv.index /\ fv'.listed = fv.listed /\ fv'.open = fv.open
    BY <1>t, <2>4 DEF FavoriteStates
  <2>9. fv'.status = fv.status /\ fv'.mount = fv.mount /\ fv'.row = fv.row
    BY <1>t, <2>4 DEF FavoriteStates
  <2>10. ASSUME ~fv.crossed PROVE StarsTrueAlone' /\ CallsAhead'
    <3>1. Ahead(c)
      BY <2>10 DEF FavoritesInv, CallsAhead
    <3>2. fv'.calls = {d}
      BY <2>7, <3>1 DEF Ahead
    <3>3. fv'.server = (IF d.step = "saved" THEN d.to ELSE d.had)
      BY <2>2, <2>3, <2>7, <2>s, <3>1 DEF Ahead
    <3>4. Ahead(d)'
      BY <2>3, <2>8, <2>9, <3>1, <3>2, <3>3 DEF Ahead
    <3> QED
      BY <3>2, <3>4 DEF StarsTrueAlone, CallsAhead
  <2>n. StarsBounded'
    BY <1>m, <2>6 DEF StarsBounded
  <2> QED
    BY <2>n, <2>5, <2>6, <2>10 DEF FavoritesInv
<1>8. ASSUME NEW c \in fv.calls, FavoriteSettled(c) PROVE FavoritesInv'
  <2> DEFINE back == c.step = "failed" /\ fv.listed /\ c.mount = fv.mount
  <2>1. c \in FavoriteCalls
    BY <1>t DEF FavoriteStates
  <2>2. fv' = [fv EXCEPT !.calls = @ \ {c},
                         !.index = IF c.step = "saved" THEN c.to ELSE c.had,
                         !.row = IF back THEN c.was ELSE @]
    BY <1>8 DEF FavoriteSettled
  <2>s. c.step \in {"saved", "failed"} /\ c.to \in BOOLEAN /\ c.had \in BOOLEAN /\ c.was \in BOOLEAN
    BY <1>8, <2>1 DEF FavoriteSettled, FavoriteCalls
  <2> HIDE DEF back
  <2>3. fv' \in FavoriteStates
    BY <1>t, <2>2, <2>s, Zenon DEF FavoriteStates
  <2>4. fv'.n = fv.n /\ fv'.crossed = fv.crossed
    BY <1>t, <2>2 DEF FavoriteStates
  <2>5. fv'.calls = fv.calls \ {c} /\ fv'.server = fv.server
    BY <1>t, <2>2 DEF FavoriteStates
  <2>6. fv'.index = (IF c.step = "saved" THEN c.to ELSE c.had)
    BY <1>t, <2>2 DEF FavoriteStates
  <2>7. fv'.row = (IF back THEN c.was ELSE fv.row)
    BY <1>t, <2>2 DEF FavoriteStates
  <2>8. fv'.listed = fv.listed /\ fv'.open = fv.open
    BY <1>t, <2>2 DEF FavoriteStates
  <2>9. ASSUME ~fv.crossed PROVE StarsTrueAlone' /\ CallsAhead'
    <3>1. Ahead(c)
      BY <2>9 DEF FavoritesInv, CallsAhead
    <3>2. fv'.calls = {}
      BY <2>5, <3>1 DEF Ahead
    <3>3. fv'.index = fv'.server
      BY <2>5, <2>6, <3>1 DEF Ahead
    <3>4. fv'.open /\ fv'.listed => fv'.row = fv'.server
      <4>1. CASE fv.open /\ fv.listed /\ c.step = "saved"
        BY <2>5, <2>7, <3>1, <4>1 DEF Ahead, back
      <4>2. CASE fv.open /\ fv.listed /\ c.step = "failed"
        BY <2>5, <2>7, <3>1, <4>2 DEF Ahead, back
      <4> QED
        BY <2>8, <2>s, <4>1, <4>2, Zenon
    <3> QED
      BY <3>2, <3>3, <3>4 DEF StarsTrueAlone, CallsAhead
  <2>n. StarsBounded'
    BY <1>m, <2>4 DEF StarsBounded
  <2> QED
    BY <2>n, <2>3, <2>4, <2>9 DEF FavoritesInv
<1> QED
  BY <1>1, <1>2, <1>3, <1>4, <1>5, <1>6, <1>7, <1>8 DEF FavoritesNext

LEMMA FavoritesHold == ASSUME FavoritesInv PROVE FavoritesTypeOK /\ StarsTrueAlone
<1>1. fv.n \in Nat /\ MaxToggles \in Nat
  BY ToggleAssumption DEF FavoritesInv, FavoriteStates
<1>2. FavoritesTypeOK
  <2>1. fv.n <= MaxToggles
    BY DEF FavoritesInv, StarsBounded
  <2>2. fv.n \in 0..MaxToggles
    BY <1>1, <2>1
  <2> QED
    BY <2>2 DEF FavoritesTypeOK, FavoritesInv, FavoriteStates
<1>3. StarsTrueAlone
  BY DEF FavoritesInv, StarsTrueAlone, CallsAhead
<1> QED
  BY <1>2, <1>3

-----------------------------------------------------------------------------
(* Overlays.  What is left of the timer and the age of a toast make up its  *)
(* time, and the focus is within the controls of the overlay or on the page.*)

OverlayStates ==
  [on : BOOLEAN, toast : Nat, seq : Nat, timer : Nat, age : Nat,
   over : {"none", "modal", "sheet"}, n : Nat, focus : Int,
   back : BOOLEAN, chat : BOOLEAN, menu : BOOLEAN, deleting : BOOLEAN]

FocusWithin == -1 <= ov.focus /\ ov.focus <= ov.n /\ ov.n <= MaxFocus

(* The next toast never has the id of the one on the screen, so that its    *)
(* countdown starts.                                                        *)
SeqOfToast == ov.seq <= 3 /\ (ov.toast = 0 \/ ov.toast = ov.seq)

OverlayInv == ov \in OverlayStates /\ ToastWhole /\ SeqOfToast /\ FocusWithin

LEMMA OverlayBounds == ToastTime \in Nat /\ MaxFocus \in Nat /\ ToastTime > 0 /\ MaxFocus >= 2
  BY OverlayAssumption

LEMMA OverlayInit == ASSUME NEW b \in BOOLEAN, ov = OverlayStart(b) PROVE OverlayInv
  BY OverlayBounds DEF OverlayStart, OverlayInv, OverlayStates, ToastWhole, FocusWithin, SeqOfToast

(* A toast, or none, in the place of another.                               *)
LEMMA ToastTyped ==
  ASSUME ov \in OverlayStates, NEW x \in Nat, NEW id \in Nat, NEW z \in Nat, NEW q \in Nat
  PROVE  [ov EXCEPT !.timer = x, !.toast = id, !.age = z, !.seq = q] \in OverlayStates
  BY Zenon DEF OverlayStates

LEMMA ToastReplaced ==
  ASSUME OverlayInv, NEW id \in Nat, id # ov.toast \/ id = 0, NEW q \in Nat, q <= 3, id = 0 \/ id = q,
         ov' = [Toasted(ov, id) EXCEPT !.seq = q]
  PROVE  OverlayInv'
<1>t. ov \in OverlayStates
  BY DEF OverlayInv
<1>1. PICK x \in Nat, z \in Nat : /\ x = IF ov.toast = id THEN ov.timer ELSE IF id = 0 THEN 0 ELSE ToastTime
                                  /\ z = 0
  BY <1>t, OverlayBounds DEF OverlayStates
<1>2. Toasted(ov, id) = [ov EXCEPT !.timer = x, !.toast = id, !.age = z]
  BY <1>1, <1>t, Zenon DEF Toasted, ToastEffect, OverlayStates
<1>3. ov' = [ov EXCEPT !.timer = x, !.toast = id, !.age = z, !.seq = q]
  BY <1>2
<1>z. x \in Nat /\ z \in Nat
  BY <1>1
<1>y. [ov EXCEPT !.timer = x, !.toast = id, !.age = z, !.seq = q] \in OverlayStates
  BY <1>t, <1>z, ToastTyped, Zenon
<1>4. ov' \in OverlayStates
  BY <1>y, <1>3, Zenon
<1>5. ov'.timer = x /\ ov'.toast = id /\ ov'.age = 0
  BY <1>t, <1>1, <1>3, Zenon DEF OverlayStates
<1>6. ov'.seq = q /\ ov'.n = ov.n /\ ov'.focus = ov.focus
  BY <1>t, <1>3, Zenon DEF OverlayStates
<1>7. x = IF id = 0 THEN 0 ELSE ToastTime
  BY <1>1, <1>t DEF OverlayInv, ToastWhole
<1>8. ToastWhole'
  BY <1>5, <1>7, OverlayBounds DEF ToastWhole
<1>9. SeqOfToast' /\ FocusWithin'
  BY <1>5, <1>6 DEF SeqOfToast, FocusWithin, OverlayInv
<1> QED
  BY <1>4, <1>8, <1>9 DEF OverlayInv

(* A step that leaves the toast alone.                                      *)
LEMMA ToastKept ==
  ASSUME OverlayInv, ov' \in OverlayStates, ov'.toast = ov.toast, ov'.seq = ov.seq,
         ov'.timer = ov.timer, ov'.age = ov.age, FocusWithin'
  PROVE  OverlayInv'
  BY DEF OverlayInv, ToastWhole, SeqOfToast

(* Where Tab takes the focus.                                               *)
LEMMA TabWithin ==
  ASSUME OverlayInv, NEW back \in BOOLEAN
  PROVE  /\ SheetTab(ov.focus, back) \in 0..ov.n \cup {1}
         /\ ov.n > 0 => SheetTab(ov.focus, back) \in 0..ov.n
         /\ ov.n = 0 => SheetTab(ov.focus, back) = 0
         /\ ModalTab(ov.focus, back) \in -1..ov.n
<1> DEFINE f == ov.focus
<1>1. f \in Int /\ ov.n \in Nat /\ -1 <= f /\ f <= ov.n
  BY DEF OverlayInv, OverlayStates, FocusWithin
<1> HIDE DEF f
<1>2. /\ SheetTab(f, back) \in 0..ov.n \cup {1}
      /\ ov.n > 0 => SheetTab(f, back) \in 0..ov.n
      /\ ov.n = 0 => SheetTab(f, back) = 0
  BY <1>1 DEF SheetTab, Onward
<1>3. ModalTab(f, back) \in -1..ov.n
  BY <1>1 DEF ModalTab, Onward
<1> QED
  BY <1>2, <1>3 DEF f

LEMMA ShutTyped ==
  ASSUME ov \in OverlayStates, NEW m \in Nat, NEW f \in Int
  PROVE  /\ [ov EXCEPT !.over = "none", !.n = m, !.focus = f, !.back = FALSE, !.deleting = FALSE] \in OverlayStates
         /\ [ov EXCEPT !.chat = FALSE, !.menu = FALSE, !.over = "none", !.n = m, !.focus = f,
                       !.back = FALSE, !.deleting = FALSE] \in OverlayStates
  BY Zenon DEF OverlayStates

LEMMA OpenedTyped ==
  ASSUME ov \in OverlayStates, NEW m \in Nat, NEW f \in Int, NEW k \in {"modal", "sheet"}
  PROVE  /\ [ov EXCEPT !.over = k, !.n = m, !.focus = f, !.back = TRUE] \in OverlayStates
         /\ [ov EXCEPT !.menu = FALSE, !.deleting = TRUE, !.over = "modal", !.n = m, !.focus = f,
                       !.back = FALSE] \in OverlayStates
         /\ [ov EXCEPT !.n = m, !.focus = f] \in OverlayStates
         /\ [ov EXCEPT !.focus = f] \in OverlayStates
  BY Zenon DEF OverlayStates

LEMMA OverlayStep == OverlayInv /\ [OverlayNext]_ov => OverlayInv'
<1> SUFFICES ASSUME OverlayInv, OverlayNext PROVE OverlayInv'
  BY DEF OverlayInv, ToastWhole, SeqOfToast, FocusWithin
<1>t. ov \in OverlayStates /\ FocusWithin
  BY DEF OverlayInv
<1>b. ToastTime \in Nat /\ MaxFocus \in Nat /\ ov.n \in Nat /\ ov.focus \in Int
  BY <1>t, OverlayBounds DEF OverlayStates
<1>p. PICK zero \in Nat, two \in Nat, page \in Int : zero = 0 /\ two = 2 /\ page = -1
  OBVIOUS
<1>1. CASE ShowToast
  <2>0. ov.seq \in Nat /\ ov.toast \in Nat /\ ov.seq <= 3 /\ (ov.toast = 0 \/ ov.toast = ov.seq)
    BY <1>t DEF OverlayInv, OverlayStates, SeqOfToast
  <2>1. PICK id \in Nat : id = (ov.seq % 3) + 1
    BY <2>0
  <2>2. id # ov.toast /\ id <= 3
    BY <2>0, <2>1
  <2>3. ov' = [Toasted(ov, id) EXCEPT !.seq = id]
    BY <1>1, <2>1 DEF ShowToast
  <2> QED
    BY <2>2, <2>3, ToastReplaced
<1>2. CASE ToastTick
  <2>1. CASE ov.timer = 1
    <3>1. ov' = Toasted(ov, 0)
      BY <1>2, <2>1 DEF ToastTick
    <3>2. Toasted(ov, 0) = [Toasted(ov, 0) EXCEPT !.seq = ov.seq]
      BY <1>t, Zenon DEF Toasted, ToastEffect, OverlayStates
    <3>3. ov.seq \in Nat /\ ov.seq <= 3
      BY <1>t DEF OverlayInv, SeqOfToast, OverlayStates
    <3> QED
      BY <3>1, <3>2, <3>3, ToastReplaced
  <2>2. CASE ov.timer # 1
    <3>1. ov.timer > 0 /\ ov.timer \in Nat /\ ov.age \in Nat
      BY <1>2, <1>t DEF ToastTick, OverlayStates
    <3>2. PICK x \in Nat, y \in Nat : x = ov.timer - 1 /\ y = ov.age + 1
      BY <3>1
    <3>3. ov' = [ov EXCEPT !.timer = x, !.age = y]
      BY <1>2, <2>2, <3>2 DEF ToastTick
    <3>4. ov' \in OverlayStates
      BY <1>t, <3>3, Zenon DEF OverlayStates
    <3>5. ov'.timer = x /\ ov'.age = y /\ ov'.toast = ov.toast
      BY <1>t, <3>3 DEF OverlayStates
    <3>6. ov'.seq = ov.seq /\ ov'.n = ov.n /\ ov'.focus = ov.focus
      BY <1>t, <3>3 DEF OverlayStates
    <3>7. ToastWhole'
      BY <1>b, <3>1, <3>2, <3>5 DEF ToastWhole, OverlayInv
    <3> QED
      BY <1>t, <3>4, <3>5, <3>6, <3>7 DEF OverlayInv, SeqOfToast, FocusWithin
  <2> QED
    BY <2>1, <2>2
<1>3. CASE ToastDismissed
  <2>1. ov' = Toasted(ov, 0)
    BY <1>3 DEF ToastDismissed
  <2>2. Toasted(ov, 0) = [Toasted(ov, 0) EXCEPT !.seq = ov.seq]
    BY <1>t DEF Toasted, ToastEffect, OverlayStates
  <2>3. ov.seq \in Nat /\ ov.seq <= 3
    BY <1>t DEF OverlayInv, SeqOfToast, OverlayStates
  <2> QED
    BY <2>1, <2>2, <2>3, ToastReplaced
<1>4. CASE ToggleThreadMenu
  <2>1. ov' \in OverlayStates
    BY <1>t, <1>4, Zenon DEF ToggleThreadMenu, OverlayStates
  <2>2. ov'.toast = ov.toast /\ ov'.seq = ov.seq
    BY <1>t, <1>4 DEF ToggleThreadMenu, OverlayStates
  <2>3. ov'.timer = ov.timer /\ ov'.age = ov.age
    BY <1>t, <1>4 DEF ToggleThreadMenu, OverlayStates
  <2>4. ov'.focus = ov.focus /\ ov'.n = ov.n
    BY <1>t, <1>4 DEF ToggleThreadMenu, OverlayStates
  <2>5. FocusWithin'
    BY <1>t, <1>b, <2>4 DEF FocusWithin
  <2> QED
    BY <2>1, <2>2, <2>3, <2>5, ToastKept
<1>5. CASE CloseThreadMenu
  <2>1. ov' \in OverlayStates
    BY <1>t, <1>5, Zenon DEF CloseThreadMenu, OverlayStates
  <2>2. ov'.toast = ov.toast /\ ov'.seq = ov.seq
    BY <1>t, <1>5 DEF CloseThreadMenu, OverlayStates
  <2>3. ov'.timer = ov.timer /\ ov'.age = ov.age
    BY <1>t, <1>5 DEF CloseThreadMenu, OverlayStates
  <2>4. ov'.focus = ov.focus /\ ov'.n = ov.n
    BY <1>t, <1>5 DEF CloseThreadMenu, OverlayStates
  <2>5. FocusWithin'
    BY <1>t, <1>b, <2>4 DEF FocusWithin
  <2> QED
    BY <2>1, <2>2, <2>3, <2>5, ToastKept
<1>6. CASE MenuItem
  <2>1. ov' \in OverlayStates
    BY <1>t, <1>6, Zenon DEF MenuItem, OverlayStates
  <2>2. ov'.toast = ov.toast /\ ov'.seq = ov.seq
    BY <1>t, <1>6 DEF MenuItem, OverlayStates
  <2>3. ov'.timer = ov.timer /\ ov'.age = ov.age
    BY <1>t, <1>6 DEF MenuItem, OverlayStates
  <2>4. ov'.focus = ov.focus /\ ov'.n = ov.n
    BY <1>t, <1>6 DEF MenuItem, OverlayStates
  <2>5. FocusWithin'
    BY <1>t, <1>b, <2>4 DEF FocusWithin
  <2> QED
    BY <2>1, <2>2, <2>3, <2>5, ToastKept
<1>7. CASE ChatMade
  <2>1. ov' \in OverlayStates
    BY <1>t, <1>7, Zenon DEF ChatMade, OverlayStates
  <2>2. ov'.toast = ov.toast /\ ov'.seq = ov.seq
    BY <1>t, <1>7 DEF ChatMade, OverlayStates
  <2>3. ov'.timer = ov.timer /\ ov'.age = ov.age
    BY <1>t, <1>7 DEF ChatMade, OverlayStates
  <2>4. ov'.focus = ov.focus /\ ov'.n = ov.n
    BY <1>t, <1>7 DEF ChatMade, OverlayStates
  <2>5. FocusWithin'
    BY <1>t, <1>b, <2>4 DEF FocusWithin
  <2> QED
    BY <2>1, <2>2, <2>3, <2>5, ToastKept
<1>8. CASE MenuDelete
  <2>m. PICK m \in Int : m = 1
    OBVIOUS
  <2>e. ov' = [ov EXCEPT !.menu = FALSE, !.deleting = TRUE, !.over = "modal", !.n = two, !.focus = m, !.back = FALSE]
    BY <1>8, <1>p, <2>m DEF MenuDelete, OpenedOver
  <2>1. ov' \in OverlayStates
    BY <1>t, <2>e, <2>m, OpenedTyped, Zenon 
  <2>2. ov'.toast = ov.toast /\ ov'.seq = ov.seq
    BY <1>t, <2>e DEF OverlayStates
  <2>3. ov'.timer = ov.timer /\ ov'.age = ov.age
    BY <1>t, <2>e DEF OverlayStates
  <2>4. ov'.focus = m /\ ov'.n = two
    BY <1>t, <2>e DEF OverlayStates
  <2>5. FocusWithin'
    BY <1>t, <1>b, <2>4, <1>p, <2>m, OverlayBounds DEF FocusWithin
  <2> QED
    BY <2>1, <2>2, <2>3, <2>5, ToastKept
<1>9. CASE ConfirmDeletion
  <2>e. ov' = [ov EXCEPT !.chat = FALSE, !.menu = FALSE, !.over = "none", !.n = zero, !.focus = page, !.back = FALSE, !.deleting = FALSE]
    BY <1>9, <1>p DEF ConfirmDeletion, Shut
  <2>1. ov' \in OverlayStates
    BY <1>t, <2>e, ShutTyped, Zenon 
  <2>2. ov'.toast = ov.toast /\ ov'.seq = ov.seq
    BY <1>t, <2>e DEF OverlayStates
  <2>3. ov'.timer = ov.timer /\ ov'.age = ov.age
    BY <1>t, <2>e DEF OverlayStates
  <2>4. ov'.focus = page /\ ov'.n = zero
    BY <1>t, <2>e DEF OverlayStates
  <2>5. FocusWithin'
    BY <1>t, <1>b, <2>4, <1>p DEF FocusWithin
  <2> QED
    BY <2>1, <2>2, <2>3, <2>5, ToastKept
<1>10. CASE EscapeKey
  <2>e. ov' = [ov EXCEPT !.over = "none", !.n = zero, !.focus = page, !.back = FALSE, !.deleting = FALSE]
    BY <1>10, <1>p DEF EscapeKey, Shut
  <2>1. ov' \in OverlayStates
    BY <1>t, <2>e, ShutTyped, Zenon 
  <2>2. ov'.toast = ov.toast /\ ov'.seq = ov.seq
    BY <1>t, <2>e DEF OverlayStates
  <2>3. ov'.timer = ov.timer /\ ov'.age = ov.age
    BY <1>t, <2>e DEF OverlayStates
  <2>4. ov'.focus = page /\ ov'.n = zero
    BY <1>t, <2>e DEF OverlayStates
  <2>5. FocusWithin'
    BY <1>t, <1>b, <2>4, <1>p DEF FocusWithin
  <2> QED
    BY <2>1, <2>2, <2>3, <2>5, ToastKept
<1>11. CASE BackdropPress
  <2>e. ov' = [ov EXCEPT !.over = "none", !.n = zero, !.focus = page, !.back = FALSE, !.deleting = FALSE]
    BY <1>11, <1>p DEF BackdropPress, Shut
  <2>1. ov' \in OverlayStates
    BY <1>t, <2>e, ShutTyped, Zenon 
  <2>2. ov'.toast = ov.toast /\ ov'.seq = ov.seq
    BY <1>t, <2>e DEF OverlayStates
  <2>3. ov'.timer = ov.timer /\ ov'.age = ov.age
    BY <1>t, <2>e DEF OverlayStates
  <2>4. ov'.focus = page /\ ov'.n = zero
    BY <1>t, <2>e DEF OverlayStates
  <2>5. FocusWithin'
    BY <1>t, <1>b, <2>4, <1>p DEF FocusWithin
  <2> QED
    BY <2>1, <2>2, <2>3, <2>5, ToastKept
<1>12. CASE PressPanel
  <2>z. zero \in Int
    BY <1>p
  <2>e. ov' = [ov EXCEPT !.focus = zero]
    BY <1>12, <1>p DEF PressPanel
  <2>1. ov' \in OverlayStates
    BY <1>t, <2>e, <1>p, <2>z, OpenedTyped, Zenon 
  <2>2. ov'.toast = ov.toast /\ ov'.seq = ov.seq
    BY <1>t, <2>e DEF OverlayStates
  <2>3. ov'.timer = ov.timer /\ ov'.age = ov.age
    BY <1>t, <2>e DEF OverlayStates
  <2>4. ov'.focus = zero /\ ov'.n = ov.n
    BY <1>t, <2>e DEF OverlayStates
  <2>5. FocusWithin'
    BY <1>t, <1>b, <2>4, <1>p DEF FocusWithin
  <2> QED
    BY <2>1, <2>2, <2>3, <2>5, ToastKept
<1>13. ASSUME NEW k \in {"modal", "sheet"}, NEW n \in 0..MaxFocus, OpenOverlay(k, n)
       PROVE  OverlayInv'
  <2>f. PICK f \in {0, 1} : f = IF k = "modal" /\ n > 0 THEN 1 ELSE 0
    OBVIOUS
  <2>n. n \in Nat /\ n <= MaxFocus
    BY <1>b
  <2>i. f \in Int
    BY <2>f
  <2>e. ov' = [ov EXCEPT !.over = k, !.n = n, !.focus = f, !.back = TRUE]
    BY <1>13, <2>f DEF OpenOverlay, OpenedOver
  <2>1. ov' \in OverlayStates
    BY <1>t, <2>e, <2>f, <2>n, <2>i, OpenedTyped, Zenon 
  <2>2. ov'.toast = ov.toast /\ ov'.seq = ov.seq
    BY <1>t, <2>e DEF OverlayStates
  <2>3. ov'.timer = ov.timer /\ ov'.age = ov.age
    BY <1>t, <2>e DEF OverlayStates
  <2>4. ov'.focus = f /\ ov'.n = n
    BY <1>t, <2>e DEF OverlayStates
  <2>5. FocusWithin'
    BY <1>t, <1>b, <2>4, <2>f, <2>n DEF FocusWithin
  <2> QED
    BY <2>1, <2>2, <2>3, <2>5, ToastKept
<1>14. ASSUME NEW b \in BOOLEAN, PressTab(b) PROVE OverlayInv'
  <2>f. PICK f \in -1..ov.n \cup {0} : f = IF ov.over = "sheet" THEN SheetTab(ov.focus, b) ELSE ModalTab(ov.focus, b)
    BY <1>b, TabWithin
  <2>n. f \in Int /\ -1 <= f /\ f <= ov.n
    BY <1>b
  <2>e. ov' = [ov EXCEPT !.focus = f]
    BY <1>14, <2>f DEF PressTab
  <2>1. ov' \in OverlayStates
    BY <1>t, <2>e, <2>n, OpenedTyped, Zenon 
  <2>2. ov'.toast = ov.toast /\ ov'.seq = ov.seq
    BY <1>t, <2>e DEF OverlayStates
  <2>3. ov'.timer = ov.timer /\ ov'.age = ov.age
    BY <1>t, <2>e DEF OverlayStates
  <2>4. ov'.focus = f /\ ov'.n = ov.n
    BY <1>t, <2>e DEF OverlayStates
  <2>5. FocusWithin'
    BY <1>t, <1>b, <2>4, <2>n DEF FocusWithin
  <2> QED
    BY <2>1, <2>2, <2>3, <2>5, ToastKept
<1>15. ASSUME NEW n \in 0..MaxFocus, RenderControls(n) PROVE OverlayInv'
  <2>n. n \in Nat /\ n <= MaxFocus
    BY <1>b
  <2>f. PICK f \in Int : f = IF ov.focus > n THEN -1 ELSE ov.focus
    BY <1>b
  <2>g. -1 <= f /\ f <= n
    BY <1>t, <1>b, <2>n, <2>f DEF FocusWithin
  <2>e. ov' = [ov EXCEPT !.n = n, !.focus = f]
    BY <1>15, <2>f DEF RenderControls
  <2>1. ov' \in OverlayStates
    BY <1>t, <2>e, <2>n, OpenedTyped, Zenon 
  <2>2. ov'.toast = ov.toast /\ ov'.seq = ov.seq
    BY <1>t, <2>e DEF OverlayStates
  <2>3. ov'.timer = ov.timer /\ ov'.age = ov.age
    BY <1>t, <2>e DEF OverlayStates
  <2>4. ov'.focus = f /\ ov'.n = n
    BY <1>t, <2>e DEF OverlayStates
  <2>5. FocusWithin'
    BY <1>t, <1>b, <2>4, <2>n, <2>g DEF FocusWithin
  <2> QED
    BY <2>1, <2>2, <2>3, <2>5, ToastKept
<1>16. CASE ResetUi
  <2> DEFINE reset == [Toasted(ov, 0) EXCEPT !.seq = 0]
  <2>1. PICK x \in Nat : x = (IF ov.toast = 0 THEN ov.timer ELSE 0)
    BY <1>t DEF OverlayStates
  <2>3. x = zero
    BY <1>p, <2>1 DEF OverlayInv, ToastWhole
  <2>2. reset = [ov EXCEPT !.timer = zero, !.toast = zero, !.age = zero, !.seq = zero]
    BY <1>t, <1>p, <2>1, <2>3, Zenon DEF Toasted, ToastEffect, OverlayStates
  <2>r. reset \in OverlayStates
    BY <1>t, <2>2, ToastTyped
  <2>4. ov' = IF ov.deleting THEN Shut(reset) ELSE reset
    BY <1>16 DEF ResetUi
  <2>9. reset.toast = 0 /\ reset.timer = 0 /\ reset.seq = 0 /\ reset.focus = ov.focus /\ reset.n = ov.n
    BY <1>t, <1>p, <2>2, Zenon DEF OverlayStates
  <2> HIDE DEF reset
  <2>5. CASE ov' = reset
    BY <2>r, <2>5, <2>9, <1>t, <1>b DEF OverlayInv, ToastWhole, SeqOfToast, FocusWithin
  <2>6. CASE ov' = Shut(reset)
    <3>1. ov' = [reset EXCEPT !.over = "none", !.n = zero, !.focus = page, !.back = FALSE, !.deleting = FALSE]
      BY <2>6, <1>p DEF Shut
    <3>2. ov' \in OverlayStates
      BY <3>1, <2>r, Zenon DEF OverlayStates
    <3>3. ov'.toast = 0 /\ ov'.timer = 0 /\ ov'.seq = 0
      BY <3>1, <2>r, <2>9 DEF OverlayStates
    <3>4. ov'.focus = page /\ ov'.n = zero
      BY <3>1, <2>r DEF OverlayStates
    <3> QED
      BY <3>2, <3>3, <3>4, <1>p, <1>b DEF OverlayInv, ToastWhole, SeqOfToast, FocusWithin
  <2> QED
    BY <2>4, <2>5, <2>6
<1> QED
  BY <1>1, <1>2, <1>3, <1>4, <1>5, <1>6, <1>7, <1>8, <1>9,
     <1>10, <1>11, <1>12, <1>13, <1>14, <1>15, <1>16 DEF OverlayNext

LEMMA OverlayHold == ASSUME OverlayInv PROVE OverlayTypeOK /\ ToastWhole
<1>1. /\ ov.timer \in Nat /\ ov.age \in Nat /\ ov.n \in Nat /\ ov.focus \in Int /\ ov.toast \in Nat
      /\ ov.seq <= 3 /\ ov.seq \in Nat /\ (ov.toast = 0 \/ ov.toast = ov.seq) /\ ToastWhole /\ FocusWithin
  BY DEF OverlayInv, OverlayStates, SeqOfToast
<1>2. ov.timer <= ToastTime
  BY <1>1, OverlayBounds DEF ToastWhole
<1> QED
  BY <1>1, <1>2, OverlayBounds DEF OverlayTypeOK, FocusWithin

(* A Tab in the sheet stays in the sheet.                                   *)
LEMMA SheetStep ==
  ASSUME OverlayInv, [OverlayNext]_ov, ov.over = "sheet", ov'.over = "sheet", ov'.n = ov.n,
         ov'.focus # ov.focus
  PROVE  ov'.focus >= 0
<1>t. ov \in OverlayStates /\ FocusWithin
  BY DEF OverlayInv
<1>n. ov.n \in Nat /\ ov.focus \in Int
  BY <1>t DEF OverlayStates
<1>1. ov.over # "none" /\ ov'.over # "none" /\ ov' # ov /\ ov.menu \in BOOLEAN
  BY <1>t DEF OverlayStates
<1>2. ASSUME NEW s \in OverlayStates, ov' = Shut(s)
      PROVE  FALSE
  BY <1>1, <1>2 DEF Shut, OverlayStates
<1>3. ASSUME NEW id, NEW q, ov' = [Toasted(ov, id) EXCEPT !.seq = q] \/ ov' = Toasted(ov, id)
      PROVE  FALSE
  BY <1>t, <1>3, Zenon DEF Toasted, ToastEffect, OverlayStates
<1>4. CASE ShowToast \/ ToastDismissed
  BY <1>3, <1>4 DEF ShowToast, ToastDismissed
<1>5. CASE ToastTick
  BY <1>t, <1>5, <1>3, Zenon DEF ToastTick, OverlayStates
<1>6. CASE ResetUi
  BY <1>t, <1>6, <1>1 DEF ResetUi, Shut, Toasted, ToastEffect, OverlayStates
<1>7. CASE EscapeKey \/ BackdropPress \/ ConfirmDeletion
  BY <1>t, <1>7, <1>1, Zenon DEF EscapeKey, BackdropPress, ConfirmDeletion, Shut, OverlayStates
<1>8. CASE ToggleThreadMenu \/ CloseThreadMenu \/ MenuItem \/ ChatMade
  BY <1>t, <1>8, <1>1 DEF ToggleThreadMenu, CloseThreadMenu, MenuItem, ChatMade, OverlayStates
<1>9. CASE MenuDelete
  BY <1>t, <1>9 DEF MenuDelete, OpenedOver, OverlayStates
<1>10. CASE PressPanel
  BY <1>t, <1>10 DEF PressPanel, OverlayStates
<1>11. ASSUME NEW k \in {"modal", "sheet"}, NEW n \in 0..MaxFocus, OpenOverlay(k, n) PROVE FALSE
  BY <1>11, Zenon DEF OpenOverlay
<1>12. ASSUME NEW b \in BOOLEAN, PressTab(b) PROVE ov'.focus >= 0
  <2>1. ov' = [ov EXCEPT !.focus = SheetTab(ov.focus, b)]
    BY <1>12 DEF PressTab
  <2>2. SheetTab(ov.focus, b) \in 0..ov.n \cup {1}
    BY TabWithin
  <2>3. ov'.focus = SheetTab(ov.focus, b)
    BY <1>t, <2>1 DEF OverlayStates
  <2> QED
    BY <1>n, <2>2, <2>3
<1>13. ASSUME NEW n \in 0..MaxFocus, RenderControls(n) PROVE FALSE
  <2>1. ov'.n = n /\ ov.n # n
    BY <1>t, <1>13 DEF RenderControls, OverlayStates
  <2> QED
    BY <2>1
<1> QED
  BY <1>1, <1>4, <1>5, <1>6, <1>7, <1>8, <1>9, <1>10, <1>11, <1>12, <1>13 DEF OverlayNext

-----------------------------------------------------------------------------
(* Code blocks.  The source as it stands is shown highlighted, is being     *)
(* highlighted, or is of a language that was not loaded; and the timer of   *)
(* the copy button only runs once its newest attempt is over.               *)

SourceStates == [lang : Langs, ver : Nat, len : Nat]
ResultStates == [lang : Langs, ver : Nat, len : Nat, chunks : BOOLEAN]
ParserStates == [Lezer -> {"none", "loading", "ok", "failed"}]
CodeStates ==
  [on : BOOLEAN, lang : Langs, ver : Nat, len : Nat, result : ResultStates, jobs : SUBSET SourceStates,
   parser : ParserStates, view : {"code", "preview"}, search : BOOLEAN, attempt : Nat, copying : SUBSET Nat,
   last : {"none", "pending", "ok", "bad"}, copyState : {"idle", "success", "failure"}, copiedTimer : BOOLEAN]

Unloaded == cb.lang \in Prism \/ (cb.lang \in Lezer /\ cb.parser[cb.lang] = "failed")
HighlightDue == cb.on => SourceOf(cb) \in cb.jobs \/ cb.result = Highlighted(SourceOf(cb)) \/ Unloaded
LenBounded == 1 <= cb.len /\ cb.len <= MaxLen
AttemptsMade == \A a \in cb.copying : a <= cb.attempt
TimerAfterAttempt == cb.copiedTimer => cb.attempt \notin cb.copying /\ cb.last = "ok"

CodeInv == /\ cb \in CodeStates /\ LenBounded /\ HighlightDue
           /\ AttemptsMade /\ TimerAfterAttempt /\ CopyToldIsLast

LEMMA CodeBounds == Lezer \subseteq Langs /\ "plain" \in Langs /\ MaxLen \in Nat /\ 1 <= MaxLen
  BY CodeAssumption

LEMMA CodeInit == ASSUME NEW b \in BOOLEAN, NEW l \in Langs, cb = CodeStart(b, l) PROVE CodeInv
<1>1. NoResult \in ResultStates
  BY CodeBounds DEF NoResult, ResultStates
<1>2. [lang |-> l, ver |-> 0, len |-> 1] \in SourceStates
  BY DEF SourceStates
<1>3. [x \in Lezer |-> IF x = l THEN "loading" ELSE "none"] \in ParserStates
  BY DEF ParserStates
<1>4. cb \in CodeStates
  BY <1>1, <1>2, <1>3 DEF CodeStart, CodeStates
<1>5. cb.lang = l /\ cb.ver = 0 /\ cb.len = 1 /\ cb.jobs = {[lang |-> l, ver |-> 0, len |-> 1]}
  BY DEF CodeStart
<1>6. cb.copying = {} /\ cb.last = "none" /\ cb.copyState = "idle" /\ cb.copiedTimer = FALSE
  BY DEF CodeStart
<1> QED
  BY <1>4, <1>5, <1>6, CodeBounds
     DEF CodeInv, LenBounded, HighlightDue, SourceOf, AttemptsMade, TimerAfterAttempt, CopyToldIsLast

(* A step of the highlighting leaves the copy button alone.                 *)
LEMMA CopyKept ==
  ASSUME CodeInv, cb' \in CodeStates, LenBounded', HighlightDue',
         cb'.attempt = cb.attempt, cb'.copying = cb.copying, cb'.last = cb.last,
         cb'.copyState = cb.copyState, cb'.copiedTimer = cb.copiedTimer
  PROVE  CodeInv'
  BY DEF CodeInv, AttemptsMade, TimerAfterAttempt, CopyToldIsLast

(* A step that leaves the source and its highlighting alone.                *)
LEMMA SourceKept ==
  ASSUME CodeInv, cb' \in CodeStates, cb'.on = cb.on, cb'.lang = cb.lang, cb'.ver = cb.ver, cb'.len = cb.len,
         cb'.jobs = cb.jobs, cb'.result = cb.result, cb'.parser = cb.parser,
         AttemptsMade', TimerAfterAttempt', CopyToldIsLast'
  PROVE  CodeInv'
  BY DEF CodeInv, LenBounded, HighlightDue, Unloaded, SourceOf, Highlighted

(* Another source: its effect starts to highlight it.                       *)
LEMMA SourceSetKeeps ==
  ASSUME CodeInv, NEW l \in Langs, NEW v \in Nat, NEW n \in Nat, 1 <= n, n <= MaxLen,
         cb' = SourceSet([cb EXCEPT !.lang = l, !.ver = v, !.len = n])
  PROVE  CodeInv'
<1>t. cb \in CodeStates
  BY DEF CodeInv
<1>1. PICK j \in SourceStates : j = [lang |-> l, ver |-> v, len |-> n]
  BY Zenon DEF SourceStates
<1>2. PICK q \in SUBSET SourceStates : q = cb.jobs \cup {j}
  BY <1>t, Zenon DEF CodeStates
<1>3. PICK p \in ParserStates : p = IF l \in Lezer /\ cb.parser[l] = "none" THEN [cb.parser EXCEPT ![l] = "loading"]
                                    ELSE cb.parser
  BY <1>t, Zenon DEF CodeStates, ParserStates
<1>4. PICK s \in CodeStates : s = [cb EXCEPT !.lang = l, !.ver = v, !.len = n, !.jobs = q]
  BY <1>t, Zenon DEF CodeStates
<1>5. s.lang = l /\ s.parser = cb.parser /\ s.jobs = q
  BY <1>t, <1>4 DEF CodeStates
<1>6. SourceSet([cb EXCEPT !.lang = l, !.ver = v, !.len = n]) = ParserForLanguage(s, l)
  BY <1>t, <1>1, <1>2, <1>4 DEF SourceSet, SourceOf, CodeStates
<1>7. cb' = [s EXCEPT !.parser = p]
  BY <1>3, <1>4, <1>5, <1>6, Zenon DEF ParserForLanguage, CodeStates
<1>8. cb' = [cb EXCEPT !.lang = l, !.ver = v, !.len = n, !.jobs = q, !.parser = p]
  BY <1>t, <1>4, <1>7 DEF CodeStates
<1>y. p \in ParserStates /\ q \in SUBSET SourceStates
  OBVIOUS
<1>9. cb' \in CodeStates
  BY <1>t, <1>8, <1>y, Zenon DEF CodeStates
<1>10. cb'.lang = l /\ cb'.ver = v /\ cb'.len = n /\ cb'.jobs = q
  BY <1>t, <1>8, Zenon DEF CodeStates
<1>11. cb'.attempt = cb.attempt /\ cb'.copying = cb.copying /\ cb'.last = cb.last
  BY <1>t, <1>8, Zenon DEF CodeStates
<1>12. cb'.copyState = cb.copyState /\ cb'.copiedTimer = cb.copiedTimer
  BY <1>t, <1>8, Zenon DEF CodeStates
<1>13. HighlightDue' /\ LenBounded'
  BY <1>1, <1>2, <1>10 DEF HighlightDue, LenBounded, SourceOf
<1> QED
  BY <1>9, <1>11, <1>12, <1>13, CopyKept

LEMMA CodeStep == CodeInv /\ [CodeNext]_cb => CodeInv'
<1>a. CASE cb' = cb
  BY <1>a DEF CodeInv, LenBounded, HighlightDue, Unloaded, SourceOf, Highlighted, AttemptsMade, TimerAfterAttempt,
              CopyToldIsLast
<1> SUFFICES ASSUME CodeInv, CodeNext PROVE CodeInv'
  BY <1>a
<1>t. cb \in CodeStates /\ cb.len \in Nat /\ cb.ver \in Nat /\ cb.attempt \in Nat /\ cb.lang \in Langs
  BY DEF CodeInv, CodeStates
<1>i. LenBounded /\ HighlightDue /\ AttemptsMade /\ TimerAfterAttempt /\ CopyToldIsLast
  BY DEF CodeInv
<1>1. CASE SourceGrows
  <2>1. PICK n \in Nat : n = cb.len + 1
    BY <1>t
  <2>2. cb.len < MaxLen /\ 1 <= n /\ n <= MaxLen
    BY <1>1, <1>t, <2>1, CodeBounds DEF SourceGrows
  <2>3. cb' = SourceSet([cb EXCEPT !.len = n])
    BY <1>1, <2>1 DEF SourceGrows
  <2>4. [cb EXCEPT !.len = n] = [cb EXCEPT !.lang = cb.lang, !.ver = cb.ver, !.len = n]
    BY <1>t, Zenon DEF CodeStates
  <2> QED
    BY <1>t, <2>2, <2>3, <2>4, SourceSetKeeps
<1>2. ASSUME NEW l \in Langs, SourceReplaced(l) PROVE CodeInv'
  <2>1. 1 \in Nat /\ 1 <= 1 /\ 1 <= MaxLen
    BY CodeBounds
  <2> QED
    BY <1>2, <2>1, SourceSetKeeps DEF SourceReplaced
<1>3. ASSUME NEW l \in Lezer, NEW ok \in BOOLEAN, ParserLoaded(l, ok) PROVE CodeInv'
  <2>1. PICK p \in ParserStates : p = [cb.parser EXCEPT ![l] = IF ok THEN "ok" ELSE "failed"]
    BY <1>t, Zenon DEF CodeStates, ParserStates
  <2>2. cb' = [cb EXCEPT !.parser = p] /\ cb.parser[l] = "loading"
    BY <1>3, <2>1 DEF ParserLoaded
  <2>y. p \in ParserStates
    OBVIOUS
  <2>3. cb' \in CodeStates
    BY <1>t, <2>2, <2>y DEF CodeStates
  <2>4. cb'.on = cb.on /\ cb'.lang = cb.lang /\ cb'.ver = cb.ver /\ cb'.len = cb.len
    BY <1>t, <2>2 DEF CodeStates
  <2>5. cb'.jobs = cb.jobs /\ cb'.result = cb.result /\ cb'.parser = p
    BY <1>t, <2>2 DEF CodeStates
  <2>6. cb'.attempt = cb.attempt /\ cb'.copying = cb.copying /\ cb'.last = cb.last
    BY <1>t, <2>2 DEF CodeStates
  <2>7. cb'.copyState = cb.copyState /\ cb'.copiedTimer = cb.copiedTimer
    BY <1>t, <2>2 DEF CodeStates
  <2>8. \A x \in Lezer : cb.parser[x] = "failed" => p[x] = "failed"
    BY <1>t, <2>1, <2>2 DEF CodeStates, ParserStates
  <2>9. HighlightDue' /\ LenBounded'
    BY <1>i, <2>4, <2>5, <2>8 DEF HighlightDue, LenBounded, Unloaded, SourceOf, Highlighted
  <2> QED
    BY <2>3, <2>6, <2>7, <2>9, CopyKept
<1>4. ASSUME NEW j \in cb.jobs, HighlightAnswered(j) \/ HighlightFailed(j) PROVE CodeInv'
  <2>1. PICK q \in SUBSET SourceStates : q = cb.jobs \ {j}
    BY <1>t, Zenon DEF CodeStates
  <2>2. j \in SourceStates
    BY <1>t DEF CodeStates
  <2>3. PICK r \in ResultStates : r = Highlighted(j)
    <3>1. PICK b \in BOOLEAN : b <=> j.lang # "plain"
      BY Zenon
    <3>2. Highlighted(j) = [lang |-> j.lang, ver |-> j.ver, len |-> j.len, chunks |-> b]
      BY <3>1 DEF Highlighted
    <3> QED
      BY <2>2, <3>2 DEF SourceStates, ResultStates
  <2>4. PICK x \in ResultStates : /\ HighlightAnswered(j) => x = IF j = SourceOf(cb) THEN r ELSE cb.result
                                  /\ ~HighlightAnswered(j) => x = cb.result
    BY <1>t DEF CodeStates
  <2>5. cb' = [cb EXCEPT !.jobs = q, !.result = x]
    <3>1. CASE HighlightAnswered(j)
      BY <3>1, <2>1, <2>3, <2>4, Zenon DEF HighlightAnswered
    <3>2. CASE ~HighlightAnswered(j)
      <4>1. cb' = [cb EXCEPT !.jobs = q] /\ x = cb.result
        BY <3>2, <1>4, <2>1, <2>4 DEF HighlightFailed
      <4> QED
        BY <1>t, <4>1, Zenon DEF CodeStates
    <3> QED
      BY <3>1, <3>2
  <2>y. q \in SUBSET SourceStates /\ x \in ResultStates
    OBVIOUS
  <2>6. cb' \in CodeStates
    BY <1>t, <2>5, <2>y, Zenon DEF CodeStates
  <2>7. cb'.on = cb.on /\ cb'.lang = cb.lang /\ cb'.ver = cb.ver /\ cb'.len = cb.len
    BY <1>t, <2>5 DEF CodeStates
  <2>8. cb'.jobs = q /\ cb'.result = x /\ cb'.parser = cb.parser
    BY <1>t, <2>5 DEF CodeStates
  <2>9. cb'.attempt = cb.attempt /\ cb'.copying = cb.copying /\ cb'.last = cb.last
    BY <1>t, <2>5 DEF CodeStates
  <2>10. cb'.copyState = cb.copyState /\ cb'.copiedTimer = cb.copiedTimer
    BY <1>t, <2>5 DEF CodeStates
  <2>11. LenBounded'
    BY <1>i, <2>7 DEF LenBounded
  <2>12. SourceOf(cb)' = SourceOf(cb) /\ (Unloaded' <=> Unloaded)
    BY <2>7, <2>8 DEF SourceOf, Unloaded
  <2>13. CASE j # SourceOf(cb)
    <3>1. x = cb.result
      BY <2>4, <2>13
    <3> QED
      BY <1>i, <2>1, <2>6, <2>7, <2>8, <2>9, <2>10, <2>11, <2>12, <2>13, <3>1, CopyKept DEF HighlightDue, Highlighted
  <2>14. CASE j = SourceOf(cb) /\ HighlightAnswered(j)
    <3>1. HighlightDue'
      BY <2>3, <2>4, <2>8, <2>12, <2>14 DEF HighlightDue, Highlighted
    <3> QED
      BY <2>6, <2>9, <2>10, <2>11, <3>1, CopyKept
  <2>15. CASE j = SourceOf(cb) /\ HighlightFailed(j)
    <3>1. Unloaded
      BY <2>15 DEF HighlightFailed, CanFail, SourceOf, Unloaded
    <3>2. HighlightDue'
      BY <2>12, <3>1 DEF HighlightDue
    <3> QED
      BY <2>6, <2>9, <2>10, <2>11, <3>2, CopyKept
  <2> QED
    BY <1>4, <2>13, <2>14, <2>15
<1>5. CASE SearchRevealed \/ \E v \in {"code", "preview"} : SetView(v)
  <2>1. cb' \in CodeStates
    BY <1>t, <1>5, Zenon DEF SearchRevealed, SetView, CodeStates
  <2>2. cb'.on = cb.on /\ cb'.lang = cb.lang /\ cb'.ver = cb.ver /\ cb'.len = cb.len
    BY <1>t, <1>5 DEF SearchRevealed, SetView, CodeStates
  <2>3. cb'.jobs = cb.jobs /\ cb'.result = cb.result /\ cb'.parser = cb.parser
    BY <1>t, <1>5 DEF SearchRevealed, SetView, CodeStates
  <2>4. cb'.attempt = cb.attempt /\ cb'.copying = cb.copying /\ cb'.last = cb.last
    BY <1>t, <1>5 DEF SearchRevealed, SetView, CodeStates
  <2>5. cb'.copyState = cb.copyState /\ cb'.copiedTimer = cb.copiedTimer
    BY <1>t, <1>5 DEF SearchRevealed, SetView, CodeStates
  <2>6. AttemptsMade' /\ TimerAfterAttempt' /\ CopyToldIsLast'
    BY <1>i, <2>4, <2>5 DEF AttemptsMade, TimerAfterAttempt, CopyToldIsLast
  <2> QED
    BY <2>1, <2>2, <2>3, <2>6, SourceKept
<1>6. CASE HandleCopy
  <2>1. PICK n \in Nat : n = cb.attempt + 1
    BY <1>t
  <2>2. PICK q \in SUBSET Nat : q = cb.copying \cup {n}
    BY <1>t, Zenon DEF CodeStates
  <2>3. cb' = [cb EXCEPT !.attempt = n, !.copying = q, !.copiedTimer = FALSE, !.last = "pending"]
    BY <1>6, <2>1, <2>2 DEF HandleCopy
  <2>y. q \in SUBSET Nat
    OBVIOUS
  <2>4. cb' \in CodeStates
    BY <1>t, <2>3, <2>y, Zenon DEF CodeStates
  <2>5. cb'.on = cb.on /\ cb'.lang = cb.lang /\ cb'.ver = cb.ver /\ cb'.len = cb.len
    BY <1>t, <2>3 DEF CodeStates
  <2>6. cb'.jobs = cb.jobs /\ cb'.result = cb.result /\ cb'.parser = cb.parser
    BY <1>t, <2>3 DEF CodeStates
  <2>7. cb'.attempt = n /\ cb'.copying = q /\ cb'.last = "pending" /\ cb'.copiedTimer = FALSE
    BY <1>t, <2>3 DEF CodeStates
  <2>8. AttemptsMade'
    <3>1. cb.copying \subseteq Nat
      BY <1>t DEF CodeStates
    <3> QED
      BY <1>t, <1>i, <2>1, <2>2, <2>7, <3>1 DEF AttemptsMade
  <2>9. TimerAfterAttempt' /\ CopyToldIsLast'
    BY <2>7 DEF TimerAfterAttempt, CopyToldIsLast
  <2> QED
    BY <2>4, <2>5, <2>6, <2>8, <2>9, SourceKept
<1>7. ASSUME NEW a \in cb.copying, NEW ok \in BOOLEAN, CopySettled(a, ok) PROVE CodeInv'
  <2>1. PICK q \in SUBSET Nat : q = cb.copying \ {a}
    BY <1>t, Zenon DEF CodeStates
  <2>2. PICK c \in {"idle", "success", "failure"}, e \in {"none", "pending", "ok", "bad"}, b \in BOOLEAN :
          /\ a # cb.attempt => c = cb.copyState /\ e = cb.last /\ b = cb.copiedTimer
          /\ a = cb.attempt /\ ~ok => c = "failure" /\ e = "bad" /\ b = cb.copiedTimer
          /\ a = cb.attempt /\ ok => c = "success" /\ e = "ok" /\ b = TRUE
    BY <1>t DEF CodeStates
  <2>3. cb' = [cb EXCEPT !.copying = q, !.copyState = c, !.last = e, !.copiedTimer = b]
    <3>1. CASE a # cb.attempt
      <4>1. cb' = [cb EXCEPT !.copying = q]
        BY <1>7, <2>1, <3>1 DEF CopySettled
      <4>2. c = cb.copyState /\ e = cb.last /\ b = cb.copiedTimer
        BY <2>2, <3>1
      <4> QED
        BY <1>t, <4>1, <4>2, Zenon DEF CodeStates
    <3>2. CASE a = cb.attempt /\ ~ok
      <4>1. cb' = [[cb EXCEPT !.copying = q] EXCEPT !.copyState = "failure", !.last = "bad"]
        BY <1>7, <2>1, <3>2 DEF CopySettled
      <4>2. c = "failure" /\ e = "bad" /\ b = cb.copiedTimer
        BY <2>2, <3>2
      <4> QED
        BY <1>t, <4>1, <4>2, Zenon DEF CodeStates
    <3>3. CASE a = cb.attempt /\ ok
      <4>1. cb' = [[cb EXCEPT !.copying = q] EXCEPT !.copyState = "success", !.copiedTimer = TRUE, !.last = "ok"]
        BY <1>7, <2>1, <3>3 DEF CopySettled
      <4>2. c = "success" /\ e = "ok" /\ b = TRUE
        BY <2>2, <3>3
      <4> QED
        BY <1>t, <4>1, <4>2, Zenon DEF CodeStates
    <3> QED
      BY <3>1, <3>2, <3>3
  <2>y. /\ q \in SUBSET Nat /\ c \in {"idle", "success", "failure"}
        /\ e \in {"none", "pending", "ok", "bad"} /\ b \in BOOLEAN
    BY <2>2
  <2>4. cb' \in CodeStates
    BY <1>t, <2>3, <2>y, Zenon DEF CodeStates
  <2>5. cb'.on = cb.on /\ cb'.lang = cb.lang /\ cb'.ver = cb.ver /\ cb'.len = cb.len
    BY <1>t, <2>3 DEF CodeStates
  <2>6. cb'.jobs = cb.jobs /\ cb'.result = cb.result /\ cb'.parser = cb.parser
    BY <1>t, <2>3 DEF CodeStates
  <2>7. cb'.attempt = cb.attempt /\ cb'.copying = q /\ cb'.last = e
    BY <1>t, <2>3 DEF CodeStates
  <2>8. cb'.copyState = c /\ (cb'.copiedTimer <=> b)
    BY <1>t, <2>3 DEF CodeStates
  <2>9. AttemptsMade'
    BY <1>i, <2>1, <2>7 DEF AttemptsMade
  <2>10. a = cb.attempt => ~cb.copiedTimer
    BY <1>i DEF TimerAfterAttempt
  <2>11. CASE a # cb.attempt
    <3>1. c = cb.copyState /\ e = cb.last /\ (b <=> cb.copiedTimer)
      BY <2>2, <2>11
    <3>2. TimerAfterAttempt' /\ CopyToldIsLast'
      BY <1>i, <2>1, <2>7, <2>8, <3>1 DEF TimerAfterAttempt, CopyToldIsLast
    <3> QED
      BY <2>4, <2>5, <2>6, <2>9, <3>2, SourceKept
  <2>12. CASE a = cb.attempt /\ ~ok
    <3>1. c = "failure" /\ e = "bad" /\ ~b
      BY <2>2, <2>10, <2>12
    <3>2. TimerAfterAttempt' /\ CopyToldIsLast'
      BY <2>7, <2>8, <3>1 DEF TimerAfterAttempt, CopyToldIsLast
    <3> QED
      BY <2>4, <2>5, <2>6, <2>9, <3>2, SourceKept
  <2>13. CASE a = cb.attempt /\ ok
    <3>1. c = "success" /\ e = "ok" /\ b /\ cb.attempt \notin q
      BY <2>1, <2>2, <2>13
    <3>2. TimerAfterAttempt' /\ CopyToldIsLast'
      BY <2>7, <2>8, <3>1 DEF TimerAfterAttempt, CopyToldIsLast
    <3> QED
      BY <2>4, <2>5, <2>6, <2>9, <3>2, SourceKept
  <2> QED
    BY <2>11, <2>12, <2>13
<1>8. CASE CopiedTimer
  <2>1. cb' \in CodeStates /\ cb.copiedTimer
    BY <1>t, <1>8, Zenon DEF CopiedTimer, CodeStates
  <2>2. cb'.on = cb.on /\ cb'.lang = cb.lang /\ cb'.ver = cb.ver /\ cb'.len = cb.len
    BY <1>t, <1>8, Zenon DEF CopiedTimer, CodeStates
  <2>3. cb'.jobs = cb.jobs /\ cb'.result = cb.result /\ cb'.parser = cb.parser
    BY <1>t, <1>8 DEF CopiedTimer, CodeStates
  <2>4. cb'.attempt = cb.attempt /\ cb'.copying = cb.copying /\ cb'.last = cb.last
    BY <1>t, <1>8 DEF CopiedTimer, CodeStates
  <2>5. cb'.copyState = "idle" /\ cb'.copiedTimer = FALSE
    BY <1>t, <1>8 DEF CopiedTimer, CodeStates
  <2>6. AttemptsMade' /\ TimerAfterAttempt' /\ CopyToldIsLast'
    BY <1>i, <2>1, <2>4, <2>5 DEF AttemptsMade, TimerAfterAttempt, CopyToldIsLast
  <2> QED
    BY <2>1, <2>2, <2>3, <2>6, SourceKept
<1> QED
  BY <1>1, <1>2, <1>3, <1>4, <1>5, <1>6, <1>7, <1>8 DEF CodeNext

LEMMA CodeHold == ASSUME CodeInv PROVE CodeTypeOK /\ CodeShownWhole /\ HighlightSettles /\ CopyToldIsLast
<1>t. cb \in CodeStates /\ cb.len \in Nat /\ cb.ver \in Nat /\ cb.result.len \in Nat /\ LenBounded
  BY DEF CodeInv, CodeStates, ResultStates
<1>1. CodeTypeOK
  BY <1>t, CodeBounds DEF CodeTypeOK, CodeStates, LenBounded
<1>2. CodeShownWhole
  BY <1>t DEF CodeShownWhole, HighlightedSource, KeepsHighlightedPrefix
<1>3. HighlightSettles
  BY DEF HighlightSettles, CodeInv, HighlightDue, Unloaded
<1> QED
  BY <1>1, <1>2, <1>3 DEF CodeInv

-----------------------------------------------------------------------------
(* The parts of an answer.  A stored run does not reason, and its block has *)
(* no choice to leave; the card of a citation follows the pointer.          *)

ThinkStates ==
  [kind : {"think"}, streaming : BOOLEAN, stored : BOOLEAN, block : {"none", "stream", "stored"}, open : BOOLEAN,
   streamed : BOOLEAN, choice : {"none", "open", "closed"}, taken : BOOLEAN, acts : Nat]
CiteStates ==
  [kind : {"cite"}, mobile : BOOLEAN, cited : Nat, open : BOOLEAN, page : Int, over : {"none", "chip", "card"},
   closing : BOOLEAN, key : BOOLEAN, acts : Nat]
BubbleStates ==
  [kind : {"bubble"}, mobile : BOOLEAN, input : BOOLEAN, pending : BOOLEAN, busy : BOOLEAN, legacy : BOOLEAN,
   editing : BOOLEAN, draft : {"content", "other", "blank"}, sheet : BOOLEAN, held : BOOLEAN, pressTimer : BOOLEAN,
   copied : BOOLEAN, copiedTimer : BOOLEAN, expanded : BOOLEAN, overflow : BOOLEAN,
   sent : {"none", "content", "other", "blank"}, acts : Nat]

HandoffSame == ap.block = "stream" /\ ap.streamed /\ ~ap.streaming => (ap.open <=> ap.choice = "open")
StoredIsOver == ap.stored => ~ap.streaming
TakenIsStored == ap.taken => ap.stored /\ ~ap.streamed /\ ap.choice = "none"

ThinkInv == ap \in ThinkStates /\ HandoffSame /\ StoredIsOver /\ TakenIsStored
CiteInv == ap \in CiteStates /\ ap.cited <= Sources /\ CardFollowsPointer
BubbleInv == ap \in BubbleStates /\ (ap.pressTimer => ap.held)
PartsInv == ap = PartOff \/ ThinkInv \/ CiteInv \/ BubbleInv

LEMMA PartsInit ==
  ASSUME \/ ap = PartOff \/ ap = ThinkStart \/ \E b \in BOOLEAN : ap = CiteStart(b)
         \/ \E b \in BOOLEAN, i \in BOOLEAN : ap = BubbleStart(b, i)
  PROVE  PartsInv
<1>1. CASE ap = ThinkStart
  BY <1>1 DEF ThinkStart, PartsInv, ThinkInv, ThinkStates, HandoffSame, StoredIsOver, TakenIsStored
<1>2. ASSUME NEW b \in BOOLEAN, ap = CiteStart(b) PROVE PartsInv
  <2>1. ap \in CiteStates /\ ap.cited = 0 /\ ap.open = FALSE /\ ap.closing = FALSE
    BY <1>2 DEF CiteStart, CiteStates
  <2> QED
    BY <2>1, PartsAssumption DEF PartsInv, CiteInv, CardFollowsPointer
<1>3. ASSUME NEW b \in BOOLEAN, NEW i \in BOOLEAN, ap = BubbleStart(b, i) PROVE PartsInv
  BY <1>3 DEF BubbleStart, PartsInv, BubbleInv, BubbleStates
<1> QED
  BY <1>1, <1>2, <1>3 DEF PartsInv

LEMMA ThinkStep == ThinkInv /\ PartsNext => ThinkInv'
<1> SUFFICES ASSUME ThinkInv, PartsNext PROVE ThinkInv'
  OBVIOUS
<1>t. ap \in ThinkStates /\ ap.kind = "think"
  BY DEF ThinkInv, ThinkStates
<1>i. HandoffSame /\ StoredIsOver /\ TakenIsStored
  BY DEF ThinkInv
<1>n. PICK n \in Nat : n = ap.acts + 1
  BY <1>t DEF ThinkStates
<1>m. ASSUME NEW s \in ThinkStates, NEW b \in {"stream", "stored"}, ap' = Mounted(s, b)
      PROVE  /\ ap' \in ThinkStates
             /\ ap'.block = b /\ (ap'.open <=> s.choice = "open") /\ (ap'.streamed <=> s.streaming)
             /\ (ap'.streaming <=> s.streaming) /\ (ap'.stored <=> s.stored)
             /\ (s.streaming => ap'.choice = s.choice) /\ (~s.streaming => ap'.choice = "none")
             /\ (ap'.taken <=> s.taken \/ b = "stored")
  <2>1. PICK o \in BOOLEAN, k \in BOOLEAN, c \in {"none", "open", "closed"}, d \in BOOLEAN :
          /\ o = (s.choice = "open") /\ k = s.streaming /\ c = IF s.streaming THEN s.choice ELSE "none"
          /\ d = (s.taken \/ b = "stored")
    <3>1. (s.choice = "open") \in BOOLEAN /\ s.streaming \in BOOLEAN /\ (s.taken \/ b = "stored") \in BOOLEAN
      BY <1>m DEF ThinkStates
    <3>2. (IF s.streaming THEN s.choice ELSE "none") \in {"none", "open", "closed"}
      BY <1>m DEF ThinkStates
    <3> QED
      BY <3>1, <3>2, Zenon
  <2>2. ap' = [s EXCEPT !.block = b, !.open = o, !.streamed = k, !.choice = c, !.taken = d]
    BY <1>m, <2>1 DEF Mounted
  <2>3. ap' \in ThinkStates
    BY <1>m, <2>2, Zenon DEF ThinkStates
  <2>4. ap'.block = b /\ ap'.open = o /\ ap'.streamed = k /\ ap'.choice = c /\ ap'.taken = d
    BY <1>m, <2>2 DEF ThinkStates
  <2>5. ap'.streaming = s.streaming /\ ap'.stored = s.stored
    BY <1>m, <2>2 DEF ThinkStates
  <2> QED
    BY <2>1, <2>3, <2>4, <2>5, Zenon
<1>1. CASE ThinkingToggle
  <2>1. PICK o \in BOOLEAN, c \in {"none", "open", "closed"} :
          /\ o = ~ap.open
          /\ c = IF ap.streamed THEN (IF ap.open THEN "closed" ELSE "open") ELSE ap.choice
    <3>1. (~ap.open) \in BOOLEAN /\ ap.choice \in {"none", "open", "closed"}
      BY <1>t DEF ThinkStates
    <3> QED
      BY <3>1, Zenon
  <2>2. ap' = [ap EXCEPT !.open = o, !.acts = n, !.choice = c]
    BY <1>1, <1>n, <2>1 DEF ThinkingToggle
  <2>3. ap' \in ThinkStates
    BY <1>t, <2>2, Zenon DEF ThinkStates
  <2>4. ap'.open = o /\ ap'.choice = c /\ ap'.block = ap.block /\ ap'.streamed = ap.streamed
    BY <1>t, <2>2 DEF ThinkStates
  <2>5. ap'.streaming = ap.streaming /\ ap'.stored = ap.stored /\ ap'.taken = ap.taken
    BY <1>t, <2>2 DEF ThinkStates
  <2> QED
    BY <1>i, <2>1, <2>3, <2>4, <2>5, Zenon DEF ThinkInv, HandoffSame, StoredIsOver, TakenIsStored
<1>2. CASE ThinkingEnded
  <2>1. ap' \in ThinkStates
    BY <1>t, <1>2, Zenon DEF ThinkingEnded, ThinkStates
  <2>2. ap'.streaming = FALSE /\ ap'.block = ap.block /\ ap'.stored = ap.stored /\ ap'.taken = ap.taken
    BY <1>t, <1>2 DEF ThinkingEnded, ThinkStates
  <2>3. ap.streaming /\ (ap.block # "none" => ap'.open = FALSE /\ ap'.choice = "none")
    BY <1>t, <1>2 DEF ThinkingEnded, ThinkStates
  <2> QED
    BY <1>i, <2>1, <2>2, <2>3 DEF ThinkInv, HandoffSame, StoredIsOver, TakenIsStored
<1>3. CASE ThinkingResumed
  <2>1. PICK d \in BOOLEAN : d = (ap.block # "none")
    <3>1. (ap.block # "none") \in BOOLEAN
      OBVIOUS
    <3> QED
      BY <3>1, Zenon
  <2>2. ap' = [ap EXCEPT !.streaming = TRUE, !.streamed = d, !.acts = n] /\ ~ap.stored
    BY <1>3, <1>n, <2>1 DEF ThinkingResumed
  <2>3. ap' \in ThinkStates
    BY <1>t, <2>2, Zenon DEF ThinkStates
  <2>4. ap'.streaming = TRUE /\ ap'.stored = ap.stored /\ ap'.taken = ap.taken
    BY <1>t, <2>2 DEF ThinkStates
  <2> QED
    BY <1>i, <2>2, <2>3, <2>4 DEF ThinkInv, HandoffSame, StoredIsOver, TakenIsStored
<1>4. CASE RunStored
  <2>1. PICK s \in ThinkStates : s = [ap EXCEPT !.stored = TRUE]
    BY <1>t, Zenon DEF ThinkStates
  <2>2. s.stored /\ s.block = ap.block /\ s.streaming = ap.streaming /\ s.streamed = ap.streamed
    BY <1>t, <2>1 DEF ThinkStates
  <2>3. s.taken = ap.taken /\ s.open = ap.open /\ s.choice = ap.choice
    BY <1>t, <2>1 DEF ThinkStates
  <2>4. ~ap.streaming /\ ~ap.stored /\ ap' = IF ap.block = "none" THEN s ELSE Mounted(s, "stored")
    BY <1>4, <2>1 DEF RunStored
  <2>5. CASE ap.block = "none"
    <3>1. ap' = s
      BY <2>4, <2>5
    <3> QED
      BY <1>i, <2>2, <2>3, <2>4, <2>5, <3>1 DEF ThinkInv, HandoffSame, StoredIsOver, TakenIsStored
  <2>6. CASE ap.block # "none"
    <3>1. ap' = Mounted(s, "stored")
      BY <2>4, <2>6
    <3> QED
      BY <1>m, <2>2, <2>3, <2>4, <3>1 DEF ThinkInv, HandoffSame, StoredIsOver, TakenIsStored
  <2> QED
    BY <2>5, <2>6
<1>5. CASE LeaveThread
  <2>1. ap' = [ap EXCEPT !.block = "none", !.acts = n]
    BY <1>5, <1>n DEF LeaveThread
  <2>2. ap' \in ThinkStates
    BY <1>t, <2>1, Zenon DEF ThinkStates
  <2>3. ap'.block = "none" /\ ap'.streaming = ap.streaming /\ ap'.stored = ap.stored
    BY <1>t, <2>1 DEF ThinkStates
  <2>4. ap'.taken = ap.taken /\ ap'.choice = ap.choice /\ ap'.streamed = ap.streamed
    BY <1>t, <2>1 DEF ThinkStates
  <2> QED
    BY <1>i, <2>2, <2>3, <2>4 DEF ThinkInv, HandoffSame, StoredIsOver, TakenIsStored
<1>6. CASE ReturnToThread
  <2>1. PICK b \in {"stream", "stored"} : b = IF ap.stored THEN "stored" ELSE "stream"
    OBVIOUS
  <2>2. ap' = Mounted(ap, b)
    BY <1>6, <2>1 DEF ReturnToThread
  <2>3. /\ ap' \in ThinkStates
        /\ ap'.block = b /\ (ap'.open <=> ap.choice = "open") /\ (ap'.streamed <=> ap.streaming)
        /\ (ap'.streaming <=> ap.streaming) /\ (ap'.stored <=> ap.stored)
        /\ (ap.streaming => ap'.choice = ap.choice) /\ (~ap.streaming => ap'.choice = "none")
        /\ (ap'.taken <=> ap.taken \/ b = "stored")
    BY <1>m, <1>t, <2>2
  <2> QED
    BY <1>i, <2>1, <2>3 DEF ThinkInv, HandoffSame, StoredIsOver, TakenIsStored
<1>7. ThinkingToggle \/ ThinkingEnded \/ ThinkingResumed \/ RunStored \/ LeaveThread \/ ReturnToThread
  BY <1>t DEF PartsNext, SourceArrives, EnterChip, EnterCard, LeaveHover, ClickChip, CardDismissed, CloseTimer,
     TurnPage, CardPages, CitationCard, CitationChip, Committed, BusyChanges, LegacyFound, Measure, ToggleExpanded,
     ExpandToggle, StartLongPress, CancelLongPress, LongPressTimer, CloseSheet, BubbleCopy, BubbleCopiedTimer,
     MutateBubble, MutateOffered, EditAndUpgradeLegacy, LegacyUpgrade, TypeDraft, SaveEdit, CancelEdit,
     DesktopBar, SheetActions, Editor, Bubble
<1> QED
  BY <1>1, <1>2, <1>3, <1>4, <1>5, <1>6, <1>7

LEMMA CiteStep == CiteInv /\ PartsNext => CiteInv'
<1> SUFFICES ASSUME CiteInv, PartsNext PROVE CiteInv'
  OBVIOUS
<1>t. ap \in CiteStates /\ ap.kind = "cite" /\ ap.cited <= Sources
  BY DEF CiteInv, CiteStates
<1>b. ap.cited \in Nat /\ ap.page \in Int /\ Sources \in Nat
  BY <1>t, PartsAssumption DEF CiteStates
<1>i. ~ap.mobile => /\ ap.closing => ap.over = "none"
                    /\ ap.open /\ ap.over = "none" /\ ~ap.key => ap.closing
  BY <1>t DEF CiteInv, CardFollowsPointer
<1>n. PICK n \in Nat, zero \in Int : n = ap.acts + 1 /\ zero = 0
  BY <1>t DEF CiteStates
(* A step that leaves the sources alone.                                    *)
<1>k. ASSUME ap' \in CiteStates, ap'.cited = ap.cited, CardFollowsPointer' PROVE CiteInv'
  BY <1>t, <1>k DEF CiteInv
<1>1. CASE SourceArrives
  <2>1. PICK c \in Nat : c = ap.cited + 1
    BY <1>b
  <2>2. ap' = [ap EXCEPT !.cited = c] /\ ap.cited < Sources
    BY <1>1, <2>1 DEF SourceArrives
  <2>3. ap' \in CiteStates
    BY <1>t, <2>2 DEF CiteStates
  <2>4. ap'.kind = ap.kind /\ ap'.mobile = ap.mobile /\ ap'.closing = ap.closing /\ ap'.over = ap.over
    BY <1>t, <2>2 DEF CiteStates
  <2>5. ap'.open = ap.open /\ ap'.key = ap.key /\ ap'.cited = c
    BY <1>t, <2>2 DEF CiteStates
  <2>6. c <= Sources
    BY <1>b, <2>1, <2>2
  <2> QED
    BY <1>i, <2>3, <2>4, <2>5, <2>6 DEF CiteInv, CardFollowsPointer
<1>2. CASE EnterChip
  <2>1. ap' = [ap EXCEPT !.over = "chip", !.key = FALSE, !.acts = n, !.closing = FALSE, !.page = zero, !.open = TRUE]
    BY <1>t, <1>2, <1>n DEF EnterChip, OpenCard, CancelClose, CiteStates
  <2>2. ap' \in CiteStates
    BY <1>t, <2>1, Zenon DEF CiteStates
  <2>3. ap'.cited = ap.cited /\ ap'.over = "chip" /\ ap'.closing = FALSE
    BY <1>t, <2>1 DEF CiteStates
  <2> QED
    BY <1>k, <2>2, <2>3 DEF CardFollowsPointer
<1>3. CASE EnterCard
  <2>1. ap' = [ap EXCEPT !.over = "card", !.key = FALSE, !.closing = FALSE]
    BY <1>t, <1>3 DEF EnterCard, CancelClose, CiteStates
  <2>2. ap' \in CiteStates
    BY <1>t, <2>1, Zenon DEF CiteStates
  <2>3. ap'.cited = ap.cited /\ ap'.over = "card" /\ ap'.closing = FALSE
    BY <1>t, <2>1 DEF CiteStates
  <2> QED
    BY <1>k, <2>2, <2>3 DEF CardFollowsPointer
<1>4. CASE LeaveHover
  <2>1. ap' = [ap EXCEPT !.over = "none", !.closing = TRUE]
    BY <1>4 DEF LeaveHover
  <2>2. ap' \in CiteStates
    BY <1>t, <2>1, Zenon DEF CiteStates
  <2>3. ap'.cited = ap.cited /\ ap'.over = "none" /\ ap'.closing = TRUE
    BY <1>t, <2>1 DEF CiteStates
  <2> QED
    BY <1>k, <2>2, <2>3 DEF CardFollowsPointer
<1>5. ASSUME NEW k \in BOOLEAN, ClickChip(k) PROVE CiteInv'
  <2>1. CASE ap.open
    <3>1. ap' = [ap EXCEPT !.acts = n, !.open = FALSE]
      BY <1>t, <1>5, <1>n, <2>1 DEF ClickChip, CiteStates
    <3>2. ap' \in CiteStates
      BY <1>t, <3>1, Zenon DEF CiteStates
    <3>3. ap'.cited = ap.cited /\ ap'.mobile = ap.mobile /\ ap'.open = FALSE
      BY <1>t, <3>1 DEF CiteStates
    <3>4. ap'.over = ap.over /\ ap'.closing = ap.closing
      BY <1>t, <3>1 DEF CiteStates
    <3> QED
      BY <1>i, <1>k, <3>2, <3>3, <3>4 DEF CardFollowsPointer
  <2>2. CASE ~ap.open
    <3>0. PICK y \in BOOLEAN : y <=> k \/ ap.mobile
      BY Zenon
    <3>1. ap' = [ap EXCEPT !.acts = n, !.key = k \/ ap.mobile, !.page = zero, !.open = TRUE]
      BY <1>t, <1>5, <1>n, <2>2 DEF ClickChip, OpenCard, CiteStates
    <3>2. ap' \in CiteStates
      <4>1. (k \/ ap.mobile) \in BOOLEAN
        OBVIOUS
      <4>2. \A x \in BOOLEAN : [ap EXCEPT !.acts = n, !.key = x, !.page = zero, !.open = TRUE] \in CiteStates
        BY <1>t, Zenon DEF CiteStates
      <4> QED
        BY <3>1, <4>1, <4>2
    <3>3. ap'.cited = ap.cited /\ ap'.mobile = ap.mobile /\ ap'.key = (k \/ ap.mobile)
      BY <1>t, <3>1 DEF CiteStates
    <3>4. ap'.over = ap.over /\ ap'.closing = ap.closing
      BY <1>t, <3>1 DEF CiteStates
    <3>5. ~k /\ ~ap.mobile => ap.over = "chip"
      BY <1>5 DEF ClickChip
    <3> QED
      BY <1>i, <1>k, <3>2, <3>3, <3>4, <3>5 DEF CardFollowsPointer
  <2> QED
    BY <2>1, <2>2
<1>6. CASE CardDismissed
  <2>1. PICK v \in {"none", "chip", "card"} : v = IF ap.over = "card" THEN "none" ELSE ap.over
    BY <1>t DEF CiteStates
  <2>2. ap' = [ap EXCEPT !.open = FALSE, !.over = v]
    BY <1>6, <2>1 DEF CardDismissed
  <2>3. ap' \in CiteStates
    BY <1>t, <2>2, Zenon DEF CiteStates
  <2>4. ap'.cited = ap.cited /\ ap'.mobile = ap.mobile /\ ap'.open = FALSE
    BY <1>t, <2>2 DEF CiteStates
  <2>5. ap'.over = v /\ ap'.closing = ap.closing
    BY <1>t, <2>2 DEF CiteStates
  <2> QED
    BY <1>i, <1>k, <2>1, <2>3, <2>4, <2>5 DEF CardFollowsPointer
<1>7. CASE CloseTimer
  <2>1. PICK v \in {"none", "chip", "card"} : v = IF ap.over = "card" THEN "none" ELSE ap.over
    BY <1>t DEF CiteStates
  <2>2. ap' = [ap EXCEPT !.closing = FALSE, !.open = FALSE, !.over = v]
    BY <1>t, <1>7, <2>1 DEF CloseTimer, CancelClose, CiteStates
  <2>3. ap' \in CiteStates
    BY <1>t, <2>2, Zenon DEF CiteStates
  <2>4. ap'.cited = ap.cited /\ ap'.open = FALSE /\ ap'.closing = FALSE
    BY <1>t, <2>2 DEF CiteStates
  <2> QED
    BY <1>k, <2>3, <2>4 DEF CardFollowsPointer
<1>8. ASSUME NEW d \in {-1, 1}, TurnPage(d) PROVE CiteInv'
  <2>1. PICK p \in Int : p = ap.page + d
    BY <1>b
  <2>2. ap' = [ap EXCEPT !.page = p]
    BY <1>8, <2>1 DEF TurnPage
  <2>3. ap' \in CiteStates
    BY <1>t, <2>2 DEF CiteStates
  <2>4. ap'.kind = ap.kind /\ ap'.mobile = ap.mobile /\ ap'.closing = ap.closing /\ ap'.over = ap.over
    BY <1>t, <2>2 DEF CiteStates
  <2>5. ap'.open = ap.open /\ ap'.key = ap.key /\ ap'.cited = ap.cited
    BY <1>t, <2>2 DEF CiteStates
  <2> QED
    BY <1>i, <1>k, <2>3, <2>4, <2>5 DEF CardFollowsPointer
<1>9. \/ SourceArrives \/ EnterChip \/ EnterCard \/ LeaveHover \/ CardDismissed \/ CloseTimer
      \/ \E k \in BOOLEAN : ClickChip(k)
      \/ \E d \in {-1, 1} : TurnPage(d)
  BY <1>t DEF PartsNext, ThinkingToggle, ThinkingEnded, ThinkingResumed, RunStored, LeaveThread, ReturnToThread,
     Committed, BusyChanges, LegacyFound, Measure, ToggleExpanded,
     ExpandToggle, StartLongPress, CancelLongPress, LongPressTimer, CloseSheet, BubbleCopy, BubbleCopiedTimer,
     MutateBubble, MutateOffered, EditAndUpgradeLegacy, LegacyUpgrade, TypeDraft, SaveEdit, CancelEdit,
     DesktopBar, SheetActions, Editor, Bubble
<1> QED
  BY <1>1, <1>2, <1>3, <1>4, <1>5, <1>6, <1>7, <1>8, <1>9

LEMMA BubbleStep == BubbleInv /\ PartsNext => BubbleInv'
<1> SUFFICES ASSUME BubbleInv, PartsNext PROVE BubbleInv'
  OBVIOUS
<1>t. ap \in BubbleStates /\ ap.kind = "bubble"
  BY DEF BubbleInv, BubbleStates
<1>i. ap.pressTimer => ap.held
  BY DEF BubbleInv
<1>n. PICK n \in Nat : n = ap.acts + 1
  BY <1>t DEF BubbleStates
<1>f. ap.busy \in BOOLEAN /\ (~ap.busy) \in BOOLEAN /\ ap.expanded \in BOOLEAN /\ (~ap.expanded) \in BOOLEAN
  BY <1>t DEF BubbleStates
(* A step that has nothing to do with the finger.                           *)
<1>k. ASSUME ap' \in BubbleStates, ap'.pressTimer = ap.pressTimer, ap'.held = ap.held PROVE BubbleInv'
  BY <1>i, <1>k DEF BubbleInv
<1>1. CASE Committed
  <2>1. ap' = [ap EXCEPT !.pending = FALSE]
    BY <1>t, <1>1 DEF Committed
  <2>2. ap' \in BubbleStates
    BY <1>t, <2>1, Zenon DEF BubbleStates
  <2>3. ap'.pressTimer = ap.pressTimer /\ ap'.held = ap.held
    BY <1>t, <2>1 DEF BubbleStates
  <2> QED
    BY <1>k, <2>2, <2>3
<1>1b. CASE LegacyFound
  <2>1. ap' = [ap EXCEPT !.legacy = TRUE]
    BY <1>t, <1>1b DEF LegacyFound
  <2>2. ap' \in BubbleStates
    BY <1>t, <2>1, Zenon DEF BubbleStates
  <2>3. ap'.pressTimer = ap.pressTimer /\ ap'.held = ap.held
    BY <1>t, <2>1 DEF BubbleStates
  <2> QED
    BY <1>k, <2>2, <2>3
<1>2. CASE BusyChanges
  <2>1. PICK b \in BOOLEAN : b = ~ap.busy
    BY <1>f, Zenon
  <2>2. ap' = [ap EXCEPT !.busy = b, !.acts = n]
    BY <1>t, <1>n, <1>2, <2>1 DEF BusyChanges, Touched, BubbleStates
  <2> QED
    BY <1>t, <1>k, <2>2, Zenon DEF BubbleStates
<1>3. ASSUME NEW b \in BOOLEAN, Measure(b) PROVE BubbleInv'
  <2>2. ap' = [ap EXCEPT !.overflow = b, !.acts = n]
    BY <1>t, <1>n, <1>3 DEF Measure, Touched, BubbleStates
  <2> QED
    BY <1>t, <1>k, <2>2, Zenon DEF BubbleStates
<1>4. CASE ToggleExpanded
  <2>1. PICK b \in BOOLEAN : b = ~ap.expanded
    BY <1>f, Zenon
  <2>2. ap' = [ap EXCEPT !.expanded = b, !.acts = n]
    BY <1>t, <1>n, <1>4, <2>1 DEF ToggleExpanded, Touched, BubbleStates
  <2> QED
    BY <1>t, <1>k, <2>2, Zenon DEF BubbleStates
<1>5. CASE StartLongPress
  <2>1. ap' = [ap EXCEPT !.held = TRUE, !.pressTimer = TRUE, !.acts = n]
    BY <1>t, <1>n, <1>5 DEF StartLongPress, Touched, BubbleStates
  <2>2. ap' \in BubbleStates
    BY <1>t, <2>1, Zenon DEF BubbleStates
  <2>3. ap'.held = TRUE
    BY <1>t, <2>1 DEF BubbleStates
  <2> QED
    BY <2>2, <2>3 DEF BubbleInv
<1>6. CASE CancelLongPress
  <2>1. ap' = [ap EXCEPT !.held = FALSE, !.pressTimer = FALSE]
    BY <1>6 DEF CancelLongPress
  <2>2. ap' \in BubbleStates
    BY <1>t, <2>1, Zenon DEF BubbleStates
  <2>3. ap'.pressTimer = FALSE
    BY <1>t, <2>1 DEF BubbleStates
  <2> QED
    BY <2>2, <2>3 DEF BubbleInv
<1>6b. CASE LongPressTimer
  <2>1. ap' = [ap EXCEPT !.pressTimer = FALSE, !.sheet = TRUE]
    BY <1>6b DEF LongPressTimer
  <2>2. ap' \in BubbleStates
    BY <1>t, <2>1, Zenon DEF BubbleStates
  <2>3. ap'.pressTimer = FALSE
    BY <1>t, <2>1 DEF BubbleStates
  <2> QED
    BY <2>2, <2>3 DEF BubbleInv
(* The sheet goes.                                                          *)
<1>s. ASSUME ap' = [ap EXCEPT !.sheet = FALSE] PROVE BubbleInv'
  <2>2. ap' \in BubbleStates
    BY <1>t, <1>s, Zenon DEF BubbleStates
  <2>3. ap'.pressTimer = ap.pressTimer /\ ap'.held = ap.held
    BY <1>t, <1>s DEF BubbleStates
  <2> QED
    BY <1>k, <2>2, <2>3
<1>c. CASE ap' = [ap EXCEPT !.copied = TRUE, !.copiedTimer = TRUE]
  <2>1. ap' = [ap EXCEPT !.copied = TRUE, !.copiedTimer = TRUE]
    BY <1>t, <1>c DEF BubbleCopy
  <2>2. ap' \in BubbleStates
    BY <1>t, <2>1, Zenon DEF BubbleStates
  <2>3. ap'.pressTimer = ap.pressTimer /\ ap'.held = ap.held
    BY <1>t, <2>1 DEF BubbleStates
  <2> QED
    BY <1>k, <2>2, <2>3
<1>7. CASE CloseSheet \/ BubbleCopy
  BY <1>7, <1>s, <1>c DEF CloseSheet, BubbleCopy
<1>7b. CASE BubbleCopiedTimer
  <2>1. ap' = [ap EXCEPT !.copied = FALSE, !.copiedTimer = FALSE]
    BY <1>t, <1>7b DEF BubbleCopiedTimer
  <2>2. ap' \in BubbleStates
    BY <1>t, <2>1, Zenon DEF BubbleStates
  <2>3. ap'.pressTimer = ap.pressTimer /\ ap'.held = ap.held
    BY <1>t, <2>1 DEF BubbleStates
  <2> QED
    BY <1>k, <2>2, <2>3
<1>8. CASE MutateBubble
  <2>1. ap' = [ap EXCEPT !.sheet = FALSE, !.draft = "content", !.editing = TRUE]
    BY <1>t, <1>8 DEF MutateBubble, StartEditing, BubbleStates
  <2>2. ap' \in BubbleStates
    BY <1>t, <2>1, Zenon DEF BubbleStates
  <2>3. ap'.pressTimer = ap.pressTimer /\ ap'.held = ap.held
    BY <1>t, <2>1 DEF BubbleStates
  <2> QED
    BY <1>k, <2>2, <2>3
<1>8b. CASE CancelEdit
  <2>1. ap' = [ap EXCEPT !.draft = "content", !.editing = FALSE]
    BY <1>t, <1>8b DEF CancelEdit
  <2>2. ap' \in BubbleStates
    BY <1>t, <2>1, Zenon DEF BubbleStates
  <2>3. ap'.pressTimer = ap.pressTimer /\ ap'.held = ap.held
    BY <1>t, <2>1 DEF BubbleStates
  <2> QED
    BY <1>k, <2>2, <2>3
<1>8c. CASE SaveEdit
  <2>1. ap' = [ap EXCEPT !.editing = FALSE, !.sent = ap.draft]
    BY <1>t, <1>8c DEF SaveEdit
  <2>2. ap' \in BubbleStates
    BY <1>t, <2>1, Zenon DEF BubbleStates
  <2>3. ap'.pressTimer = ap.pressTimer /\ ap'.held = ap.held
    BY <1>t, <2>1 DEF BubbleStates
  <2> QED
    BY <1>k, <2>2, <2>3
<1>9. ASSUME NEW f \in BOOLEAN, EditAndUpgradeLegacy(f) PROVE BubbleInv'
  BY <1>t, <1>k, <1>9, Zenon DEF EditAndUpgradeLegacy, StartEditing, BubbleStates
<1>10. ASSUME NEW d \in {"content", "other", "blank"}, TypeDraft(d) PROVE BubbleInv'
  <2>2. ap' = [ap EXCEPT !.draft = d, !.acts = n]
    BY <1>t, <1>n, <1>10 DEF TypeDraft, Touched, BubbleStates
  <2> QED
    BY <1>t, <1>k, <2>2, Zenon DEF BubbleStates
<1>11. \/ Committed \/ BusyChanges \/ LegacyFound \/ ToggleExpanded \/ StartLongPress \/ CancelLongPress
       \/ LongPressTimer \/ CloseSheet \/ BubbleCopy \/ BubbleCopiedTimer \/ MutateBubble \/ SaveEdit \/ CancelEdit
       \/ \E b \in BOOLEAN : Measure(b)
       \/ \E f \in BOOLEAN : EditAndUpgradeLegacy(f)
       \/ \E d \in {"content", "other", "blank"} : TypeDraft(d)
  BY <1>t DEF PartsNext, ThinkingToggle, ThinkingEnded, ThinkingResumed, RunStored, LeaveThread, ReturnToThread,
     SourceArrives, EnterChip, EnterCard, LeaveHover, ClickChip, CardDismissed, CloseTimer,
     TurnPage, CardPages, CitationCard, CitationChip
<1> QED
  BY <1>1, <1>2, <1>3, <1>4, <1>5, <1>6, <1>7, <1>8, <1>9, <1>10, <1>11, <1>1b, <1>6b, <1>7b, <1>8b, <1>8c

LEMMA PartsStep == PartsInv /\ ((ap.kind # "off" /\ PartsNext) \/ ap' = ap) => PartsInv'
<1>1. CASE ap' = ap
  BY <1>1 DEF PartsInv, ThinkInv, CiteInv, BubbleInv, HandoffSame, StoredIsOver, TakenIsStored, CardFollowsPointer
<1>2. ap = PartOff => ap.kind = "off"
  BY DEF PartOff
<1> QED
  BY <1>1, <1>2, ThinkStep, CiteStep, BubbleStep DEF PartsInv

LEMMA PartsHold ==
  ASSUME PartsInv
  PROVE  PartsTypeOK /\ HandoffShowsSame /\ ChoiceConsumed /\ CardFollowsPointer /\ SheetUnderFinger
<1>1. CASE ap = PartOff
  BY <1>1 DEF PartOff, PartsTypeOK, HandoffShowsSame, ChoiceConsumed, CardFollowsPointer, SheetUnderFinger
<1>2. CASE ThinkInv
  BY <1>2 DEF ThinkInv, ThinkStates, HandoffSame, TakenIsStored, ThinkingMode,
              PartsTypeOK, HandoffShowsSame, ChoiceConsumed, CardFollowsPointer, SheetUnderFinger
<1>3. CASE CiteInv
  <2>1. ap.kind = "cite" /\ ap.cited \in Nat /\ ap.cited <= Sources /\ ap.over \in {"none", "chip", "card"}
    BY <1>3 DEF CiteInv, CiteStates
  <2>2. ap.cited \in 0..Sources
    BY <2>1, PartsAssumption
  <2> QED
    BY <1>3, <2>1, <2>2 DEF CiteInv, PartsTypeOK, HandoffShowsSame, ChoiceConsumed, SheetUnderFinger
<1>4. CASE BubbleInv
  BY <1>4 DEF BubbleInv, BubbleStates, PartsTypeOK, HandoffShowsSame, ChoiceConsumed, CardFollowsPointer,
              SheetUnderFinger
<1> QED
  BY <1>1, <1>2, <1>3, <1>4 DEF PartsInv

-----------------------------------------------------------------------------
(* Where a thread is scrolled to.  The invariant is stated of any state, so *)
(* that it can be followed through the functions a step is made of.         *)

ScrollStates ==
  [on : BOOLEAN, calm : BOOLEAN, ut : Int, ub : Int, end : Int, foot : 1..2, top : Nat, reserve : Nat,
   mode : {"bottom", "anchored", "free"}, tail : Int, at : Int, ab : Int, armed : BOOLEAN, lift : Nat \cup {None0}, show : BOOLEAN,
   paused : BOOLEAN, returning : BOOLEAN, timer : BOOLEAN, goal : Int, lastSet : Int, prev : Int,
   ev : BOOLEAN, mine : BOOLEAN, resized : BOOLEAN, late : BOOLEAN, unread : BOOLEAN, away : BOOLEAN, reads : Int]

(* The position is within the content.                                      *)
Fits(s) == s.top <= MaxTop(s)
(* Only a held question is lifted, a pause follows nothing, a scroll of the *)
(* reader is yet to be reported, and no return is under way while a         *)
(* question is held.                                                        *)
ModesIn(s) == /\ s.lift # None0 => s.mode = "anchored"
              /\ s.paused => s.mode = "free"
              /\ s.mine => s.ev
              /\ s.mode = "anchored" => s.goal = None0 /\ ~s.returning
ReturnIn(s) == ~s.ev /\ ~s.late /\ ~s.returning /\ s.lift = None0 => s.show = IsScrolledFromBottom(s)
(* A thread that follows is at its end, but for what the reader did and was *)
(* not reported yet; so it is while the motion of a return runs out, and    *)
(* where the report to come will be taken for the page's own scroll.        *)
AsSet(s) == ~s.ev \/ (~s.mine /\ s.top = s.lastSet)
FollowIn(s) == s.mode = "bottom" /\ ~s.returning /\ ~s.unread /\ (s.goal # None0 \/ AsSet(s)) => IsNearBottom(s)
(* The space reserved ends above the lower edge of the screen.              *)
NoBlank(s) == s.reserve <= s.top + Port - s.foot
BlankIn(s) == ~s.unread /\ s.lift = None0 /\ (~s.ev \/ (s.mode = "anchored" /\ AsSet(s))) => NoBlank(s)
ScrollIn(s) == s \in ScrollStates /\ Fits(s) /\ ModesIn(s) /\ ReturnIn(s) /\ FollowIn(s) /\ BlankIn(s)
(* A reader who scrolled up and asked for nothing since is where they were  *)
(* last seen or higher, and no motion of the page's own is under way; while *)
(* following is paused none is either.                                      *)
AwayIn(s) == /\ s.away => /\ s.mode = "free" /\ ~s.returning /\ s.goal = None0
                         /\ s.top <= s.prev /\ (s.ev => s.top < s.prev)
             /\ s.paused => ~s.returning
(* While the layout keeps still, the page put a held question where it      *)
(* wants it, and only the reader moves it from there.                       *)
HoldIn(s) == s.mode = "anchored" /\ ~s.unread =>
               s.lastSet = AnchorTop(s) /\ (s.lift = None0 /\ ~s.mine => s.top = s.lastSet)
ReadIn(s) == AwayIn(s) /\ HoldIn(s)

(* What a step never does to a reader who is away, and to a hold.           *)
Stays(s, r) == s.away /\ r.away /\ r.reads = s.reads => r.top <= s.top
Leaves(s, r) == s.mode = "anchored" /\ r.mode # "anchored" /\ ~s.unread => r.reads # s.reads \/ s.mine
ReadStep(s, r) == ReadIn(r) /\ Stays(s, r) /\ Leaves(s, r)

ScrollInv == ScrollIn(ts) /\ ReadIn(ts)

LEMMA ScrollBounds == /\ Port \in Nat /\ Port >= 3 /\ Near \in Nat /\ Near > 0 /\ Far \in Nat
                      /\ Gap \in Nat /\ Peek \in Nat /\ None0 = -1
  BY ScrollAssumption DEF None0

LEMMA ScrollFields ==
  ASSUME NEW s \in ScrollStates
  PROVE  /\ s.ut \in Int /\ s.ub \in Int /\ s.end \in Int /\ s.foot \in 1..2
         /\ s.top \in Nat /\ s.reserve \in Nat /\ s.tail \in Int /\ s.lift \in Nat \cup {None0}
         /\ s.goal \in Int /\ s.lastSet \in Int /\ s.prev \in Int /\ s.reads \in Int
         /\ s.at \in Int /\ s.ab \in Int
         /\ s.mode \in {"bottom", "anchored", "free"}
  BY DEF ScrollStates

LEMMA Measures ==
  ASSUME NEW s \in ScrollStates
  PROVE  /\ MaxTop(s) \in Nat /\ EffectiveHeight(s) \in Nat /\ DistanceFromBottom(s) \in Int
         /\ EffectiveHeight(s) >= Port /\ EffectiveHeight(s) - Port <= MaxTop(s)
         /\ s.reserve + s.foot - Port <= MaxTop(s)
         /\ DistanceFromBottom(s) = EffectiveHeight(s) - s.top - Port
         /\ MaxTop(s) <= s.top => DistanceFromBottom(s) <= 0
         /\ NoBlank(s) /\ s.reserve > s.end => MaxTop(s) <= s.top
<1>1. s.end \in Int /\ s.foot \in 1..2 /\ s.top \in Nat /\ s.reserve \in Nat
  BY ScrollFields
<1> QED
  BY <1>1, ScrollBounds DEF MaxTop, ScrollHeight, EffectiveHeight, DistanceFromBottom, Larger, NoBlank

LEMMA AtTheEnd ==
  ASSUME NEW s \in ScrollStates, DistanceFromBottom(s) <= 0
  PROVE  IsNearBottom(s) /\ ~IsScrolledFromBottom(s)
  BY Measures, ScrollBounds DEF IsNearBottom, IsScrolledFromBottom

(* What the operations on the position leave alone.                         *)
SameText(s, r) == r.ut = s.ut /\ r.ub = s.ub /\ r.end = s.end /\ r.foot = s.foot
SameMode(s, r) == r.mode = s.mode /\ r.tail = s.tail /\ r.at = s.at /\ r.ab = s.ab /\ r.paused = s.paused /\ r.returning = s.returning
SameShow(s, r) == r.show = s.show /\ r.late = s.late /\ r.unread = s.unread
SameRest(s, r) == r.on = s.on /\ r.calm = s.calm /\ r.armed = s.armed /\ r.timer = s.timer
SameReader(s, r) == r.away = s.away /\ r.reads = s.reads /\ r.resized = s.resized
Same(s, r) == SameText(s, r) /\ SameMode(s, r) /\ SameShow(s, r) /\ SameRest(s, r) /\ SameReader(s, r)
(* A new position is reported.                                              *)
Reported(s, r) == (s.ev => r.ev) /\ (r.top = s.top \/ r.ev)

LEMMA MeasuredSame ==
  ASSUME NEW s, NEW r, SameText(s, r)
  PROVE  /\ EffectiveHeight(r) = EffectiveHeight(s)
         /\ r.reserve = s.reserve => MaxTop(r) = MaxTop(s)
         /\ r.top = s.top => /\ DistanceFromBottom(r) = DistanceFromBottom(s)
                             /\ IsNearBottom(r) = IsNearBottom(s)
                             /\ IsScrolledFromBottom(r) = IsScrolledFromBottom(s)
  BY DEF SameText, EffectiveHeight, MaxTop, ScrollHeight, DistanceFromBottom, IsNearBottom, IsScrolledFromBottom

LEMMA AnchorTopSame ==
  ASSUME NEW s, NEW r, r.at = s.at, r.ab = s.ab, r.tail = s.tail, r.foot = s.foot
  PROVE  AnchorTop(r) = AnchorTop(s)
  BY DEF AnchorTop

LEMMA ClampedGives ==
  ASSUME NEW s \in ScrollStates, NEW r, r = Clamped(s)
  PROVE  /\ r \in ScrollStates /\ Fits(r) /\ Same(s, r) /\ Reported(s, r)
         /\ r.reserve = s.reserve /\ r.lift = s.lift /\ r.goal = s.goal /\ r.mine = s.mine /\ r.lastSet = s.lastSet
         /\ r.top <= s.top /\ (r.top = s.top \/ r.top = MaxTop(r))
         /\ r.prev = s.prev
         /\ (r.ev => s.ev \/ r.top < s.top)
         /\ Fits(s) => r = s
<1>m. MaxTop(s) \in Nat
  BY Measures
<1>1. CASE s.top <= MaxTop(s)
  <2>1. r = s
    BY <1>1 DEF Clamped
  <2> QED
    BY <1>1, <2>1, ScrollFields
       DEF Fits, Same, SameText, SameMode, SameShow, SameRest, SameReader, Reported
<1>2. CASE ~(s.top <= MaxTop(s))
  <2>1. PICK m \in Nat : m = MaxTop(s)
    BY <1>m
  <2>2. r = [s EXCEPT !.top = m, !.ev = TRUE]
    BY <1>2, <2>1 DEF Clamped
  <2>3. r \in ScrollStates
    BY <2>2, ZenonT(40) DEF ScrollStates
  <2>4. SameText(s, r) /\ SameMode(s, r)
    BY <2>2 DEF ScrollStates, SameText, SameMode
  <2>5. SameShow(s, r) /\ SameRest(s, r) /\ SameReader(s, r)
    BY <2>2 DEF ScrollStates, SameShow, SameRest, SameReader
  <2>6. r.reserve = s.reserve /\ r.lift = s.lift /\ r.goal = s.goal /\ r.mine = s.mine /\ r.lastSet = s.lastSet /\ r.prev = s.prev
    BY <2>2 DEF ScrollStates
  <2>7. r.top = m /\ r.ev
    BY <2>2 DEF ScrollStates
  <2>8. MaxTop(r) = m
    BY <2>1, <2>4, <2>6, MeasuredSame
  <2>9. s.top \in Nat /\ m < s.top
    BY <1>2, <2>1, ScrollFields
  <2> QED
    BY <1>2, <2>1, <2>3, <2>4, <2>5, <2>6, <2>7, <2>8, <2>9 DEF Fits, Same, Reported
<1> QED
  BY <1>1, <1>2

LEMMA SetTyped ==
  ASSUME NEW s \in ScrollStates, NEW c \in Nat, NEW d \in Int, NEW g \in Int, NEW e \in BOOLEAN
  PROVE  [s EXCEPT !.top = c, !.lastSet = d, !.prev = d, !.ev = e, !.goal = g, !.mine = FALSE] \in ScrollStates
  BY ZenonT(40) DEF ScrollStates

LEMMA SetTopGives ==
  ASSUME NEW s \in ScrollStates, NEW t \in Int, NEW r, r = SetTop(s, t)
  PROVE  /\ r \in ScrollStates /\ Fits(r) /\ Same(s, r) /\ Reported(s, r)
         /\ r.reserve = s.reserve /\ r.lift = s.lift /\ r.goal = None0 /\ ~r.mine /\ r.lastSet = r.top
         /\ MaxTop(r) = MaxTop(s)
         /\ t >= MaxTop(s) => r.top = MaxTop(s)
         /\ 0 <= t /\ t <= MaxTop(s) => r.top = t
         /\ EffectiveHeight(s) - Port <= t => DistanceFromBottom(r) <= 0
<1>m. MaxTop(s) \in Nat /\ s.top \in Nat /\ EffectiveHeight(s) \in Nat /\ EffectiveHeight(s) - Port <= MaxTop(s)
  BY Measures, ScrollFields
<1>1. PICK c \in Nat : c = Larger(0, Smaller(t, MaxTop(s)))
  BY <1>m DEF Larger, Smaller
<1>2. PICK e \in BOOLEAN : e = (s.ev \/ c # s.top)
  BY Zenon
<1>3. r = [s EXCEPT !.top = c, !.lastSet = c, !.prev = c, !.ev = e, !.goal = None0, !.mine = FALSE]
  <2>1. s.ev = (s.ev = TRUE)
    BY DEF ScrollStates
  <2> QED
    BY <1>1, <1>2, <2>1 DEF SetTop, ScrollStates
<1>b. None0 \in Int /\ c \in Int
  BY ScrollBounds
<1>4. r \in ScrollStates
  <2>1. c \in Nat /\ e \in BOOLEAN
    BY <1>1, <1>2
  <2>2. [s EXCEPT !.top = c, !.lastSet = c, !.prev = c, !.ev = e, !.goal = None0, !.mine = FALSE] \in ScrollStates
    BY <2>1, <1>b, SetTyped, Zenon
  <2> QED
    BY <2>2, <1>3, Zenon
<1>5. SameText(s, r) /\ SameMode(s, r)
  BY <1>3 DEF ScrollStates, SameText, SameMode
<1>6. SameShow(s, r) /\ SameRest(s, r) /\ SameReader(s, r)
  BY <1>3 DEF ScrollStates, SameShow, SameRest, SameReader
<1>7. r.reserve = s.reserve /\ r.lift = s.lift /\ r.goal = None0 /\ ~r.mine /\ r.lastSet = c
  BY <1>3 DEF ScrollStates
<1>8. r.top = c /\ r.ev = e
  BY <1>3 DEF ScrollStates
<1>9. MaxTop(r) = MaxTop(s) /\ EffectiveHeight(r) = EffectiveHeight(s)
  BY <1>5, <1>7, MeasuredSame
<1>10. /\ c <= MaxTop(s) /\ (t >= MaxTop(s) => c = MaxTop(s)) /\ (0 <= t /\ t <= MaxTop(s) => c = t)
       /\ EffectiveHeight(s) - Port <= t => EffectiveHeight(s) - c - Port <= 0
  BY <1>1, <1>m, ScrollBounds DEF Larger, Smaller
<1>11. DistanceFromBottom(r) = EffectiveHeight(r) - r.top - Port
  BY <1>4, Measures
<1> QED
  BY <1>2, <1>4, <1>5, <1>6, <1>7, <1>8, <1>9, <1>10, <1>11, Zenon DEF Fits, Same, Reported

LEMMA SetReserveGives ==
  ASSUME NEW s \in ScrollStates, NEW n \in Nat, NEW r, r = SetReserve(s, n)
  PROVE  /\ r \in ScrollStates /\ Fits(r) /\ Same(s, r) /\ Reported(s, r)
         /\ r.reserve = n /\ r.lift = s.lift /\ r.goal = s.goal /\ r.mine = s.mine /\ r.lastSet = s.lastSet
         /\ r.prev = s.prev /\ r.top <= s.top /\ (r.ev => s.ev \/ r.top < s.top)
         /\ r.top = s.top \/ DistanceFromBottom(r) <= 0
         /\ s.top <= n + s.foot - Port => r.top = s.top /\ r.ev = s.ev
<1>1. PICK q : q = [s EXCEPT !.reserve = n]
  BY Zenon
<1>2. q \in ScrollStates
  BY <1>1 DEF ScrollStates
<1>3. SameText(s, q) /\ SameMode(s, q)
  BY <1>1 DEF ScrollStates, SameText, SameMode
<1>4. SameShow(s, q) /\ SameRest(s, q) /\ SameReader(s, q)
  BY <1>1 DEF ScrollStates, SameShow, SameRest, SameReader
<1>5. q.reserve = n /\ q.lift = s.lift /\ q.goal = s.goal /\ q.mine = s.mine /\ q.lastSet = s.lastSet
  BY <1>1 DEF ScrollStates
<1>6. q.top = s.top /\ q.ev = s.ev /\ q.prev = s.prev
  BY <1>1 DEF ScrollStates
<1>7. r = Clamped(q)
  BY <1>1 DEF SetReserve
<1>8. /\ r \in ScrollStates /\ Fits(r) /\ Same(q, r) /\ Reported(q, r)
      /\ r.reserve = q.reserve /\ r.lift = q.lift /\ r.goal = q.goal /\ r.mine = q.mine /\ r.lastSet = q.lastSet
      /\ r.top <= q.top /\ (r.top = q.top \/ r.top = MaxTop(r)) /\ r.prev = q.prev /\ (Fits(q) => r = q)
      /\ (r.ev => q.ev \/ r.top < q.top)
  BY <1>2, <1>7, ClampedGives
<1>9. Same(s, r)
  BY <1>3, <1>4, <1>8 DEF Same, SameText, SameMode, SameShow, SameRest, SameReader
<1>10. Reported(s, r)
  BY <1>6, <1>8 DEF Reported
<1>11. r.top = s.top \/ DistanceFromBottom(r) <= 0
  <2>1. r.top \in Nat /\ (MaxTop(r) <= r.top => DistanceFromBottom(r) <= 0) /\ MaxTop(r) \in Nat
    BY <1>8, Measures, ScrollFields
  <2> QED
    BY <1>6, <1>8, <2>1
<1>12. s.top <= n + s.foot - Port => Fits(q)
  <2>1. n + q.foot - Port <= MaxTop(q) /\ MaxTop(q) \in Nat /\ q.foot = s.foot
    BY <1>2, <1>3, <1>5, Measures DEF SameText
  <2>2. s.top \in Nat /\ s.foot \in 1..2
    BY ScrollFields
  <2> QED
    BY <2>1, <2>2, <1>6, ScrollBounds DEF Fits
<1> QED
  BY <1>5, <1>6, <1>8, <1>9, <1>10, <1>11, <1>12

LEMMA ReleaseGives ==
  ASSUME NEW s \in ScrollStates, Fits(s), NEW r, r = ReleaseReserve(s)
  PROVE  /\ r \in ScrollStates /\ Fits(r) /\ Same(s, r) /\ Reported(s, r)
         /\ r.lift = s.lift /\ r.goal = s.goal /\ r.mine = s.mine /\ r.lastSet = s.lastSet /\ r.prev = s.prev
         /\ r.top <= s.top /\ (r.ev => s.ev \/ r.top < s.top)
         /\ r.top = s.top \/ DistanceFromBottom(r) <= 0
         /\ r.ev \/ NoBlank(r)
<1>t. s.reserve \in Nat /\ s.top \in Nat /\ s.foot \in 1..2 /\ s.end \in Int
  BY ScrollFields
<1>1. CASE s.reserve = 0
  <2>1. r = s
    BY <1>1 DEF ReleaseReserve
  <2> QED
    BY <1>1, <1>t, <2>1, ScrollBounds
       DEF Same, SameText, SameMode, SameShow, SameRest, SameReader, Reported, NoBlank
<1>2. CASE s.reserve # 0
  <2>1. PICK m \in Nat : m = Smaller(s.reserve, s.top + Port - s.foot)
    BY <1>t, ScrollBounds DEF Smaller
  <2>2. PICK n \in Nat : n = IF m <= s.end THEN 0 ELSE m
    BY <2>1, <1>t
  <2>3. r = SetReserve(s, n)
    BY <1>2, <2>1, <2>2 DEF ReleaseReserve
  <2>4. /\ r \in ScrollStates /\ Fits(r) /\ Same(s, r) /\ Reported(s, r)
        /\ r.reserve = n /\ r.lift = s.lift /\ r.goal = s.goal /\ r.mine = s.mine /\ r.lastSet = s.lastSet
        /\ (r.ev => s.ev \/ r.top < s.top)
        /\ r.prev = s.prev /\ r.top <= s.top /\ (r.top = s.top \/ DistanceFromBottom(r) <= 0)
    BY <2>3, SetReserveGives
  <2>5. n <= s.top + Port - s.foot
    BY <2>1, <2>2, <1>t, ScrollBounds DEF Smaller
  <2>6. r.foot = s.foot
    BY <2>4 DEF Same, SameText
  <2> QED
    BY <2>4, <2>5, <2>6 DEF Reported, NoBlank
<1> QED
  BY <1>1, <1>2

LEMMA AnchorTops ==
  ASSUME NEW s \in ScrollStates
  PROVE  AnchorTop(s) \in Nat /\ (\A t \in Nat : ReserveFor(s, t) = t + Port - s.foot /\ ReserveFor(s, t) \in Nat)
<1>t. s.ab \in Int /\ s.at \in Int /\ s.tail \in Int /\ s.foot \in 1..2
  BY ScrollFields
<1>1. PICK n \in Nat : n = Larger(0, s.ab + s.tail + s.foot - Port)
  BY <1>t, ScrollBounds DEF Larger
<1>2. PICK a \in Int : a = IF (s.at - n) * 3 <= Port THEN n ELSE s.at - Gap
  BY <1>t, <1>1, ScrollBounds
<1>3. AnchorTop(s) = Larger(0, Larger(a, s.ab - (Port - s.foot - Peek)))
  BY <1>1, <1>2 DEF AnchorTop
<1>4. AnchorTop(s) \in Nat
  BY <1>3, <1>2, <1>t, ScrollBounds DEF Larger
<1>5. \A t \in Nat : ReserveFor(s, t) = t + Port - s.foot /\ ReserveFor(s, t) \in Nat
  BY <1>t, ScrollBounds DEF ReserveFor, Larger
<1> QED
  BY <1>4, <1>5

(* Where a question is held: the position is the one that its space is      *)
(* reserved for.                                                            *)
Held(s, r) ==
  /\ r \in ScrollStates /\ Fits(r) /\ Same(s, r) /\ Reported(s, r) /\ (r.lift = None0 => NoBlank(r))
  /\ (r.lift = None0) = (s.lift = None0) /\ r.goal \in {s.goal, None0} /\ (r.mine => s.mine)

(* A lift started: the position is set, and the lift is under way.          *)
Lifted(s, r, t) ==
  /\ r \in ScrollStates /\ Fits(r) /\ Same(s, r) /\ Reported(s, r)
  /\ r.reserve = s.reserve /\ r.lift # None0 /\ r.goal = None0 /\ ~r.mine /\ r.lastSet = r.top
  /\ t <= MaxTop(s) => r.top = t

LEMMA LiftGives ==
  ASSUME NEW s \in ScrollStates, NEW x \in Nat, NEW t \in Nat, NEW r, r = StartLift(s, x, t)
  PROVE  Lifted(s, r, t)
<1>t. t \in Int
  OBVIOUS
<1>1. PICK q : q = SetTop(s, t)
  OBVIOUS
<1>2. /\ q \in ScrollStates /\ Fits(q) /\ Same(s, q) /\ Reported(s, q)
      /\ q.reserve = s.reserve /\ q.goal = None0 /\ ~q.mine /\ q.lastSet = q.top
      /\ 0 <= t /\ t <= MaxTop(s) => q.top = t
  BY <1>1, <1>t, SetTopGives
<1>3. r = [q EXCEPT !.lift = x]
  BY <1>1 DEF StartLift
<1>4. r \in ScrollStates
  BY <1>2, <1>3 DEF ScrollStates
<1>5. SameText(q, r) /\ SameMode(q, r)
  BY <1>2, <1>3 DEF ScrollStates, SameText, SameMode
<1>6. SameShow(q, r) /\ SameRest(q, r) /\ SameReader(q, r)
  BY <1>2, <1>3 DEF ScrollStates, SameShow, SameRest, SameReader
<1>7. r.reserve = q.reserve /\ r.lift # None0 /\ r.goal = q.goal /\ r.mine = q.mine
  BY <1>2, <1>3, ScrollBounds DEF ScrollStates
<1>8. r.top = q.top /\ r.ev = q.ev /\ r.lastSet = q.lastSet
  BY <1>2, <1>3 DEF ScrollStates
<1>9. MaxTop(r) = MaxTop(q)
  BY <1>5, <1>7, MeasuredSame
<1>10. Same(s, r)
  BY <1>2, <1>5, <1>6 DEF Same, SameText, SameMode, SameShow, SameRest, SameReader
<1> QED
  BY <1>2, <1>4, <1>7, <1>8, <1>9, <1>10 DEF Fits, Reported, Lifted

LEMMA HoldGives ==
  ASSUME NEW s \in ScrollStates, Fits(s), NEW x, s.lift # None0 => x \in Nat, NEW r, r = HoldAnchor(s, x)
  PROVE  /\ Held(s, r)
         /\ r.lastSet \in {s.lastSet, AnchorTop(s)}
         /\ s.lift = None0 => r.top = AnchorTop(s)
<1>t. s.top \in Nat /\ s.foot \in 1..2
  BY ScrollFields
<1>1. PICK t \in Nat : t = AnchorTop(s)
  BY AnchorTops
<1>2. PICK n \in Nat : n = ReserveFor(s, t)
  BY AnchorTops
<1>3. n = t + Port - s.foot
  BY <1>2, AnchorTops
<1>4. PICK q : q = SetReserve(s, n)
  OBVIOUS
<1>5. /\ q \in ScrollStates /\ Fits(q) /\ Same(s, q) /\ Reported(s, q)
      /\ q.reserve = n /\ q.lift = s.lift /\ q.goal = s.goal /\ q.mine = s.mine /\ q.lastSet = s.lastSet
      /\ s.top <= n + s.foot - Port => q.top = s.top
  BY <1>4, SetReserveGives
<1>6. q.foot = s.foot /\ q.top \in Nat
  BY <1>5, ScrollFields DEF Same, SameText
<1>7. t <= MaxTop(q)
  <2>1. n + q.foot - Port <= MaxTop(q)
    BY <1>5, Measures
  <2> QED
    BY <1>3, <1>6, <1>t, <2>1, ScrollBounds
<1>8. r = IF s.lift # None0 THEN (IF s.lastSet # t THEN StartLift(q, x, t) ELSE q)
          ELSE IF q.top # t THEN SetTop(q, t) ELSE q
  BY <1>1, <1>2, <1>4 DEF HoldAnchor
<1>9. CASE s.lift # None0 /\ s.lastSet # t
  <2>1. r = StartLift(q, x, t)
    BY <1>8, <1>9
  <2>2. /\ r \in ScrollStates /\ Fits(r) /\ Same(q, r) /\ Reported(q, r)
        /\ r.reserve = q.reserve /\ r.lift # None0 /\ r.goal = None0 /\ ~r.mine /\ r.top = t /\ r.lastSet = t
    <3>1. q \in ScrollStates /\ t <= MaxTop(q) /\ x \in Nat
      BY <1>5, <1>7, <1>9
    <3>2. Lifted(q, r, t)
      BY <2>1, <3>1, LiftGives, Zenon
    <3> QED
      BY <3>1, <3>2, Zenon DEF Lifted
  <2>3. Same(s, r) /\ r.foot = s.foot
    BY <2>2, <1>5 DEF Same, SameText, SameMode, SameShow, SameRest, SameReader
  <2>4. Reported(s, r)
    BY <2>2, <1>5 DEF Reported
  <2> QED
    BY <1>1, <1>3, <1>5, <1>9, <1>t, <2>2, <2>3, <2>4, ScrollBounds DEF Held, NoBlank
<1>10. CASE s.lift = None0 /\ q.top # t
  <2>1. r = SetTop(q, t)
    BY <1>8, <1>10
  <2>2. /\ r \in ScrollStates /\ Fits(r) /\ Same(q, r) /\ Reported(q, r)
        /\ r.reserve = q.reserve /\ r.lift = q.lift /\ r.goal = None0 /\ ~r.mine /\ r.top = t /\ r.lastSet = t
    BY <2>1, <1>5, <1>7, SetTopGives
  <2>3. Same(s, r) /\ r.foot = s.foot
    BY <2>2, <1>5 DEF Same, SameText, SameMode, SameShow, SameRest, SameReader
  <2>4. Reported(s, r)
    BY <2>2, <1>5 DEF Reported
  <2> QED
    BY <1>1, <1>3, <1>5, <1>10, <1>t, <2>2, <2>3, <2>4, ScrollBounds DEF Held, NoBlank
<1>11. CASE q.top = t /\ r = q
  BY <1>1, <1>3, <1>5, <1>6, <1>11, <1>t, ScrollBounds DEF Held, NoBlank
<1>12. CASE s.lift # None0 /\ s.lastSet = t
  <2>1. r = q
    BY <1>8, <1>12
  <2> QED
    BY <1>5, <1>12, <2>1 DEF Held
<1>13. s.lift = None0 /\ q.top = t => r = q
  BY <1>8
<1> QED
  BY <1>9, <1>10, <1>11, <1>12, <1>13

LEMMA HeldTyped ==
  ASSUME NEW s \in ScrollStates, NEW l \in Int, NEW u \in Int, NEW v \in Int
  PROVE  [s EXCEPT !.tail = l, !.at = u, !.ab = v] \in ScrollStates
  BY ZenonT(40) DEF ScrollStates

(* The hold of a question is given up.                                      *)
LEMMA ClearGives ==
  ASSUME NEW s \in ScrollStates, NEW x \in Nat, NEW r, r = ClearAnchor(s, x)
  PROVE  /\ r \in ScrollStates /\ SameText(s, r) /\ SameShow(s, r) /\ SameRest(s, r) /\ SameReader(s, r)
         /\ r.mode = s.mode /\ r.paused = s.paused /\ r.returning = s.returning /\ r.reserve = s.reserve
         /\ Reported(s, r) /\ r.lift = None0 /\ r.goal \in {s.goal, None0} /\ (r.mine => s.mine)
         /\ Fits(s) => Fits(r)
         /\ x = s.top => /\ r.top = s.top /\ r.ev = s.ev /\ r.goal = s.goal
                         /\ r.mine = s.mine /\ r.lastSet = s.lastSet /\ r.prev = s.prev
<1>0. None0 \in Int /\ None0 \in Nat \cup {None0} /\ x \in Int
  BY ScrollBounds
<1>1. PICK q : q = [s EXCEPT !.lift = None0]
  BY Zenon
<1>2. q \in ScrollStates
  BY <1>1 DEF ScrollStates
<1>3. SameText(s, q) /\ SameMode(s, q)
  BY <1>1 DEF ScrollStates, SameText, SameMode
<1>4. SameShow(s, q) /\ SameRest(s, q) /\ SameReader(s, q)
  BY <1>1 DEF ScrollStates, SameShow, SameRest, SameReader
<1>5. q.reserve = s.reserve /\ q.lift = None0 /\ q.goal = s.goal /\ q.mine = s.mine /\ q.lastSet = s.lastSet
  BY <1>1 DEF ScrollStates
<1>6. q.top = s.top /\ q.ev = s.ev /\ q.prev = s.prev
  BY <1>1 DEF ScrollStates
<1>7. PICK p : p = IF x # s.top THEN SetTop(q, x) ELSE q
  OBVIOUS
<1>8. /\ p \in ScrollStates /\ Same(s, p) /\ Reported(s, p) /\ p.reserve = s.reserve /\ p.lift = None0
      /\ p.goal \in {s.goal, None0} /\ (p.mine => s.mine) /\ (Fits(s) => Fits(p))
      /\ x = s.top => /\ p.top = s.top /\ p.ev = s.ev /\ p.goal = s.goal
                      /\ p.mine = s.mine /\ p.lastSet = s.lastSet /\ p.prev = s.prev
  <2>1. CASE x = s.top
    <3>1. p = q
      BY <1>7, <2>1
    <3>2. Fits(s) => Fits(q)
      BY <1>3, <1>5, <1>6, MeasuredSame DEF Fits
    <3> QED
      BY <3>1, <3>2, <1>2, <1>3, <1>4, <1>5, <1>6 DEF Same, Reported
  <2>2. CASE x # s.top
    <3>1. p = SetTop(q, x)
      BY <1>7, <2>2
    <3>2. /\ p \in ScrollStates /\ Fits(p) /\ Same(q, p) /\ Reported(q, p)
          /\ p.reserve = q.reserve /\ p.lift = q.lift /\ p.goal = None0 /\ ~p.mine
      BY <3>1, <1>0, <1>2, SetTopGives
    <3>3. Same(s, p)
      BY <1>3, <1>4, <3>2 DEF Same, SameText, SameMode, SameShow, SameRest, SameReader
    <3>4. Reported(s, p)
      BY <1>6, <3>2 DEF Reported
    <3> QED
      BY <2>2, <3>2, <3>3, <3>4, <1>5
  <2> QED
    BY <2>1, <2>2
<1>9. r = [p EXCEPT !.tail = None0, !.at = 0, !.ab = 0]
  BY <1>1, <1>7 DEF ClearAnchor, StopAnimation
<1>z. 0 \in Int
  OBVIOUS
<1>10. r \in ScrollStates
  <2>1. [p EXCEPT !.tail = None0, !.at = 0, !.ab = 0] \in ScrollStates
    BY <1>0, <1>8, <1>z, HeldTyped
  <2> QED
    BY <1>9, <2>1
<1>11. SameText(p, r) /\ r.mode = p.mode /\ r.paused = p.paused /\ r.returning = p.returning
  BY <1>8, <1>9 DEF ScrollStates, SameText
<1>12. SameShow(p, r) /\ SameRest(p, r) /\ SameReader(p, r)
  BY <1>8, <1>9 DEF ScrollStates, SameShow, SameRest, SameReader
<1>13. r.reserve = p.reserve /\ r.lift = p.lift /\ r.goal = p.goal /\ r.mine = p.mine /\ r.lastSet = p.lastSet
  BY <1>8, <1>9 DEF ScrollStates
<1>14. r.top = p.top /\ r.ev = p.ev /\ r.prev = p.prev
  BY <1>8, <1>9 DEF ScrollStates
<1>15. SameText(s, r) /\ SameShow(s, r) /\ SameRest(s, r) /\ SameReader(s, r)
  BY <1>8, <1>11, <1>12 DEF Same, SameText, SameShow, SameRest, SameReader
<1>16. r.mode = s.mode /\ r.paused = s.paused /\ r.returning = s.returning
  BY <1>8, <1>11 DEF Same, SameMode
<1>17. Reported(s, r) /\ (Fits(s) => Fits(r))
  BY <1>8, <1>11, <1>13, <1>14, MeasuredSame DEF Reported, Fits
<1> QED
  BY <1>8, <1>10, <1>13, <1>14, <1>15, <1>16, <1>17

Left(s, r) ==
  /\ r \in ScrollStates /\ Fits(r) /\ SameText(s, r) /\ SameShow(s, r) /\ SameRest(s, r) /\ SameReader(s, r)
  /\ r.paused = s.paused /\ r.returning = s.returning /\ Reported(s, r) /\ (r.ev \/ NoBlank(r))
  /\ r.lift = None0 /\ r.goal \in {s.goal, None0} /\ (r.mine => s.mine)

LEMMA LeaveGives ==
  ASSUME NEW s \in ScrollStates, Fits(s), s.lift # None0 => s.mode = "anchored", NEW x \in Nat,
         NEW next \in {"bottom", "free"}, NEW r, r = LeaveAnchor(s, next, x)
  PROVE  /\ Left(s, r) /\ r.mode = next
         /\ x = s.top => r.prev = s.prev /\ r.top <= s.top /\ (r.ev => s.ev \/ r.top < s.top) /\ (r.top = s.top \/ DistanceFromBottom(r) <= 0)
<1>1. PICK p : p = IF s.mode = "anchored" THEN ClearAnchor(s, x) ELSE s
  OBVIOUS
<1>2. /\ p \in ScrollStates /\ SameText(s, p) /\ SameShow(s, p) /\ SameRest(s, p) /\ SameReader(s, p)
      /\ p.paused = s.paused /\ p.returning = s.returning /\ p.reserve = s.reserve
      /\ Reported(s, p) /\ p.lift = None0 /\ p.goal \in {s.goal, None0} /\ (p.mine => s.mine) /\ Fits(p)
      /\ x = s.top => p.top = s.top /\ p.prev = s.prev /\ p.ev = s.ev
  <2>1. CASE s.mode = "anchored"
    <3>1. p = ClearAnchor(s, x)
      BY <1>1, <2>1
    <3> QED
      BY <3>1, ClearGives
  <2>2. CASE s.mode # "anchored"
    BY <1>1, <2>2 DEF SameText, SameShow, SameRest, SameReader, Reported
  <2> QED
    BY <2>1, <2>2
<1>3. PICK q : q = [p EXCEPT !.mode = next]
  BY Zenon
<1>4. q \in ScrollStates
  BY <1>2, <1>3 DEF ScrollStates
<1>5. SameText(p, q) /\ q.mode = next /\ q.paused = p.paused /\ q.returning = p.returning
  BY <1>2, <1>3 DEF ScrollStates, SameText
<1>6. SameShow(p, q) /\ SameRest(p, q) /\ SameReader(p, q)
  BY <1>2, <1>3 DEF ScrollStates, SameShow, SameRest, SameReader
<1>7. q.reserve = p.reserve /\ q.lift = p.lift /\ q.goal = p.goal /\ q.mine = p.mine
  BY <1>2, <1>3 DEF ScrollStates
<1>8. q.top = p.top /\ q.ev = p.ev /\ q.prev = p.prev
  BY <1>2, <1>3 DEF ScrollStates
<1>9. Fits(q)
  BY <1>2, <1>5, <1>7, <1>8, MeasuredSame DEF Fits
<1>10. r = ReleaseReserve(q)
  BY <1>1, <1>3 DEF LeaveAnchor
<1>11. /\ r \in ScrollStates /\ Fits(r) /\ Same(q, r) /\ Reported(q, r)
       /\ r.lift = q.lift /\ r.goal = q.goal /\ r.mine = q.mine /\ r.prev = q.prev
       /\ r.top <= q.top /\ (r.ev => q.ev \/ r.top < q.top)
       /\ (r.top = q.top \/ DistanceFromBottom(r) <= 0) /\ (r.ev \/ NoBlank(r))
  BY <1>4, <1>9, <1>10, ReleaseGives
<1>12. SameText(s, r) /\ SameShow(s, r) /\ SameRest(s, r) /\ SameReader(s, r)
  BY <1>2, <1>5, <1>6, <1>11 DEF Same, SameText, SameShow, SameRest, SameReader
<1>13. r.mode = next /\ r.paused = s.paused /\ r.returning = s.returning
  BY <1>2, <1>5, <1>11 DEF Same, SameMode
<1>14. Reported(s, r)
  BY <1>2, <1>8, <1>11 DEF Reported
<1> QED
  BY <1>2, <1>7, <1>8, <1>11, <1>12, <1>13, <1>14 DEF Left

(* A question is held anew.                                                 *)
LEMMA AnchorGives ==
  ASSUME NEW s \in ScrollStates, Fits(s), NEW x \in Nat, NEW r, r = AnchorNewestTurn(s, x)
  PROVE  /\ r \in ScrollStates /\ Fits(r) /\ SameRest(s, r) /\ SameReader(s, r)
         /\ r.mode = "anchored" /\ r.paused = s.paused /\ ~r.returning /\ r.goal = None0 /\ ~r.mine
         /\ HoldIn(r)
<1>0. None0 \in Int
  BY ScrollBounds
<1>1. PICK p : p = ClearAnchor(s, x)
  OBVIOUS
<1>2. /\ p \in ScrollStates /\ SameRest(s, p) /\ SameReader(s, p) /\ p.paused = s.paused /\ Fits(p)
  BY <1>1, ClearGives
<1>3. PICK a : a = [p EXCEPT !.mode = "anchored", !.returning = FALSE, !.show = FALSE]
  OBVIOUS
<1>4. a \in ScrollStates
  BY <1>2, <1>3, ZenonT(40) DEF ScrollStates
<1>5. SameRest(p, a) /\ SameReader(p, a) /\ a.paused = p.paused /\ a.mode = "anchored" /\ ~a.returning
  BY <1>2, <1>3 DEF ScrollStates, SameRest, SameReader
<1>6. PICK l \in Int : l = EffectiveHeight(a) - a.foot - a.ub
  BY <1>4, Measures, ScrollFields
<1>u. PICK u \in Int, v \in Int : u = a.ut /\ v = a.ub
  BY <1>4, ScrollFields
<1>7. PICK b : b = [a EXCEPT !.tail = l, !.at = u, !.ab = v]
  OBVIOUS
<1>v. l \in Int /\ u \in Int /\ v \in Int
  BY <1>6, <1>u
<1>8. b \in ScrollStates
  BY <1>4, <1>v, <1>7, ZenonT(40) DEF ScrollStates
<1>9. SameRest(a, b) /\ SameReader(a, b) /\ b.paused = a.paused /\ b.mode = "anchored" /\ ~b.returning
  BY <1>4, <1>5, <1>7 DEF ScrollStates, SameRest, SameReader
<1>10. PICK t \in Nat : t = AnchorTop(b)
  BY <1>8, AnchorTops
<1>11. PICK n \in Nat : n = ReserveFor(b, t)
  BY <1>8, AnchorTops
<1>12. PICK q : q = SetReserve(b, n)
  OBVIOUS
<1>13. q \in ScrollStates /\ Fits(q) /\ Same(b, q)
  BY <1>8, <1>12, SetReserveGives
<1>q. q.reserve = n
  BY <1>8, <1>12, SetReserveGives
<1>14. r = IF ~s.calm /\ q.top # t THEN StartLift(q, q.top, t) ELSE SetTop(q, t)
  <2>1. b = [a EXCEPT !.tail = EffectiveHeight(a) - a.foot - a.ub, !.at = a.ut, !.ab = a.ub]
    BY <1>6, <1>u, <1>7
  <2> QED
    BY <1>1, <1>3, <2>1, <1>10, <1>11, <1>12 DEF AnchorNewestTurn
<1>m. t <= MaxTop(q)
  <2>1. n = t + Port - b.foot /\ b.foot \in 1..2
    BY <1>8, <1>11, AnchorTops, ScrollFields
  <2>2. n + q.foot - Port <= MaxTop(q) /\ q.foot = b.foot /\ MaxTop(q) \in Nat
    BY <1>13, <1>q, Measures DEF Same, SameText
  <2> QED
    BY <2>1, <2>2, ScrollBounds
<1>15. /\ r \in ScrollStates /\ Fits(r) /\ Same(q, r) /\ r.goal = None0 /\ ~r.mine
       /\ r.top = t /\ r.lastSet = t
  <2>1. t \in Int /\ q.top \in Nat
    BY <1>13, ScrollFields
  <2>2. CASE r = SetTop(q, t)
    <3>1. 0 <= t
      BY <1>10
    <3>2. r \in ScrollStates /\ Fits(r) /\ Same(q, r) /\ r.goal = None0 /\ ~r.mine
      BY <2>1, <2>2, <1>13, SetTopGives
    <3>4. r.lastSet = r.top
      BY <2>1, <2>2, <1>13, SetTopGives
    <3>3. 0 <= t /\ t <= MaxTop(q) => r.top = t
      BY <2>1, <2>2, <1>13, SetTopGives
    <3> QED
      BY <3>1, <3>2, <3>3, <3>4, <1>m
  <2>3. CASE r = StartLift(q, q.top, t)
    <3>1. PICK y \in Nat : y = q.top
      BY <2>1
    <3>2. r = StartLift(q, y, t)
      BY <2>3, <3>1
    <3>3. Lifted(q, r, t)
      BY <3>2, <1>13, LiftGives, Zenon
    <3> QED
      BY <3>3, <1>m, Zenon DEF Lifted
  <2> QED
    BY <2>2, <2>3, <1>14
<1>16. SameRest(s, r) /\ SameReader(s, r) /\ r.paused = s.paused /\ r.mode = "anchored" /\ ~r.returning
  BY <1>2, <1>5, <1>9, <1>13, <1>15 DEF Same, SameMode, SameRest, SameReader
<1>17. HoldIn(r)
  <2>1. AnchorTop(r) = AnchorTop(b)
    BY <1>13, <1>15, AnchorTopSame DEF Same, SameMode, SameText
  <2> QED
    BY <1>10, <1>15, <2>1 DEF HoldIn
<1> QED
  BY <1>15, <1>16, <1>17

(* What is under way stays as it is.                                        *)
SameMotion(s, r) == r.lift = s.lift /\ r.goal = s.goal /\ r.mine = s.mine /\ r.ev = s.ev
SamePlace0(s, r) == r.top = s.top /\ r.reserve = s.reserve /\ r.lastSet = s.lastSet

LEMMA SyncedGives ==
  ASSUME NEW s \in ScrollStates, NEW r, r = Synced(s)
  PROVE  /\ r \in ScrollStates /\ SameText(s, r) /\ SameMode(s, r) /\ SameRest(s, r) /\ SameReader(s, r)
         /\ SameMotion(s, r) /\ SamePlace0(s, r) /\ r.prev = s.prev
         /\ r.unread = s.unread /\ r.show = IsScrolledFromBottom(r)
<1>1. PICK b \in BOOLEAN : b = IsScrolledFromBottom(s)
  <2>1. IsScrolledFromBottom(s) = TRUE \/ IsScrolledFromBottom(s) = FALSE
    <3>1. PICK d \in Int : d = DistanceFromBottom(s)
      BY Measures
    <3>2. (d > Far) \in BOOLEAN
      BY <3>1, ScrollBounds
    <3>3. IsScrolledFromBottom(s) = (d > Far)
      BY <3>1, Zenon DEF IsScrolledFromBottom
    <3> QED
      BY <3>2, <3>3, Zenon
  <2> QED
    BY <2>1, Zenon
<1>2. r = [s EXCEPT !.show = b, !.late = FALSE]
  BY <1>1 DEF Synced
<1>3. r \in ScrollStates
  BY <1>2, ZenonT(40) DEF ScrollStates
<1>4. SameText(s, r) /\ SameMode(s, r)
  BY <1>2 DEF ScrollStates, SameText, SameMode
<1>5. SameRest(s, r) /\ SameReader(s, r)
  BY <1>2 DEF ScrollStates, SameRest, SameReader
<1>6. SameMotion(s, r) /\ SamePlace0(s, r)
  BY <1>2 DEF ScrollStates, SameMotion, SamePlace0
<1>7. r.unread = s.unread /\ r.show = b /\ r.prev = s.prev
  BY <1>2 DEF ScrollStates
<1>8. IsScrolledFromBottom(r) = IsScrolledFromBottom(s)
  BY <1>4, <1>6, MeasuredSame DEF SamePlace0
<1> QED
  BY <1>1, <1>3, <1>4, <1>5, <1>6, <1>7, <1>8

LEMMA FlagsTyped ==
  ASSUME NEW s \in ScrollStates, NEW a \in BOOLEAN, NEW b \in BOOLEAN, NEW c \in BOOLEAN
  PROVE  [s EXCEPT !.show = a, !.late = b, !.unread = c] \in ScrollStates
  BY ZenonT(40) DEF ScrollStates

LEMMA FitsKept == ASSUME NEW s, NEW r, SameText(s, r), r.top = s.top, r.reserve = s.reserve
                  PROVE  Fits(r) = Fits(s) /\ NoBlank(r) = NoBlank(s)
  BY MeasuredSame DEF Fits, NoBlank, SameText

LEMMA ModesKept ==
  ASSUME NEW s, NEW r, SameMode(s, r), SameMotion(s, r)
  PROVE  ModesIn(r) = ModesIn(s)
  BY DEF ModesIn, SameMode, SameMotion

(* The bottom is followed.                                                  *)
LEMMA FollowedGives ==
  ASSUME NEW s \in ScrollStates, NEW p, p = ReleaseReserve(SetTop(s, EffectiveHeight(s)))
  PROVE  /\ p \in ScrollStates /\ Fits(p) /\ Same(s, p) /\ Reported(s, p) /\ DistanceFromBottom(p) <= 0
         /\ p.lift = s.lift /\ p.goal = None0 /\ ~p.mine /\ (p.ev \/ NoBlank(p))
<1>1. PICK e \in Nat : e = EffectiveHeight(s)
  BY Measures
<1>2. PICK q : q = SetTop(s, e)
  OBVIOUS
<1>3. /\ q \in ScrollStates /\ Fits(q) /\ Same(s, q) /\ Reported(s, q) /\ q.lift = s.lift
      /\ q.goal = None0 /\ ~q.mine /\ DistanceFromBottom(q) <= 0
  <2>1. e \in Int /\ EffectiveHeight(s) - Port <= e
    BY <1>1, ScrollBounds
  <2> QED
    BY <1>2, <2>1, SetTopGives
<1>4. /\ p \in ScrollStates /\ Fits(p) /\ Same(q, p) /\ Reported(q, p)
      /\ p.lift = q.lift /\ p.goal = q.goal /\ p.mine = q.mine
      /\ (p.top = q.top \/ DistanceFromBottom(p) <= 0) /\ (p.ev \/ NoBlank(p))
  BY <1>1, <1>2, <1>3, ReleaseGives
<1>5. DistanceFromBottom(p) <= 0
  BY <1>3, <1>4, MeasuredSame DEF Same
<1>6. Same(s, p)
  BY <1>3, <1>4 DEF Same, SameText, SameMode, SameShow, SameRest, SameReader
<1>7. Reported(s, p)
  BY <1>3, <1>4 DEF Reported
<1> QED
  BY <1>3, <1>4, <1>5, <1>6, <1>7

(* A held question, where everything was decided anew.                      *)
LEMMA HeldSound ==
  ASSUME NEW s \in ScrollStates, ModesIn(s), s.mode = "anchored", NEW h, Held(s, h),
         NEW r, r = IF h.lift = None0 THEN Synced(h) ELSE h
  PROVE  ScrollIn(r) /\ r.mode = "anchored" /\ SameRest(s, r) /\ SameReader(s, r) /\ r.returning = s.returning
<1>1. /\ h \in ScrollStates /\ Fits(h) /\ Same(s, h) /\ Reported(s, h) /\ (h.lift = None0 => NoBlank(h))
      /\ h.goal \in {s.goal, None0} /\ (h.mine => s.mine)
  BY DEF Held
<1>2. h.mode = "anchored" /\ h.returning = s.returning /\ SameRest(s, h) /\ SameReader(s, h) /\ h.paused = s.paused
  BY <1>1 DEF Same, SameMode
<1>3. ModesIn(h)
  BY <1>1, <1>2 DEF ModesIn, Reported
<1>4. CASE h.lift = None0
  <2>1. r = Synced(h)
    BY <1>4
  <2>2. /\ r \in ScrollStates /\ SameText(h, r) /\ SameMode(h, r) /\ SameRest(h, r) /\ SameReader(h, r)
        /\ SameMotion(h, r) /\ SamePlace0(h, r)
        /\ r.show = IsScrolledFromBottom(r)
    BY <1>1, <2>1, SyncedGives
  <2>3. Fits(r) /\ NoBlank(r)
    BY <1>1, <1>4, <2>2, FitsKept DEF SamePlace0
  <2>4. ModesIn(r)
    BY <1>3, <2>2, ModesKept
  <2>5. r.mode = "anchored" /\ r.returning = s.returning /\ SameRest(s, r) /\ SameReader(s, r)
    BY <1>2, <2>2 DEF SameMode, SameRest, SameReader
  <2> QED
    BY <2>2, <2>3, <2>4, <2>5 DEF ScrollIn, ReturnIn, FollowIn, BlankIn
<1>5. CASE h.lift # None0
  BY <1>1, <1>2, <1>3, <1>5 DEF ScrollIn, ReturnIn, FollowIn, BlankIn
<1> QED
  BY <1>4, <1>5

(* After a render, whatever it changed.                                     *)
LEMMA SettledGives ==
  ASSUME NEW s \in ScrollStates, Fits(s), ModesIn(s), s.mode = "free" => BlankIn(s),
         NEW x, s.lift # None0 => x \in Nat, NEW r, r = Settled(s, x)
  PROVE  ScrollIn(r) /\ r.mode = s.mode /\ SameRest(s, r) /\ SameReader(s, r)
<1>0. s.mode \in {"bottom", "anchored", "free"}
  BY ScrollFields
<1>1. CASE s.mode = "anchored"
  <2>1. PICK h : h = HoldAnchor(s, x)
    OBVIOUS
  <2>2. Held(s, h)
    BY <2>1, HoldGives
  <2>3. r = IF h.lift = None0 THEN Synced(h) ELSE h
    BY <1>1, <2>1 DEF Settled
  <2> QED
    BY <1>1, <2>2, <2>3, HeldSound
<1>2. CASE s.mode = "bottom"
  <2>1. PICK p : p = ReleaseReserve(SetTop(s, EffectiveHeight(s)))
    OBVIOUS
  <2>2. r = [p EXCEPT !.show = FALSE, !.late = FALSE, !.unread = FALSE]
    BY <1>2, <2>1 DEF Settled
  <2>3. /\ p \in ScrollStates /\ Fits(p) /\ Same(s, p) /\ DistanceFromBottom(p) <= 0
        /\ p.lift = s.lift /\ p.goal = None0 /\ ~p.mine /\ (p.ev \/ NoBlank(p))
    BY <2>1, FollowedGives
  <2>4. r \in ScrollStates
    <3>1. [p EXCEPT !.show = FALSE, !.late = FALSE, !.unread = FALSE] \in ScrollStates
      BY <2>3, FlagsTyped
    <3> QED
      BY <2>2, <3>1
  <2>5. SameText(p, r) /\ SameMode(p, r)
    BY <2>2, <2>3 DEF ScrollStates, SameText, SameMode
  <2>6. SameRest(p, r) /\ SameReader(p, r)
    BY <2>2, <2>3 DEF ScrollStates, SameRest, SameReader
  <2>7. SameMotion(p, r) /\ SamePlace0(p, r)
    BY <2>2, <2>3 DEF ScrollStates, SameMotion, SamePlace0
  <2>8. r.show = FALSE
    BY <2>2, <2>3 DEF ScrollStates
  <2>9. DistanceFromBottom(r) <= 0
    BY <2>3, <2>5, <2>7, MeasuredSame DEF SamePlace0
  <2>10. IsNearBottom(r) /\ IsScrolledFromBottom(r) = FALSE
    BY <2>4, <2>9, AtTheEnd
  <2>11. Fits(r) /\ (r.ev \/ NoBlank(r))
    BY <2>3, <2>5, <2>7, FitsKept DEF SamePlace0, SameMotion
  <2>12. r.mode = s.mode /\ SameRest(s, r) /\ SameReader(s, r) /\ r.lift = s.lift /\ r.paused = s.paused
    BY <2>3, <2>5, <2>6, <2>7 DEF Same, SameMode, SameRest, SameReader, SameMotion
  <2>13. ModesIn(r)
    BY <1>2, <2>3, <2>7, <2>12 DEF ModesIn, SameMotion
  <2> QED
    BY <1>2, <2>4, <2>8, <2>10, <2>11, <2>12, <2>13, Zenon DEF ScrollIn, ReturnIn, FollowIn, BlankIn
<1>3. CASE s.mode = "free" /\ s.returning
  <2>1. r = s
    BY <1>3 DEF Settled
  <2> QED
    BY <1>3, <2>1 DEF ScrollIn, ReturnIn, FollowIn, SameRest, SameReader
<1>4. CASE s.mode = "free" /\ ~s.returning
  <2>1. r = Synced(s)
    BY <1>4 DEF Settled
  <2>2. /\ r \in ScrollStates /\ SameText(s, r) /\ SameMode(s, r) /\ SameRest(s, r) /\ SameReader(s, r)
        /\ SameMotion(s, r) /\ SamePlace0(s, r)
        /\ r.unread = s.unread /\ r.show = IsScrolledFromBottom(r)
    BY <2>1, SyncedGives
  <2>3. Fits(r) /\ NoBlank(r) = NoBlank(s)
    BY <2>2, FitsKept DEF SamePlace0
  <2>4. ModesIn(r)
    BY <2>2, ModesKept
  <2>5. r.mode = s.mode
    BY <2>2 DEF SameMode
  <2>6. BlankIn(r)
    BY <1>4, <2>2, <2>3, <2>5 DEF BlankIn, AsSet, SameMotion
  <2> QED
    BY <1>4, <2>2, <2>3, <2>4, <2>5, <2>6 DEF ScrollIn, ReturnIn, FollowIn
<1> QED
  BY <1>0, <1>1, <1>2, <1>3, <1>4

(* A step that leaves the position and what is under way alone.             *)
LEMMA ScrollKept ==
  ASSUME NEW s, ScrollIn(s), NEW r \in ScrollStates, SameText(s, r), SameShow(s, r), SameMotion(s, r),
         SamePlace0(s, r), r.mode = s.mode, r.returning = s.returning, r.paused => s.paused
  PROVE  ScrollIn(r)
<1>1. Fits(r) = Fits(s) /\ NoBlank(r) = NoBlank(s)
  BY FitsKept DEF SamePlace0
<1>2. IsNearBottom(r) = IsNearBottom(s) /\ IsScrolledFromBottom(r) = IsScrolledFromBottom(s)
  BY MeasuredSame DEF SamePlace0
<1>3. ModesIn(r)
  BY DEF ScrollIn, ModesIn, SameMotion
<1>4. ReturnIn(r)
  BY <1>2 DEF ScrollIn, ReturnIn, SameMotion, SameShow
<1>5. FollowIn(r)
  BY <1>2 DEF ScrollIn, FollowIn, AsSet, SameMotion, SameShow, SamePlace0
<1>6. BlankIn(r)
  BY <1>1, Zenon DEF ScrollIn, BlankIn, AsSet, SameMotion, SameShow, SamePlace0
<1> QED
  BY <1>1, <1>3, <1>4, <1>5, <1>6, Zenon DEF ScrollIn

(* What a render starts from, once the browser has clamped the position.    *)
LEMMA Rendered ==
  ASSUME NEW s, ScrollIn(s), NEW q \in ScrollStates, SameMode(s, q), SameMotion(s, q), SamePlace0(s, q),
         q.foot = s.foot, SameShow(s, q), NEW r, r = Clamped(q)
  PROVE  /\ r \in ScrollStates /\ Fits(r) /\ ModesIn(r) /\ (r.mode = "free" => BlankIn(r))
         /\ r.paused = s.paused /\ r.mode = s.mode
<1>1. /\ r \in ScrollStates /\ Fits(r) /\ Same(q, r) /\ Reported(q, r)
      /\ r.reserve = q.reserve /\ r.lift = q.lift /\ r.goal = q.goal /\ r.mine = q.mine
  BY ClampedGives
<1>2. r.mode = s.mode /\ r.paused = s.paused /\ r.returning = s.returning /\ r.foot = s.foot /\ r.unread = s.unread
  BY <1>1 DEF Same, SameText, SameMode, SameShow
<1>3. r.reserve = s.reserve /\ r.lift = s.lift /\ r.goal = s.goal /\ r.mine = s.mine
  BY <1>1 DEF SameMotion, SamePlace0
<1>4. (s.ev => r.ev) /\ (r.ev \/ r.top = s.top)
  BY <1>1 DEF Reported, SameMotion, SamePlace0
<1>5. ModesIn(r)
  BY <1>2, <1>3, <1>4 DEF ScrollIn, ModesIn
<1>6. r.mode = "free" => BlankIn(r)
  BY <1>2, <1>3, <1>4 DEF ScrollIn, BlankIn, NoBlank
<1> QED
  BY <1>1, <1>2, <1>5, <1>6

(* What keeps the reader's own position, step by step.                      *)
LEMMA ReadKept ==
  ASSUME NEW s, NEW r, ReadIn(s), SameMotion(s, r), r.top = s.top, r.lastSet = s.lastSet,
         r.prev = s.prev, r.foot = s.foot, r.mode = s.mode, r.tail = s.tail, r.at = s.at, r.ab = s.ab,
         r.returning = s.returning, r.paused => s.paused, r.unread = s.unread, r.away => s.away
  PROVE  ReadIn(r)
<1>1. AnchorTop(r) = AnchorTop(s)
  BY AnchorTopSame
<1> QED
  BY <1>1 DEF ReadIn, AwayIn, HoldIn, SameMotion

LEMMA AwayDrops ==
  ASSUME NEW s \in ScrollStates, NEW r \in ScrollStates, AwayIn(s), r.mode = s.mode, r.returning = s.returning,
         r.paused => s.paused, r.away => s.away, r.goal = s.goal, r.prev = s.prev,
         r.top <= s.top, r.ev => s.ev \/ r.top < s.top
  PROVE  AwayIn(r)
<1>1. s.top \in Nat /\ r.top \in Nat /\ s.prev \in Int
  BY ScrollFields
<1> QED
  BY <1>1 DEF AwayIn

LEMMA AnchoredReads ==
  ASSUME NEW r, ModesIn(r), HoldIn(r), r.mode = "anchored", ~r.away
  PROVE  ReadIn(r)
  BY DEF ReadIn, AwayIn, ModesIn

LEMMA HoldReads ==
  ASSUME NEW s \in ScrollStates, Fits(s), s.mode = "anchored", ~s.unread => s.lastSet = AnchorTop(s),
         NEW x, s.lift # None0 => x \in Nat, NEW r, r = HoldAnchor(s, x)
  PROVE  HoldIn(r) /\ r.mode = "anchored" /\ SameReader(s, r)
<1>1. /\ Same(s, r) /\ (r.lift = None0) = (s.lift = None0) /\ r.lastSet \in {s.lastSet, AnchorTop(s)}
      /\ s.lift = None0 => r.top = AnchorTop(s)
  BY HoldGives DEF Held
<1>2. AnchorTop(r) = AnchorTop(s)
  BY <1>1, AnchorTopSame DEF Same, SameMode, SameText
<1> QED
  BY <1>1, <1>2 DEF HoldIn, Same, SameMode, SameShow

LEMMA SyncedReads ==
  ASSUME NEW s \in ScrollStates, NEW r, r = Synced(s)
  PROVE  /\ HoldIn(s) => HoldIn(r)
         /\ ReadIn(s) => ReadIn(r)
         /\ r.mode = s.mode /\ SameReader(s, r) /\ r.top = s.top
<1>1. /\ SameText(s, r) /\ SameMode(s, r) /\ SameReader(s, r) /\ SameMotion(s, r) /\ SamePlace0(s, r)
      /\ r.prev = s.prev /\ r.unread = s.unread
  BY SyncedGives
<1>2. AnchorTop(r) = AnchorTop(s)
  BY <1>1, AnchorTopSame DEF SameMode, SameText
<1> QED
  BY <1>1, <1>2 DEF ReadIn, AwayIn, HoldIn, SameMode, SameMotion, SamePlace0, SameReader

LEMMA SettledReads ==
  ASSUME NEW s \in ScrollStates, Fits(s), ModesIn(s), AwayIn(s),
         s.mode = "anchored" /\ ~s.unread => s.lastSet = AnchorTop(s),
         NEW x, s.lift # None0 => x \in Nat, NEW r, r = Settled(s, x)
  PROVE  ReadIn(r) /\ r.mode = s.mode /\ SameReader(s, r) /\ (r.away => r.top = s.top)
<1>0. s.mode \in {"bottom", "anchored", "free"}
  BY ScrollFields
<1>1. CASE s.mode = "anchored"
  <2>1. PICK h : h = HoldAnchor(s, x)
    OBVIOUS
  <2>2. HoldIn(h) /\ h.mode = "anchored" /\ SameReader(s, h)
    BY <1>1, <2>1, HoldReads
  <2>3. h \in ScrollStates /\ h.paused = s.paused
    BY <2>1, HoldGives DEF Held, Same, SameMode
  <2>4. ~s.away /\ ~s.paused
    BY <1>1 DEF AwayIn, ModesIn
  <2>5. ReadIn(h)
    BY <2>2, <2>3, <2>4 DEF ReadIn, AwayIn, SameReader
  <2>6. r = IF h.lift = None0 THEN Synced(h) ELSE h
    BY <1>1, <2>1 DEF Settled
  <2>7. ReadIn(r) /\ r.mode = h.mode /\ SameReader(h, r)
    BY <2>3, <2>5, <2>6, SyncedReads DEF SameReader
  <2> QED
    BY <1>1, <2>2, <2>4, <2>7 DEF SameReader
<1>2. CASE s.mode = "bottom"
  <2>1. PICK p : p = ReleaseReserve(SetTop(s, EffectiveHeight(s)))
    OBVIOUS
  <2>2. r = [p EXCEPT !.show = FALSE, !.late = FALSE, !.unread = FALSE]
    BY <1>2, <2>1 DEF Settled
  <2>3. p \in ScrollStates /\ Same(s, p)
    BY <2>1, FollowedGives
  <2>4. r.mode = p.mode /\ r.paused = p.paused
    BY <2>2, <2>3 DEF ScrollStates
  <2>5. SameReader(p, r)
    BY <2>2, <2>3 DEF ScrollStates, SameReader
  <2>6. ~s.away /\ ~s.paused
    BY <1>2 DEF AwayIn, ModesIn
  <2>7. r.mode = s.mode /\ r.paused = s.paused /\ SameReader(s, r)
    BY <2>3, <2>4, <2>5 DEF Same, SameMode, SameReader
  <2> QED
    BY <1>2, <2>6, <2>7 DEF ReadIn, AwayIn, HoldIn, SameReader
<1>3. CASE s.mode = "free"
  <2>1. r = IF s.returning THEN s ELSE Synced(s)
    BY <1>3 DEF Settled
  <2>2. ReadIn(s)
    BY <1>3 DEF ReadIn, HoldIn
  <2> QED
    BY <2>1, <2>2, SyncedReads DEF SameReader
<1> QED
  BY <1>0, <1>1, <1>2, <1>3

LEMMA ScreenNat ==
  ASSUME NEW s \in ScrollStates, NEW x \in OnScreen(s)
  PROVE  x \in Nat
<1>1. s.top \in Nat /\ s.lift \in Nat \cup {None0}
  BY ScrollFields
<1>2. CASE s.lift = None0
  BY <1>1, <1>2 DEF OnScreen
<1>3. CASE s.lift # None0
  <2>1. s.lift \in Nat
    BY <1>1, <1>3
  <2>2. Smaller(s.lift, s.top) \in Nat /\ Larger(s.lift, s.top) \in Nat
    BY <2>1, <1>1 DEF Smaller, Larger
  <2>3. x \in Smaller(s.lift, s.top)..Larger(s.lift, s.top)
    BY <1>3 DEF OnScreen
  <2> QED
    BY <2>2, <2>3
<1> QED
  BY <1>2, <1>3

LEMMA DeltaStep == ASSUME ScrollIn(ts), ReadIn(ts), RenderDelta PROVE ScrollIn(ts') /\ ReadStep(ts, ts')
<1>1. ts \in ScrollStates /\ Fits(ts)
  BY DEF ScrollIn
<1>2. PICK x \in OnScreen(ts) : ts' = Settled([ts EXCEPT !.end = @ + 1], x)
  BY DEF RenderDelta
<1>3. PICK e \in Int : e = ts.end + 1
  BY <1>1, ScrollFields
<1>4. PICK q : q = [ts EXCEPT !.end = e]
  BY Zenon
<1>5_1. q \in ScrollStates
  BY <1>1, <1>4, <1>3 DEF ScrollStates
<1>5_2. SameMode(ts, q) /\ SameShow(ts, q)
  BY <1>1, <1>4 DEF ScrollStates, SameMode, SameShow
<1>5_3. SameRest(ts, q) /\ SameReader(ts, q)
  BY <1>1, <1>4 DEF ScrollStates, SameRest, SameReader
<1>5_4. SameMotion(ts, q) /\ SamePlace0(ts, q)
  BY <1>1, <1>4 DEF ScrollStates, SameMotion, SamePlace0
<1>5_5. q.ut = ts.ut /\ q.ub = ts.ub /\ q.foot = ts.foot
  BY <1>1, <1>4 DEF ScrollStates
<1>5_6. q.end = e /\ q.prev = ts.prev
  BY <1>1, <1>4 DEF ScrollStates
<1>6. Fits(q)
  <2>1. ts.end \in Int /\ ts.foot \in 1..2 /\ ts.reserve \in Nat
    BY <1>1, ScrollFields
  <2>2. MaxTop(q) >= MaxTop(ts) /\ MaxTop(q) \in Nat /\ MaxTop(ts) \in Nat
    BY <2>1, <1>3, <1>5_1, <1>5_2, <1>5_3, <1>5_4, <1>5_5, <1>5_6, ScrollBounds DEF MaxTop, ScrollHeight, Larger, SamePlace0
  <2>3. ts.top \in Nat /\ q.top = ts.top
    BY <1>1, <1>5_1, <1>5_2, <1>5_3, <1>5_4, <1>5_5, <1>5_6, ScrollFields DEF SamePlace0
  <2> QED
    BY <1>1, <2>2, <2>3 DEF Fits
<1>7. Clamped(q) = q
  BY <1>6 DEF Clamped, Fits
<1>8. ModesIn(q) /\ (q.mode = "free" => BlankIn(q))
  BY <1>5_1, <1>5_2, <1>5_3, <1>5_4, <1>5_5, <1>5_6, <1>7, Rendered
<1>9. x \in Nat
  BY <1>1, <1>2, ScreenNat
<1>10. ts' = Settled(q, x)
  BY <1>2, <1>3, <1>4
<1>11. ReadIn(q)
  BY <1>5_2, <1>5_3, <1>5_4, <1>5_5, <1>5_6, ReadKept DEF SameMode, SameShow, SameReader, SamePlace0
<1>12. ReadIn(ts') /\ ts'.mode = q.mode /\ SameReader(q, ts') /\ (ts'.away => ts'.top = q.top)
  BY <1>5_1, <1>6, <1>8, <1>9, <1>10, <1>11, SettledReads DEF ReadIn, HoldIn
<1>13. ts'.mode = ts.mode /\ (ts'.away => ts'.top = ts.top)
  BY <1>12, <1>5_2, <1>5_4 DEF SameMode, SamePlace0
<1>14. ts.top \in Nat
  BY <1>1, ScrollFields
<1>15. ReadStep(ts, ts')
  BY <1>12, <1>13, <1>14 DEF ReadStep, Stays, Leaves
<1> QED
  BY <1>15, <1>5_1, <1>5_2, <1>5_3, <1>5_4, <1>5_5, <1>5_6, <1>6, <1>8, <1>9, <1>10, SettledGives

LEMMA TurnStep == ASSUME ScrollIn(ts), ReadIn(ts), NEW len \in {0, 1, 3}, RenderTurn(len) PROVE ScrollIn(ts') /\ ReadStep(ts, ts')
<1>1. ts \in ScrollStates
  BY DEF ScrollIn
<1>2. PICK a \in Int, b \in Int, c \in Int :
        /\ a = IF len = 0 THEN ts.ut ELSE ts.end
        /\ b = IF len = 0 THEN ts.ub ELSE ts.end + len
        /\ c = IF len = 0 THEN ts.ub + 1 ELSE ts.end + len + 1
  BY <1>1, ScrollFields
<1>3. PICK q : q = [ts EXCEPT !.ut = a, !.ub = b, !.end = c]
  OBVIOUS
<1>c. a \in Int /\ b \in Int /\ c \in Int
  BY <1>2
<1>4_1. q \in ScrollStates
  BY <1>1, <1>3, <1>c, ZenonT(40) DEF ScrollStates
<1>4_2. SameMode(ts, q) /\ SameShow(ts, q)
  BY <1>1, <1>3 DEF ScrollStates, SameMode, SameShow
<1>4_3. SameRest(ts, q) /\ SameReader(ts, q)
  BY <1>1, <1>3 DEF ScrollStates, SameRest, SameReader
<1>4_4. SameMotion(ts, q) /\ SamePlace0(ts, q)
  BY <1>1, <1>3 DEF ScrollStates, SameMotion, SamePlace0
<1>4_5. q.foot = ts.foot
  BY <1>1, <1>3 DEF ScrollStates
<1>4_6. q.ut = a /\ q.ub = b /\ q.end = c /\ q.prev = ts.prev
  BY <1>1, <1>3 DEF ScrollStates
<1>5. q = IF len = 0 THEN [ts EXCEPT !.end = ts.ub + 1]
          ELSE [ts EXCEPT !.ut = ts.end, !.ub = ts.end + len, !.end = ts.end + len + 1]
  BY <1>1, <1>2, <1>3, ZenonT(40) DEF ScrollStates
<1>6. PICK s : s = Clamped(q)
  OBVIOUS
<1>7. /\ s \in ScrollStates /\ Fits(s) /\ ModesIn(s) /\ (s.mode = "free" => BlankIn(s))
      /\ s.paused = ts.paused /\ s.mode = ts.mode
  BY <1>4_1, <1>4_2, <1>4_3, <1>4_4, <1>4_5, <1>4_6, <1>6, Rendered
<1>8. PICK x \in OnScreen(s) :
        ts' = IF s.armed /\ ~s.paused
              THEN LET a1 == AnchorNewestTurn([s EXCEPT !.armed = FALSE, !.away = FALSE], x) IN Settled(a1, a1.lift)
              ELSE Settled([s EXCEPT !.armed = FALSE], x)
  BY <1>5, <1>6 DEF RenderTurn
<1>s. /\ s.lift = ts.lift /\ s.goal = ts.goal /\ s.prev = ts.prev /\ s.lastSet = ts.lastSet /\ s.unread = ts.unread
      /\ s.returning = ts.returning /\ s.away = ts.away /\ s.reads = ts.reads
      /\ s.top <= ts.top /\ (s.ev => ts.ev \/ s.top < ts.top)
  <2>1. /\ Same(q, s) /\ s.lift = q.lift /\ s.goal = q.goal /\ s.prev = q.prev /\ s.lastSet = q.lastSet
        /\ s.top <= q.top /\ (s.ev => q.ev \/ s.top < q.top)
    BY <1>4_1, <1>6, ClampedGives
  <2> QED
    BY <2>1, <1>4_2, <1>4_3, <1>4_4, <1>4_6 DEF Same, SameMode, SameShow, SameReader, SameMotion, SamePlace0
<1>a. AwayIn(s)
  BY <1>1, <1>7, <1>s, AwayDrops DEF ReadIn
<1>h. s.mode = "anchored" /\ ~s.unread => s.lastSet = AnchorTop(s)
  <2>1. Same(q, s)
    BY <1>4_1, <1>6, ClampedGives
  <2>2. AnchorTop(s) = AnchorTop(ts)
    BY <2>1, <1>4_2, <1>4_5, AnchorTopSame DEF Same, SameMode, SameText
  <2> QED
    BY <2>2, <1>7, <1>s DEF ReadIn, HoldIn
<1>9. x \in Nat
  BY <1>7, <1>8, ScreenNat
<1>10. CASE s.armed /\ ~s.paused
  <2>1. PICK p : p = [s EXCEPT !.armed = FALSE, !.away = FALSE]
    OBVIOUS
  <2>2_1. p \in ScrollStates
    BY <1>7, <2>1, ZenonT(40) DEF ScrollStates
  <2>2_2. SameText(s, p) /\ SameMode(s, p)
    BY <1>7, <2>1 DEF ScrollStates, SameText, SameMode
  <2>2_3. SameShow(s, p) /\ SameMotion(s, p)
    BY <1>7, <2>1 DEF ScrollStates, SameShow, SameMotion
  <2>2_4. SamePlace0(s, p)
    BY <1>7, <2>1 DEF ScrollStates, SamePlace0
  <2>2_5. p.on = s.on /\ p.calm = s.calm /\ p.timer = s.timer
    BY <1>7, <2>1 DEF ScrollStates
  <2>2_6. p.reads = s.reads /\ p.resized = s.resized
    BY <1>7, <2>1 DEF ScrollStates
  <2>2_7. p.armed = FALSE /\ p.away = FALSE /\ p.prev = s.prev
    BY <1>7, <2>1 DEF ScrollStates
  <2>3. Fits(p)
    BY <1>7, <2>2_1, <2>2_2, <2>2_3, <2>2_4, <2>2_5, <2>2_6, <2>2_7, FitsKept DEF SamePlace0
  <2>4. PICK d : d = AnchorNewestTurn(p, x)
    OBVIOUS
  <2>5. /\ d \in ScrollStates /\ Fits(d) /\ d.mode = "anchored" /\ d.paused = p.paused /\ ~d.returning
        /\ d.goal = None0 /\ ~d.mine
    BY <2>2_1, <2>2_2, <2>2_3, <2>2_4, <2>2_5, <2>2_6, <2>2_7, <2>3, <2>4, <1>9, AnchorGives
  <2>6. ModesIn(d)
    BY <1>10, <2>5, <2>2_1, <2>2_2, <2>2_3, <2>2_4, <2>2_5, <2>2_6, <2>2_7 DEF ModesIn, SameMode
  <2>7. ts' = Settled(d, d.lift)
    BY <1>8, <1>10, <2>1, <2>4
  <2>8. d.lift # None0 => d.lift \in Nat
    BY <2>5, ScrollFields
  <2>9. HoldIn(d) /\ ~d.away /\ d.reads = ts.reads
    BY <2>2_1, <2>2_6, <2>2_7, <2>3, <2>4, <1>9, <1>s, AnchorGives DEF SameReader
  <2>10. ReadIn(d)
    BY <2>5, <2>6, <2>9, AnchoredReads
  <2>11. ReadIn(ts') /\ ts'.mode = d.mode /\ SameReader(d, ts')
    BY <2>5, <2>6, <2>7, <2>8, <2>10, SettledReads DEF ReadIn, HoldIn
  <2>12. ReadStep(ts, ts')
    BY <2>5, <2>9, <2>11 DEF ReadStep, Stays, Leaves, SameReader
  <2> QED
    BY <2>5, <2>6, <2>7, <2>8, <2>12, SettledGives
<1>11. CASE ~(s.armed /\ ~s.paused)
  <2>1. PICK p : p = [s EXCEPT !.armed = FALSE]
    BY Zenon
  <2>2_1. p \in ScrollStates
    BY <1>7, <2>1, ZenonT(40) DEF ScrollStates
  <2>2_2. SameText(s, p) /\ SameMode(s, p)
    BY <1>7, <2>1 DEF ScrollStates, SameText, SameMode
  <2>2_3. SameShow(s, p) /\ SameReader(s, p)
    BY <1>7, <2>1 DEF ScrollStates, SameShow, SameReader
  <2>2_4. SameMotion(s, p) /\ SamePlace0(s, p)
    BY <1>7, <2>1 DEF ScrollStates, SameMotion, SamePlace0
  <2>2_5. p.on = s.on /\ p.calm = s.calm /\ p.timer = s.timer
    BY <1>7, <2>1 DEF ScrollStates
  <2>2_6. p.armed = FALSE /\ p.prev = s.prev
    BY <1>7, <2>1 DEF ScrollStates
  <2>3. Fits(p) /\ NoBlank(p) = NoBlank(s)
    BY <1>7, <2>2_1, <2>2_2, <2>2_3, <2>2_4, <2>2_5, <2>2_6, FitsKept DEF SamePlace0
  <2>4. ModesIn(p)
    BY <1>7, <2>2_1, <2>2_2, <2>2_3, <2>2_4, <2>2_5, <2>2_6, ModesKept
  <2>5. p.mode = "free" => BlankIn(p)
    BY <1>7, <2>3, <2>2_1, <2>2_2, <2>2_3, <2>2_4, <2>2_5, <2>2_6 DEF BlankIn, AsSet, SameMode, SameMotion, SamePlace0, SameShow
  <2>6. ts' = Settled(p, x)
    BY <1>8, <1>11, <2>1
  <2>7. AwayIn(p)
    BY <1>a, <2>2_2, <2>2_3, <2>2_4, <2>2_6 DEF AwayIn, SameMode, SameReader, SameMotion, SamePlace0
  <2>8. p.mode = "anchored" /\ ~p.unread => p.lastSet = AnchorTop(p)
    <3>1. AnchorTop(p) = AnchorTop(s)
      BY <2>2_2, AnchorTopSame DEF SameMode, SameText
    <3> QED
      BY <1>h, <3>1, <2>2_2, <2>2_3, <2>2_4 DEF SameMode, SameShow, SamePlace0
  <2>9. ReadIn(ts') /\ ts'.mode = p.mode /\ SameReader(p, ts') /\ (ts'.away => ts'.top = p.top)
    BY <2>2_1, <2>3, <2>4, <2>6, <2>7, <2>8, <1>9, SettledReads
  <2>10. ts'.mode = ts.mode /\ (ts'.away => ts'.top <= ts.top)
    BY <1>7, <1>s, <2>9, <2>2_2, <2>2_4 DEF SameMode, SamePlace0
  <2>11. ReadStep(ts, ts')
    BY <2>9, <2>10 DEF ReadStep, Stays, Leaves
  <2> QED
    BY <2>11, <2>2_1, <2>2_2, <2>2_3, <2>2_4, <2>2_5, <2>2_6, <2>3, <2>4, <2>5, <2>6, <1>9, SettledGives
<1> QED
  BY <1>10, <1>11

LEMMA EnterStep ==
  ASSUME ScrollIn(ts), ReadIn(ts), NEW long \in BOOLEAN, NEW made \in BOOLEAN, EnterThread(long, made)
  PROVE  ScrollIn(ts') /\ ReadStep(ts, ts')
<1>1. ts \in ScrollStates /\ Fits(ts) /\ ModesIn(ts)
  BY DEF ScrollIn
<1>2. PICK n \in Int : n = ts.reads + 1
  BY <1>1, ScrollFields
<1>3. PICK s : s = [ts EXCEPT !.reads = n, !.away = FALSE]
  OBVIOUS
<1>4_1. s \in ScrollStates
  BY <1>1, <1>3, <1>2, ZenonT(40) DEF ScrollStates
<1>4_2. SameText(ts, s) /\ SameMode(ts, s)
  BY <1>1, <1>3 DEF ScrollStates, SameText, SameMode
<1>4_3. SameShow(ts, s) /\ SameRest(ts, s)
  BY <1>1, <1>3 DEF ScrollStates, SameShow, SameRest
<1>4_4. SameMotion(ts, s) /\ SamePlace0(ts, s)
  BY <1>1, <1>3 DEF ScrollStates, SameMotion, SamePlace0
<1>4_5. s.resized = ts.resized
  BY <1>1, <1>3 DEF ScrollStates
<1>4_6. s.reads = n /\ s.away = FALSE /\ s.prev = ts.prev
  BY <1>1, <1>3 DEF ScrollStates
<1>5. PICK e : e = IF long THEN MaxEnd - 2 ELSE 2
  OBVIOUS
<1>6. e \in Int
  BY <1>5, ScrollAssumption
<1>7. PICK q : q = [s EXCEPT !.ut = 0, !.ub = 1, !.end = e]
  OBVIOUS
<1>z. 0 \in Int /\ 1 \in Int
  OBVIOUS
<1>8_1. q \in ScrollStates
  BY <1>4_1, <1>7, <1>6, <1>z, ZenonT(40) DEF ScrollStates
<1>8_2. SameMode(s, q) /\ SameShow(s, q)
  BY <1>4_1, <1>7 DEF ScrollStates, SameMode, SameShow
<1>8_3. SameRest(s, q) /\ SameReader(s, q)
  BY <1>4_1, <1>7 DEF ScrollStates, SameRest, SameReader
<1>8_4. SameMotion(s, q) /\ SamePlace0(s, q)
  BY <1>4_1, <1>7 DEF ScrollStates, SameMotion, SamePlace0
<1>8_5. q.foot = s.foot
  BY <1>4_1, <1>7 DEF ScrollStates
<1>8_6. q.ut = 0 /\ q.ub = 1 /\ q.end = e /\ q.prev = s.prev
  BY <1>4_1, <1>7 DEF ScrollStates
<1>9. PICK c : c = ClearAnchor(q, q.top)
  OBVIOUS
<1>10. q.top \in Nat
  BY <1>8_1, <1>8_2, <1>8_3, <1>8_4, <1>8_5, <1>8_6, ScrollFields
<1>11. /\ c \in ScrollStates /\ c.mode = q.mode /\ c.paused = q.paused /\ c.reserve = q.reserve
       /\ Reported(q, c) /\ c.lift = None0 /\ (c.mine => q.mine)
       /\ SameReader(q, c) /\ c.returning = q.returning
  <2>1. PICK x : x \in Nat /\ x = q.top
    BY <1>10
  <2>2. c = ClearAnchor(q, x)
    BY <1>9, <2>1
  <2> QED
    BY <1>8_1, <2>1, <2>2, ClearGives
<1>12. PICK d : d = [c EXCEPT !.armed = FALSE]
  BY Zenon
<1>13_1. d \in ScrollStates
  BY <1>11, <1>12, ZenonT(40) DEF ScrollStates
<1>13_2. SameText(c, d) /\ SameMode(c, d)
  BY <1>11, <1>12 DEF ScrollStates, SameText, SameMode
<1>13_3. SameShow(c, d) /\ SameReader(c, d)
  BY <1>11, <1>12 DEF ScrollStates, SameShow, SameReader
<1>13_4. SameMotion(c, d) /\ SamePlace0(c, d)
  BY <1>11, <1>12 DEF ScrollStates, SameMotion, SamePlace0
<1>13_5. d.on = c.on /\ d.calm = c.calm /\ d.timer = c.timer
  BY <1>11, <1>12 DEF ScrollStates
<1>13_6. d.armed = FALSE /\ d.prev = c.prev
  BY <1>11, <1>12 DEF ScrollStates
<1>14. PICK l : l = SetReserve(d, 0)
  OBVIOUS
<1>15. /\ l \in ScrollStates /\ Fits(l) /\ Same(d, l) /\ Reported(d, l)
       /\ l.reserve = 0 /\ l.lift = d.lift /\ l.mine = d.mine
  <2>1. 0 \in Nat
    OBVIOUS
  <2> QED
    BY <1>13_1, <1>13_2, <1>13_3, <1>13_4, <1>13_5, <1>13_6, <1>14, <2>1, SetReserveGives
<1>16. l.mode = ts.mode /\ l.paused = ts.paused /\ l.lift = None0
  BY <1>15, <1>11, <1>13_1, <1>13_2, <1>13_3, <1>13_4, <1>13_5, <1>13_6, <1>8_1, <1>8_2, <1>8_3, <1>8_4, <1>8_5, <1>8_6, <1>4_1, <1>4_2, <1>4_3, <1>4_4, <1>4_5, <1>4_6 DEF Same, SameMode, SameMotion
<1>17. l.mine => l.ev
  <2>1. l.mine => ts.mine
    BY <1>15, <1>11, <1>13_1, <1>13_2, <1>13_3, <1>13_4, <1>13_5, <1>13_6, <1>8_1, <1>8_2, <1>8_3, <1>8_4, <1>8_5, <1>8_6, <1>4_1, <1>4_2, <1>4_3, <1>4_4, <1>4_5, <1>4_6 DEF SameMotion
  <2>2. ts.ev => l.ev
    BY <1>15, <1>11, <1>13_1, <1>13_2, <1>13_3, <1>13_4, <1>13_5, <1>13_6, <1>8_1, <1>8_2, <1>8_3, <1>8_4, <1>8_5, <1>8_6, <1>4_1, <1>4_2, <1>4_3, <1>4_4, <1>4_5, <1>4_6, Zenon DEF Reported, SameMotion
  <2> QED
    BY <2>1, <2>2, <1>1 DEF ModesIn
<1>18. PICK x \in OnScreen(s) :
         ts' = IF made /\ ts.mode = "anchored" THEN Settled(s, x)
               ELSE Settled(IF ~ts.paused THEN [l EXCEPT !.mode = "bottom", !.returning = FALSE]
                            ELSE [l EXCEPT !.mode = IF @ = "anchored" THEN "free" ELSE @], l.top)
  BY <1>2, <1>3, <1>5, <1>7, <1>9, <1>12, <1>14 DEF EnterThread
<1>19. x \in Nat /\ l.top \in Nat /\ l.foot \in 1..2
  BY <1>15, <1>18, <1>4_1, <1>4_2, <1>4_3, <1>4_4, <1>4_5, <1>4_6, ScreenNat, ScrollFields
<1>r. s.reads # ts.reads
  BY <1>1, <1>2, <1>4_6, ScrollFields
<1>l. ~l.away /\ l.reads = s.reads /\ l.returning = ts.returning
  BY <1>15, <1>11, <1>13_2, <1>13_3, <1>8_2, <1>8_3, <1>4_2, <1>4_6 DEF Same, SameMode, SameReader
<1>20. CASE made /\ ts.mode = "anchored"
  <2>1. ts' = Settled(s, x)
    BY <1>18, <1>20, Zenon
  <2>2. Fits(s)
    BY <1>1, <1>4_1, <1>4_2, <1>4_3, <1>4_4, <1>4_5, <1>4_6, FitsKept DEF SamePlace0
  <2>3. ModesIn(s)
    BY <1>1, <1>4_1, <1>4_2, <1>4_3, <1>4_4, <1>4_5, <1>4_6, ModesKept
  <2>4. s.mode = "anchored"
    BY <1>20, <1>4_1, <1>4_2, <1>4_3, <1>4_4, <1>4_5, <1>4_6, Zenon DEF SameMode
  <2>5. ReadIn(s)
    BY <1>4_2, <1>4_3, <1>4_4, <1>4_6, ReadKept DEF SameText, SameMode, SameShow, SamePlace0
  <2>6. ReadIn(ts') /\ SameReader(s, ts')
    BY <1>4_1, <2>1, <2>2, <2>3, <2>5, <1>19, SettledReads DEF ReadIn, HoldIn
  <2>7. ReadStep(ts, ts')
    BY <2>6, <1>r DEF ReadStep, Stays, Leaves, SameReader
  <2> QED
    BY <2>7, <1>4_1, <1>4_2, <1>4_3, <1>4_4, <1>4_5, <1>4_6, <2>1, <2>2, <2>3, <2>4, <1>19, SettledGives
<1>21. CASE ~(made /\ ts.mode = "anchored") /\ ~ts.paused
  <2>1. PICK p : p = [l EXCEPT !.mode = "bottom", !.returning = FALSE]
    OBVIOUS
  <2>2. ts' = Settled(p, l.top)
    BY <1>18, <1>21, <2>1
  <2>3_1. p \in ScrollStates
    BY <1>15, <2>1, ZenonT(40) DEF ScrollStates
  <2>3_2. SameText(l, p) /\ SameShow(l, p)
    BY <1>15, <2>1 DEF ScrollStates, SameText, SameShow
  <2>3_3. SameRest(l, p) /\ SameReader(l, p)
    BY <1>15, <2>1 DEF ScrollStates, SameRest, SameReader
  <2>3_4. SameMotion(l, p) /\ SamePlace0(l, p)
    BY <1>15, <2>1 DEF ScrollStates, SameMotion, SamePlace0
  <2>3_5. p.tail = l.tail /\ p.paused = l.paused
    BY <1>15, <2>1 DEF ScrollStates
  <2>3_6. p.mode = "bottom" /\ p.returning = FALSE /\ p.prev = l.prev
    BY <1>15, <2>1 DEF ScrollStates
  <2>4. Fits(p)
    BY <1>15, <2>3_1, <2>3_2, <2>3_3, <2>3_4, <2>3_5, <2>3_6, FitsKept DEF SamePlace0
  <2>5. ModesIn(p)
    BY <1>16, <1>17, <1>21, <2>3_1, <2>3_2, <2>3_3, <2>3_4, <2>3_5, <2>3_6 DEF ModesIn, SameMotion
  <2>7. AwayIn(p) /\ p.mode # "anchored"
    BY <1>l, <2>3_3, <2>3_6 DEF AwayIn, SameReader
  <2>8. ReadIn(ts') /\ SameReader(p, ts')
    BY <2>2, <2>3_1, <2>4, <2>5, <2>7, <1>19, SettledReads
  <2>9. ReadStep(ts, ts')
    BY <2>8, <2>3_3, <1>l, <1>r DEF ReadStep, Stays, Leaves, SameReader
  <2> QED
    BY <2>9, <2>3_1, <2>3_2, <2>3_3, <2>3_4, <2>3_5, <2>3_6, <2>2, <2>4, <2>5, <1>19, SettledGives
<1>22. CASE ~(made /\ ts.mode = "anchored") /\ ts.paused
  <2>0. l.mode = "free"
    BY <1>1, <1>16, <1>22, Zenon DEF ModesIn
  <2>1. PICK p : p = [l EXCEPT !.mode = "free"]
    BY Zenon
  <2>2. ts' = Settled(p, l.top)
    BY <1>18, <1>22, <2>0, <2>1
  <2>3_1. p \in ScrollStates
    BY <1>15, <2>1 DEF ScrollStates
  <2>3_2. SameText(l, p) /\ SameShow(l, p)
    BY <1>15, <2>1 DEF ScrollStates, SameText, SameShow
  <2>3_3. SameRest(l, p) /\ SameReader(l, p)
    BY <1>15, <2>1 DEF ScrollStates, SameRest, SameReader
  <2>3_4. SameMotion(l, p) /\ SamePlace0(l, p)
    BY <1>15, <2>1 DEF ScrollStates, SameMotion, SamePlace0
  <2>3_5. p.tail = l.tail /\ p.paused = l.paused /\ p.returning = l.returning
    BY <1>15, <2>1 DEF ScrollStates
  <2>3_6. p.mode = "free" /\ p.prev = l.prev
    BY <1>15, <2>1 DEF ScrollStates
  <2>4. Fits(p)
    BY <1>15, <2>3_1, <2>3_2, <2>3_3, <2>3_4, <2>3_5, <2>3_6, FitsKept DEF SamePlace0
  <2>5. ModesIn(p)
    BY <1>16, <1>17, <2>3_1, <2>3_2, <2>3_3, <2>3_4, <2>3_5, <2>3_6 DEF ModesIn, SameMotion
  <2>6. BlankIn(p)
    BY <1>15, <1>19, <2>3_1, <2>3_2, <2>3_3, <2>3_4, <2>3_5, <2>3_6, ScrollBounds DEF BlankIn, NoBlank, SameText, SamePlace0
  <2>7. AwayIn(p) /\ p.mode # "anchored"
    BY <1>l, <1>22, <2>3_3, <2>3_5, <2>3_6 DEF ReadIn, AwayIn, SameReader
  <2>8. ReadIn(ts') /\ SameReader(p, ts')
    BY <2>2, <2>3_1, <2>4, <2>5, <2>7, <1>19, SettledReads
  <2>9. ReadStep(ts, ts')
    BY <2>8, <2>3_3, <1>l, <1>r DEF ReadStep, Stays, Leaves, SameReader
  <2> QED
    BY <2>9, <2>3_1, <2>3_2, <2>3_3, <2>3_4, <2>3_5, <2>3_6, <2>2, <2>4, <2>5, <2>6, <1>19, SettledGives
<1> QED
  BY <1>20, <1>21, <1>22

LEMMA LiftEndStep == ASSUME ScrollIn(ts), ReadIn(ts), LiftFinished PROVE ScrollIn(ts') /\ ReadStep(ts, ts')
<1>1. ts \in ScrollStates /\ Fits(ts) /\ ModesIn(ts) /\ ts.lift # None0 /\ ts.mode = "anchored"
  BY DEF ScrollIn, ModesIn, LiftFinished
<1>0. None0 \in Nat \cup {None0}
  OBVIOUS
<1>2. PICK s : s = [ts EXCEPT !.lift = None0]
  BY Zenon
<1>3_1. s \in ScrollStates
  BY <1>1, <1>2, <1>0 DEF ScrollStates
<1>3_2. SameText(ts, s) /\ SameMode(ts, s)
  BY <1>1, <1>2 DEF ScrollStates, SameText, SameMode
<1>3_3. SameShow(ts, s) /\ SameRest(ts, s)
  BY <1>1, <1>2 DEF ScrollStates, SameShow, SameRest
<1>3_4. SameReader(ts, s) /\ SamePlace0(ts, s)
  BY <1>1, <1>2 DEF ScrollStates, SameReader, SamePlace0
<1>3_5. s.goal = ts.goal /\ s.mine = ts.mine /\ s.ev = ts.ev
  BY <1>1, <1>2 DEF ScrollStates
<1>3_6. s.lift = None0 /\ s.prev = ts.prev
  BY <1>1, <1>2 DEF ScrollStates
<1>4. Fits(s)
  BY <1>1, <1>3_1, <1>3_2, <1>3_3, <1>3_4, <1>3_5, <1>3_6, FitsKept DEF SamePlace0
<1>5. s.mode = "anchored" /\ ModesIn(s)
  BY <1>1, <1>3_1, <1>3_2, <1>3_3, <1>3_4, <1>3_5, <1>3_6 DEF ModesIn, SameMode
<1>6. PICK h : h = HoldAnchor(s, s.top)
  OBVIOUS
<1>7. Held(s, h)
  BY <1>3_1, <1>3_2, <1>3_3, <1>3_4, <1>3_5, <1>3_6, <1>4, <1>6, HoldGives
<1>8. h.lift = None0
  BY <1>7, <1>3_1, <1>3_2, <1>3_3, <1>3_4, <1>3_5, <1>3_6 DEF Held
<1>9. ts' = IF h.lift = None0 THEN Synced(h) ELSE h
  BY <1>2, <1>5, <1>6, <1>8 DEF LiftFinished
<1>h. s.mode = "anchored" /\ ~s.unread => s.lastSet = AnchorTop(s)
  <2>1. AnchorTop(s) = AnchorTop(ts)
    BY <1>3_2, AnchorTopSame DEF SameMode, SameText
  <2> QED
    BY <2>1, <1>3_2, <1>3_3, <1>3_4 DEF ReadIn, HoldIn, SameMode, SameShow, SamePlace0
<1>10. HoldIn(h) /\ h.mode = "anchored" /\ SameReader(s, h) /\ h \in ScrollStates
  BY <1>3_1, <1>4, <1>5, <1>6, <1>7, <1>h, <1>3_6, HoldReads DEF Held
<1>11. ts' = Synced(h)
  BY <1>8, <1>9
<1>12. HoldIn(ts') /\ ts'.mode = "anchored" /\ SameReader(h, ts')
  BY <1>10, <1>11, SyncedReads
<1>13. ModesIn(ts')
  BY <1>3_1, <1>5, <1>7, <1>9, HeldSound DEF ScrollIn
<1>14. ~ts'.away
  BY <1>1, <1>3_4, <1>10, <1>12 DEF ReadIn, AwayIn, SameReader
<1>15. ReadIn(ts')
  BY <1>12, <1>13, <1>14, AnchoredReads
<1>16. ReadStep(ts, ts')
  BY <1>12, <1>14, <1>15 DEF ReadStep, Stays, Leaves
<1> QED
  BY <1>16, <1>3_1, <1>5, <1>7, <1>9, HeldSound

LEMMA LayoutStep ==
  ASSUME ScrollIn(ts), ReadIn(ts), NEW d \in {-1, 1}, NEW part \in {"foot", "question", "answer"}, LateLayout(part, d)
  PROVE  ScrollIn(ts') /\ ReadStep(ts, ts')
<1>1. ts \in ScrollStates /\ ModesIn(ts)
  BY DEF ScrollIn
<1>2. PICK f \in Int, b \in Int, e \in Int, h \in Int :
        /\ f = IF part = "foot" THEN ts.foot + d ELSE ts.foot
        /\ b = IF part = "question" THEN ts.ub + d ELSE ts.ub
        /\ e = IF part = "foot" THEN ts.end ELSE ts.end + d
        /\ h = IF part = "question" /\ ts.ab = ts.ub THEN ts.ab + d ELSE ts.ab
  <2>1. ts.foot \in Int /\ ts.ub \in Int /\ ts.end \in Int /\ ts.ab \in Int /\ d \in Int
    BY <1>1, ScrollFields
  <2> QED
    BY <2>1
<1>3. PICK s : s = [ts EXCEPT !.foot = f, !.ub = b, !.end = e, !.ab = h]
  OBVIOUS
<1>4. s = CASE part = "foot" -> [ts EXCEPT !.foot = @ + d]
            [] part = "question" -> [ts EXCEPT !.ub = @ + d, !.end = @ + d, !.ab = IF @ = ts.ub THEN @ + d ELSE @]
            [] OTHER -> [ts EXCEPT !.end = @ + d]
  <2>1. CASE part = "foot"
    <3>1. f = ts.foot + d /\ b = ts.ub /\ e = ts.end /\ h = ts.ab
      BY <1>2, <2>1
    <3> QED
      BY <1>1, <1>3, <2>1, <3>1, ZenonT(40) DEF ScrollStates
  <2>2. CASE part = "question"
    <3>1. f = ts.foot /\ b = ts.ub + d /\ e = ts.end + d /\ h = IF ts.ab = ts.ub THEN ts.ab + d ELSE ts.ab
      BY <1>2, <2>2
    <3> QED
      BY <1>1, <1>3, <2>2, <3>1, ZenonT(40) DEF ScrollStates
  <2>3. CASE part = "answer"
    <3>1. f = ts.foot /\ b = ts.ub /\ e = ts.end + d /\ h = ts.ab
      BY <1>2, <2>3
    <3> QED
      BY <1>1, <1>3, <2>3, <3>1, ZenonT(40) DEF ScrollStates
  <2> QED
    BY <2>1, <2>2, <2>3
<1>5. s.foot \in 1..2 /\ ts' = Clamped([s EXCEPT !.late = TRUE, !.unread = TRUE, !.resized = @ \/ part # "answer",
                                                 !.reads = @ + 1])
  BY <1>4 DEF LateLayout
<1>6. s.foot = f
  BY <1>1, <1>3 DEF ScrollStates
<1>7. f \in 1..2
  BY <1>5, <1>6
<1>i. b \in Int /\ e \in Int /\ h \in Int
  BY <1>2
<1>8_1. s \in ScrollStates
  BY <1>1, <1>3, <1>7, <1>i, ZenonT(40) DEF ScrollStates
<1>8_2. SameShow(ts, s) /\ s.mode = ts.mode
  BY <1>1, <1>3 DEF ScrollStates, SameShow
<1>8_7. s.paused = ts.paused /\ s.returning = ts.returning
  BY <1>1, <1>3 DEF ScrollStates
<1>8_3. SameRest(ts, s) /\ SameReader(ts, s)
  BY <1>1, <1>3 DEF ScrollStates, SameRest, SameReader
<1>8_4. SameMotion(ts, s) /\ SamePlace0(ts, s)
  BY <1>1, <1>3 DEF ScrollStates, SameMotion, SamePlace0
<1>8_5. s.ut = ts.ut
  BY <1>1, <1>3 DEF ScrollStates
<1>8_6. s.foot = f /\ s.ub = b /\ s.end = e /\ s.prev = ts.prev
  BY <1>1, <1>3 DEF ScrollStates
<1>9. PICK n \in Int : n = s.reads + 1
  BY <1>8_1, <1>8_2, <1>8_3, <1>8_4, <1>8_5, <1>8_6, ScrollFields
<1>10. PICK z \in BOOLEAN : z = (s.resized \/ part # "answer")
  BY Zenon
<1>11. PICK q : q = [s EXCEPT !.late = TRUE, !.unread = TRUE, !.resized = z, !.reads = n]
  OBVIOUS
<1>y. z \in BOOLEAN /\ n \in Int
  BY <1>9, <1>10
<1>12_1. q \in ScrollStates
  BY <1>8_1, <1>11, <1>y, ZenonT(40) DEF ScrollStates
<1>12_2. SameText(s, q) /\ SameMode(s, q)
  BY <1>8_1, <1>11 DEF ScrollStates, SameText, SameMode
<1>12_3. SameRest(s, q) /\ SameMotion(s, q)
  BY <1>8_1, <1>11 DEF ScrollStates, SameRest, SameMotion
<1>12_4. SamePlace0(s, q)
  BY <1>8_1, <1>11 DEF ScrollStates, SamePlace0
<1>12_5. q.show = s.show
  BY <1>8_1, <1>11 DEF ScrollStates
<1>12_6. q.away = s.away
  BY <1>8_1, <1>11 DEF ScrollStates
<1>12_7. q.late = TRUE /\ q.unread = TRUE /\ q.resized = z /\ q.reads = n
  BY <1>8_1, <1>11 DEF ScrollStates
<1>12_8. q.prev = s.prev
  BY <1>8_1, <1>11 DEF ScrollStates
<1>13. ts' = Clamped(q)
  BY <1>5, <1>9, <1>10, <1>11
<1>14. PICK r : r = ts'
  OBVIOUS
<1>15. /\ r \in ScrollStates /\ Fits(r) /\ Same(q, r) /\ Reported(q, r)
       /\ r.lift = q.lift /\ r.goal = q.goal /\ r.mine = q.mine
  BY <1>12_1, <1>12_2, <1>12_3, <1>12_4, <1>12_5, <1>12_6, <1>12_7, <1>12_8, <1>13, <1>14, ClampedGives
<1>16. r.mode = ts.mode /\ r.paused = ts.paused /\ r.returning = ts.returning
  BY <1>15, <1>12_1, <1>12_2, <1>12_3, <1>12_4, <1>12_5, <1>12_6, <1>12_7, <1>12_8, <1>8_1, <1>8_2, <1>8_3, <1>8_4, <1>8_5, <1>8_6, <1>8_7 DEF Same, SameMode
<1>17. r.lift = ts.lift /\ r.goal = ts.goal /\ r.mine = ts.mine /\ (ts.ev => r.ev)
  BY <1>15, <1>12_1, <1>12_2, <1>12_3, <1>12_4, <1>12_5, <1>12_6, <1>12_7, <1>12_8, <1>8_1, <1>8_2, <1>8_3, <1>8_4, <1>8_5, <1>8_6 DEF SameMotion, Reported
<1>18. r.late = TRUE /\ r.unread = TRUE
  BY <1>15, <1>12_1, <1>12_2, <1>12_3, <1>12_4, <1>12_5, <1>12_6, <1>12_7, <1>12_8 DEF Same, SameShow
<1>19. ModesIn(r)
  BY <1>1, <1>16, <1>17 DEF ModesIn
<1>20. ScrollIn(r)
  BY <1>15, <1>18, <1>19 DEF ScrollIn, ReturnIn, FollowIn, BlankIn
<1>21. /\ Same(q, r) /\ r.goal = q.goal /\ r.prev = q.prev
       /\ r.top <= q.top /\ (r.ev => q.ev \/ r.top < q.top)
  BY <1>12_1, <1>13, <1>14, ClampedGives
<1>22. /\ r.away = ts.away /\ r.goal = ts.goal /\ r.prev = ts.prev
       /\ r.top <= ts.top /\ (r.ev => ts.ev \/ r.top < ts.top)
  BY <1>21, <1>12_3, <1>12_4, <1>12_6, <1>12_8, <1>8_3, <1>8_4, <1>8_6 DEF Same, SameReader, SameMotion, SamePlace0
<1>23. ReadIn(r)
  <2>1. AwayIn(r)
    BY <1>1, <1>15, <1>16, <1>22, AwayDrops DEF ReadIn
  <2> QED
    BY <2>1, <1>18 DEF ReadIn, HoldIn
<1>24. r.reads # ts.reads
  <2>1. r.reads = n /\ s.reads = ts.reads /\ ts.reads \in Int
    BY <1>1, <1>21, <1>12_7, <1>8_3, ScrollFields DEF Same, SameReader
  <2> QED
    BY <2>1, <1>9
<1>25. ReadStep(ts, r)
  BY <1>23, <1>24 DEF ReadStep, Stays, Leaves
<1> QED
  BY <1>14, <1>20, <1>25

LEMMA ObservedStep == ASSUME ScrollIn(ts), ReadIn(ts), Observed PROVE ScrollIn(ts') /\ ReadStep(ts, ts')
<1>1. ts \in ScrollStates
  BY DEF ScrollIn
<1>2. PICK s : s = [ts EXCEPT !.resized = FALSE]
  BY Zenon
<1>3_1. s \in ScrollStates
  BY <1>1, <1>2, ZenonT(40) DEF ScrollStates
<1>3_2. SameText(ts, s) /\ SameMode(ts, s)
  BY <1>1, <1>2 DEF ScrollStates, SameText, SameMode
<1>3_3. SameShow(ts, s) /\ SameRest(ts, s)
  BY <1>1, <1>2 DEF ScrollStates, SameShow, SameRest
<1>3_4. SameMotion(ts, s) /\ SamePlace0(ts, s)
  BY <1>1, <1>2 DEF ScrollStates, SameMotion, SamePlace0
<1>3_5. s.away = ts.away /\ s.reads = ts.reads
  BY <1>1, <1>2 DEF ScrollStates
<1>3_6. s.resized = FALSE /\ s.prev = ts.prev
  BY <1>1, <1>2 DEF ScrollStates
<1>4. ScrollIn(s)
  BY <1>3_1, <1>3_2, <1>3_3, <1>3_4, <1>3_5, <1>3_6, ScrollKept DEF SameMode
<1>5. PICK x \in OnScreen(ts) : ts' = IF s.mode = "anchored" THEN HoldAnchor(s, x) ELSE s
  BY <1>2 DEF Observed
<1>r. ReadIn(s)
  BY <1>3_2, <1>3_3, <1>3_4, <1>3_5, <1>3_6, ReadKept DEF SameText, SameMode, SameShow, SamePlace0
<1>6. CASE s.mode # "anchored"
  <2>1. ts' = s /\ s.mode = ts.mode /\ s.top = ts.top /\ ts.top \in Nat
    BY <1>1, <1>5, <1>6, <1>3_2, <1>3_4, ScrollFields DEF SameMode, SamePlace0
  <2>2. ReadStep(ts, ts')
    BY <2>1, <1>r DEF ReadStep, Stays, Leaves
  <2> QED
    BY <2>1, <2>2, <1>4
<1>7. CASE s.mode = "anchored"
  <2>1. x \in Nat
    BY <1>1, <1>5, ScreenNat
  <2>2. PICK h : h = HoldAnchor(s, x)
    OBVIOUS
  <2>3. Held(s, h)
    BY <2>1, <2>2, <1>4, HoldGives DEF ScrollIn
  <2>4. /\ h \in ScrollStates /\ Fits(h) /\ Same(s, h) /\ Reported(s, h) /\ (h.lift = None0 => NoBlank(h))
        /\ (h.lift = None0) = (s.lift = None0) /\ h.goal \in {s.goal, None0} /\ (h.mine => s.mine)
    BY <2>3 DEF Held
  <2>5. h.mode = "anchored" /\ h.returning = s.returning /\ h.paused = s.paused /\ h.show = s.show /\ h.late = s.late
    BY <2>4, <1>7 DEF Same, SameMode, SameShow
  <2>6. ModesIn(h)
    BY <1>4, <1>7, <2>4, <2>5 DEF ScrollIn, ModesIn, Reported
  <2>7. ReturnIn(h)
    <3>1. h.top = s.top => IsScrolledFromBottom(h) = IsScrolledFromBottom(s)
      BY <2>4, MeasuredSame DEF Same
    <3> QED
      BY <1>4, <2>4, <2>5, <3>1 DEF ScrollIn, ReturnIn, Reported
  <2>8. ts' = h
    BY <1>5, <1>7, <2>2
  <2>9. HoldIn(h) /\ SameReader(s, h)
    BY <1>3_1, <1>4, <1>7, <1>r, <2>1, <2>2, HoldReads DEF ScrollIn, ReadIn, HoldIn
  <2>10. ~h.away
    BY <1>7, <1>r, <2>9 DEF ReadIn, AwayIn, SameReader
  <2>11. ReadIn(h)
    BY <2>5, <2>6, <2>9, <2>10, AnchoredReads
  <2>12. ReadStep(ts, ts')
    BY <2>5, <2>8, <2>10, <2>11 DEF ReadStep, Stays, Leaves
  <2> QED
    BY <2>12, <2>4, <2>5, <2>6, <2>7, <2>8 DEF ScrollIn, FollowIn, BlankIn
<1> QED
  BY <1>6, <1>7

(* What a scroll that was reported leaves behind.                           *)
Settling(m) ==
  /\ m \in ScrollStates /\ Fits(m) /\ ModesIn(m)
  /\ m.mode = "bottom" /\ ~m.returning /\ ~m.unread => IsNearBottom(m)
  /\ m.mode = "anchored" /\ m.lift = None0 /\ ~m.unread => NoBlank(m)

LEMMA ReportTyped ==
  ASSUME NEW s \in ScrollStates, NEW u \in BOOLEAN, NEW w \in BOOLEAN
  PROVE  [s EXCEPT !.ev = FALSE, !.mine = FALSE, !.unread = u, !.away = w] \in ScrollStates
  BY ZenonT(40) DEF ScrollStates

(* What a scroll of the reader makes of the modes.                          *)
LEMMA MovedReads ==
  ASSUME NEW e \in ScrollStates, Fits(e), ModesIn(e), ~e.ev, e.lift = None0, NEW m, m = ScrolledByReader(e, e.top)
  PROVE  /\ (m = e /\ e.returning) \/ m.mode \in {"bottom", "free"}
         /\ m.paused = e.paused /\ SameReader(e, m)
         /\ e.top < e.prev /\ e.goal = None0 =>
              /\ m.mode = "free" /\ ~m.returning /\ m.goal = None0
              /\ m.top <= e.top /\ (m.ev => m.top < e.top)
<1>0. e.top \in Nat /\ e.prev \in Int
  BY ScrollFields
<1>1. PICK d : d = [e EXCEPT !.returning = FALSE]
  BY Zenon
<1>2. d \in ScrollStates
  BY <1>1, ZenonT(40) DEF ScrollStates
<1>3. SameText(e, d) /\ SameReader(e, d)
  BY <1>1 DEF ScrollStates, SameText, SameReader
<1>4. SameMotion(e, d) /\ SamePlace0(e, d)
  BY <1>1 DEF ScrollStates, SameMotion, SamePlace0
<1>5. d.mode = e.mode /\ d.paused = e.paused /\ d.returning = FALSE
  BY <1>1 DEF ScrollStates
<1>6. Fits(d)
  BY <1>3, <1>4, FitsKept DEF SamePlace0
<1>7. ASSUME NEW y \in ScrollStates, Fits(y), y.lift = None0, ~y.ev, y.top = e.top, y.goal = e.goal,
             y.paused = e.paused, ~y.returning, SameReader(e, y),
             NEW next \in {"bottom", "free"}, m = LeaveAnchor(y, next, e.top)
      PROVE  /\ m.mode = next /\ m.paused = e.paused /\ SameReader(e, m) /\ ~m.returning /\ m.goal \in {e.goal, None0}
             /\ m.top <= e.top /\ (m.ev => m.top < e.top)
  <2>1. /\ Left(y, m) /\ m.mode = next
        /\ e.top = y.top => m.top <= y.top /\ (m.ev => y.ev \/ m.top < y.top)
    BY <1>0, <1>7, LeaveGives
  <2> QED
    BY <1>7, <2>1 DEF Left, SameReader
<1>8. CASE e.returning /\ e.top < e.prev
  <2>0. ~(e.top >= e.prev)
    BY <1>0, <1>8
  <2>1. m = LeaveAnchor(d, "free", e.top)
    BY <1>1, <1>8, <2>0 DEF ScrolledByReader
  <2>2. d.lift = None0 /\ ~d.ev /\ d.top = e.top /\ d.goal = e.goal
    BY <1>4 DEF SameMotion, SamePlace0
  <2> QED
    BY <1>2, <1>3, <1>5, <1>6, <1>7, <2>1, <2>2
<1>9. CASE e.returning /\ ~(e.top < e.prev) /\ IsNearBottom(e)
  <2>0. e.top >= e.prev
    BY <1>0, <1>9
  <2>1. m = LeaveAnchor(d, "bottom", e.top)
    BY <1>1, <1>9, <2>0 DEF ScrolledByReader
  <2>2. d.lift = None0 /\ ~d.ev /\ d.top = e.top /\ d.goal = e.goal
    BY <1>4 DEF SameMotion, SamePlace0
  <2> QED
    BY <1>2, <1>3, <1>5, <1>6, <1>7, <1>9, <2>1, <2>2
<1>10. CASE e.returning /\ ~(e.top < e.prev) /\ ~IsNearBottom(e)
  <2>0. e.top >= e.prev
    BY <1>0, <1>10
  <2>1. m = e
    BY <1>10, <2>0 DEF ScrolledByReader
  <2> QED
    BY <1>10, <2>1 DEF SameReader
<1>11. CASE ~e.returning
  <2>1. PICK next \in {"bottom", "free"} : next = IF e.top < e.prev \/ ~IsNearBottom(e) THEN "free" ELSE "bottom"
    OBVIOUS
  <2>2. m = LeaveAnchor(e, next, e.top)
    BY <1>11, <2>1 DEF ScrolledByReader
  <2>3. SameReader(e, e)
    BY DEF SameReader
  <2>4. /\ m.mode = next /\ m.paused = e.paused /\ SameReader(e, m) /\ ~m.returning /\ m.goal \in {e.goal, None0}
        /\ m.top <= e.top /\ (m.ev => m.top < e.top)
    BY <1>7, <1>11, <2>2, <2>3
  <2> QED
    BY <2>1, <2>4
<1> QED
  BY <1>8, <1>9, <1>10, <1>11

(* The report of a scroll.                                                  *)
LEMMA ReportStep == ASSUME ScrollIn(ts), ReadIn(ts), OnScroll PROVE ScrollIn(ts') /\ ReadStep(ts, ts')
<1>1. ts \in ScrollStates /\ Fits(ts) /\ ModesIn(ts) /\ ts.ev
  BY DEF ScrollIn, OnScroll
<1>2. PICK u \in BOOLEAN : u = (ts.unread \/ (ts.mine /\ ts.top = ts.lastSet))
  BY Zenon
<1>3. PICK w \in BOOLEAN : w = IF ts.mine /\ ts.lift = None0 /\ ~ClampedAnchor(ts)
                               THEN ts.top < ts.prev /\ ts.top # ts.lastSet /\ ts.goal = None0 ELSE ts.away
  <2>1. ts.away \in BOOLEAN /\ ts.top \in Int /\ ts.prev \in Int
    BY <1>1 DEF ScrollStates
  <2>2. (ts.top < ts.prev /\ ts.top # ts.lastSet /\ ts.goal = None0) \in BOOLEAN
    BY <2>1
  <2> QED
    BY <2>1, <2>2, Zenon
<1>4. PICK e : e = [ts EXCEPT !.ev = FALSE, !.mine = FALSE, !.unread = u, !.away = w]
  OBVIOUS
<1>uw. u \in BOOLEAN /\ w \in BOOLEAN
  BY <1>2, <1>3
<1>5_1. e \in ScrollStates
  <2>1. [ts EXCEPT !.ev = FALSE, !.mine = FALSE, !.unread = u, !.away = w] \in ScrollStates
    BY <1>1, <1>uw, ReportTyped
  <2> QED
    BY <2>1, <1>4
<1>5_2. SameText(ts, e) /\ SameMode(ts, e)
  BY <1>1, <1>4 DEF ScrollStates, SameText, SameMode
<1>5_3. SameRest(ts, e) /\ SamePlace0(ts, e)
  BY <1>1, <1>4 DEF ScrollStates, SameRest, SamePlace0
<1>5_4. e.show = ts.show /\ e.late = ts.late
  BY <1>1, <1>4 DEF ScrollStates
<1>5_5. e.reads = ts.reads /\ e.resized = ts.resized
  BY <1>1, <1>4 DEF ScrollStates
<1>5_6. e.lift = ts.lift /\ e.goal = ts.goal
  BY <1>1, <1>4 DEF ScrollStates
<1>5_7. e.ev = FALSE /\ e.mine = FALSE /\ e.unread = u /\ e.away = w
  BY <1>1, <1>4 DEF ScrollStates
<1>5_8. e.prev = ts.prev
  BY <1>1, <1>4 DEF ScrollStates
<1>6. Fits(e) /\ NoBlank(e) = NoBlank(ts)
  BY <1>1, <1>5_1, <1>5_2, <1>5_3, <1>5_4, <1>5_5, <1>5_6, <1>5_7, <1>5_8, FitsKept DEF SamePlace0
<1>7. ModesIn(e)
  BY <1>1, <1>5_1, <1>5_2, <1>5_3, <1>5_4, <1>5_5, <1>5_6, <1>5_7, <1>5_8 DEF ModesIn, SameMode
<1>8. IsNearBottom(e) = IsNearBottom(ts)
  BY <1>5_1, <1>5_2, <1>5_3, <1>5_4, <1>5_5, <1>5_6, <1>5_7, <1>5_8, MeasuredSame DEF SamePlace0
<1>9. e.top \in Nat
  BY <1>5_1, <1>5_2, <1>5_3, <1>5_4, <1>5_5, <1>5_6, <1>5_7, <1>5_8, ScrollFields
<1>10. PICK held : held = HoldAnchor(e, e.top)
  OBVIOUS
<1>11. PICK m : m = IF e.lift = None0 /\ ~e.paused /\ e.top # e.lastSet THEN ScrolledByReader(e, e.top) ELSE e
  OBVIOUS
<1>12. PICK k : k = IF m.mode # "anchored" /\ m.lift = None0 THEN ReleaseReserve(m) ELSE m
  OBVIOUS
<1> DEFINE E == [ts EXCEPT !.ev = FALSE, !.mine = FALSE, !.unread = @ \/ (ts.mine /\ ts.top = ts.lastSet),
                           !.away = IF ts.mine /\ ts.lift = None0 /\ ~ClampedAnchor(ts)
                                    THEN ts.top < ts.prev /\ ts.top # ts.lastSet /\ ts.goal = None0 ELSE @]
<1> DEFINE H == HoldAnchor(E, E.top)
<1> DEFINE M == IF E.lift = None0 /\ ~E.paused /\ E.top # E.lastSet THEN ScrolledByReader(E, E.top) ELSE E
<1> DEFINE K == IF M.mode # "anchored" /\ M.lift = None0 THEN ReleaseReserve(M) ELSE M
<1>o. ts' = IF ClampedAnchor(E) THEN (IF H.lift = None0 THEN Synced(H) ELSE H)
            ELSE [(IF K.returning \/ K.lift # None0 THEN [K EXCEPT !.show = FALSE] ELSE Synced(K))
                    EXCEPT !.prev = E.top]
  BY DEF OnScroll
<1>d. E = e
  BY <1>2, <1>3, <1>4, Zenon
<1> HIDE DEF E
<1>h. H = held /\ M = m
  BY <1>d, <1>10, <1>11
<1> HIDE DEF H, M
<1>k. K = k
  BY <1>h, <1>12
<1> HIDE DEF K
<1>13. ts' = IF ClampedAnchor(e) THEN (IF held.lift = None0 THEN Synced(held) ELSE held)
             ELSE [(IF k.returning \/ k.lift # None0 THEN [k EXCEPT !.show = FALSE] ELSE Synced(k))
                     EXCEPT !.prev = e.top]
  BY <1>o, <1>d, <1>h, <1>k, Zenon
<1>c. ClampedAnchor(e) = ClampedAnchor(ts)
  <2>1. MaxTop(e) = MaxTop(ts)
    BY <1>5_2, <1>5_3, MeasuredSame DEF SamePlace0
  <2> QED
    BY <2>1, <1>5_2, <1>5_3 DEF ClampedAnchor, SameMode, SamePlace0
<1>a. AnchorTop(e) = AnchorTop(ts)
  BY <1>5_2, AnchorTopSame DEF SameMode, SameText
<1>e. /\ e.mode = ts.mode /\ e.paused = ts.paused /\ e.returning = ts.returning
      /\ e.top = ts.top /\ e.lastSet = ts.lastSet
  BY <1>5_2, <1>5_3 DEF SameMode, SamePlace0
<1>u. ~e.unread => ~ts.unread /\ ~(ts.mine /\ ts.top = ts.lastSet)
  BY <1>2, <1>5_7, Zenon
<1>14. CASE ClampedAnchor(e)
  <2>1. Held(e, held)
    BY <1>5_1, <1>5_2, <1>5_3, <1>5_4, <1>5_5, <1>5_6, <1>5_7, <1>5_8, <1>6, <1>9, <1>10, HoldGives
  <2>2. e.mode = "anchored"
    BY <1>14 DEF ClampedAnchor
  <2>3. ts' = IF held.lift = None0 THEN Synced(held) ELSE held
    BY <1>13, <1>14
  <2>4. ScrollIn(ts') /\ ts'.mode = "anchored"
    BY <1>5_1, <1>7, <2>1, <2>2, <2>3, HeldSound
  <2>5. HoldIn(held) /\ held.mode = "anchored" /\ SameReader(e, held) /\ held \in ScrollStates
    <3>1. ~e.unread => e.lastSet = AnchorTop(e)
      BY <1>a, <1>e, <1>u, <2>2 DEF ReadIn, HoldIn
    <3> QED
      BY <1>5_1, <1>6, <1>9, <1>10, <2>1, <2>2, <3>1, HoldReads DEF Held
  <2>6. HoldIn(ts') /\ SameReader(held, ts')
    BY <2>3, <2>5, SyncedReads DEF SameReader
  <2>7. w = FALSE
    <3>1. ~ts.away
      BY <1>e, <2>2 DEF ReadIn, AwayIn
    <3> QED
      BY <1>3, <1>14, <1>c, <3>1
  <2>8. ~ts'.away
    BY <1>5_7, <2>5, <2>6, <2>7 DEF SameReader
  <2>9. ReadIn(ts')
    BY <2>4, <2>6, <2>8, AnchoredReads DEF ScrollIn
  <2>10. ReadStep(ts, ts')
    BY <2>4, <2>8, <2>9 DEF ReadStep, Stays, Leaves
  <2> QED
    BY <2>4, <2>10
<1>15. CASE ~ClampedAnchor(e)
  <2>1. Settling(m)
    <3>1. CASE e.lift = None0 /\ ~e.paused /\ e.top # e.lastSet
      <4>1. m = ScrolledByReader(e, e.top)
        BY <1>11, <3>1
      <4>2. PICK d : d = [e EXCEPT !.returning = FALSE]
        BY Zenon
      <4>3_1. d \in ScrollStates
        BY <1>5_1, <4>2, ZenonT(40) DEF ScrollStates
      <4>3_2. SameText(e, d) /\ SameShow(e, d)
        BY <1>5_1, <4>2 DEF ScrollStates, SameText, SameShow
      <4>3_3. SameRest(e, d) /\ SameReader(e, d)
        BY <1>5_1, <4>2 DEF ScrollStates, SameRest, SameReader
      <4>3_4. SameMotion(e, d) /\ SamePlace0(e, d)
        BY <1>5_1, <4>2 DEF ScrollStates, SameMotion, SamePlace0
      <4>3_5. d.mode = e.mode /\ d.tail = e.tail /\ d.paused = e.paused
        BY <1>5_1, <4>2 DEF ScrollStates
      <4>3_6. d.returning = FALSE /\ d.prev = e.prev
        BY <1>5_1, <4>2 DEF ScrollStates
      <4>4. Fits(d) /\ ModesIn(d) /\ d.lift = None0 /\ d.paused = e.paused
        BY <1>6, <1>7, <3>1, <4>3_1, <4>3_2, <4>3_3, <4>3_4, <4>3_5, <4>3_6, FitsKept DEF SamePlace0, ModesIn, SameMotion
      <4>5. DistanceFromBottom(d) = DistanceFromBottom(e) /\ d.top = e.top
        BY <4>3_1, <4>3_2, <4>3_3, <4>3_4, <4>3_5, <4>3_6, MeasuredSame DEF SamePlace0
      <4>6. ASSUME NEW y \in ScrollStates, Fits(y), ModesIn(y), y.lift = None0, y.top = e.top,
                   DistanceFromBottom(y) = DistanceFromBottom(e), y.paused = e.paused,
                   NEW next \in {"bottom", "free"}, next = "bottom" => IsNearBottom(e),
                   m = LeaveAnchor(y, next, e.top)
            PROVE  Settling(m)
        <5>1. /\ Left(y, m) /\ m.mode = next
              /\ e.top = y.top => m.top = y.top \/ DistanceFromBottom(m) <= 0
          BY <4>6, <1>9, LeaveGives
        <5>2. m \in ScrollStates /\ Fits(m) /\ m.paused = y.paused /\ m.lift = None0 /\ Reported(y, m) /\ (m.mine => y.mine)
              /\ SameText(y, m)
          BY <5>1 DEF Left
        <5>3. ModesIn(m)
          BY <3>1, <4>6, <5>1, <5>2 DEF ModesIn, Reported
        <5>4. m.mode = "bottom" => IsNearBottom(m)
          <6>1. CASE DistanceFromBottom(m) <= 0
            BY <5>2, <6>1, AtTheEnd
          <6>2. CASE m.top = y.top
            <7>1. DistanceFromBottom(m) = DistanceFromBottom(e)
              BY <4>6, <5>2, <6>2, MeasuredSame
            <7> QED
              BY <4>6, <5>1, <7>1 DEF IsNearBottom
          <6> QED
            BY <4>6, <5>1, <6>1, <6>2
        <5> QED
          BY <4>6, <5>1, <5>2, <5>3, <5>4 DEF Settling
      <4>7. CASE e.returning /\ e.top < e.prev
        <5>0. ~(e.top >= e.prev)
          BY <4>7, <1>5_1, ScrollFields
        <5>1. m = LeaveAnchor(d, "free", e.top)
          BY <4>1, <4>2, <4>7, <5>0 DEF ScrolledByReader
        <5> QED
          BY <4>3_1, <4>4, <4>5, <4>6, <5>1
      <4>8. CASE e.returning /\ ~(e.top < e.prev) /\ IsNearBottom(e)
        <5>0. e.top >= e.prev
          BY <4>8, <1>5_1, <1>5_2, <1>5_3, <1>5_4, <1>5_5, <1>5_6, <1>5_7, <1>5_8, ScrollFields
        <5>1. m = LeaveAnchor(d, "bottom", e.top)
          BY <4>1, <4>2, <4>8, <5>0 DEF ScrolledByReader
        <5> QED
          BY <4>3_1, <4>4, <4>5, <4>6, <4>8, <5>1
      <4>9. CASE e.returning /\ ~(e.top < e.prev) /\ ~IsNearBottom(e)
        <5>0. e.top >= e.prev
          BY <4>9, <1>5_1, <1>5_2, <1>5_3, <1>5_4, <1>5_5, <1>5_6, <1>5_7, <1>5_8, ScrollFields
        <5>1. m = e
          BY <4>1, <4>9, <5>0 DEF ScrolledByReader
        <5>2. e.mode # "anchored"
          BY <4>9, <1>7 DEF ModesIn
        <5> QED
          BY <1>5_1, <1>6, <1>7, <4>9, <5>1, <5>2 DEF Settling
      <4>10. CASE ~e.returning
        <5>1. PICK next : next = IF e.top < e.prev \/ ~IsNearBottom(e) THEN "free" ELSE "bottom"
          OBVIOUS
        <5>2. m = LeaveAnchor(e, next, e.top)
          BY <4>1, <4>10, <5>1 DEF ScrolledByReader
        <5>3. next \in {"bottom", "free"} /\ (next = "bottom" => IsNearBottom(e))
          BY <5>1
        <5> QED
          BY <1>5_1, <1>6, <1>7, <3>1, <4>6, <5>2, <5>3
      <4> QED
        BY <4>7, <4>8, <4>9, <4>10
    <3>2. CASE ~(e.lift = None0 /\ ~e.paused /\ e.top # e.lastSet)
      <4>1. m = e
        BY <1>11, <3>2
      <4>2. ~e.unread => ~ts.unread /\ ~(ts.mine /\ ts.top = ts.lastSet)
        BY <1>2, <1>5_1, <1>5_2, <1>5_3, <1>5_4, <1>5_5, <1>5_6, <1>5_7, <1>5_8, Zenon
      <4>3. e.mode # "free" /\ e.lift = None0 => ts.top = ts.lastSet
        BY <3>2, <1>7, <1>5_1, <1>5_2, <1>5_3, <1>5_4, <1>5_5, <1>5_6, <1>5_7, <1>5_8 DEF ModesIn, SamePlace0
      <4>4. e.mode = "bottom" => e.lift = None0
        BY <1>7 DEF ModesIn
      <4>5. e.mode = ts.mode /\ e.lift = ts.lift /\ e.returning = ts.returning
        BY <1>5_1, <1>5_2, <1>5_3, <1>5_4, <1>5_5, <1>5_6, <1>5_7, <1>5_8 DEF SameMode
      <4>6. e.mode = "bottom" /\ ~e.returning /\ ~e.unread => IsNearBottom(e)
        BY <1>8, <4>2, <4>3, <4>4, <4>5 DEF ScrollIn, FollowIn, AsSet
      <4>7. e.mode = "anchored" /\ e.lift = None0 /\ ~e.unread => NoBlank(e)
        BY <1>6, <4>2, <4>3, <4>5 DEF ScrollIn, BlankIn, AsSet
      <4> QED
        BY <1>5_1, <1>6, <1>7, <4>1, <4>6, <4>7 DEF Settling
    <3> QED
      BY <3>1, <3>2
  <2>2. /\ k \in ScrollStates /\ Fits(k) /\ ModesIn(k) /\ k.mode = m.mode /\ k.lift = m.lift
        /\ k.mode = "bottom" /\ ~k.returning /\ ~k.unread => IsNearBottom(k)
        /\ k.lift = None0 /\ ~k.unread /\ ~k.ev => NoBlank(k)
    <3>1. CASE m.mode # "anchored" /\ m.lift = None0
      <4>1. k = ReleaseReserve(m)
        BY <1>12, <3>1
      <4>2. /\ k \in ScrollStates /\ Fits(k) /\ Same(m, k) /\ Reported(m, k)
            /\ k.lift = m.lift /\ k.goal = m.goal /\ k.mine = m.mine
            /\ (k.top = m.top \/ DistanceFromBottom(k) <= 0) /\ (k.ev \/ NoBlank(k))
        BY <2>1, <4>1, ReleaseGives DEF Settling
      <4>3. k.mode = m.mode /\ k.paused = m.paused /\ k.returning = m.returning /\ k.unread = m.unread
        BY <4>2 DEF Same, SameMode, SameShow
      <4>4. ModesIn(k)
        BY <2>1, <4>2, <4>3 DEF Settling, ModesIn, Reported
      <4>5. IsNearBottom(m) => IsNearBottom(k)
        BY <4>2, AtTheEnd, MeasuredSame DEF Same
      <4> QED
        BY <2>1, <4>2, <4>3, <4>4, <4>5 DEF Settling
    <3>2. CASE ~(m.mode # "anchored" /\ m.lift = None0)
      <4>1. k = m
        BY <1>12, <3>2
      <4>2. m.lift = None0 => m.mode = "anchored"
        BY <3>2
      <4> QED
        BY <2>1, <4>1, <4>2 DEF Settling
    <3> QED
      BY <3>1, <3>2
  <2>3. PICK p : p = IF k.returning \/ k.lift # None0 THEN [k EXCEPT !.show = FALSE] ELSE Synced(k)
    BY Zenon
  <2>4. /\ p \in ScrollStates /\ SameText(k, p) /\ SameMode(k, p) /\ SameMotion(k, p) /\ SamePlace0(k, p)
        /\ SameReader(k, p) /\ p.unread = k.unread
        /\ p.returning \/ p.lift # None0 \/ p.show = IsScrolledFromBottom(p)
    <3>1. CASE k.returning \/ k.lift # None0
      <4>1. p = [k EXCEPT !.show = FALSE]
        BY <2>3, <3>1
      <4>2_1. p \in ScrollStates
        BY <2>2, <4>1, ZenonT(40) DEF ScrollStates
      <4>2_2. SameText(k, p) /\ SameMode(k, p)
        BY <2>2, <4>1 DEF ScrollStates, SameText, SameMode
      <4>2_3. SameRest(k, p) /\ SameReader(k, p)
        BY <2>2, <4>1 DEF ScrollStates, SameRest, SameReader
      <4>2_4. SameMotion(k, p) /\ SamePlace0(k, p)
        BY <2>2, <4>1 DEF ScrollStates, SameMotion, SamePlace0
      <4>2_5. p.late = k.late /\ p.unread = k.unread
        BY <2>2, <4>1 DEF ScrollStates
      <4>2_6. p.show = FALSE /\ p.prev = k.prev
        BY <2>2, <4>1 DEF ScrollStates
      <4> QED
        BY <3>1, <4>2_1, <4>2_2, <4>2_3, <4>2_4, <4>2_5, <4>2_6 DEF SameMode, SameMotion
    <3>2. CASE ~(k.returning \/ k.lift # None0)
      <4>1. p = Synced(k)
        BY <2>3, <3>2
      <4> QED
        BY <4>1, <2>2, SyncedGives
    <3> QED
      BY <3>1, <3>2
  <2>5. PICK n \in Int : n = e.top
    BY <1>9
  <2>6. PICK q : q = [p EXCEPT !.prev = n]
    BY Zenon
  <2>7_1. q \in ScrollStates
    BY <2>4, <2>6, <2>5 DEF ScrollStates
  <2>7_2. SameText(p, q) /\ SameMode(p, q)
    BY <2>4, <2>6 DEF ScrollStates, SameText, SameMode
  <2>7_3. SameShow(p, q) /\ SameRest(p, q)
    BY <2>4, <2>6 DEF ScrollStates, SameShow, SameRest
  <2>7_4. SameReader(p, q) /\ SameMotion(p, q)
    BY <2>4, <2>6 DEF ScrollStates, SameReader, SameMotion
  <2>7_5. SamePlace0(p, q)
    BY <2>4, <2>6 DEF ScrollStates, SamePlace0
  <2>7_6. q.prev = n
    BY <2>4, <2>6 DEF ScrollStates
  <2>8. ts' = q
    BY <1>13, <1>15, <2>3, <2>5, <2>6
  <2>9. SameText(k, q) /\ SameMode(k, q) /\ SameMotion(k, q) /\ SamePlace0(k, q) /\ q.unread = k.unread
    BY <2>4, <2>7_1, <2>7_2, <2>7_3, <2>7_4, <2>7_5, <2>7_6 DEF SameText, SameMode, SameMotion, SamePlace0, SameShow
  <2>10. Fits(q) /\ NoBlank(q) = NoBlank(k) /\ IsNearBottom(q) = IsNearBottom(k)
    BY <2>2, <2>9, FitsKept, MeasuredSame DEF SamePlace0
  <2>11. ModesIn(q)
    BY <2>2, <2>9, ModesKept
  <2>12. q.returning \/ q.lift # None0 \/ q.show = IsScrolledFromBottom(q)
    <3>1. IsScrolledFromBottom(q) = IsScrolledFromBottom(p)
      BY <2>7_1, <2>7_2, <2>7_3, <2>7_4, <2>7_5, <2>7_6, MeasuredSame DEF SamePlace0
    <3> QED
      BY <2>4, <2>7_1, <2>7_2, <2>7_3, <2>7_4, <2>7_5, <2>7_6, <3>1 DEF SameMode, SameMotion, SameShow
  <2>13. ReturnIn(q)
    BY <2>12 DEF ReturnIn
  <2>14. FollowIn(q)
    BY <2>2, <2>9, <2>10 DEF FollowIn, SameMode, SameMotion
  <2>15. BlankIn(q)
    <3>1. k.mode = "anchored" /\ k.lift = None0 /\ ~k.unread => NoBlank(k)
      <4>1. k.mode = "anchored" => k = m
        BY <1>12, <2>2
      <4> QED
        BY <2>1, <4>1 DEF Settling
    <3> QED
      BY <2>2, <2>9, <2>10, <3>1 DEF BlankIn, SameMode, SameMotion
  <2>16. q.prev = e.top /\ SameReader(k, q)
    BY <2>4, <2>5, <2>7_4, <2>7_6 DEF SameReader
  <2>17. /\ m = e \/ (m.mode # "anchored" /\ e.lift = None0 /\ e.top # e.lastSet)
         /\ m.paused = e.paused /\ SameReader(e, m)
         /\ e.paused \/ e.top = e.lastSet => m = e
         /\ m = e \/ (e.top < e.prev /\ e.goal = None0 =>
              /\ m.mode = "free" /\ ~m.returning /\ m.goal = None0
              /\ m.top <= e.top /\ (m.ev => m.top < e.top))
    <3>1. CASE e.lift = None0 /\ ~e.paused /\ e.top # e.lastSet
      BY <1>5_1, <1>5_7, <1>6, <1>7, <1>11, <3>1, MovedReads
    <3>2. CASE ~(e.lift = None0 /\ ~e.paused /\ e.top # e.lastSet)
      BY <1>11, <3>2 DEF SameReader
    <3> QED
      BY <3>1, <3>2
  <2>18. /\ m.mode = "anchored" => k = m
         /\ k.mode = m.mode /\ k.paused = m.paused /\ k.returning = m.returning /\ k.goal = m.goal
         /\ SameReader(m, k) /\ k.top <= m.top /\ (k.ev => m.ev \/ k.top < m.top)
         /\ k.top \in Nat /\ m.top \in Nat
    <3>0. m.top \in Nat
      BY <2>1, ScrollFields DEF Settling
    <3>1. CASE m.mode # "anchored" /\ m.lift = None0
      <4>1. k = ReleaseReserve(m)
        BY <1>12, <3>1
      <4> QED
        BY <2>1, <2>2, <3>0, <3>1, <4>1, ReleaseGives, ScrollFields DEF Settling, Same, SameMode
    <3>2. CASE ~(m.mode # "anchored" /\ m.lift = None0)
      BY <1>12, <3>0, <3>2 DEF SameReader
    <3> QED
      BY <3>1, <3>2
  <2>19. q.away = w /\ q.reads = ts.reads
    BY <1>5_5, <1>5_7, <2>16, <2>17, <2>18 DEF SameReader
  <2>20. /\ q.mode = k.mode /\ q.paused = k.paused /\ q.returning = k.returning /\ q.goal = k.goal
         /\ q.top = k.top /\ q.ev = k.ev /\ q.lift = k.lift /\ q.mine = k.mine /\ q.lastSet = k.lastSet
    BY <2>9 DEF SameMode, SameMotion, SamePlace0
  <2>21. w => /\ ts.top < ts.prev /\ ts.goal = None0 /\ (ts.away \/ ts.top # ts.lastSet)
              /\ (~ts.away => ts.lift = None0)
              /\ ts.away => ts.mode = "free" /\ ~ts.returning
    <3>1. CASE ts.mine /\ ts.lift = None0
      BY <1>3, <1>15, <1>c, <3>1 DEF ReadIn, AwayIn
    <3>2. CASE ~(ts.mine /\ ts.lift = None0)
      BY <1>1, <1>3, <3>2 DEF ReadIn, AwayIn
    <3> QED
      BY <3>1, <3>2
  <2>m. e.lift = None0 /\ ~e.paused /\ e.top # e.lastSet /\ e.top < e.prev /\ e.goal = None0 =>
          m.mode = "free" /\ ~m.returning
    BY <1>5_1, <1>5_7, <1>6, <1>7, <1>11, MovedReads
  <2>r. e.lift = None0 /\ ~e.paused /\ e.top # e.lastSet => e.returning \/ m.mode # "anchored"
    BY <1>5_1, <1>5_7, <1>6, <1>7, <1>11, MovedReads
  <2>22. w => m.mode = "free" /\ ~m.returning /\ m.goal = None0 /\ m.top <= e.top /\ (m.ev => m.top < e.top)
    <3>1. CASE m = e
      <4>1. w => ts.mode = "free" /\ ~ts.returning
        <5>1. w /\ ~ts.away /\ ~ts.paused => ts.mode = "free" /\ ~ts.returning
          BY <1>e, <1>5_6, <1>5_8, <2>21, <2>m, <3>1
        <5> QED
          BY <1>1, <2>21, <5>1 DEF ReadIn, AwayIn, ModesIn
      <4> QED
        BY <1>e, <1>9, <1>5_6, <1>5_7, <2>21, <3>1, <4>1
    <3>2. CASE m # e
      BY <1>e, <1>5_6, <1>5_8, <2>17, <2>21, <3>2
    <3> QED
      BY <3>1, <3>2
  <2>23. AwayIn(q) /\ (q.away => q.top <= ts.top)
    <3>1. q.paused => ~q.returning
      BY <1>e, <2>17, <2>18, <2>20 DEF ReadIn, AwayIn
    <3> QED
      BY <1>9, <1>e, <2>16, <2>18, <2>19, <2>20, <2>22, <3>1 DEF AwayIn
  <2>24. HoldIn(q)
    <3>1. SUFFICES ASSUME q.mode = "anchored", ~q.unread
                   PROVE  q.lastSet = AnchorTop(q) /\ (q.lift = None0 /\ ~q.mine => q.top = q.lastSet)
      BY DEF HoldIn
    <3>2. k = e
      BY <2>17, <2>18, <2>20, <3>1
    <3>3. AnchorTop(q) = AnchorTop(ts)
      BY <1>a, <2>9, <3>2, AnchorTopSame DEF SameMode, SameText
    <3>4. ~e.unread
      BY <2>9, <3>1, <3>2
    <3>5. q.lastSet = AnchorTop(q)
      BY <1>e, <1>u, <2>20, <3>1, <3>2, <3>3, <3>4 DEF ReadIn, HoldIn
    <3>6. q.lift = None0 => q.top = q.lastSet
      BY <1>7, <2>18, <2>20, <2>r, <3>1, <3>2 DEF ModesIn
    <3> QED
      BY <3>5, <3>6
  <2>25. Leaves(ts, q)
    <3>1. SUFFICES ASSUME ts.mode = "anchored", q.mode # "anchored", ~ts.unread, ~ts.mine
                   PROVE  FALSE
      BY DEF Leaves
    <3>2. m # e /\ e.lift = None0 /\ e.top # e.lastSet
      BY <1>e, <2>17, <2>18, <2>20, <3>1
    <3> QED
      BY <1>e, <1>5_6, <3>1, <3>2 DEF ReadIn, HoldIn
  <2>26. ReadStep(ts, ts')
    BY <2>8, <2>23, <2>24, <2>25 DEF ReadStep, ReadIn, Stays
  <2> QED
    BY <2>26, <2>8, <2>10, <2>11, <2>13, <2>14, <2>15, <2>7_1, <2>7_2, <2>7_3, <2>7_4, <2>7_5, <2>7_6 DEF ScrollIn
<1> QED
  BY <1>14, <1>15

(* A gesture: where a question was lifted, its hold is given up.            *)
LEMMA GesturedGives ==
  ASSUME NEW s, ScrollIn(s), NEW x \in Nat, NEW g, g = Gestured(s, x)
  PROVE  /\ g \in ScrollStates /\ Fits(g) /\ ModesIn(g) /\ g.lift = None0 /\ ~g.paused
         /\ ~s.unread /\ ~g.ev => NoBlank(g)
         /\ g.unread = s.unread /\ SameRest(s, g) /\ SameReader(s, g)
         /\ s.lift = None0 => g = [s EXCEPT !.paused = FALSE]
         /\ s.lift # None0 => g.mode = "free"
<1>1. s \in ScrollStates /\ Fits(s) /\ ModesIn(s)
  BY DEF ScrollIn
<1>2. PICK p : p = [s EXCEPT !.paused = FALSE]
  BY Zenon
<1>3_1. p \in ScrollStates
  BY <1>1, <1>2, ZenonT(40) DEF ScrollStates
<1>3_2. SameText(s, p) /\ SameShow(s, p)
  BY <1>1, <1>2 DEF ScrollStates, SameText, SameShow
<1>3_3. SameRest(s, p) /\ SameReader(s, p)
  BY <1>1, <1>2 DEF ScrollStates, SameRest, SameReader
<1>3_4. SameMotion(s, p) /\ SamePlace0(s, p)
  BY <1>1, <1>2 DEF ScrollStates, SameMotion, SamePlace0
<1>3_5. p.mode = s.mode /\ p.tail = s.tail /\ p.returning = s.returning
  BY <1>1, <1>2 DEF ScrollStates
<1>3_6. p.paused = FALSE /\ p.prev = s.prev
  BY <1>1, <1>2 DEF ScrollStates
<1>4. Fits(p) /\ NoBlank(p) = NoBlank(s) /\ ModesIn(p)
  BY <1>1, <1>3_1, <1>3_2, <1>3_3, <1>3_4, <1>3_5, <1>3_6, FitsKept DEF SamePlace0, SameMotion, ModesIn
<1>5. CASE s.lift = None0
  <2>1. g = p
    BY <1>2, <1>5 DEF Gestured
  <2>2. p.lift = None0 /\ (~s.unread /\ ~p.ev => NoBlank(p))
    BY <1>4, <1>5, <1>3_1, <1>3_2, <1>3_3, <1>3_4, <1>3_5, <1>3_6 DEF ScrollIn, BlankIn, SameMotion
  <2> QED
    BY <1>2, <1>5, <2>1, <2>2, <1>4, <1>3_1, <1>3_2, <1>3_3, <1>3_4, <1>3_5, <1>3_6 DEF SameShow
<1>6. CASE s.lift # None0
  <2>1. PICK y \in Nat : y = x
    OBVIOUS
  <2>2. PICK q : q = StopAnimation(p, y)
    OBVIOUS
  <2>3. PICK z : z = [p EXCEPT !.lift = None0]
    BY Zenon
  <2>0. None0 \in Nat \cup {None0} /\ y \in Int
    OBVIOUS
  <2>4_1. z \in ScrollStates
    BY <1>3_1, <2>3, <2>0 DEF ScrollStates
  <2>4_2. SameText(p, z) /\ SameMode(p, z)
    BY <1>3_1, <2>3 DEF ScrollStates, SameText, SameMode
  <2>4_3. SameShow(p, z) /\ SameRest(p, z)
    BY <1>3_1, <2>3 DEF ScrollStates, SameShow, SameRest
  <2>4_4. SameReader(p, z) /\ SamePlace0(p, z)
    BY <1>3_1, <2>3 DEF ScrollStates, SameReader, SamePlace0
  <2>4_5. z.goal = p.goal /\ z.mine = p.mine /\ z.ev = p.ev
    BY <1>3_1, <2>3 DEF ScrollStates
  <2>4_6. z.lift = None0 /\ z.prev = p.prev
    BY <1>3_1, <2>3 DEF ScrollStates
  <2>5. q = IF y # p.top THEN SetTop(z, y) ELSE z
    BY <2>2, <2>3 DEF StopAnimation
  <2>6. /\ q \in ScrollStates /\ Fits(q) /\ SameMode(p, q) /\ SameShow(p, q) /\ SameRest(p, q)
        /\ SameReader(p, q) /\ q.lift = None0 /\ q.goal \in {p.goal, None0} /\ (q.mine => p.mine) /\ (p.ev => q.ev)
    <3>1. CASE y # p.top
      <4>1. q = SetTop(z, y)
        BY <2>5, <3>1
      <4>2. /\ q \in ScrollStates /\ Fits(q) /\ Same(z, q) /\ Reported(z, q)
            /\ q.lift = z.lift /\ q.goal = None0 /\ ~q.mine
        BY <4>1, <2>0, <2>4_1, <2>4_2, <2>4_3, <2>4_4, <2>4_5, <2>4_6, SetTopGives
      <4>3. SameMode(p, q) /\ SameShow(p, q) /\ SameRest(p, q) /\ SameReader(p, q)
        BY <4>2, <2>4_1, <2>4_2, <2>4_3, <2>4_4, <2>4_5, <2>4_6 DEF Same, SameMode, SameShow, SameRest, SameReader
      <4> QED
        BY <4>2, <4>3, <2>4_1, <2>4_2, <2>4_3, <2>4_4, <2>4_5, <2>4_6 DEF Reported
    <3>2. CASE y = p.top
      <4>1. q = z
        BY <2>5, <3>2
      <4>2. Fits(z)
        BY <1>4, <2>4_1, <2>4_2, <2>4_3, <2>4_4, <2>4_5, <2>4_6, FitsKept DEF SamePlace0
      <4> QED
        BY <4>1, <4>2, <2>4_1, <2>4_2, <2>4_3, <2>4_4, <2>4_5, <2>4_6
    <3> QED
      BY <3>1, <3>2
  <2>7. ModesIn(q) /\ (q.lift # None0 => q.mode = "anchored")
    BY <1>4, <2>6, <1>3_1, <1>3_2, <1>3_3, <1>3_4, <1>3_5, <1>3_6 DEF ModesIn, SameMode
  <2>8. g = LeaveAnchor(q, "free", y)
    BY <1>2, <1>6, <2>1, <2>2 DEF Gestured
  <2>9. Left(q, g) /\ g.mode = "free"
    <3>1. "free" \in {"bottom", "free"}
      OBVIOUS
    <3> QED
      BY <2>6, <2>7, <2>8, <3>1, LeaveGives
  <2>10. /\ g \in ScrollStates /\ Fits(g) /\ SameShow(q, g) /\ SameRest(q, g) /\ SameReader(q, g)
         /\ g.paused = q.paused /\ g.returning = q.returning /\ (q.ev => g.ev) /\ (g.ev \/ NoBlank(g))
         /\ g.lift = None0 /\ (g.mine => q.mine)
    BY <2>9 DEF Left, Reported
  <2>11. SameRest(s, g) /\ SameReader(s, g) /\ g.unread = s.unread
    BY <2>6, <2>10, <1>3_1, <1>3_2, <1>3_3, <1>3_4, <1>3_5, <1>3_6 DEF SameRest, SameReader, SameShow
  <2>12. ~g.paused /\ ModesIn(g)
    BY <2>6, <2>7, <2>9, <2>10, <1>3_1, <1>3_2, <1>3_3, <1>3_4, <1>3_5, <1>3_6 DEF ModesIn, SameMode
  <2> QED
    BY <1>6, <2>9, <2>10, <2>11, <2>12
<1> QED
  BY <1>5, <1>6

LEMMA ScrolledTyped ==
  ASSUME NEW s \in ScrollStates, NEW t \in Nat, NEW g \in Int, NEW n \in Int, NEW w \in BOOLEAN
  PROVE  /\ [s EXCEPT !.top = t, !.goal = g, !.ev = TRUE, !.mine = TRUE, !.reads = n, !.away = w] \in ScrollStates
         /\ [s EXCEPT !.top = t, !.ev = TRUE, !.goal = g, !.away = w] \in ScrollStates
         /\ [s EXCEPT !.top = t, !.ev = TRUE] \in ScrollStates
  BY ZenonT(40) DEF ScrollStates

LEMMA ReaderStep ==
  ASSUME ScrollIn(ts), ReadIn(ts), NEW t \in 0..MaxEnd, NEW key \in BOOLEAN, ReaderScroll(t, key)
  PROVE  ScrollIn(ts') /\ ReadStep(ts, ts')
<1>1. ts \in ScrollStates /\ Fits(ts) /\ ModesIn(ts)
  BY DEF ScrollIn
<1>0. t \in Nat /\ None0 \in Int
  BY ScrollAssumption, ScrollBounds
<1>2. PICK x \in OnScreen(ts) :
        LET s == IF key THEN [ts EXCEPT !.paused = FALSE] ELSE Gestured(ts, x) IN
        /\ t # s.top /\ t \in 0..MaxTop(s)
        /\ ts' = [s EXCEPT !.top = t, !.goal = None0, !.ev = TRUE, !.mine = TRUE,
                           !.reads = @ + 1, !.away = @ /\ t < s.top]
  BY DEF ReaderScroll
<1>3. PICK s : s = IF key THEN [ts EXCEPT !.paused = FALSE] ELSE Gestured(ts, x)
  BY Zenon
<1>4. s \in ScrollStates /\ ModesIn(s) /\ ~s.paused
  <2>1. CASE key
    <3>1. s = [ts EXCEPT !.paused = FALSE]
      BY <1>3, <2>1, Zenon
    <3>2_1. s \in ScrollStates
      BY <1>1, <3>1, ZenonT(40) DEF ScrollStates
    <3>2_2. SameText(ts, s) /\ SameShow(ts, s)
      BY <1>1, <3>1 DEF ScrollStates, SameText, SameShow
    <3>2_3. SameRest(ts, s) /\ SameReader(ts, s)
      BY <1>1, <3>1 DEF ScrollStates, SameRest, SameReader
    <3>2_4. SameMotion(ts, s) /\ SamePlace0(ts, s)
      BY <1>1, <3>1 DEF ScrollStates, SameMotion, SamePlace0
    <3>2_5. s.mode = ts.mode /\ s.tail = ts.tail /\ s.returning = ts.returning
      BY <1>1, <3>1 DEF ScrollStates
    <3>2_6. s.paused = FALSE /\ s.prev = ts.prev
      BY <1>1, <3>1 DEF ScrollStates
    <3> QED
      BY <1>1, <3>2_1, <3>2_2, <3>2_3, <3>2_4, <3>2_5, <3>2_6 DEF ModesIn, SameMotion
  <2>2. CASE ~key
    <3>1. s = Gestured(ts, x)
      BY <1>3, <2>2
    <3>2. x \in Nat
      BY <1>1, <1>2, ScreenNat
    <3> QED
      BY <3>1, <3>2, GesturedGives
  <2> QED
    BY <2>1, <2>2
<1>k. /\ s.reads = ts.reads /\ s.away = ts.away
      /\ ts.lift # None0 /\ ~key => s.mode = "free"
      /\ ts.lift = None0 \/ key => s = [ts EXCEPT !.paused = FALSE]
  <2>1. CASE key
    <3>1. s = [ts EXCEPT !.paused = FALSE]
      BY <1>3, <2>1, Zenon
    <3> QED
      BY <1>1, <2>1, <3>1 DEF ScrollStates
  <2>2. CASE ~key
    <3>1. s = Gestured(ts, x) /\ x \in Nat
      BY <1>1, <1>2, <1>3, <2>2, ScreenNat
    <3> QED
      BY <2>2, <3>1, GesturedGives DEF SameReader
  <2> QED
    BY <2>1, <2>2
<1>s. s = [ts EXCEPT !.paused = FALSE] =>
        /\ s.mode = ts.mode /\ s.top = ts.top /\ s.returning = ts.returning /\ s.prev = ts.prev
        /\ s.lastSet = ts.lastSet /\ s.unread = ts.unread
        /\ s.at = ts.at /\ s.ab = ts.ab /\ s.tail = ts.tail /\ s.foot = ts.foot
  BY <1>1 DEF ScrollStates
<1>5. PICK n \in Int : n = s.reads + 1
  BY <1>4, ScrollFields
<1>6. PICK w \in BOOLEAN : w = (s.away /\ t < s.top)
  BY Zenon
<1>7. /\ t <= MaxTop(s)
      /\ ts' = [s EXCEPT !.top = t, !.goal = None0, !.ev = TRUE, !.mine = TRUE,
                         !.reads = n, !.away = w]
  <2>1. /\ t \in 0..MaxTop(s)
        /\ ts' = [s EXCEPT !.top = t, !.goal = None0, !.ev = TRUE, !.mine = TRUE,
                           !.reads = @ + 1, !.away = @ /\ t < s.top]
    BY <1>2, <1>3, Zenon
  <2>2. t <= MaxTop(s)
    BY <2>1, <1>4, Measures
  <2> QED
    BY <2>1, <2>2, <1>5, <1>6, Zenon
<1>8. PICK r : r = [s EXCEPT !.top = t, !.goal = None0, !.ev = TRUE, !.mine = TRUE, !.reads = n, !.away = w]
  OBVIOUS
<1>9. r \in ScrollStates
  <2>1. n \in Int /\ w \in BOOLEAN
    BY <1>5, <1>6
  <2>2. [s EXCEPT !.top = t, !.goal = None0, !.ev = TRUE, !.mine = TRUE, !.reads = n, !.away = w] \in ScrollStates
    BY <2>1, <1>0, <1>4, ScrolledTyped
  <2> QED
    BY <2>2, <1>8, Zenon
<1>10. SameText(s, r) /\ SameMode(s, r)
  BY <1>4, <1>8 DEF ScrollStates, SameText, SameMode
<1>11. r.reserve = s.reserve /\ r.lift = s.lift /\ r.goal = None0 /\ r.ev /\ r.mine
  BY <1>4, <1>8 DEF ScrollStates
<1>12. r.top = t
  BY <1>4, <1>8 DEF ScrollStates
<1>13. Fits(r)
  BY <1>7, <1>10, <1>11, <1>12, MeasuredSame DEF Fits
<1>14. ModesIn(r)
  BY <1>4, <1>10, <1>11 DEF ModesIn, SameMode
<1>15. ScrollIn(r)
  BY <1>9, <1>11, <1>13, <1>14 DEF ScrollIn, ReturnIn, FollowIn, BlankIn, AsSet
<1>16. r.reads = n /\ r.away = w /\ r.prev = s.prev /\ r.unread = s.unread /\ r.lastSet = s.lastSet
  BY <1>4, <1>8 DEF ScrollStates
<1>17. AwayIn(r)
  <2>1. r.paused = FALSE
    BY <1>4, <1>10 DEF SameMode, ScrollStates
  <2>2. SUFFICES ASSUME w
                 PROVE  r.mode = "free" /\ ~r.returning /\ r.top < r.prev
    BY <1>0, <1>9, <1>11, <1>16, <2>1, ScrollFields DEF AwayIn
  <2>3. ts.away /\ t < s.top
    BY <1>6, <1>k, <2>2
  <2>4. ts.mode = "free" /\ ~ts.returning /\ ts.top <= ts.prev /\ ts.lift = None0
    BY <1>1, <2>3 DEF ReadIn, AwayIn, ModesIn
  <2>5. s.mode = ts.mode /\ s.top = ts.top /\ s.returning = ts.returning /\ s.prev = ts.prev
    BY <1>k, <1>s, <2>4
  <2>6. ts.top \in Nat /\ ts.prev \in Int
    BY <1>1, ScrollFields
  <2> QED
    BY <1>0, <1>10, <1>12, <1>16, <2>3, <2>4, <2>5, <2>6 DEF SameMode
<1>18. HoldIn(r)
  <2>1. SUFFICES ASSUME r.mode = "anchored", ~r.unread
                 PROVE  r.lastSet = AnchorTop(r)
    BY <1>11 DEF HoldIn
  <2>2. s.mode = "anchored"
    BY <1>10, <2>1 DEF SameMode
  <2>3. s = [ts EXCEPT !.paused = FALSE]
    BY <1>k, <2>2
  <2>4. AnchorTop(r) = AnchorTop(ts)
    BY <1>10, <1>s, <2>3, AnchorTopSame DEF SameMode, SameText
  <2> QED
    BY <1>16, <1>s, <2>1, <2>2, <2>3, <2>4 DEF ReadIn, HoldIn
<1>19. r.reads # ts.reads
  BY <1>1, <1>5, <1>16, <1>k, ScrollFields
<1>20. ReadStep(ts, r)
  BY <1>17, <1>18, <1>19 DEF ReadStep, ReadIn, Stays, Leaves
<1> QED
  BY <1>7, <1>8, <1>15, <1>20

LEMMA AskStep == ASSUME ScrollIn(ts), ReadIn(ts), AnchorNextTurn PROVE ScrollIn(ts') /\ ReadStep(ts, ts')
<1>1. ts \in ScrollStates
  BY DEF ScrollIn
<1>2. PICK n \in Int : n = ts.reads + 1
  BY <1>1, ScrollFields
<1>3. PICK r : r = [ts EXCEPT !.armed = TRUE, !.paused = FALSE, !.away = FALSE, !.reads = n]
  OBVIOUS
<1>4_1. r \in ScrollStates
  BY <1>1, <1>3, <1>2, ZenonT(40) DEF ScrollStates
<1>4_2. SameText(ts, r) /\ SameShow(ts, r)
  BY <1>1, <1>3 DEF ScrollStates, SameText, SameShow
<1>4_3. SameMotion(ts, r) /\ SamePlace0(ts, r)
  BY <1>1, <1>3 DEF ScrollStates, SameMotion, SamePlace0
<1>4_4. r.mode = ts.mode /\ r.tail = ts.tail /\ r.returning = ts.returning
  BY <1>1, <1>3 DEF ScrollStates
<1>4_5. r.on = ts.on /\ r.calm = ts.calm /\ r.timer = ts.timer
  BY <1>1, <1>3 DEF ScrollStates
<1>4_6. r.resized = ts.resized
  BY <1>1, <1>3 DEF ScrollStates
<1>4_7. r.armed = TRUE /\ r.paused = FALSE /\ r.away = FALSE /\ r.reads = n
  BY <1>1, <1>3 DEF ScrollStates
<1>4_8. r.prev = ts.prev /\ r.at = ts.at /\ r.ab = ts.ab
  BY <1>1, <1>3 DEF ScrollStates
<1>5. ts' = r
  BY <1>2, <1>3 DEF AnchorNextTurn
<1>6. ReadIn(r)
  BY <1>4_2, <1>4_3, <1>4_4, <1>4_7, <1>4_8, ReadKept DEF SameText, SameShow, SamePlace0
<1>7. r.reads # ts.reads
  BY <1>1, <1>2, <1>4_7, ScrollFields
<1>8. ReadStep(ts, r)
  BY <1>6, <1>7 DEF ReadStep, Stays, Leaves
<1> QED
  BY <1>8, <1>5, <1>4_1, <1>4_2, <1>4_3, <1>4_4, <1>4_5, <1>4_6, <1>4_7, <1>4_8, ScrollKept

LEMMA ToBottomStep == ASSUME ScrollIn(ts), ReadIn(ts), ScrollToBottom PROVE ScrollIn(ts') /\ ReadStep(ts, ts')
<1>1. ts \in ScrollStates
  BY DEF ScrollIn
<1>2. PICK x \in OnScreen(ts) :
       LET g == Gestured(ts, x)
           a == IF g.mode = "anchored" THEN ClearAnchor(g, g.top) ELSE g
           s == [a EXCEPT !.mode = "bottom", !.show = FALSE, !.reads = @ + 1, !.away = FALSE] IN
       ts' = IF s.calm THEN ReleaseReserve(SetTop(s, EffectiveHeight(s)))
             ELSE [s EXCEPT !.returning = TRUE, !.timer = TRUE, !.goal = None0]
  BY DEF ScrollToBottom
<1>3. PICK g : g = Gestured(ts, x)
  OBVIOUS
<1>4. x \in Nat
  BY <1>1, <1>2, ScreenNat
<1>5. /\ g \in ScrollStates /\ Fits(g) /\ ModesIn(g) /\ g.lift = None0 /\ ~g.paused
      /\ ~ts.unread /\ ~g.ev => NoBlank(g)
      /\ g.unread = ts.unread /\ g.reads = ts.reads
  BY <1>3, <1>4, GesturedGives DEF SameReader
<1>6. PICK a : a = IF g.mode = "anchored" THEN ClearAnchor(g, g.top) ELSE g
  OBVIOUS
<1>7. /\ a \in ScrollStates /\ Fits(a) /\ a.lift = None0 /\ ~a.paused /\ (a.mine => a.ev)
      /\ ~a.unread /\ ~a.ev => NoBlank(a)
      /\ a.reads = g.reads
  <2>1. CASE g.mode = "anchored"
    <3>1. a = ClearAnchor(g, g.top) /\ g.top \in Nat
      BY <1>5, <1>6, <2>1, ScrollFields
    <3>2. /\ a \in ScrollStates /\ SameText(g, a) /\ SameShow(g, a) /\ a.paused = g.paused /\ a.reserve = g.reserve
          /\ a.reads = g.reads /\ a.lift = None0 /\ Fits(a) /\ a.top = g.top /\ a.ev = g.ev /\ a.mine = g.mine
      BY <3>1, <1>5, ClearGives DEF SameReader
    <3>3. NoBlank(a) = NoBlank(g)
      BY <3>2, FitsKept
    <3> QED
      BY <1>5, <3>2, <3>3 DEF SameShow, ModesIn
  <2>2. CASE g.mode # "anchored"
    BY <1>5, <1>6, <2>2 DEF ModesIn
  <2> QED
    BY <2>1, <2>2
<1>8. PICK n \in Int : n = a.reads + 1
  BY <1>7, ScrollFields
<1>9. PICK s : s = [a EXCEPT !.mode = "bottom", !.show = FALSE, !.reads = n, !.away = FALSE]
  OBVIOUS
<1>10_1. s \in ScrollStates
  BY <1>7, <1>9, <1>8, ZenonT(40) DEF ScrollStates
<1>10_2. SameText(a, s) /\ SameRest(a, s)
  BY <1>7, <1>9 DEF ScrollStates, SameText, SameRest
<1>10_3. SameMotion(a, s) /\ SamePlace0(a, s)
  BY <1>7, <1>9 DEF ScrollStates, SameMotion, SamePlace0
<1>10_4. s.tail = a.tail /\ s.paused = a.paused /\ s.returning = a.returning
  BY <1>7, <1>9 DEF ScrollStates
<1>10_5. s.late = a.late /\ s.unread = a.unread
  BY <1>7, <1>9 DEF ScrollStates
<1>10_6. s.resized = a.resized
  BY <1>7, <1>9 DEF ScrollStates
<1>10_7. s.mode = "bottom" /\ s.show = FALSE /\ s.reads = n /\ s.away = FALSE
  BY <1>7, <1>9 DEF ScrollStates
<1>10_8. s.prev = a.prev
  BY <1>7, <1>9 DEF ScrollStates
<1>11. ts' = IF s.calm THEN ReleaseReserve(SetTop(s, EffectiveHeight(s)))
             ELSE [s EXCEPT !.returning = TRUE, !.timer = TRUE, !.goal = None0]
  BY <1>2, <1>3, <1>6, <1>8, <1>9, Zenon
<1>r. s.reads # ts.reads
  BY <1>1, <1>5, <1>7, <1>8, <1>10_7, ScrollFields
<1>12. CASE s.calm
  <2>1. PICK p : p = ReleaseReserve(SetTop(s, EffectiveHeight(s)))
    OBVIOUS
  <2>2. /\ p \in ScrollStates /\ Fits(p) /\ Same(s, p) /\ DistanceFromBottom(p) <= 0
        /\ p.lift = s.lift /\ p.goal = None0 /\ ~p.mine /\ (p.ev \/ NoBlank(p))
    BY <1>10_1, <1>10_2, <1>10_3, <1>10_4, <1>10_5, <1>10_6, <1>10_7, <1>10_8, <2>1, FollowedGives
  <2>3. IsNearBottom(p) /\ IsScrolledFromBottom(p) = FALSE
    BY <2>2, AtTheEnd
  <2>4. p.mode = "bottom" /\ p.show = FALSE /\ ~p.paused /\ p.lift = None0
    BY <1>7, <2>2, <1>10_1, <1>10_2, <1>10_3, <1>10_4, <1>10_5, <1>10_6, <1>10_7, <1>10_8 DEF Same, SameMode, SameShow, SameMotion
  <2>5. ModesIn(p)
    BY <2>2, <2>4 DEF ModesIn
  <2>6. ScrollIn(p)
    BY <2>2, <2>3, <2>4, <2>5, Zenon DEF ScrollIn, ReturnIn, FollowIn, BlankIn
  <2>7. p.reads = s.reads /\ p.away = FALSE
    BY <2>2, <1>10_7 DEF Same, SameReader
  <2>8. ReadStep(ts, p)
    BY <1>r, <2>4, <2>7 DEF ReadStep, ReadIn, AwayIn, HoldIn, Stays, Leaves
  <2> QED
    BY <1>11, <1>12, <2>1, <2>6, <2>8
<1>13. CASE ~s.calm
  <2>0. None0 \in Int
    BY ScrollBounds
  <2>1. PICK p : p = [s EXCEPT !.returning = TRUE, !.timer = TRUE, !.goal = None0]
    OBVIOUS
  <2>2_1. p \in ScrollStates
    BY <1>10_1, <2>1, <2>0, ZenonT(40) DEF ScrollStates
  <2>2_2. SameText(s, p) /\ SameShow(s, p)
    BY <1>10_1, <2>1 DEF ScrollStates, SameText, SameShow
  <2>2_3. SameReader(s, p) /\ SamePlace0(s, p)
    BY <1>10_1, <2>1 DEF ScrollStates, SameReader, SamePlace0
  <2>2_4. p.mode = s.mode /\ p.tail = s.tail /\ p.paused = s.paused
    BY <1>10_1, <2>1 DEF ScrollStates
  <2>2_5. p.on = s.on /\ p.calm = s.calm /\ p.armed = s.armed
    BY <1>10_1, <2>1 DEF ScrollStates
  <2>2_6. p.lift = s.lift /\ p.mine = s.mine /\ p.ev = s.ev
    BY <1>10_1, <2>1 DEF ScrollStates
  <2>2_7. p.returning = TRUE /\ p.timer = TRUE /\ p.goal = None0 /\ p.prev = s.prev
    BY <1>10_1, <2>1 DEF ScrollStates
  <2>3. Fits(p) /\ NoBlank(p) = NoBlank(a)
    <3>1. Fits(s) /\ NoBlank(s) = NoBlank(a)
      BY <1>7, <1>10_1, <1>10_2, <1>10_3, <1>10_4, <1>10_5, <1>10_6, <1>10_7, <1>10_8, FitsKept DEF SamePlace0
    <3> QED
      BY <3>1, <2>2_1, <2>2_2, <2>2_3, <2>2_4, <2>2_5, <2>2_6, <2>2_7, FitsKept DEF SamePlace0
  <2>4. p.mode = "bottom" /\ ~p.paused /\ p.lift = None0 /\ p.ev = a.ev /\ p.mine = a.mine /\ p.unread = a.unread
    BY <1>7, <2>2_1, <2>2_2, <2>2_3, <2>2_4, <2>2_5, <2>2_6, <2>2_7, <1>10_1, <1>10_2, <1>10_3, <1>10_4, <1>10_5, <1>10_6, <1>10_7, <1>10_8 DEF SameMotion, SameShow
  <2>5. ModesIn(p)
    BY <1>7, <2>4 DEF ModesIn
  <2>6. BlankIn(p)
    BY <1>7, <2>3, <2>4 DEF BlankIn
  <2>7. ScrollIn(p)
    BY <2>2_1, <2>2_2, <2>2_3, <2>2_4, <2>2_5, <2>2_6, <2>2_7, <2>3, <2>5, <2>6 DEF ScrollIn, ReturnIn, FollowIn
  <2>8. p.reads = s.reads /\ p.away = FALSE
    BY <2>2_3, <1>10_7 DEF SameReader
  <2>9. ReadStep(ts, p)
    BY <1>r, <2>4, <2>8 DEF ReadStep, ReadIn, AwayIn, HoldIn, Stays, Leaves
  <2> QED
    BY <1>11, <1>13, <2>1, <2>7, <2>9
<1> QED
  BY <1>12, <1>13

LEMMA TimerStep == ASSUME ScrollIn(ts), ReadIn(ts), ReturnTimer PROVE ScrollIn(ts') /\ ReadStep(ts, ts')
<1>1. ts \in ScrollStates
  BY DEF ScrollIn
<1>2. PICK g \in Int : g = IF ts.returning THEN Smaller(EffectiveHeight(ts), MaxTop(ts)) ELSE ts.goal
  BY <1>1, Measures, ScrollFields DEF Smaller
<1>3. PICK r : r = [ts EXCEPT !.timer = FALSE, !.goal = g]
  OBVIOUS
<1>4_1. r \in ScrollStates
  BY <1>1, <1>3, <1>2, ZenonT(40) DEF ScrollStates
<1>4_2. SameText(ts, r) /\ SameMode(ts, r)
  BY <1>1, <1>3 DEF ScrollStates, SameText, SameMode
<1>4_3. SameShow(ts, r) /\ SameReader(ts, r)
  BY <1>1, <1>3 DEF ScrollStates, SameShow, SameReader
<1>4_4. SamePlace0(ts, r)
  BY <1>1, <1>3 DEF ScrollStates, SamePlace0
<1>4_5. r.on = ts.on /\ r.calm = ts.calm /\ r.armed = ts.armed
  BY <1>1, <1>3 DEF ScrollStates
<1>4_6. r.lift = ts.lift /\ r.mine = ts.mine /\ r.ev = ts.ev
  BY <1>1, <1>3 DEF ScrollStates
<1>4_7. r.timer = FALSE /\ r.goal = g /\ r.prev = ts.prev
  BY <1>1, <1>3 DEF ScrollStates
<1>5. ts' = r
  BY <1>2, <1>3 DEF ReturnTimer
<1>6. Fits(r) = Fits(ts) /\ NoBlank(r) = NoBlank(ts)
  BY <1>4_1, <1>4_2, <1>4_3, <1>4_4, <1>4_5, <1>4_6, <1>4_7, FitsKept DEF SamePlace0
<1>7. IsNearBottom(r) = IsNearBottom(ts) /\ IsScrolledFromBottom(r) = IsScrolledFromBottom(ts)
  BY <1>4_1, <1>4_2, <1>4_3, <1>4_4, <1>4_5, <1>4_6, <1>4_7, MeasuredSame DEF SamePlace0
<1>8. ~ts.returning => g = ts.goal
  BY <1>2
<1>9. ModesIn(r)
  BY <1>8, <1>4_1, <1>4_2, <1>4_3, <1>4_4, <1>4_5, <1>4_6, <1>4_7 DEF ScrollIn, ModesIn, SameMode
<1>10. ReturnIn(r)
  BY <1>7, <1>4_1, <1>4_2, <1>4_3, <1>4_4, <1>4_5, <1>4_6, <1>4_7 DEF ScrollIn, ReturnIn, SameMode, SameShow
<1>11. FollowIn(r)
  BY <1>7, <1>8, <1>4_1, <1>4_2, <1>4_3, <1>4_4, <1>4_5, <1>4_6, <1>4_7 DEF ScrollIn, FollowIn, AsSet, SameMode, SameShow, SamePlace0
<1>12. BlankIn(r)
  BY <1>6, <1>4_1, <1>4_2, <1>4_3, <1>4_4, <1>4_5, <1>4_6, <1>4_7, Zenon DEF ScrollIn, BlankIn, AsSet, SameMode, SameShow, SamePlace0
<1>13. AnchorTop(r) = AnchorTop(ts)
  BY <1>4_2, AnchorTopSame DEF SameMode, SameText
<1>14. ReadIn(r)
  BY <1>8, <1>13, <1>4_2, <1>4_3, <1>4_4, <1>4_6, <1>4_7 DEF ReadIn, AwayIn, HoldIn, SameMode, SameShow, SameReader, SamePlace0
<1>15. ts.top \in Nat
  BY <1>1, ScrollFields
<1>16. ReadStep(ts, r)
  BY <1>14, <1>15, <1>4_2, <1>4_4 DEF ReadStep, Stays, Leaves, SameMode, SamePlace0
<1> QED
  BY <1>16, <1>5, <1>6, <1>9, <1>10, <1>11, <1>12, <1>4_1, <1>4_2, <1>4_3, <1>4_4, <1>4_5, <1>4_6, <1>4_7, Zenon DEF ScrollIn

LEMMA SmoothStepKeeps == ASSUME ScrollIn(ts), ReadIn(ts), SmoothStep PROVE ScrollIn(ts') /\ ReadStep(ts, ts')
<1>1. /\ ts \in ScrollStates /\ Fits(ts) /\ ModesIn(ts) /\ ts.goal # None0 /\ ts.mode # "anchored"
      /\ ts.lift = None0
  BY DEF ScrollIn, SmoothStep, ModesIn
<1>0. None0 \in Int /\ ts.goal \in Int /\ ts.top \in Nat /\ MaxTop(ts) \in Nat
  BY <1>1, ScrollBounds, ScrollFields, Measures
<1>a. ~ts.away /\ (ts.paused => ~ts.returning)
  BY <1>1 DEF ReadIn, AwayIn
<1>2. PICK g \in Int : g = Smaller(ts.goal, MaxTop(ts))
  BY <1>0 DEF Smaller
<1>3. g <= MaxTop(ts)
  BY <1>0, <1>2 DEF Smaller
<1>4. CASE ts.top >= g
  <2>1. PICK r : r = [ts EXCEPT !.goal = None0]
    BY Zenon
  <2>2_1. r \in ScrollStates
    BY <1>1, <2>1, <1>0 DEF ScrollStates
  <2>2_2. SameText(ts, r) /\ SameMode(ts, r)
    BY <1>1, <2>1 DEF ScrollStates, SameText, SameMode
  <2>2_3. SameShow(ts, r) /\ SameRest(ts, r)
    BY <1>1, <2>1 DEF ScrollStates, SameShow, SameRest
  <2>2_4. SameReader(ts, r) /\ SamePlace0(ts, r)
    BY <1>1, <2>1 DEF ScrollStates, SameReader, SamePlace0
  <2>2_5. r.lift = ts.lift /\ r.mine = ts.mine /\ r.ev = ts.ev
    BY <1>1, <2>1 DEF ScrollStates
  <2>2_6. r.goal = None0 /\ r.prev = ts.prev
    BY <1>1, <2>1 DEF ScrollStates
  <2>3. ts' = r
    BY <1>2, <1>4, <2>1 DEF SmoothStep
  <2>4. Fits(r) = Fits(ts) /\ NoBlank(r) = NoBlank(ts)
    BY <2>2_1, <2>2_2, <2>2_3, <2>2_4, <2>2_5, <2>2_6, FitsKept DEF SamePlace0
  <2>5. IsNearBottom(r) = IsNearBottom(ts) /\ IsScrolledFromBottom(r) = IsScrolledFromBottom(ts)
    BY <2>2_1, <2>2_2, <2>2_3, <2>2_4, <2>2_5, <2>2_6, MeasuredSame DEF SamePlace0
  <2>6. ModesIn(r)
    BY <1>1, <2>2_1, <2>2_2, <2>2_3, <2>2_4, <2>2_5, <2>2_6 DEF ModesIn, SameMode
  <2>7. ReturnIn(r)
    BY <2>5, <2>2_1, <2>2_2, <2>2_3, <2>2_4, <2>2_5, <2>2_6 DEF ScrollIn, ReturnIn, SameMode, SameShow
  <2>8. FollowIn(r)
    BY <1>1, <2>5, <2>2_1, <2>2_2, <2>2_3, <2>2_4, <2>2_5, <2>2_6 DEF ScrollIn, FollowIn, SameMode, SameShow
  <2>9. BlankIn(r)
    BY <2>4, <2>2_1, <2>2_2, <2>2_3, <2>2_4, <2>2_5, <2>2_6, Zenon DEF ScrollIn, BlankIn, AsSet, SameMode, SameShow, SamePlace0
  <2>10. ReadStep(ts, r)
    BY <1>1, <1>a, <2>2_2, <2>2_4 DEF ReadStep, ReadIn, AwayIn, HoldIn, Stays, Leaves, SameMode, SameReader
  <2> QED
    BY <2>10, <1>1, <2>3, <2>4, <2>6, <2>7, <2>8, <2>9, <2>2_1, <2>2_2, <2>2_3, <2>2_4, <2>2_5, <2>2_6, Zenon DEF ScrollIn
<1>5. CASE ~(ts.top >= g)
  <2>1. PICK t \in {ts.top + 1, g} : ts' = [ts EXCEPT !.top = t, !.ev = TRUE]
    BY <1>2, <1>5 DEF SmoothStep
  <2>2. t \in Nat /\ t > ts.top /\ t <= MaxTop(ts)
    BY <1>0, <1>2, <1>3, <1>5, <2>1
  <2>3. PICK r : r = [ts EXCEPT !.top = t, !.ev = TRUE]
    OBVIOUS
  <2>4_1. r \in ScrollStates
    BY <1>1, <2>3, <2>2, ZenonT(40) DEF ScrollStates
  <2>4_2. SameText(ts, r) /\ SameMode(ts, r)
    BY <1>1, <2>3 DEF ScrollStates, SameText, SameMode
  <2>4_3. SameShow(ts, r) /\ SameRest(ts, r)
    BY <1>1, <2>3 DEF ScrollStates, SameShow, SameRest
  <2>4_4. SameReader(ts, r)
    BY <1>1, <2>3 DEF ScrollStates, SameReader
  <2>4_5. r.lift = ts.lift /\ r.goal = ts.goal /\ r.mine = ts.mine
    BY <1>1, <2>3 DEF ScrollStates
  <2>4_6. r.reserve = ts.reserve /\ r.lastSet = ts.lastSet
    BY <1>1, <2>3 DEF ScrollStates
  <2>4_7. r.top = t /\ r.ev = TRUE /\ r.prev = ts.prev
    BY <1>1, <2>3 DEF ScrollStates
  <2>5. MaxTop(r) = MaxTop(ts) /\ EffectiveHeight(r) = EffectiveHeight(ts)
    BY <2>4_1, <2>4_2, <2>4_3, <2>4_4, <2>4_5, <2>4_6, <2>4_7, MeasuredSame
  <2>6. Fits(r)
    BY <2>2, <2>5, <2>4_1, <2>4_2, <2>4_3, <2>4_4, <2>4_5, <2>4_6, <2>4_7 DEF Fits
  <2>7. ModesIn(r)
    BY <1>1, <2>4_1, <2>4_2, <2>4_3, <2>4_4, <2>4_5, <2>4_6, <2>4_7 DEF ModesIn, SameMode
  <2>8. IsNearBottom(ts) => IsNearBottom(r)
    <3>1. DistanceFromBottom(ts) = EffectiveHeight(ts) - ts.top - Port /\ EffectiveHeight(ts) \in Nat
      BY <1>1, Measures
    <3>2. DistanceFromBottom(r) = EffectiveHeight(r) - r.top - Port
      BY <2>4_1, Measures
    <3>3. DistanceFromBottom(r) < DistanceFromBottom(ts) /\ DistanceFromBottom(r) \in Int /\ DistanceFromBottom(ts) \in Int
      BY <3>1, <3>2, <1>0, <2>2, <2>5, <2>4_1, <2>4_2, <2>4_3, <2>4_4, <2>4_5, <2>4_6, <2>4_7, ScrollBounds
    <3> QED
      BY <3>3, ScrollBounds DEF IsNearBottom
  <2>9. FollowIn(r)
    BY <1>1, <2>8, <2>4_1, <2>4_2, <2>4_3, <2>4_4, <2>4_5, <2>4_6, <2>4_7 DEF ScrollIn, FollowIn, SameMode, SameShow
  <2>10. ts' = r
    BY <2>1, <2>3
  <2>11. r.mode # "anchored" /\ r.ev
    BY <1>1, <2>4_1, <2>4_2, <2>4_3, <2>4_4, <2>4_5, <2>4_6, <2>4_7 DEF SameMode
  <2>12. ReadStep(ts, r)
    BY <1>1, <1>a, <2>4_2, <2>4_4 DEF ReadStep, ReadIn, AwayIn, HoldIn, Stays, Leaves, SameMode, SameReader
  <2> QED
    BY <2>12, <2>6, <2>7, <2>9, <2>10, <2>11, <2>4_1 DEF ScrollIn, ReturnIn, BlankIn
<1> QED
  BY <1>4, <1>5

LEMMA PauseTyped ==
  ASSUME NEW s \in ScrollStates, NEW l \in BOOLEAN, NEW u \in BOOLEAN
  PROVE  [s EXCEPT !.returning = FALSE, !.late = l, !.unread = u] \in ScrollStates
  BY ZenonT(40) DEF ScrollStates

LEMMA PausedTyped ==
  ASSUME NEW s \in ScrollStates, NEW p \in BOOLEAN, NEW n \in Int
  PROVE  [s EXCEPT !.paused = p, !.reads = n, !.away = FALSE] \in ScrollStates
  BY ZenonT(40) DEF ScrollStates

LEMMA PauseStep == ASSUME ScrollIn(ts), ReadIn(ts), NEW p \in BOOLEAN, PauseFollowing(p)
                   PROVE  ScrollIn(ts') /\ ReadStep(ts, ts')
<1>1. ts \in ScrollStates /\ Fits(ts) /\ ModesIn(ts)
  BY DEF ScrollIn
<1>2. PICK n \in Int : n = ts.reads + 1
  BY <1>1, ScrollFields
<1>3. PICK s : s = [ts EXCEPT !.paused = p, !.reads = n, !.away = FALSE]
  OBVIOUS
<1>4b_1. s \in ScrollStates
  <2>1. [ts EXCEPT !.paused = p, !.reads = n, !.away = FALSE] \in ScrollStates
    BY <1>1, <1>2, PausedTyped
  <2> QED
    BY <1>3, <2>1
<1>4b_2. SameText(ts, s) /\ SameShow(ts, s)
  BY <1>1, <1>3 DEF ScrollStates, SameText, SameShow
<1>4b_3. SameRest(ts, s) /\ SameMotion(ts, s)
  BY <1>1, <1>3 DEF ScrollStates, SameRest, SameMotion
<1>4b_4. SamePlace0(ts, s)
  BY <1>1, <1>3 DEF ScrollStates, SamePlace0
<1>4b_5. s.mode = ts.mode /\ s.tail = ts.tail /\ s.returning = ts.returning
  BY <1>1, <1>3 DEF ScrollStates
<1>4b_6. s.resized = ts.resized
  BY <1>1, <1>3 DEF ScrollStates
<1>4b_7. s.paused = p /\ s.reads = n /\ s.away = FALSE /\ s.prev = ts.prev
  BY <1>1, <1>3 DEF ScrollStates
<1>4b_8. s.at = ts.at /\ s.ab = ts.ab
  BY <1>1, <1>3 DEF ScrollStates
<1>r. s.reads # ts.reads
  BY <1>1, <1>2, <1>4b_7, ScrollFields
<1>5. CASE ~p
  <2>1. ts' = s
    BY <1>2, <1>3, <1>5 DEF PauseFollowing
  <2>2. ReadIn(s)
    BY <1>5, <1>4b_2, <1>4b_3, <1>4b_4, <1>4b_5, <1>4b_7, <1>4b_8, ReadKept DEF SameText, SameShow, SamePlace0
  <2>3. ReadStep(ts, s)
    BY <2>2, <1>r DEF ReadStep, Stays, Leaves
  <2> QED
    BY <2>3, <1>5, <2>1, <1>4b_1, <1>4b_2, <1>4b_3, <1>4b_4, <1>4b_5, <1>4b_6, <1>4b_7, ScrollKept
<1>6. CASE p
  <2>1. PICK l \in BOOLEAN : l = (s.late \/ s.returning \/ s.lift # None0)
    BY Zenon
  <2>2. PICK u \in BOOLEAN : u = (s.unread \/ s.mode = "anchored")
    BY Zenon
  <2>3. PICK a : a = [s EXCEPT !.returning = FALSE, !.late = l, !.unread = u]
    OBVIOUS
  <2>t. l \in BOOLEAN /\ u \in BOOLEAN
    BY <2>1, <2>2
  <2>A4_1. a \in ScrollStates
    <3>1. [s EXCEPT !.returning = FALSE, !.late = l, !.unread = u] \in ScrollStates
      BY <1>4b_1, <2>t, PauseTyped
    <3> QED
      BY <3>1, <2>3
  <2>A4_2. SameText(s, a) /\ SameRest(s, a)
    BY <1>4b_1, <2>3 DEF ScrollStates, SameText, SameRest
  <2>A4_3. SameReader(s, a) /\ SameMotion(s, a)
    BY <1>4b_1, <2>3 DEF ScrollStates, SameReader, SameMotion
  <2>A4_4. SamePlace0(s, a)
    BY <1>4b_1, <2>3 DEF ScrollStates, SamePlace0
  <2>A4_5. a.mode = s.mode /\ a.tail = s.tail /\ a.paused = s.paused
    BY <1>4b_1, <2>3 DEF ScrollStates
  <2>A4_6. a.show = s.show
    BY <1>4b_1, <2>3 DEF ScrollStates
  <2>A4_7. a.returning = FALSE /\ a.late = l /\ a.unread = u /\ a.prev = s.prev
    BY <1>4b_1, <2>3 DEF ScrollStates
  <2>5. PICK c : c = IF a.mode = "anchored" THEN ClearAnchor(a, a.top) ELSE a
    OBVIOUS
  <2>6. Fits(a) /\ NoBlank(a) = NoBlank(ts)
    <3>1. Fits(s) /\ NoBlank(s) = NoBlank(ts)
      BY <1>1, <1>4b_1, <1>4b_2, <1>4b_3, <1>4b_4, <1>4b_5, <1>4b_6, <1>4b_7, FitsKept DEF SamePlace0
    <3> QED
      BY <3>1, <2>A4_1, <2>A4_2, <2>A4_3, <2>A4_4, <2>A4_5, <2>A4_6, <2>A4_7, FitsKept DEF SamePlace0
  <2>7. a.mode = ts.mode /\ a.lift = ts.lift /\ a.show = ts.show /\ a.top = ts.top /\ a.ev = ts.ev /\ a.mine = ts.mine
    BY <2>A4_1, <2>A4_2, <2>A4_3, <2>A4_4, <2>A4_5, <2>A4_6, <2>A4_7, <1>4b_1, <1>4b_2, <1>4b_3, <1>4b_4, <1>4b_5, <1>4b_6, <1>4b_7 DEF SameMode, SameMotion, SameShow, SamePlace0
  <2>8. SameText(ts, a)
    BY <2>A4_1, <2>A4_2, <2>A4_3, <2>A4_4, <2>A4_5, <2>A4_6, <2>A4_7, <1>4b_1, <1>4b_2, <1>4b_3, <1>4b_4, <1>4b_5, <1>4b_6, <1>4b_7 DEF SameText
  <2>9. /\ c \in ScrollStates /\ SameText(ts, c) /\ SameShow(a, c) /\ Fits(c) /\ NoBlank(c) = NoBlank(ts)
        /\ SameReader(a, c) /\ c.returning = a.returning
        /\ c.lift = None0 /\ c.top = ts.top /\ c.ev = ts.ev /\ c.mine = ts.mine
    <3>1. CASE a.mode = "anchored"
      <4>1. c = ClearAnchor(a, a.top) /\ a.top \in Nat
        BY <2>A4_1, <2>5, <3>1, ScrollFields
      <4>2. /\ SameReader(a, c) /\ c.returning = a.returning
            /\ c \in ScrollStates /\ SameText(a, c) /\ SameShow(a, c) /\ c.reserve = a.reserve
            /\ c.lift = None0 /\ Fits(c) /\ c.top = a.top /\ c.ev = a.ev /\ c.mine = a.mine
        BY <4>1, <2>A4_1, <2>6, ClearGives
      <4>3. NoBlank(c) = NoBlank(a)
        BY <4>2, FitsKept
      <4> QED
        BY <2>6, <2>7, <2>8, <4>2, <4>3 DEF SameText
    <3>2. CASE a.mode # "anchored"
      <4>1. c = a
        BY <2>5, <3>2
      <4>2. a.lift = None0
        BY <1>1, <2>7, <3>2 DEF ModesIn
      <4> QED
        BY <2>A4_1, <2>6, <2>7, <2>8, <4>1, <4>2 DEF SameShow, SameReader
    <3> QED
      BY <3>1, <3>2
  <2>10. PICK r : r = [c EXCEPT !.mode = "free"]
    BY Zenon
  <2>11_1. r \in ScrollStates
    BY <2>9, <2>10 DEF ScrollStates
  <2>11_2. SameText(c, r) /\ SameShow(c, r)
    BY <2>9, <2>10 DEF ScrollStates, SameText, SameShow
  <2>11_3. SameRest(c, r) /\ SameReader(c, r)
    BY <2>9, <2>10 DEF ScrollStates, SameRest, SameReader
  <2>11_4. SameMotion(c, r) /\ SamePlace0(c, r)
    BY <2>9, <2>10 DEF ScrollStates, SameMotion, SamePlace0
  <2>11_5. r.tail = c.tail /\ r.paused = c.paused /\ r.returning = c.returning
    BY <2>9, <2>10 DEF ScrollStates
  <2>11_6. r.mode = "free" /\ r.prev = c.prev
    BY <2>9, <2>10 DEF ScrollStates
  <2> DEFINE S == [ts EXCEPT !.paused = p, !.reads = @ + 1, !.away = FALSE]
  <2> DEFINE A == [S EXCEPT !.returning = FALSE, !.late = @ \/ S.returning \/ S.lift # None0,
                            !.unread = @ \/ S.mode = "anchored"]
  <2> DEFINE C == IF A.mode = "anchored" THEN ClearAnchor(A, A.top) ELSE A
  <2>o. ts' = IF ~p THEN S ELSE [C EXCEPT !.mode = "free"]
    BY DEF PauseFollowing
  <2>s. S = s
    BY <1>2, <1>3
  <2> HIDE DEF S
  <2>a. A = a
    <3>1. A = [s EXCEPT !.returning = FALSE, !.late = s.late \/ s.returning \/ s.lift # None0,
                        !.unread = s.unread \/ s.mode = "anchored"]
      BY <2>s, <1>4b_1 DEF ScrollStates
    <3> QED
      BY <3>1, <2>1, <2>2, <2>3, Zenon
  <2> HIDE DEF A
  <2>c. C = c
    BY <2>a, <2>5
  <2> HIDE DEF C
  <2>12. ts' = r
    BY <2>o, <2>c, <2>10, <1>6, Zenon
  <2>13. Fits(r) /\ NoBlank(r) = NoBlank(ts)
    BY <2>9, <2>11_1, <2>11_2, <2>11_3, <2>11_4, <2>11_5, <2>11_6, FitsKept DEF SamePlace0
  <2>14. r.lift = None0 /\ r.top = ts.top /\ r.ev = ts.ev /\ r.mine = ts.mine /\ r.show = ts.show
    BY <2>7, <2>9, <2>11_1, <2>11_2, <2>11_3, <2>11_4, <2>11_5, <2>11_6 DEF SameMotion, SamePlace0, SameShow
  <2>15. r.late = l /\ r.unread = u
    BY <2>9, <2>11_1, <2>11_2, <2>11_3, <2>11_4, <2>11_5, <2>11_6, <2>A4_1, <2>A4_2, <2>A4_3, <2>A4_4, <2>A4_5, <2>A4_6, <2>A4_7 DEF SameShow
  <2>16. SameText(ts, r)
    BY <2>9, <2>11_1, <2>11_2, <2>11_3, <2>11_4, <2>11_5, <2>11_6 DEF SameText
  <2>17. IsScrolledFromBottom(r) = IsScrolledFromBottom(ts)
    BY <2>14, <2>16, MeasuredSame
  <2>18. ~l => ~ts.late /\ ~ts.returning /\ ts.lift = None0
    BY <2>1, <1>4b_1, <1>4b_2, <1>4b_3, <1>4b_4, <1>4b_5, <1>4b_6, <1>4b_7, Zenon DEF SameMode, SameShow, SameMotion
  <2>19. ~u => ~ts.unread /\ ts.mode # "anchored"
    BY <2>2, <1>4b_1, <1>4b_2, <1>4b_3, <1>4b_4, <1>4b_5, <1>4b_6, <1>4b_7, Zenon DEF SameShow
  <2>20. ModesIn(r)
    BY <1>1, <2>14, <2>11_1, <2>11_2, <2>11_3, <2>11_4, <2>11_5, <2>11_6 DEF ModesIn
  <2>21. ReturnIn(r)
    BY <2>14, <2>15, <2>17, <2>18 DEF ScrollIn, ReturnIn
  <2>22. BlankIn(r)
    <3>1. ts.mode # "anchored" => ts.lift = None0
      BY <1>1 DEF ModesIn
    <3> QED
      BY <2>13, <2>14, <2>15, <2>19, <3>1, <2>11_1, <2>11_2, <2>11_3, <2>11_4, <2>11_5, <2>11_6 DEF ScrollIn, BlankIn
  <2>23. r.returning = FALSE /\ r.away = FALSE /\ r.reads = s.reads
    BY <2>9, <2>11_3, <2>11_5, <2>A4_3, <2>A4_7, <1>4b_7 DEF SameReader
  <2>24. ReadStep(ts, r)
    BY <1>r, <2>23, <2>11_6 DEF ReadStep, ReadIn, AwayIn, HoldIn, Stays, Leaves
  <2> QED
    BY <2>24, <2>12, <2>13, <2>20, <2>21, <2>22, <2>11_1, <2>11_2, <2>11_3, <2>11_4, <2>11_5, <2>11_6 DEF ScrollIn, FollowIn
<1> QED
  BY <1>5, <1>6

LEMMA HitStep == ASSUME ScrollIn(ts), ReadIn(ts), NEW t \in 0..MaxEnd, ShowHit(t)
                 PROVE  ScrollIn(ts') /\ ReadStep(ts, ts')
<1>1. ts \in ScrollStates /\ Fits(ts) /\ ModesIn(ts) /\ ts.paused
  BY DEF ScrollIn, ShowHit
<1>0. t \in Nat /\ None0 \in Int /\ MaxTop(ts) \in Nat
  BY <1>1, ScrollAssumption, ScrollBounds, Measures
<1>2. ts.mode = "free" /\ ts.lift = None0 /\ t <= MaxTop(ts)
  BY <1>0, <1>1 DEF ModesIn, ShowHit
<1>3. PICK r : r = [ts EXCEPT !.top = t, !.ev = TRUE, !.goal = None0, !.away = FALSE]
  OBVIOUS
<1>4_1. r \in ScrollStates
  BY <1>1, <1>3, <1>0, ZenonT(40) DEF ScrollStates
<1>4_2. SameText(ts, r) /\ SameMode(ts, r)
  BY <1>1, <1>3, ZenonT(40) DEF ScrollStates, SameText, SameMode
<1>4_3. SameShow(ts, r) /\ SameRest(ts, r)
  BY <1>1, <1>3 DEF ScrollStates, SameShow, SameRest
<1>4_4. r.reads = ts.reads /\ r.resized = ts.resized
  BY <1>1, <1>3 DEF ScrollStates
<1>4_5. r.lift = ts.lift /\ r.mine = ts.mine
  BY <1>1, <1>3 DEF ScrollStates
<1>4_6. r.reserve = ts.reserve /\ r.lastSet = ts.lastSet
  BY <1>1, <1>3 DEF ScrollStates
<1>4_7. r.top = t /\ r.ev = TRUE /\ r.goal = None0 /\ r.away = FALSE
  BY <1>1, <1>3 DEF ScrollStates
<1>4_8. r.prev = ts.prev
  BY <1>1, <1>3 DEF ScrollStates
<1>5. ts' = r
  BY <1>3 DEF ShowHit
<1>6. Fits(r)
  BY <1>2, <1>4_1, <1>4_2, <1>4_3, <1>4_4, <1>4_5, <1>4_6, <1>4_7, <1>4_8, MeasuredSame DEF Fits
<1>7. ModesIn(r)
  BY <1>1, <1>2, <1>4_1, <1>4_2, <1>4_3, <1>4_4, <1>4_5, <1>4_6, <1>4_7, <1>4_8, Zenon DEF ModesIn, SameMode
<1>8. r.mode = "free" /\ r.ev
  BY <1>2, <1>4_1, <1>4_2, <1>4_3, <1>4_4, <1>4_5, <1>4_6, <1>4_7, <1>4_8 DEF SameMode
<1>9. ReadStep(ts, r)
  BY <1>1, <1>2, <1>8, <1>4_2, <1>4_7 DEF ReadStep, ReadIn, AwayIn, HoldIn, Stays, Leaves, SameMode
<1> QED
  BY <1>9, <1>5, <1>6, <1>7, <1>8, <1>4_1 DEF ScrollIn, ReturnIn, FollowIn, BlankIn

LEMMA ScrollStep == ScrollInv /\ [ts.on /\ ScrollNext]_ts => ScrollInv' /\ Stays(ts, ts') /\ Leaves(ts, ts')
<1> SUFFICES ASSUME ScrollIn(ts), ReadIn(ts), [ts.on /\ ScrollNext]_ts PROVE ScrollIn(ts') /\ ReadStep(ts, ts')
  BY DEF ScrollInv, ReadStep
<1>1. CASE UNCHANGED ts
  <2>1. ts.top \in Nat
    BY ScrollFields DEF ScrollIn
  <2> QED
    BY <1>1, <2>1 DEF ReadStep, Stays, Leaves
<1>2. CASE RenderDelta
  BY <1>2, DeltaStep
<1>3. ASSUME NEW len \in {0, 1, 3}, RenderTurn(len) PROVE ScrollIn(ts') /\ ReadStep(ts, ts')
  BY <1>3, TurnStep
<1>4. ASSUME NEW long \in BOOLEAN, NEW made \in BOOLEAN, EnterThread(long, made) PROVE ScrollIn(ts') /\ ReadStep(ts, ts')
  BY <1>4, EnterStep
<1>5. CASE OnScroll
  BY <1>5, ReportStep
<1>6. CASE LiftFinished
  BY <1>6, LiftEndStep
<1>7. CASE Observed
  BY <1>7, ObservedStep
<1>8. CASE AnchorNextTurn
  BY <1>8, AskStep
<1>9. CASE ScrollToBottom
  BY <1>9, ToBottomStep
<1>10. CASE ReturnTimer
  BY <1>10, TimerStep
<1>11. CASE SmoothStep
  BY <1>11, SmoothStepKeeps
<1>12. ASSUME NEW t \in 0..MaxEnd, NEW key \in BOOLEAN, ReaderScroll(t, key) PROVE ScrollIn(ts') /\ ReadStep(ts, ts')
  BY <1>12, ReaderStep
<1>13. ASSUME NEW d \in {-1, 1}, NEW part \in {"foot", "question", "answer"}, LateLayout(part, d) PROVE ScrollIn(ts') /\ ReadStep(ts, ts')
  BY <1>13, LayoutStep
<1>14. ASSUME NEW p \in BOOLEAN, PauseFollowing(p) PROVE ScrollIn(ts') /\ ReadStep(ts, ts')
  BY <1>14, PauseStep
<1>15. ASSUME NEW t \in 0..MaxEnd, ShowHit(t) PROVE ScrollIn(ts') /\ ReadStep(ts, ts')
  BY <1>15, HitStep
<1> QED
  BY <1>1, <1>2, <1>3, <1>4, <1>5, <1>6, <1>7, <1>8, <1>9, <1>10, <1>11, <1>12, <1>13, <1>14, <1>15 DEF ScrollNext

LEMMA ScrollInit ==
  ASSUME NEW on \in BOOLEAN, NEW calm \in BOOLEAN, ts = [ScrollStart(on) EXCEPT !.calm = calm]
  PROVE  ScrollInv
<1>0. None0 \in Int /\ None0 \in Nat \cup {None0}
  BY ScrollBounds
<1>1. ScrollStart(on) \in ScrollStates
  BY <1>0 DEF ScrollStart, ScrollStates
<1>2. ts \in ScrollStates
  BY <1>1 DEF ScrollStates
<1>3. ts.end = 2 /\ ts.foot = 1 /\ ts.top = 0 /\ ts.reserve = 0
  BY <1>1 DEF ScrollStart, ScrollStates
<1>4. ts.mode = "bottom" /\ ts.lift = None0 /\ ts.goal = None0 /\ ts.show = FALSE
  BY <1>1 DEF ScrollStart, ScrollStates
<1>5. ts.paused = FALSE /\ ts.mine = FALSE /\ ts.returning = FALSE /\ ts.away = FALSE
  BY <1>1 DEF ScrollStart, ScrollStates
<1>6. Fits(ts) /\ NoBlank(ts)
  BY <1>2, <1>3, Measures, ScrollBounds DEF Fits, NoBlank
<1>7. DistanceFromBottom(ts) <= 0
  BY <1>3, ScrollBounds DEF DistanceFromBottom, EffectiveHeight, Larger
<1>8. IsNearBottom(ts) /\ IsScrolledFromBottom(ts) = FALSE
  BY <1>2, <1>7, AtTheEnd
<1>9. ReadIn(ts)
  BY <1>4, <1>5 DEF ReadIn, AwayIn, HoldIn
<1> QED
  BY <1>9, <1>2, <1>4, <1>5, <1>6, <1>8, Zenon DEF ScrollInv, ScrollIn, ModesIn, ReturnIn, FollowIn, BlankIn

LEMMA ScrollHold == ASSUME ScrollInv PROVE ScrollTypeOK /\ ReturnOffered /\ FollowsEnd /\ NoBlankBelow
<1>1. ts \in ScrollStates /\ Fits(ts) /\ ModesIn(ts) /\ ReturnIn(ts) /\ FollowIn(ts) /\ BlankIn(ts)
  BY DEF ScrollInv, ScrollIn
<1>2. ScrollTypeOK
  <2>1. MaxTop(ts) \in Nat /\ ts.top \in Nat
    BY <1>1, Measures, ScrollFields
  <2>2. ts.top \in 0..MaxTop(ts)
    BY <1>1, <2>1 DEF Fits
  <2> QED
    BY <1>1, <2>2, ScrollFields DEF ScrollTypeOK, ModesIn
<1>3. ReturnOffered
  BY <1>1 DEF ReturnOffered, Rest, ReturnIn
<1>4. FollowsEnd
  BY <1>1 DEF FollowsEnd, Rest, FollowIn, AsSet
<1>5. NoBlankBelow
  BY <1>1, Measures DEF NoBlankBelow, Rest, BlankIn
<1> QED
  BY <1>2, <1>3, <1>4, <1>5

-----------------------------------------------------------------------------
(* Reply quotes.  The invariant is stated of any state, so that it can be   *)
(* followed through the operations an action is made of.                    *)

SomeRoom == Rooms \cup {NoRoom}
SomePara == Paras \cup {NoPara}
QuoteStates == {NoQuote, Garbage} \cup [room : Rooms, gen : Nat, anchor : Int, text : {ParaText[p] : p \in Paras}]
SelStates == [p : SomePara, kind : {"none", "one", "long", "cross"}]
CandStates == [room : SomeRoom, gen : Nat, p : SomePara, kind : {"none", "one", "long"}]
HandleStates == [phase : {"off", "wait", "hold", "fade", "done"}, p : SomePara, gen : Nat, bg : {"plain"}, tr : {"plain"}]
BgStates == [Paras -> {"plain", "lit"}]
TrStates == [Paras -> {"plain", "off", "slow"}]
QuotesStates ==
  [on : BOOLEAN, calm : BOOLEAN, rooms : SUBSET Rooms, chat : SomeRoom, ready : BOOLEAN, gen : [Rooms -> Nat],
   comp : QuoteStates, store : [Rooms -> QuoteStates], sent : QuoteStates, from : SomeRoom, sending : BOOLEAN,
   carried : BOOLEAN, sel : SelStates, cand : CandStates, timer : BOOLEAN,
   press : {"none", "answer", "button", "else"}, ptr : BOOLEAN, cut : BOOLEAN,
   h : HandleStates, bg : BgStates, tr : TrStates, acts : Nat]

(* The composer's quote is of the answer that is shown, and is the draft of *)
(* the open conversation; what is on its way was quoted where it was sent.  *)
ShownIn(s) == s.chat # NoRoom /\ s.ready /\ s.comp # NoQuote => SourceVisible(s, s.comp)
DraftIn(s) == ~s.carried /\ s.chat # NoRoom /\ (s.comp = NoQuote \/ s.comp.room = s.chat) => s.store[s.chat] = s.comp
ValidIn(s) == Valid(s.comp) /\ Valid(s.sent)
SentIn(s) == s.sending => s.sent # NoQuote /\ (~s.carried => s.sent.room = s.from)

(* Nothing is selected where no conversation is open, and a pointer that    *)
(* selects has put the button away.                                         *)
RoomIn(s) == s.chat = NoRoom => ~s.ready /\ s.sel = NoSelection
ParaIn(s) == /\ s.sel.kind # "none" => s.sel.p \in Paras
             /\ s.cand # NoCandidate => s.cand.p \in Paras /\ s.cand.room \in Rooms
PointerIn(s) == s.ptr => s.cand = NoCandidate /\ ~s.timer
ButtonIn(s) == s.cand # NoCandidate /\ ~s.timer /\ ~s.cut => s.cand = Candidate(s)

(* A changed style belongs to a handle of the answer that is shown.         *)
LitBy(s, p) == s.h.p = p /\ s.chat # NoRoom /\ s.h.gen = s.gen[s.chat]
StyleIn(s) == \A p \in Paras : /\ s.bg[p] # "plain" => s.h.phase = "hold" /\ LitBy(s, p)
                               /\ s.tr[p] # "plain" => s.h.phase \in {"hold", "fade"} /\ LitBy(s, p)

ComposerIn(s) == ShownIn(s) /\ DraftIn(s) /\ ValidIn(s) /\ SentIn(s)
SelectIn(s) == RoomIn(s) /\ ParaIn(s) /\ PointerIn(s) /\ ButtonIn(s)
QuotesIn(s) == s \in QuotesStates /\ ComposerIn(s) /\ SelectIn(s) /\ StyleIn(s)
QuotesInv == QuotesIn(rq)

(* What each group of the invariant looks at.                               *)
SamePlace(s, r) == r.chat = s.chat /\ r.ready = s.ready /\ r.gen = s.gen
SameDraft(s, r) == r.comp = s.comp /\ r.store = s.store /\ r.carried = s.carried
SameSent(s, r) == r.sent = s.sent /\ r.from = s.from /\ r.sending = s.sending
SameSelect(s, r) == r.sel = s.sel /\ r.cand = s.cand /\ r.timer = s.timer /\ r.ptr = s.ptr /\ r.cut = s.cut
SameStyle(s, r) == r.h = s.h /\ r.bg = s.bg /\ r.tr = s.tr

LEMMA QuoteBounds == Paras \subseteq Nat /\ NoPara \notin Paras /\ BadPara \notin Paras /\ NoPara = 0 /\ BadPara = -1
<1>1. Paras \subseteq Nat \ {0}
  BY QuoteAssumption, Zenon DEF Paras
<1>2. \A p \in Paras : p \in Nat /\ p # 0
  BY <1>1
<1>3. \A p \in Paras : p # -1
  BY <1>2
<1> QED
  BY <1>2, <1>3 DEF NoPara, BadPara

LEMMA ComposerKept ==
  ASSUME NEW s, NEW r, ComposerIn(s), SamePlace(s, r), SameDraft(s, r), SameSent(s, r)
  PROVE  ComposerIn(r)
  BY DEF ComposerIn, ShownIn, DraftIn, ValidIn, SentIn, SourceVisible, SamePlace, SameDraft, SameSent

LEMMA SelectKept ==
  ASSUME NEW s, NEW r, SelectIn(s), SamePlace(s, r), SameSelect(s, r)
  PROVE  SelectIn(r)
  BY DEF SelectIn, RoomIn, ParaIn, PointerIn, ButtonIn, Candidate, SamePlace, SameSelect

LEMMA StyleKept ==
  ASSUME NEW s, NEW r, StyleIn(s), SamePlace(s, r), SameStyle(s, r)
  PROVE  StyleIn(r)
  BY DEF StyleIn, LitBy, SamePlace, SameStyle

LEMMA QuoteTypes ==
  /\ NoQuote \in QuoteStates /\ Garbage \in QuoteStates /\ NoSelection \in SelStates
  /\ NoCandidate \in CandStates /\ NoHandle \in HandleStates
  /\ NoQuote.room = NoRoom /\ Garbage.room = NoRoom /\ NoRoom \notin Rooms /\ Valid(NoQuote)
  /\ NoSelection.kind = "none" /\ NoHandle.phase = "off"
<1>1. NoQuote \in QuoteStates /\ Garbage \in QuoteStates
  BY DEF QuoteStates
<1>2. NoSelection \in SelStates /\ NoHandle \in HandleStates /\ NoCandidate \in CandStates
  BY DEF NoSelection, NoCandidate, NoHandle, SelStates, CandStates, HandleStates, SomeRoom, SomePara
<1>3. NoQuote.room = NoRoom /\ NoQuote.anchor = NoPara /\ NoQuote.text = "none"
  BY DEF NoQuote
<1>4. Garbage.room = NoRoom /\ Garbage.text = "garbage"
  BY DEF Garbage, NoQuote
<1>5. Valid(NoQuote)
  BY <1>3, <1>4, QuoteBounds DEF Valid, ValidAnchor
<1>6. NoRoom \notin Rooms
  BY QuoteAssumption DEF NoRoom
<1> QED
  BY <1>1, <1>2, <1>3, <1>4, <1>5, <1>6 DEF NoSelection, NoHandle

(* A quote that was read is valid.                                          *)
LEMMA ReadableValid == ASSUME NEW q \in QuoteStates PROVE ReadableQuote(q) \in QuoteStates /\ Valid(ReadableQuote(q))
<1>1. CASE q = Garbage
  BY <1>1, QuoteTypes DEF ReadableQuote
<1>2. CASE q # Garbage /\ ~ValidAnchor(q)
  <2>1. PICK a \in Int : a = NoPara
    BY QuoteBounds
  <2>2. ReadableQuote(q) = [q EXCEPT !.anchor = a]
    BY <1>2, <2>1 DEF ReadableQuote
  <2>3. q # NoQuote
    BY <1>2, QuoteTypes DEF Valid
  <2>4. q \in [room : Rooms, gen : Nat, anchor : Int, text : {ParaText[p] : p \in Paras}]
    BY <1>2, <2>3 DEF QuoteStates
  <2>5. [q EXCEPT !.anchor = a] \in [room : Rooms, gen : Nat, anchor : Int, text : {ParaText[p] : p \in Paras}]
    BY <2>4
  <2>6. [q EXCEPT !.anchor = a].anchor = a /\ [q EXCEPT !.anchor = a].room \in Rooms
    BY <2>4
  <2> QED
    BY <2>1, <2>2, <2>5, <2>6, QuoteBounds, QuoteTypes DEF Valid, ValidAnchor, QuoteStates
<1>3. CASE q # Garbage /\ ValidAnchor(q)
  BY <1>3 DEF ReadableQuote, Valid
<1> QED
  BY <1>1, <1>2, <1>3

LEMMA QuoteMade ==
  ASSUME NEW c \in Rooms, NEW g \in Nat, NEW p \in Paras
  PROVE  QuoteOf(c, g, p) \in QuoteStates /\ Valid(QuoteOf(c, g, p)) /\ QuoteOf(c, g, p).room = c
<1>0. p \in Int
  BY QuoteBounds
<1>1. QuoteOf(c, g, p) \in [room : Rooms, gen : Nat, anchor : Int, text : {ParaText[x] : x \in Paras}]
  BY <1>0 DEF QuoteOf
<1>2. QuoteOf(c, g, p).room = c /\ QuoteOf(c, g, p).anchor = p
  BY DEF QuoteOf
<1>3. p # BadPara
  BY QuoteBounds
<1> QED
  BY <1>1, <1>2, <1>3, QuoteTypes DEF QuoteStates, Valid, ValidAnchor

LEMMA TargetThere == ASSUME NEW q PROVE Target(q) \in SomePara
<1>1. ExactTarget(q) \in SomePara
  BY DEF ExactTarget, SomePara
<1>2. LegacyTarget(q) \in SomePara
  <2> DEFINE ps == Occurrences(q.text)
  <2>1. ps \subseteq Paras
    BY DEF Occurrences
  <2>2. CASE Cardinality(ps) = 1
    <3>1. ps # {}
      BY <2>2, FS_EmptySet
    <3>2. (CHOOSE p \in ps : TRUE) \in ps
      BY <3>1
    <3> QED
      BY <2>1, <2>2, <3>2 DEF LegacyTarget, SomePara
  <2>3. CASE Cardinality(ps) # 1
    BY <2>3 DEF LegacyTarget, SomePara
  <2> QED
    BY <2>2, <2>3
<1> QED
  BY <1>1, <1>2 DEF Target

LEMMA QuoteFields ==
  ASSUME NEW s \in QuotesStates
  PROVE  /\ s.chat \in SomeRoom /\ s.gen \in [Rooms -> Nat] /\ s.comp \in QuoteStates /\ s.store \in [Rooms -> QuoteStates]
         /\ s.sent \in QuoteStates /\ s.from \in SomeRoom /\ s.sel \in SelStates /\ s.cand \in CandStates
         /\ s.h \in HandleStates /\ s.bg \in BgStates /\ s.tr \in TrStates /\ s.acts \in Nat /\ s.rooms \in SUBSET Rooms
         /\ s.timer \in BOOLEAN /\ s.ptr \in BOOLEAN /\ s.cut \in BOOLEAN /\ s.carried \in BOOLEAN
  BY DEF QuotesStates

(* An operation on the drafts, or on the styles, leaves the rest alone.     *)
AroundDraft(s, r) == /\ SamePlace(s, r) /\ SameSent(s, r) /\ SameSelect(s, r) /\ SameStyle(s, r)
                     /\ r.carried = s.carried
AroundStyle(s, r) == SamePlace(s, r) /\ SameDraft(s, r) /\ SameSent(s, r) /\ SameSelect(s, r)

PutDraft(s, c, v) == [s EXCEPT !.store[c] = v]

LEMMA StoreGives ==
  ASSUME NEW s \in QuotesStates, NEW c \in Rooms, NEW v \in QuoteStates, NEW r, r = PutDraft(s, c, v)
  PROVE  /\ r \in QuotesStates /\ AroundDraft(s, r) /\ r.comp = s.comp /\ r.store[c] = v
         /\ \A d \in Rooms : d # c => r.store[d] = s.store[d]
<1>1. PICK f : f = [s.store EXCEPT ![c] = v]
  BY Zenon
<1>2. f \in [Rooms -> QuoteStates] /\ f[c] = v /\ \A d \in Rooms : d # c => f[d] = s.store[d]
  BY <1>1, QuoteFields
<1>3. r = [s EXCEPT !.store = f]
  BY <1>1 DEF QuotesStates, PutDraft
<1>4_1. r \in QuotesStates
  BY <1>3, <1>2 DEF QuotesStates
<1>4_2. SamePlace(s, r) /\ SameSent(s, r)
  BY <1>3 DEF QuotesStates, SamePlace, SameSent
<1>4_3. SameSelect(s, r) /\ SameStyle(s, r)
  BY <1>3 DEF QuotesStates, SameSelect, SameStyle
<1>4_4. r.comp = s.comp /\ r.carried = s.carried
  BY <1>3 DEF QuotesStates
<1>4_5. r.store = f
  BY <1>3 DEF QuotesStates
<1> QED
  BY <1>2, <1>4_1, <1>4_2, <1>4_3, <1>4_4, <1>4_5 DEF AroundDraft

LEMMA ClearDraftGives ==
  ASSUME NEW s \in QuotesStates, NEW c \in SomeRoom, NEW r, r = ClearDraft(s, c)
  PROVE  /\ r \in QuotesStates /\ AroundDraft(s, r) /\ r.comp = s.comp /\ (c \in Rooms => r.store[c] = NoQuote)
         /\ \A d \in Rooms : d # c => r.store[d] = s.store[d]
<1>1. CASE c = NoRoom
  BY <1>1, QuoteTypes DEF ClearDraft, AroundDraft, SamePlace, SameSent, SameSelect, SameStyle
<1>2. CASE c # NoRoom
  <2>1. c \in Rooms /\ r = PutDraft(s, c, NoQuote)
    BY <1>2 DEF ClearDraft, SomeRoom, PutDraft
  <2>2. NoQuote \in QuoteStates
    BY QuoteTypes
  <2>3. /\ r \in QuotesStates /\ AroundDraft(s, r) /\ r.comp = s.comp /\ r.store[c] = NoQuote
        /\ \A d \in Rooms : d # c => r.store[d] = s.store[d]
    BY <2>1, <2>2, StoreGives
  <2> QED
    BY <2>3
<1> QED
  BY <1>1, <1>2

LEMMA WriteGives ==
  ASSUME NEW s \in QuotesStates, NEW c \in SomeRoom, NEW q \in QuoteStates, Valid(q), NEW r, r = WriteDraft(s, c, q)
  PROVE  /\ r \in QuotesStates /\ AroundDraft(s, r) /\ r.comp = s.comp /\ (c \in Rooms => r.store[c] = q)
         /\ \A d \in Rooms : d # c => r.store[d] = s.store[d]
<1>1. CASE c = NoRoom
  BY <1>1, QuoteTypes DEF WriteDraft, AroundDraft, SamePlace, SameSent, SameSelect, SameStyle
<1>2. CASE c # NoRoom
  <2>1. c \in Rooms /\ r = PutDraft(s, c, q)
    BY <1>2 DEF WriteDraft, SomeRoom, PutDraft
  <2>2. q \in QuoteStates
    BY QuoteTypes
  <2>3. /\ r \in QuotesStates /\ AroundDraft(s, r) /\ r.comp = s.comp /\ r.store[c] = q
        /\ \A d \in Rooms : d # c => r.store[d] = s.store[d]
    BY <2>1, <2>2, StoreGives
  <2> QED
    BY <2>3
<1> QED
  BY <1>1, <1>2

LEMMA ReadGives ==
  ASSUME NEW s \in QuotesStates, NEW c \in SomeRoom, NEW r, r = ReadDraft(s, c)
  PROVE  /\ r \in QuotesStates /\ AroundDraft(s, r) /\ Valid(r.comp)
         /\ (c \in Rooms => r.store[c] = r.comp)
<1>1. CASE c = NoRoom
  <2>1. r = [s EXCEPT !.comp = NoQuote]
    BY <1>1 DEF ReadDraft
  <2>2_1. r \in QuotesStates
    BY <2>1, QuoteTypes DEF QuotesStates
  <2>2_2. SamePlace(s, r) /\ SameSent(s, r)
    BY <2>1 DEF QuotesStates, SamePlace, SameSent
  <2>2_3. SameSelect(s, r) /\ SameStyle(s, r)
    BY <2>1 DEF QuotesStates, SameSelect, SameStyle
  <2>2_4. r.store = s.store /\ r.carried = s.carried
    BY <2>1 DEF QuotesStates
  <2>2_5. r.comp = NoQuote
    BY <2>1 DEF QuotesStates
  <2> QED
    BY <1>1, <2>2_1, <2>2_2, <2>2_3, <2>2_4, <2>2_5, QuoteTypes DEF AroundDraft
<1>2. CASE c # NoRoom
  <2>1. c \in Rooms
    BY <1>2 DEF SomeRoom
  <2>2. PICK q : q = ReadableQuote(s.store[c])
    OBVIOUS
  <2>3. q \in QuoteStates /\ Valid(q)
    BY <2>1, <2>2, ReadableValid, QuoteFields
  <2>4. r = [s EXCEPT !.comp = q, !.store[c] = q]
    BY <1>2, <2>2 DEF ReadDraft
  <2>5. PICK f : f = [s.store EXCEPT ![c] = q]
    BY Zenon
  <2>6. f \in [Rooms -> QuoteStates] /\ f[c] = q
    BY <2>1, <2>3, <2>5, QuoteFields
  <2>7. r = [s EXCEPT !.comp = q, !.store = f]
    BY <2>4, <2>5 DEF QuotesStates
  <2>8_1. r \in QuotesStates
    BY <2>7, <2>3, <2>6, Zenon DEF QuotesStates
  <2>8_2. SamePlace(s, r) /\ SameSent(s, r)
    BY <2>7 DEF QuotesStates, SamePlace, SameSent
  <2>8_3. SameSelect(s, r) /\ SameStyle(s, r)
    BY <2>7 DEF QuotesStates, SameSelect, SameStyle
  <2>8_4. r.carried = s.carried
    BY <2>7 DEF QuotesStates
  <2>8_5. r.comp = q /\ r.store = f
    BY <2>7 DEF QuotesStates
  <2> QED
    BY <2>3, <2>6, <2>8_1, <2>8_2, <2>8_3, <2>8_4, <2>8_5 DEF AroundDraft
<1> QED
  BY <1>1, <1>2

(* The effect that drops a quote leaves the composer as it should be.       *)
LEMMA ValidatedGives ==
  ASSUME NEW s \in QuotesStates, DraftIn(s), ValidIn(s), SentIn(s), NEW r, r = Validated(s)
  PROVE  r \in QuotesStates /\ ComposerIn(r) /\ SamePlace(s, r) /\ SameSelect(s, r) /\ SameStyle(s, r)
<1>1. CASE s.chat = NoRoom \/ s.comp = NoQuote \/ ~s.ready \/ SourceVisible(s, s.comp)
  <2>1. r = s
    BY <1>1 DEF Validated
  <2>2. ShownIn(s)
    BY <1>1 DEF ShownIn
  <2> QED
    BY <2>1, <2>2 DEF ComposerIn, SamePlace, SameSelect, SameStyle
<1>2. CASE ~(s.chat = NoRoom \/ s.comp = NoQuote \/ ~s.ready \/ SourceVisible(s, s.comp))
  <2>1. PICK a : a = [s EXCEPT !.comp = NoQuote]
    BY Zenon
  <2>2_1. a \in QuotesStates
    BY <2>1, QuoteTypes DEF QuotesStates
  <2>2_2. SamePlace(s, a) /\ SameSent(s, a)
    BY <2>1 DEF QuotesStates, SamePlace, SameSent
  <2>2_3. SameSelect(s, a) /\ SameStyle(s, a)
    BY <2>1 DEF QuotesStates, SameSelect, SameStyle
  <2>2_4. a.store = s.store /\ a.carried = s.carried
    BY <2>1 DEF QuotesStates
  <2>2_5. a.comp = NoQuote
    BY <2>1 DEF QuotesStates
  <2>3. r = ClearDraft(a, s.chat)
    BY <1>2, <2>1 DEF Validated
  <2>4. s.chat \in Rooms
    BY <1>2, QuoteFields DEF SomeRoom
  <2>5. r \in QuotesStates /\ AroundDraft(a, r) /\ r.comp = a.comp /\ r.store[s.chat] = NoQuote
    BY <2>2_1, <2>3, <2>4, ClearDraftGives DEF SomeRoom
  <2>6. r.comp = NoQuote /\ r.chat = s.chat /\ SameSent(s, r) /\ SamePlace(s, r) /\ r.carried = s.carried
    BY <2>5, <2>2_1, <2>2_2, <2>2_3, <2>2_4, <2>2_5 DEF AroundDraft, SameSent, SamePlace
  <2>7. SameSelect(s, r) /\ SameStyle(s, r)
    BY <2>5, <2>2_1, <2>2_2, <2>2_3, <2>2_4, <2>2_5 DEF AroundDraft, SameSelect, SameStyle
  <2>8. ShownIn(r) /\ DraftIn(r)
    BY <2>5, <2>6 DEF ShownIn, DraftIn
  <2>9. ValidIn(r) /\ SentIn(r)
    BY <2>6, QuoteTypes DEF ValidIn, SentIn, SameSent
  <2> QED
    BY <2>5, <2>6, <2>7, <2>8, <2>9 DEF ComposerIn
<1> QED
  BY <1>1, <1>2

(* Every paragraph has its own style.                                       *)
PlainParas(s) == \A p \in Paras : s.bg[p] = "plain" /\ s.tr[p] = "plain"

LEMMA PlainStyle == ASSUME NEW s, PlainParas(s) PROVE StyleIn(s)
  BY DEF PlainParas, StyleIn

LEMMA PhaseGives ==
  ASSUME NEW s \in QuotesStates, NEW x \in {"off", "wait", "hold", "fade", "done"}, NEW r, r = [s EXCEPT !.h.phase = x]
  PROVE  /\ r \in QuotesStates /\ AroundStyle(s, r) /\ r.bg = s.bg /\ r.tr = s.tr
         /\ r.h.phase = x /\ r.h.p = s.h.p /\ r.h.gen = s.h.gen
<1>1. PICK k : k = [s.h EXCEPT !.phase = x]
  BY Zenon
<1>2. k \in HandleStates /\ k.phase = x /\ k.p = s.h.p /\ k.gen = s.h.gen
  BY <1>1, QuoteFields DEF HandleStates
<1>3. r = [s EXCEPT !.h = k]
  BY <1>1 DEF QuotesStates
<1>4_1. r \in QuotesStates
  BY <1>3, <1>2 DEF QuotesStates
<1>4_2. SamePlace(s, r) /\ SameDraft(s, r)
  BY <1>3 DEF QuotesStates, SamePlace, SameDraft
<1>4_3. SameSent(s, r) /\ SameSelect(s, r)
  BY <1>3 DEF QuotesStates, SameSent, SameSelect
<1>4_4. r.bg = s.bg /\ r.tr = s.tr
  BY <1>3 DEF QuotesStates
<1>4_5. r.h = k
  BY <1>3 DEF QuotesStates
<1> QED
  BY <1>2, <1>4_1, <1>4_2, <1>4_3, <1>4_4, <1>4_5 DEF AroundStyle

LEMMA PaintedGives ==
  ASSUME NEW s \in QuotesStates, NEW b \in {"plain", "lit"}, NEW t \in {"plain", "off", "slow"}, NEW r, r = Painted(s, b, t)
  PROVE  /\ r \in QuotesStates /\ AroundStyle(s, r) /\ r.h = s.h
         /\ \A p \in Paras : LitBy(s, p) => r.bg[p] = b /\ r.tr[p] = t
         /\ \A p \in Paras : ~LitBy(s, p) => r.bg[p] = s.bg[p] /\ r.tr[p] = s.tr[p]
<1>1. CASE s.chat # NoRoom /\ s.h.p # NoPara /\ s.h.gen = s.gen[s.chat]
  <2>1. s.h.p \in Paras
    BY <1>1, QuoteFields DEF HandleStates, SomePara
  <2>2. PICK f : f = [s.bg EXCEPT ![s.h.p] = b]
    BY Zenon
  <2>3. PICK g : g = [s.tr EXCEPT ![s.h.p] = t]
    BY Zenon
  <2>4. f \in BgStates /\ \A p \in Paras : f[p] = IF p = s.h.p THEN b ELSE s.bg[p]
    BY <2>1, <2>2, QuoteFields DEF BgStates
  <2>5. g \in TrStates /\ \A p \in Paras : g[p] = IF p = s.h.p THEN t ELSE s.tr[p]
    BY <2>1, <2>3, QuoteFields DEF TrStates
  <2>6. r = [s EXCEPT !.bg[s.h.p] = b, !.tr[s.h.p] = t]
    BY <1>1 DEF Painted
  <2>7. r = [s EXCEPT !.bg = f, !.tr = g]
    BY <2>2, <2>3, <2>6 DEF QuotesStates
  <2>8_1. r \in QuotesStates
    BY <2>7, <2>4, <2>5, Zenon DEF QuotesStates
  <2>8_2. SamePlace(s, r) /\ SameDraft(s, r)
    BY <2>7 DEF QuotesStates, SamePlace, SameDraft
  <2>8_3. SameSent(s, r) /\ SameSelect(s, r)
    BY <2>7 DEF QuotesStates, SameSent, SameSelect
  <2>8_4. r.h = s.h
    BY <2>7 DEF QuotesStates
  <2>8_5. r.bg = f /\ r.tr = g
    BY <2>7 DEF QuotesStates
  <2>9. \A p \in Paras : LitBy(s, p) <=> p = s.h.p
    BY <1>1 DEF LitBy
  <2> QED
    BY <2>4, <2>5, <2>9, <2>8_1, <2>8_2, <2>8_3, <2>8_4, <2>8_5 DEF AroundStyle
<1>2. CASE ~(s.chat # NoRoom /\ s.h.p # NoPara /\ s.h.gen = s.gen[s.chat])
  <2>1. r = s
    BY <1>2 DEF Painted
  <2>2. \A p \in Paras : ~LitBy(s, p)
    BY <1>2, QuoteBounds DEF LitBy
  <2> QED
    BY <2>1, <2>2 DEF AroundStyle, SamePlace, SameDraft, SameSent, SameSelect
<1> QED
  BY <1>1, <1>2

LEMMA RestoredGives ==
  ASSUME NEW s \in QuotesStates, StyleIn(s), NEW r, r = Restored(s)
  PROVE  r \in QuotesStates /\ AroundStyle(s, r) /\ r.h = s.h /\ PlainParas(r)
<1>1. s.h.bg = "plain" /\ s.h.tr = "plain"
  BY QuoteFields DEF HandleStates
<1>2. r = Painted(s, "plain", "plain")
  BY <1>1 DEF Restored
<1>3. /\ r \in QuotesStates /\ AroundStyle(s, r) /\ r.h = s.h
      /\ \A p \in Paras : LitBy(s, p) => r.bg[p] = "plain" /\ r.tr[p] = "plain"
      /\ \A p \in Paras : ~LitBy(s, p) => r.bg[p] = s.bg[p] /\ r.tr[p] = s.tr[p]
  BY <1>2, PaintedGives
<1> QED
  BY <1>3 DEF StyleIn, PlainParas

LEMMA CancelGives ==
  ASSUME NEW s \in QuotesStates, StyleIn(s), NEW r, r = CancelHandle(s)
  PROVE  r \in QuotesStates /\ AroundStyle(s, r) /\ PlainParas(r)
<1>1. PICK a : a = IF s.h.phase \in {"hold", "fade"} THEN Restored(s) ELSE s
  OBVIOUS
<1>2. a \in QuotesStates /\ AroundStyle(s, a) /\ PlainParas(a)
  <2>1. CASE s.h.phase \in {"hold", "fade"}
    BY <1>1, <2>1, RestoredGives
  <2>2. CASE s.h.phase \notin {"hold", "fade"}
    <3>1. PlainParas(s)
      <4>1. \A p \in Paras : s.bg[p] = "plain" /\ s.tr[p] = "plain"
        BY <2>2 DEF StyleIn
      <4> QED
        BY <4>1 DEF PlainParas
    <3> QED
      BY <1>1, <2>2, <3>1 DEF AroundStyle, SamePlace, SameDraft, SameSent, SameSelect
  <2> QED
    BY <2>1, <2>2
<1>3. r = [a EXCEPT !.h = NoHandle]
  BY <1>1 DEF CancelHandle
<1>4_1. r \in QuotesStates
  BY <1>2, <1>3, QuoteTypes DEF QuotesStates
<1>4_2. SamePlace(a, r) /\ SameDraft(a, r)
  BY <1>2, <1>3 DEF QuotesStates, SamePlace, SameDraft
<1>4_3. SameSent(a, r) /\ SameSelect(a, r)
  BY <1>2, <1>3 DEF QuotesStates, SameSent, SameSelect
<1>4_4. r.bg = a.bg /\ r.tr = a.tr
  BY <1>2, <1>3 DEF QuotesStates
<1>4_5. r.h = NoHandle
  BY <1>2, <1>3 DEF QuotesStates
<1>5. AroundStyle(s, r)
  BY <1>2, <1>4_1, <1>4_2, <1>4_3, <1>4_4, <1>4_5 DEF AroundStyle, SamePlace, SameDraft, SameSent, SameSelect
<1> QED
  BY <1>2, <1>5, <1>4_1, <1>4_2, <1>4_3, <1>4_4, <1>4_5 DEF PlainParas

LEMMA RevealedGives ==
  ASSUME NEW s \in QuotesStates, PlainParas(s), NEW r, r = Revealed(s)
  PROVE  r \in QuotesStates /\ AroundStyle(s, r) /\ StyleIn(r)
<1>1. CASE s.h.p = NoPara
  <2>1. r = [s EXCEPT !.h.phase = "done"]
    BY <1>1 DEF Revealed
  <2>2. r \in QuotesStates /\ AroundStyle(s, r) /\ r.bg = s.bg /\ r.tr = s.tr
    BY <2>1, PhaseGives
  <2> QED
    BY <2>2, PlainStyle DEF PlainParas
<1>2. CASE s.h.p # NoPara
  <2>1. PICK a : a = [s EXCEPT !.h.phase = "hold"]
    BY Zenon
  <2>2. a \in QuotesStates /\ AroundStyle(s, a) /\ a.bg = s.bg /\ a.tr = s.tr /\ a.h.phase = "hold"
    BY <2>1, PhaseGives
  <2>3. r = Painted(a, "lit", "off")
    BY <1>2, <2>1 DEF Revealed
  <2>4. /\ r \in QuotesStates /\ AroundStyle(a, r) /\ r.h = a.h
        /\ \A p \in Paras : ~LitBy(a, p) => r.bg[p] = a.bg[p] /\ r.tr[p] = a.tr[p]
    BY <2>2, <2>3, PaintedGives
  <2>5. \A p \in Paras : LitBy(r, p) = LitBy(a, p)
    BY <2>4 DEF LitBy, AroundStyle, SamePlace
  <2>6. \A p \in Paras : ~LitBy(r, p) => r.bg[p] = "plain" /\ r.tr[p] = "plain"
    BY <2>2, <2>4, <2>5 DEF PlainParas
  <2>7. StyleIn(r)
    BY <2>2, <2>4, <2>6 DEF StyleIn
  <2>8. AroundStyle(s, r)
    BY <2>2, <2>4 DEF AroundStyle, SamePlace, SameDraft, SameSent, SameSelect
  <2> QED
    BY <2>4, <2>7, <2>8
<1> QED
  BY <1>1, <1>2

LEMMA AroundStyleIn ==
  ASSUME NEW s, NEW r, ComposerIn(s), SelectIn(s), AroundStyle(s, r)
  PROVE  ComposerIn(r) /\ SelectIn(r)
<1>1. SamePlace(s, r) /\ SameDraft(s, r) /\ SameSent(s, r) /\ SameSelect(s, r)
  BY DEF AroundStyle
<1> QED
  BY <1>1, ComposerKept, SelectKept

LEMMA CandidateGives ==
  ASSUME NEW s \in QuotesStates, RoomIn(s), ParaIn(s)
  PROVE  /\ Candidate(s) \in CandStates
         /\ Candidate(s) # NoCandidate => Candidate(s).p \in Paras /\ Candidate(s).room \in Rooms
<1>1. CASE s.sel.kind \in {"one", "long"}
  <2>1. PICK k : k = [room |-> s.chat, gen |-> s.gen[s.chat], p |-> s.sel.p, kind |-> s.sel.kind]
    BY Zenon
  <2>2. Candidate(s) = k
    BY <1>1, <2>1 DEF Candidate
  <2>3. s.chat \in Rooms
    BY <1>1, QuoteFields, QuoteTypes DEF RoomIn, SomeRoom
  <2>4. s.sel.p \in Paras
    BY <1>1 DEF ParaIn
  <2>5. s.gen[s.chat] \in Nat
    BY <2>3, QuoteFields
  <2>6. k \in CandStates /\ k.p \in Paras /\ k.room \in Rooms
    BY <1>1, <2>1, <2>3, <2>4, <2>5 DEF CandStates, SomeRoom, SomePara
  <2> QED
    BY <2>2, <2>6
<1>2. CASE s.sel.kind \notin {"one", "long"}
  BY <1>2, QuoteTypes DEF Candidate
<1> QED
  BY <1>1, <1>2

LEMMA ScheduledGives ==
  ASSUME NEW s \in QuotesStates, RoomIn(s), ParaIn(s), s.ptr => s.cand = NoCandidate, NEW r, r = Scheduled(s)
  PROVE  /\ r \in QuotesStates /\ SelectIn(r)
         /\ SamePlace(s, r) /\ SameDraft(s, r) /\ SameSent(s, r) /\ SameStyle(s, r)
<1>1. PICK b \in BOOLEAN : b = ~s.ptr
  BY Zenon
<1>2. r = [s EXCEPT !.timer = b, !.cut = FALSE]
  BY <1>1 DEF Scheduled
<1>3_1. r \in QuotesStates
  BY <1>2, <1>1, Zenon DEF QuotesStates
<1>3_2. SamePlace(s, r) /\ SameDraft(s, r)
  BY <1>2 DEF QuotesStates, SamePlace, SameDraft
<1>3_3. SameSent(s, r) /\ SameStyle(s, r)
  BY <1>2 DEF QuotesStates, SameSent, SameStyle
<1>3_4. r.sel = s.sel /\ r.cand = s.cand /\ r.ptr = s.ptr
  BY <1>2 DEF QuotesStates
<1>3_5. r.timer = b /\ r.cut = FALSE
  BY <1>2 DEF QuotesStates
<1>4. RoomIn(r) /\ ParaIn(r)
  BY <1>3_1, <1>3_2, <1>3_3, <1>3_4, <1>3_5 DEF RoomIn, ParaIn, SamePlace
<1>5. PointerIn(r)
  BY <1>1, <1>3_1, <1>3_2, <1>3_3, <1>3_4, <1>3_5, Zenon DEF PointerIn
<1>6. r.cand # NoCandidate => r.timer
  BY <1>1, <1>3_1, <1>3_2, <1>3_3, <1>3_4, <1>3_5, QuoteFields
<1> QED
  BY <1>4, <1>5, <1>6, <1>3_1, <1>3_2, <1>3_3, <1>3_4, <1>3_5 DEF SelectIn, ButtonIn

LEMMA DismissedGives ==
  ASSUME NEW s \in QuotesStates, RoomIn(s), s.sel.kind # "none" => s.sel.p \in Paras, NEW r, r = Dismissed(s)
  PROVE  /\ r \in QuotesStates /\ SelectIn(r)
         /\ SamePlace(s, r) /\ SameDraft(s, r) /\ SameSent(s, r) /\ SameStyle(s, r)
<1>1. r = [s EXCEPT !.timer = FALSE, !.cand = NoCandidate, !.cut = FALSE]
  BY DEF Dismissed
<1>2_1. r \in QuotesStates
  BY <1>1, QuoteTypes, Zenon DEF QuotesStates
<1>2_2. SamePlace(s, r) /\ SameDraft(s, r)
  BY <1>1 DEF QuotesStates, SamePlace, SameDraft
<1>2_3. SameSent(s, r) /\ SameStyle(s, r)
  BY <1>1 DEF QuotesStates, SameSent, SameStyle
<1>2_4. r.sel = s.sel /\ r.ptr = s.ptr
  BY <1>1 DEF QuotesStates
<1>2_5. r.timer = FALSE /\ r.cand = NoCandidate /\ r.cut = FALSE
  BY <1>1 DEF QuotesStates
<1> QED
  BY <1>2_1, <1>2_2, <1>2_3, <1>2_4, <1>2_5 DEF SelectIn, RoomIn, ParaIn, PointerIn, ButtonIn, SamePlace

LEMMA OpenedGives ==
  ASSUME NEW s \in QuotesStates, ValidIn(s), SentIn(s), NEW c \in SomeRoom, NEW r, r = Opened(s, c)
  PROVE  QuotesIn(r) /\ r.chat = c
<1>1. PICK f : f = [p \in Paras |-> "plain"]
  BY Zenon
<1>2. f \in BgStates /\ f \in TrStates /\ \A p \in Paras : f[p] = "plain"
  BY <1>1 DEF BgStates, TrStates
<1>3. PICK a : a = [s EXCEPT !.chat = c, !.ready = FALSE, !.sel = NoSelection, !.cand = NoCandidate,
                             !.timer = FALSE, !.press = "none", !.ptr = FALSE, !.cut = FALSE, !.bg = f, !.tr = f]
  OBVIOUS
<1>4_1. a \in QuotesStates
  BY <1>3, <1>2, QuoteTypes DEF QuotesStates
<1>4_2. SameDraft(s, a) /\ SameSent(s, a)
  BY <1>3 DEF QuotesStates, SameDraft, SameSent
<1>4_3. a.gen = s.gen
  BY <1>3 DEF QuotesStates
<1>4_4. a.h = s.h
  BY <1>3 DEF QuotesStates
<1>4_5. a.chat = c /\ a.ready = FALSE /\ a.sel = NoSelection /\ a.cand = NoCandidate
  BY <1>3 DEF QuotesStates
<1>4_6. a.timer = FALSE /\ a.ptr = FALSE /\ a.cut = FALSE /\ a.bg = f
  BY <1>3 DEF QuotesStates
<1>4_7. a.tr = f
  BY <1>3 DEF QuotesStates
<1>5. PICK b : b = ReadDraft(a, c)
  OBVIOUS
<1>6. b \in QuotesStates /\ AroundDraft(a, b) /\ Valid(b.comp) /\ (c \in Rooms => b.store[c] = b.comp)
  BY <1>4_1, <1>5, ReadGives
<1>7. SamePlace(a, b) /\ SameSent(a, b) /\ SameSelect(a, b) /\ SameStyle(a, b) /\ b.carried = a.carried
  BY <1>6 DEF AroundDraft
<1>8. r = CancelHandle(b)
  BY <1>1, <1>3, <1>5 DEF Opened
<1>9. ComposerIn(b)
  <2>1. ShownIn(b)
    BY <1>7, <1>4_1, <1>4_2, <1>4_3, <1>4_4, <1>4_5, <1>4_6, <1>4_7, Zenon DEF ShownIn, SamePlace
  <2>2. DraftIn(b)
    BY <1>6, <1>7, <1>4_1, <1>4_2, <1>4_3, <1>4_4, <1>4_5, <1>4_6, <1>4_7 DEF DraftIn, SamePlace, SomeRoom
  <2>3. b.sent = s.sent /\ b.from = s.from /\ b.sending = s.sending /\ b.carried = s.carried
    BY <1>7, <1>4_1, <1>4_2, <1>4_3, <1>4_4, <1>4_5, <1>4_6, <1>4_7 DEF SameSent, SameDraft
  <2>4. ValidIn(b) /\ SentIn(b)
    BY <1>6, <2>3 DEF ValidIn, SentIn
  <2> QED
    BY <2>1, <2>2, <2>4 DEF ComposerIn
<1>10. SelectIn(b)
  <2>1. b.ready = FALSE /\ b.sel = NoSelection /\ b.cand = NoCandidate /\ b.timer = FALSE
    BY <1>7, <1>4_1, <1>4_2, <1>4_3, <1>4_4, <1>4_5, <1>4_6, <1>4_7 DEF SamePlace, SameSelect
  <2> QED
    BY <2>1, QuoteTypes DEF SelectIn, RoomIn, ParaIn, PointerIn, ButtonIn
<1>11. StyleIn(b)
  <2>1. PlainParas(b)
    BY <1>2, <1>7, <1>4_1, <1>4_2, <1>4_3, <1>4_4, <1>4_5, <1>4_6, <1>4_7 DEF PlainParas, SameStyle
  <2> QED
    BY <2>1, PlainStyle
<1>12. r \in QuotesStates /\ AroundStyle(b, r) /\ PlainParas(r)
  BY <1>6, <1>8, <1>11, CancelGives
<1>13. r.chat = c
  BY <1>7, <1>12, <1>4_1, <1>4_2, <1>4_3, <1>4_4, <1>4_5, <1>4_6, <1>4_7 DEF AroundStyle, SamePlace
<1> QED
  BY <1>9, <1>10, <1>12, <1>13, AroundStyleIn, PlainStyle DEF QuotesIn

LEMMA QuotesInit ==
  ASSUME NEW on \in BOOLEAN, NEW calm \in BOOLEAN, NEW d \in [Rooms -> QuoteStates], rq = QuotesStart(on, calm, d)
  PROVE  QuotesInv
<1>0. 0 \in Nat /\ NoRoom \in SomeRoom
  BY DEF SomeRoom
<1>1. PICK g : g = [c \in Rooms |-> 0]
  BY Zenon
<1>2. PICK f : f = [p \in Paras |-> "plain"]
  BY Zenon
<1>3. g \in [Rooms -> Nat] /\ f \in BgStates /\ f \in TrStates /\ \A p \in Paras : f[p] = "plain"
  BY <1>0, <1>1, <1>2 DEF BgStates, TrStates
<1>4. rq = [on |-> on, calm |-> calm, rooms |-> Rooms, chat |-> NoRoom, ready |-> FALSE, gen |-> g,
   comp |-> NoQuote, store |-> d, sent |-> NoQuote, from |-> NoRoom, sending |-> FALSE, carried |-> FALSE,
   sel |-> NoSelection, cand |-> NoCandidate, timer |-> FALSE, press |-> "none", ptr |-> FALSE, cut |-> FALSE,
   h |-> NoHandle, bg |-> f, tr |-> f, acts |-> 0]
  BY <1>1, <1>2 DEF QuotesStart
<1>5. rq \in QuotesStates
  BY <1>0, <1>3, <1>4, QuoteTypes DEF QuotesStates
<1>6. rq.chat = NoRoom /\ rq.ready = FALSE /\ rq.comp = NoQuote /\ rq.sent = NoQuote
  BY <1>4
<1>7. rq.sending = FALSE /\ rq.sel = NoSelection /\ rq.cand = NoCandidate /\ rq.timer = FALSE
  BY <1>4
<1>8. rq.bg = f /\ rq.tr = f
  BY <1>4
<1>9. ComposerIn(rq)
  BY <1>6, <1>7, QuoteTypes DEF ComposerIn, ShownIn, DraftIn, ValidIn, SentIn
<1>10. SelectIn(rq)
  BY <1>6, <1>7, QuoteTypes DEF SelectIn, RoomIn, ParaIn, PointerIn, ButtonIn
<1>11. StyleIn(rq)
  BY <1>3, <1>8, PlainStyle DEF PlainParas
<1> QED
  BY <1>5, <1>9, <1>10, <1>11 DEF QuotesInv, QuotesIn

(* The steps of the handle.                                                 *)
LEMMA RevealStep ==
  ASSUME QuotesIn(rq), NEW q \in QuoteStates, NEW there \in BOOLEAN, RevealQuote(q, there)
  PROVE  QuotesIn(rq')
<1>1. rq \in QuotesStates /\ ComposerIn(rq) /\ SelectIn(rq) /\ StyleIn(rq)
  BY DEF QuotesIn
<1>2. PICK n \in Nat : n = rq.acts + 1
  BY <1>1, QuoteFields
<1>3. PICK a : a = [rq EXCEPT !.acts = n]
  BY Zenon
<1>4_1. a \in QuotesStates
  BY <1>1, <1>3, <1>2 DEF QuotesStates
<1>4_2. SamePlace(rq, a) /\ SameDraft(rq, a)
  BY <1>1, <1>3 DEF QuotesStates, SamePlace, SameDraft
<1>4_3. SameSent(rq, a) /\ SameSelect(rq, a)
  BY <1>1, <1>3 DEF QuotesStates, SameSent, SameSelect
<1>4_4. SameStyle(rq, a)
  BY <1>1, <1>3 DEF QuotesStates, SameStyle
<1>5. ComposerIn(a) /\ SelectIn(a) /\ StyleIn(a)
  BY <1>1, <1>4_1, <1>4_2, <1>4_3, <1>4_4, ComposerKept, SelectKept, StyleKept
<1>6. PICK s : s = CancelHandle(a)
  OBVIOUS
<1>7. s \in QuotesStates /\ AroundStyle(a, s) /\ PlainParas(s)
  BY <1>4_1, <1>5, <1>6, CancelGives
<1>8. ComposerIn(s) /\ SelectIn(s)
  BY <1>5, <1>7, AroundStyleIn
<1>9. PICK p : p = Target(q)
  OBVIOUS
<1>10. p \in SomePara
  BY <1>9, TargetThere
<1>11. PICK k : k = [phase |-> "wait", p |-> p, gen |-> q.gen, bg |-> IF p = NoPara THEN "plain" ELSE s.bg[p],
                     tr |-> IF p = NoPara THEN "plain" ELSE s.tr[p]]
  BY Zenon
<1>12. k \in HandleStates
  <2>1. q.gen \in Nat
    BY DEF QuoteStates, Garbage, NoQuote
  <2>2. p # NoPara => s.bg[p] = "plain" /\ s.tr[p] = "plain"
    BY <1>7, <1>10 DEF PlainParas, SomePara
  <2>3. k = [phase |-> "wait", p |-> p, gen |-> q.gen, bg |-> "plain", tr |-> "plain"]
    BY <1>11, <2>2
  <2> QED
    BY <1>10, <2>1, <2>3 DEF HandleStates
<1>13. PICK f : f = [s EXCEPT !.h = k]
  BY Zenon
<1>14_1. f \in QuotesStates
  BY <1>7, <1>13, <1>12 DEF QuotesStates
<1>14_2. SamePlace(s, f) /\ SameDraft(s, f)
  BY <1>7, <1>13 DEF QuotesStates, SamePlace, SameDraft
<1>14_3. SameSent(s, f) /\ SameSelect(s, f)
  BY <1>7, <1>13 DEF QuotesStates, SameSent, SameSelect
<1>14_4. f.bg = s.bg /\ f.tr = s.tr
  BY <1>7, <1>13 DEF QuotesStates
<1>14_5. f.h = k
  BY <1>7, <1>13 DEF QuotesStates
<1>15. AroundStyle(s, f) /\ PlainParas(f)
  BY <1>7, <1>14_1, <1>14_2, <1>14_3, <1>14_4, <1>14_5 DEF AroundStyle, PlainParas
<1>16. ComposerIn(f) /\ SelectIn(f) /\ StyleIn(f)
  BY <1>8, <1>15, AroundStyleIn, PlainStyle
<1>17. rq' = IF ~SourceVisible(rq, q) THEN s ELSE IF rq.calm \/ there THEN Revealed(f) ELSE f
  <2> DEFINE S == CancelHandle([rq EXCEPT !.acts = @ + 1])
  <2> DEFINE P == Target(q)
  <2> DEFINE F == [S EXCEPT !.h = [phase |-> "wait", p |-> P, gen |-> q.gen,
                                   bg |-> IF P = NoPara THEN "plain" ELSE S.bg[P],
                                   tr |-> IF P = NoPara THEN "plain" ELSE S.tr[P]]]
  <2>1. rq' = IF ~SourceVisible(rq, q) THEN S ELSE IF rq.calm \/ there THEN Revealed(F) ELSE F
    BY DEF RevealQuote
  <2>2. S = s
    BY <1>2, <1>3, <1>6
  <2> HIDE DEF S
  <2>3. P = p
    BY <1>9
  <2> HIDE DEF P
  <2>4. F = f
    BY <2>2, <2>3, <1>11, <1>13
  <2> HIDE DEF F
  <2> QED
    BY <2>1, <2>2, <2>4
<1>18. CASE rq' = s
  BY <1>7, <1>8, <1>18, PlainStyle DEF QuotesIn
<1>19. CASE rq' = Revealed(f)
  <2>1. rq' \in QuotesStates /\ AroundStyle(f, rq') /\ StyleIn(rq')
    BY <1>14_1, <1>15, <1>19, RevealedGives
  <2> QED
    BY <1>16, <2>1, AroundStyleIn DEF QuotesIn
<1>20. CASE rq' = f
  BY <1>14_1, <1>16, <1>20 DEF QuotesIn
<1> QED
  BY <1>17, <1>18, <1>19, <1>20

LEMMA FinishStep == ASSUME QuotesIn(rq), FinishScroll PROVE QuotesIn(rq')
<1>1. rq \in QuotesStates /\ ComposerIn(rq) /\ SelectIn(rq) /\ StyleIn(rq)
  BY DEF QuotesIn
<1>2. rq.h.phase = "wait" /\ rq' = Revealed(rq)
  BY DEF FinishScroll
<1>3. PlainParas(rq)
  BY <1>1, <1>2 DEF PlainParas, StyleIn
<1>4. rq' \in QuotesStates /\ AroundStyle(rq, rq') /\ StyleIn(rq')
  BY <1>1, <1>2, <1>3, RevealedGives
<1> QED
  BY <1>1, <1>4, AroundStyleIn DEF QuotesIn

LEMMA PutBackStep == ASSUME QuotesIn(rq), rq' = [Restored(rq) EXCEPT !.h.phase = "done"] PROVE QuotesIn(rq')
<1>1. rq \in QuotesStates /\ ComposerIn(rq) /\ SelectIn(rq) /\ StyleIn(rq)
  BY DEF QuotesIn
<1>2. PICK a : a = Restored(rq)
  OBVIOUS
<1>3. a \in QuotesStates /\ AroundStyle(rq, a) /\ PlainParas(a)
  BY <1>1, <1>2, RestoredGives
<1>4. PICK r : r = [a EXCEPT !.h.phase = "done"]
  BY Zenon
<1>r. rq' = r
  BY <1>2, <1>4
<1>p. r \in QuotesStates /\ AroundStyle(a, r) /\ r.bg = a.bg /\ r.tr = a.tr
  BY <1>3, <1>4, PhaseGives
<1>5. rq' \in QuotesStates /\ AroundStyle(a, rq') /\ rq'.bg = a.bg /\ rq'.tr = a.tr
  BY <1>r, <1>p, Zenon
<1>6. ComposerIn(a) /\ SelectIn(a)
  BY <1>1, <1>3, AroundStyleIn
<1>7. ComposerIn(rq') /\ SelectIn(rq')
  BY <1>5, <1>6, AroundStyleIn
<1>8. StyleIn(rq')
  BY <1>3, <1>5, PlainStyle, Zenon DEF PlainParas
<1> QED
  BY <1>5, <1>7, <1>8 DEF QuotesIn

LEMMA HoldStep == ASSUME QuotesIn(rq), HoldEnds PROVE QuotesIn(rq')
<1>1. rq \in QuotesStates /\ ComposerIn(rq) /\ SelectIn(rq) /\ StyleIn(rq)
  BY DEF QuotesIn
<1>2. CASE rq.calm
  <2>1. rq' = [Restored(rq) EXCEPT !.h.phase = "done"]
    BY <1>2 DEF HoldEnds
  <2> QED
    BY <2>1, PutBackStep
<1>3. CASE ~rq.calm
  <2>1. rq.h.bg = "plain"
    BY <1>1, QuoteFields DEF HandleStates
  <2>2. PICK a : a = Painted(rq, "plain", "slow")
    OBVIOUS
  <2>3. /\ a \in QuotesStates /\ AroundStyle(rq, a) /\ a.h = rq.h
        /\ \A p \in Paras : LitBy(rq, p) => a.bg[p] = "plain" /\ a.tr[p] = "slow"
        /\ \A p \in Paras : ~LitBy(rq, p) => a.bg[p] = rq.bg[p] /\ a.tr[p] = rq.tr[p]
    BY <1>1, <2>2, PaintedGives
  <2>4. rq' = [a EXCEPT !.h.phase = "fade"]
    BY <1>3, <2>1, <2>2 DEF HoldEnds
  <2>5. /\ rq' \in QuotesStates /\ AroundStyle(a, rq') /\ rq'.bg = a.bg /\ rq'.tr = a.tr
        /\ rq'.h.phase = "fade" /\ rq'.h.p = a.h.p /\ rq'.h.gen = a.h.gen
    BY <2>3, <2>4, PhaseGives
  <2>6. ComposerIn(a) /\ SelectIn(a)
    BY <1>1, <2>3, AroundStyleIn
  <2>7. ComposerIn(rq') /\ SelectIn(rq')
    BY <2>5, <2>6, AroundStyleIn
  <2>8. \A p \in Paras : LitBy(rq', p) = LitBy(rq, p)
    BY <2>3, <2>5 DEF LitBy, AroundStyle, SamePlace
  <2>9. StyleIn(rq')
    <3>1. \A p \in Paras : ~LitBy(rq, p) => rq.bg[p] = "plain" /\ rq.tr[p] = "plain"
      BY <1>1 DEF StyleIn
    <3>2. \A p \in Paras : rq'.bg[p] = "plain" /\ (rq'.tr[p] # "plain" => LitBy(rq', p))
      BY <2>3, <2>5, <2>8, <3>1
    <3> QED
      BY <2>5, <3>2 DEF StyleIn
  <2> QED
    BY <2>5, <2>7, <2>9 DEF QuotesIn
<1> QED
  BY <1>2, <1>3

(* The steps of a selection.                                                *)
LEMMA ChangesStep ==
  ASSUME QuotesIn(rq), NEW x \in SelStates, x.kind # "none" => x.p \in Paras, SelectionChanges(x)
  PROVE  QuotesIn(rq')
<1>1. rq \in QuotesStates /\ ComposerIn(rq) /\ SelectIn(rq) /\ StyleIn(rq)
  BY DEF QuotesIn
<1>2. PICK n \in Nat : n = rq.acts + 1
  BY <1>1, QuoteFields
<1>3. PICK a : a = [rq EXCEPT !.sel = x, !.acts = n]
  OBVIOUS
<1>4_1. a \in QuotesStates
  BY <1>1, <1>3, <1>2, Zenon DEF QuotesStates
<1>4_2. SamePlace(rq, a) /\ SameDraft(rq, a)
  BY <1>1, <1>3 DEF QuotesStates, SamePlace, SameDraft
<1>4_3. SameSent(rq, a) /\ SameStyle(rq, a)
  BY <1>1, <1>3 DEF QuotesStates, SameSent, SameStyle
<1>4_4. a.cand = rq.cand /\ a.timer = rq.timer /\ a.ptr = rq.ptr /\ a.cut = rq.cut
  BY <1>1, <1>3 DEF QuotesStates
<1>4_5. a.sel = x
  BY <1>1, <1>3 DEF QuotesStates
<1>5. PICK r : r = Scheduled(a)
  OBVIOUS
<1>6. rq' = r
  BY <1>2, <1>3, <1>5 DEF SelectionChanges
<1>7. RoomIn(a)
  <2>1. rq.ready /\ rq.chat # NoRoom
    BY <1>1 DEF SelectionChanges, SelectIn, RoomIn
  <2> QED
    BY <2>1, <1>4_1, <1>4_2, <1>4_3, <1>4_4, <1>4_5, Zenon DEF RoomIn, SamePlace
<1>8. ParaIn(a) /\ (a.ptr => a.cand = NoCandidate)
  BY <1>1, <1>4_1, <1>4_2, <1>4_3, <1>4_4, <1>4_5 DEF SelectIn, ParaIn, PointerIn
<1>9. r \in QuotesStates /\ SelectIn(r) /\ SamePlace(a, r) /\ SameDraft(a, r) /\ SameSent(a, r) /\ SameStyle(a, r)
  BY <1>4_1, <1>5, <1>7, <1>8, ScheduledGives
<1>10. ComposerIn(a) /\ StyleIn(a)
  BY <1>1, <1>4_1, <1>4_2, <1>4_3, <1>4_4, <1>4_5, ComposerKept, StyleKept
<1> QED
  BY <1>6, <1>9, <1>10, ComposerKept, StyleKept DEF QuotesIn

LEMMA SettleStep == ASSUME QuotesIn(rq), SettleTimer PROVE QuotesIn(rq')
<1>1. rq \in QuotesStates /\ ComposerIn(rq) /\ SelectIn(rq) /\ StyleIn(rq)
  BY DEF QuotesIn
<1>2. RoomIn(rq) /\ ParaIn(rq) /\ PointerIn(rq) /\ rq.timer
  BY <1>1 DEF SelectIn, SettleTimer
<1>3. PICK k : k = Candidate(rq)
  OBVIOUS
<1>4. k \in CandStates /\ (k # NoCandidate => k.p \in Paras /\ k.room \in Rooms)
  BY <1>1, <1>2, <1>3, CandidateGives
<1>5. PICK r : r = [rq EXCEPT !.timer = FALSE, !.cand = k]
  OBVIOUS
<1>6_1. r \in QuotesStates
  BY <1>1, <1>5, <1>4, Zenon DEF QuotesStates
<1>6_2. SamePlace(rq, r) /\ SameDraft(rq, r)
  BY <1>1, <1>5 DEF QuotesStates, SamePlace, SameDraft
<1>6_3. SameSent(rq, r) /\ SameStyle(rq, r)
  BY <1>1, <1>5 DEF QuotesStates, SameSent, SameStyle
<1>6_4. r.sel = rq.sel /\ r.ptr = rq.ptr /\ r.cut = rq.cut
  BY <1>1, <1>5 DEF QuotesStates
<1>6_5. r.timer = FALSE /\ r.cand = k
  BY <1>1, <1>5 DEF QuotesStates
<1>7. rq' = r
  BY <1>3, <1>5 DEF SettleTimer
<1>8. Candidate(r) = k
  BY <1>3, <1>6_1, <1>6_2, <1>6_3, <1>6_4, <1>6_5 DEF Candidate, SamePlace
<1>9. RoomIn(r) /\ ParaIn(r) /\ PointerIn(r)
  BY <1>2, <1>4, <1>6_1, <1>6_2, <1>6_3, <1>6_4, <1>6_5 DEF RoomIn, ParaIn, PointerIn, SamePlace
<1>10. ButtonIn(r)
  BY <1>8, <1>6_1, <1>6_2, <1>6_3, <1>6_4, <1>6_5 DEF ButtonIn
<1>11. ComposerIn(r) /\ StyleIn(r)
  BY <1>1, <1>6_1, <1>6_2, <1>6_3, <1>6_4, <1>6_5, ComposerKept, StyleKept
<1> QED
  BY <1>6_1, <1>7, <1>9, <1>10, <1>11 DEF QuotesIn, SelectIn

LEMMA DownStep ==
  ASSUME QuotesIn(rq), NEW where \in {"answer", "button", "else"}, PointerDown(where)
  PROVE  QuotesIn(rq')
<1>1. rq \in QuotesStates /\ ComposerIn(rq) /\ SelectIn(rq) /\ StyleIn(rq)
  BY DEF QuotesIn
<1>2. CASE where = "button"
  <2>1. PICK r : r = [rq EXCEPT !.press = where]
    BY Zenon
  <2>2_1. r \in QuotesStates
    BY <1>1, <2>1 DEF QuotesStates
  <2>2_2. SamePlace(rq, r) /\ SameDraft(rq, r)
    BY <1>1, <2>1 DEF QuotesStates, SamePlace, SameDraft
  <2>2_3. SameSent(rq, r) /\ SameSelect(rq, r)
    BY <1>1, <2>1 DEF QuotesStates, SameSent, SameSelect
  <2>2_4. SameStyle(rq, r)
    BY <1>1, <2>1 DEF QuotesStates, SameStyle
  <2>3. rq' = r
    BY <1>2, <2>1 DEF PointerDown
  <2>4. ComposerIn(r) /\ SelectIn(r) /\ StyleIn(r)
    BY <1>1, <2>2_1, <2>2_2, <2>2_3, <2>2_4, ComposerKept, SelectKept, StyleKept
  <2> QED
    BY <2>2_1, <2>3, <2>4 DEF QuotesIn
<1>3. CASE where # "button"
  <2>1. PICK b \in BOOLEAN : b = (where = "answer")
    BY Zenon
  <2>2. PICK a : a = [rq EXCEPT !.press = where, !.ptr = b]
    OBVIOUS
  <2>3_1. a \in QuotesStates
    BY <1>1, <2>2, <2>1, Zenon DEF QuotesStates
  <2>3_2. SamePlace(rq, a) /\ SameDraft(rq, a)
    BY <1>1, <2>2 DEF QuotesStates, SamePlace, SameDraft
  <2>3_3. SameSent(rq, a) /\ SameStyle(rq, a)
    BY <1>1, <2>2 DEF QuotesStates, SameSent, SameStyle
  <2>3_4. a.sel = rq.sel /\ a.cand = rq.cand /\ a.timer = rq.timer /\ a.cut = rq.cut
    BY <1>1, <2>2 DEF QuotesStates
  <2>3_5. a.ptr = b
    BY <1>1, <2>2 DEF QuotesStates
  <2>4. PICK r : r = Dismissed(a)
    OBVIOUS
  <2>5. rq' = r
    BY <1>3, <2>1, <2>2, <2>4, Zenon DEF PointerDown
  <2>6. RoomIn(a) /\ (a.sel.kind # "none" => a.sel.p \in Paras)
    BY <1>1, <2>3_1, <2>3_2, <2>3_3, <2>3_4, <2>3_5 DEF SelectIn, RoomIn, ParaIn, SamePlace
  <2>7. r \in QuotesStates /\ SelectIn(r) /\ SamePlace(a, r) /\ SameDraft(a, r) /\ SameSent(a, r) /\ SameStyle(a, r)
    BY <2>3_1, <2>4, <2>6, DismissedGives
  <2>8. ComposerIn(a) /\ StyleIn(a)
    BY <1>1, <2>3_1, <2>3_2, <2>3_3, <2>3_4, <2>3_5, ComposerKept, StyleKept
  <2> QED
    BY <2>5, <2>7, <2>8, ComposerKept, StyleKept DEF QuotesIn
<1> QED
  BY <1>2, <1>3

LEMMA UpStep == ASSUME QuotesIn(rq), PointerUp PROVE QuotesIn(rq')
<1>1. rq \in QuotesStates /\ ComposerIn(rq) /\ SelectIn(rq) /\ StyleIn(rq)
  BY DEF QuotesIn
<1>2. PICK a : a = [rq EXCEPT !.press = "none", !.ptr = FALSE]
  OBVIOUS
<1>3_1. a \in QuotesStates
  BY <1>1, <1>2, Zenon DEF QuotesStates
<1>3_2. SamePlace(rq, a) /\ SameDraft(rq, a)
  BY <1>1, <1>2 DEF QuotesStates, SamePlace, SameDraft
<1>3_3. SameSent(rq, a) /\ SameStyle(rq, a)
  BY <1>1, <1>2 DEF QuotesStates, SameSent, SameStyle
<1>3_4. a.sel = rq.sel /\ a.cand = rq.cand /\ a.timer = rq.timer /\ a.cut = rq.cut
  BY <1>1, <1>2 DEF QuotesStates
<1>3_5. a.ptr = FALSE
  BY <1>1, <1>2 DEF QuotesStates
<1>4. ComposerIn(a) /\ StyleIn(a)
  BY <1>1, <1>3_1, <1>3_2, <1>3_3, <1>3_4, <1>3_5, ComposerKept, StyleKept
<1>5. SelectIn(a)
  BY <1>1, <1>3_1, <1>3_2, <1>3_3, <1>3_4, <1>3_5 DEF SelectIn, RoomIn, ParaIn, PointerIn, ButtonIn, Candidate, SamePlace
<1>6. CASE rq.ptr
  <2>1. PICK r : r = Scheduled(a)
    OBVIOUS
  <2>2. rq' = r
    BY <1>2, <1>6, <2>1 DEF PointerUp
  <2>3. r \in QuotesStates /\ SelectIn(r) /\ SamePlace(a, r) /\ SameDraft(a, r) /\ SameSent(a, r) /\ SameStyle(a, r)
    BY <1>5, <2>1, <1>3_1, <1>3_2, <1>3_3, <1>3_4, <1>3_5, ScheduledGives DEF SelectIn
  <2> QED
    BY <1>4, <2>2, <2>3, ComposerKept, StyleKept DEF QuotesIn
<1>7. CASE ~rq.ptr
  <2>1. rq' = a
    BY <1>2, <1>7 DEF PointerUp
  <2> QED
    BY <1>3_1, <1>4, <1>5, <2>1 DEF QuotesIn
<1> QED
  BY <1>6, <1>7

LEMMA CancelStep == ASSUME QuotesIn(rq), PointerCancel PROVE QuotesIn(rq')
<1>1. rq \in QuotesStates /\ ComposerIn(rq) /\ SelectIn(rq) /\ StyleIn(rq)
  BY DEF QuotesIn
<1>2. PICK k \in BOOLEAN : k = (rq.cut \/ rq.timer)
  BY Zenon
<1>3. PICK r : r = [rq EXCEPT !.press = "none", !.ptr = FALSE, !.timer = FALSE, !.cut = k]
  OBVIOUS
<1>4_1. r \in QuotesStates
  BY <1>1, <1>3, <1>2, Zenon DEF QuotesStates
<1>4_2. SamePlace(rq, r) /\ SameDraft(rq, r)
  BY <1>1, <1>3 DEF QuotesStates, SamePlace, SameDraft
<1>4_3. SameSent(rq, r) /\ SameStyle(rq, r)
  BY <1>1, <1>3 DEF QuotesStates, SameSent, SameStyle
<1>4_4. r.sel = rq.sel /\ r.cand = rq.cand
  BY <1>1, <1>3 DEF QuotesStates
<1>4_5. r.ptr = FALSE /\ r.timer = FALSE /\ r.cut = k
  BY <1>1, <1>3 DEF QuotesStates
<1>5. rq' = r
  BY <1>2, <1>3, Zenon DEF PointerCancel
<1>6. RoomIn(r) /\ ParaIn(r) /\ PointerIn(r)
  BY <1>1, <1>4_1, <1>4_2, <1>4_3, <1>4_4, <1>4_5 DEF SelectIn, RoomIn, ParaIn, PointerIn, SamePlace
<1>7. Candidate(r) = Candidate(rq)
  BY <1>4_1, <1>4_2, <1>4_3, <1>4_4, <1>4_5 DEF Candidate, SamePlace
<1>8. ButtonIn(r)
  BY <1>1, <1>2, <1>7, <1>4_1, <1>4_2, <1>4_3, <1>4_4, <1>4_5, Zenon DEF SelectIn, ButtonIn
<1>9. ComposerIn(r) /\ StyleIn(r)
  BY <1>1, <1>4_1, <1>4_2, <1>4_3, <1>4_4, <1>4_5, ComposerKept, StyleKept
<1> QED
  BY <1>4_1, <1>5, <1>6, <1>8, <1>9 DEF QuotesIn, SelectIn

LEMMA DismissStep == ASSUME QuotesIn(rq), DismissPending PROVE QuotesIn(rq')
<1>1. rq \in QuotesStates /\ ComposerIn(rq) /\ SelectIn(rq) /\ StyleIn(rq)
  BY DEF QuotesIn
<1>2. PICK r : r = Dismissed(rq)
  OBVIOUS
<1>3. rq' = r
  BY <1>2 DEF DismissPending
<1>4. RoomIn(rq) /\ (rq.sel.kind # "none" => rq.sel.p \in Paras)
  BY <1>1 DEF SelectIn, ParaIn
<1>5. r \in QuotesStates /\ SelectIn(r) /\ SamePlace(rq, r) /\ SameDraft(rq, r) /\ SameSent(rq, r) /\ SameStyle(rq, r)
  BY <1>1, <1>2, <1>4, DismissedGives
<1> QED
  BY <1>1, <1>3, <1>5, ComposerKept, StyleKept DEF QuotesIn

LEMMA QuoteStep == ASSUME QuotesIn(rq), QuoteSelected PROVE QuotesIn(rq')
<1>1. rq \in QuotesStates /\ ComposerIn(rq) /\ SelectIn(rq) /\ StyleIn(rq)
  BY DEF QuotesIn
<1>2. rq.cand # NoCandidate
  BY DEF QuoteSelected, SelectionAction
<1>3. PICK q : q = QuoteOf(rq.cand.room, rq.cand.gen, rq.cand.p)
  OBVIOUS
<1>4. q \in QuoteStates /\ Valid(q)
  <2>1. rq.cand.p \in Paras /\ rq.cand.room \in Rooms
    BY <1>1, <1>2 DEF SelectIn, ParaIn
  <2>2. rq.cand.gen \in Nat
    BY <1>1, QuoteFields DEF CandStates
  <2> QED
    BY <1>3, <2>1, <2>2, QuoteMade
<1>5. PICK s : s = [rq EXCEPT !.press = "none", !.cand = NoCandidate]
  OBVIOUS
<1>6_1. s \in QuotesStates
  BY <1>1, <1>5, QuoteTypes, Zenon DEF QuotesStates
<1>6_2. SamePlace(rq, s) /\ SameDraft(rq, s)
  BY <1>1, <1>5 DEF QuotesStates, SamePlace, SameDraft
<1>6_3. SameSent(rq, s) /\ SameStyle(rq, s)
  BY <1>1, <1>5 DEF QuotesStates, SameSent, SameStyle
<1>6_4. s.sel = rq.sel /\ s.timer = rq.timer /\ s.ptr = rq.ptr /\ s.cut = rq.cut
  BY <1>1, <1>5 DEF QuotesStates
<1>6_5. s.cand = NoCandidate
  BY <1>1, <1>5 DEF QuotesStates
<1>7. SelectIn(s)
  BY <1>1, <1>6_1, <1>6_2, <1>6_3, <1>6_4, <1>6_5 DEF SelectIn, RoomIn, ParaIn, PointerIn, ButtonIn, SamePlace
<1>8. CASE rq.cand.kind = "long"
  <2>1. rq' = s
    BY <1>5, <1>8 DEF QuoteSelected
  <2>2. ComposerIn(s) /\ StyleIn(s)
    BY <1>1, <1>6_1, <1>6_2, <1>6_3, <1>6_4, <1>6_5, ComposerKept, StyleKept
  <2> QED
    BY <1>6_1, <1>7, <2>1, <2>2 DEF QuotesIn
<1>9. CASE rq.cand.kind # "long"
  <2>1. PICK a : a = [s EXCEPT !.comp = q, !.sel = NoSelection]
    OBVIOUS
  <2>2_1. a \in QuotesStates
    BY <1>6_1, <2>1, <1>4, QuoteTypes, Zenon DEF QuotesStates
  <2>2_2. SamePlace(s, a) /\ SameSent(s, a)
    BY <1>6_1, <2>1 DEF QuotesStates, SamePlace, SameSent
  <2>2_3. SameStyle(s, a)
    BY <1>6_1, <2>1 DEF QuotesStates, SameStyle
  <2>2_4. a.store = s.store /\ a.carried = s.carried
    BY <1>6_1, <2>1 DEF QuotesStates
  <2>2_5. a.cand = s.cand /\ a.timer = s.timer /\ a.ptr = s.ptr /\ a.cut = s.cut
    BY <1>6_1, <2>1 DEF QuotesStates
  <2>2_6. a.comp = q /\ a.sel = NoSelection
    BY <1>6_1, <2>1 DEF QuotesStates
  <2>3. PICK t : t = Scheduled(a)
    OBVIOUS
  <2>4. RoomIn(a) /\ ParaIn(a) /\ (a.ptr => a.cand = NoCandidate)
    BY <1>7, <1>6_1, <1>6_2, <1>6_3, <1>6_4, <1>6_5, <2>2_1, <2>2_2, <2>2_3, <2>2_4, <2>2_5, <2>2_6, QuoteTypes DEF SelectIn, RoomIn, ParaIn, SamePlace
  <2>5. t \in QuotesStates /\ SelectIn(t) /\ SamePlace(a, t) /\ SameDraft(a, t) /\ SameSent(a, t) /\ SameStyle(a, t)
    BY <2>2_1, <2>3, <2>4, ScheduledGives
  <2>6. PICK w : w = WriteDraft(t, rq.chat, q)
    OBVIOUS
  <2>7. /\ w \in QuotesStates /\ AroundDraft(t, w) /\ w.comp = t.comp
        /\ rq.chat \in Rooms => w.store[rq.chat] = q
    BY <1>1, <1>4, <2>5, <2>6, QuoteFields, WriteGives
  <2>8. w.comp = q /\ w.chat = rq.chat /\ w.carried = rq.carried
    BY <2>5, <2>7, <2>2_1, <2>2_2, <2>2_3, <2>2_4, <2>2_5, <2>2_6, <1>6_1, <1>6_2, <1>6_3, <1>6_4, <1>6_5 DEF AroundDraft, SameDraft, SamePlace
  <2>9. w.sent = rq.sent /\ w.from = rq.from /\ w.sending = rq.sending
    BY <2>5, <2>7, <2>2_1, <2>2_2, <2>2_3, <2>2_4, <2>2_5, <2>2_6, <1>6_1, <1>6_2, <1>6_3, <1>6_4, <1>6_5 DEF AroundDraft, SameSent
  <2>10. DraftIn(w)
    BY <1>1, <2>7, <2>8, QuoteFields DEF DraftIn, SomeRoom
  <2>11. ValidIn(w) /\ SentIn(w)
    BY <1>1, <1>4, <2>8, <2>9 DEF ComposerIn, ValidIn, SentIn
  <2>12. SelectIn(w)
    BY <2>5, <2>7, SelectKept DEF AroundDraft
  <2>13. StyleIn(w)
    <3>1. StyleIn(s)
      BY <1>1, <1>6_1, <1>6_2, <1>6_3, <1>6_4, <1>6_5, StyleKept
    <3>2. StyleIn(a)
      BY <3>1, <2>2_1, <2>2_2, <2>2_3, <2>2_4, <2>2_5, <2>2_6, StyleKept
    <3>3. StyleIn(t)
      BY <2>5, <3>2, StyleKept
    <3> QED
      BY <2>7, <3>3, StyleKept DEF AroundDraft
  <2>14. PICK r : r = Validated(w)
    OBVIOUS
  <2>15. r \in QuotesStates /\ ComposerIn(r) /\ SamePlace(w, r) /\ SameSelect(w, r) /\ SameStyle(w, r)
    BY <2>7, <2>10, <2>11, <2>14, ValidatedGives
  <2>16. rq' = r
    BY <1>3, <1>5, <1>9, <2>1, <2>3, <2>6, <2>14 DEF QuoteSelected
  <2> QED
    BY <2>12, <2>13, <2>15, <2>16, SelectKept, StyleKept DEF QuotesIn
<1> QED
  BY <1>8, <1>9

(* The steps between conversations.                                         *)
LEMMA OpenStep == ASSUME QuotesIn(rq), NEW c \in SomeRoom, OpenRoom(c) PROVE QuotesIn(rq')
<1>1. rq \in QuotesStates /\ ComposerIn(rq) /\ SelectIn(rq) /\ StyleIn(rq)
  BY DEF QuotesIn
<1>2. PICK n \in Nat : n = rq.acts + 1
  BY <1>1, QuoteFields
<1>3. PICK a : a = [rq EXCEPT !.acts = n]
  BY Zenon
<1>4_1. a \in QuotesStates
  BY <1>1, <1>3, <1>2 DEF QuotesStates
<1>4_2. SamePlace(rq, a) /\ SameDraft(rq, a)
  BY <1>1, <1>3 DEF QuotesStates, SamePlace, SameDraft
<1>4_3. SameSent(rq, a) /\ SameSelect(rq, a)
  BY <1>1, <1>3 DEF QuotesStates, SameSent, SameSelect
<1>4_4. SameStyle(rq, a)
  BY <1>1, <1>3 DEF QuotesStates, SameStyle
<1>5. PICK r : r = Opened(a, c)
  OBVIOUS
<1>6. rq' = r
  BY <1>2, <1>3, <1>5 DEF OpenRoom
<1>7. ValidIn(a) /\ SentIn(a)
  BY <1>1, <1>4_1, <1>4_2, <1>4_3, <1>4_4, ComposerKept DEF ComposerIn
<1>8. QuotesIn(r)
  BY <1>4_1, <1>5, <1>7, OpenedGives
<1> QED
  BY <1>6, <1>8

LEMMA DetailStep == ASSUME QuotesIn(rq), DetailReady PROVE QuotesIn(rq')
<1>1. rq \in QuotesStates /\ ComposerIn(rq) /\ SelectIn(rq) /\ StyleIn(rq) /\ rq.chat # NoRoom
  BY DEF QuotesIn, DetailReady
<1>2. PICK a : a = [rq EXCEPT !.ready = TRUE]
  BY Zenon
<1>3_1. a \in QuotesStates
  BY <1>1, <1>2, Zenon DEF QuotesStates
<1>3_2. SameDraft(rq, a) /\ SameSent(rq, a)
  BY <1>1, <1>2 DEF QuotesStates, SameDraft, SameSent
<1>3_3. SameSelect(rq, a) /\ SameStyle(rq, a)
  BY <1>1, <1>2 DEF QuotesStates, SameSelect, SameStyle
<1>3_4. a.chat = rq.chat /\ a.gen = rq.gen
  BY <1>1, <1>2 DEF QuotesStates
<1>3_5. a.ready = TRUE
  BY <1>1, <1>2 DEF QuotesStates
<1>4. DraftIn(a) /\ ValidIn(a) /\ SentIn(a)
  BY <1>1, <1>3_1, <1>3_2, <1>3_3, <1>3_4, <1>3_5 DEF ComposerIn, DraftIn, ValidIn, SentIn, SameDraft, SameSent
<1>5. SelectIn(a)
  <2>1. Candidate(a) = Candidate(rq)
    BY <1>3_1, <1>3_2, <1>3_3, <1>3_4, <1>3_5 DEF Candidate, SameSelect
  <2> QED
    BY <1>1, <2>1, <1>3_1, <1>3_2, <1>3_3, <1>3_4, <1>3_5 DEF SelectIn, RoomIn, ParaIn, PointerIn, ButtonIn, SameSelect
<1>6. StyleIn(a)
  BY <1>1, <1>3_1, <1>3_2, <1>3_3, <1>3_4, <1>3_5 DEF StyleIn, LitBy, SameStyle
<1>7. PICK r : r = Validated(a)
  OBVIOUS
<1>8. r \in QuotesStates /\ ComposerIn(r) /\ SamePlace(a, r) /\ SameSelect(a, r) /\ SameStyle(a, r)
  BY <1>3_1, <1>4, <1>7, ValidatedGives
<1>9. rq' = r
  BY <1>2, <1>7 DEF DetailReady
<1> QED
  BY <1>5, <1>6, <1>8, <1>9, SelectKept, StyleKept DEF QuotesIn

LEMMA ReplacedStep == ASSUME QuotesIn(rq), NEW c \in Rooms, AnswerReplaced(c) PROVE QuotesIn(rq')
<1>1. rq \in QuotesStates /\ ComposerIn(rq) /\ SelectIn(rq) /\ StyleIn(rq)
  BY DEF QuotesIn
<1>2. PICK g : g = [rq.gen EXCEPT ![c] = 1]
  BY Zenon
<1>3. g \in [Rooms -> Nat] /\ \A d \in Rooms : d # c => g[d] = rq.gen[d]
  <2>1. rq.gen \in [Rooms -> Nat] /\ 1 \in Nat
    BY <1>1, QuoteFields
  <2> QED
    BY <1>2, <2>1
<1>4. PICK s : s = [rq EXCEPT !.gen = g]
  BY Zenon
<1>5_1. s \in QuotesStates
  BY <1>1, <1>4, <1>3 DEF QuotesStates
<1>5_2. SameDraft(rq, s) /\ SameSent(rq, s)
  BY <1>1, <1>4 DEF QuotesStates, SameDraft, SameSent
<1>5_3. SameSelect(rq, s) /\ SameStyle(rq, s)
  BY <1>1, <1>4 DEF QuotesStates, SameSelect, SameStyle
<1>5_4. s.chat = rq.chat /\ s.ready = rq.ready
  BY <1>1, <1>4 DEF QuotesStates
<1>5_5. s.gen = g
  BY <1>1, <1>4 DEF QuotesStates
<1>s. s = [rq EXCEPT !.gen[c] = 1]
  BY <1>1, <1>2, <1>4 DEF QuotesStates
<1>6. rq.chat # NoRoom => rq.chat \in Rooms
  BY <1>1, QuoteFields DEF SomeRoom
<1>7. RoomIn(s) /\ ParaIn(s) /\ PointerIn(s)
  BY <1>1, <1>5_1, <1>5_2, <1>5_3, <1>5_4, <1>5_5 DEF SelectIn, RoomIn, ParaIn, PointerIn, SameSelect
<1>8. DraftIn(s) /\ ValidIn(s) /\ SentIn(s)
  BY <1>1, <1>5_1, <1>5_2, <1>5_3, <1>5_4, <1>5_5 DEF ComposerIn, DraftIn, ValidIn, SentIn, SameDraft, SameSent
<1>9. CASE c # rq.chat
  <2>1. rq' = s
    BY <1>s, <1>9 DEF AnswerReplaced
  <2>2. rq.chat # NoRoom => s.gen[s.chat] = rq.gen[rq.chat]
    BY <1>3, <1>6, <1>9, <1>5_1, <1>5_2, <1>5_3, <1>5_4, <1>5_5
  <2>3. ShownIn(s)
    BY <1>1, <2>2, <1>5_1, <1>5_2, <1>5_3, <1>5_4, <1>5_5, Zenon DEF ComposerIn, ShownIn, SourceVisible, SameDraft
  <2>4. ButtonIn(s)
    <3>1. CASE rq.chat = NoRoom
      <4>1. Candidate(s) = NoCandidate /\ Candidate(rq) = NoCandidate
        BY <1>1, <3>1, <1>5_1, <1>5_2, <1>5_3, <1>5_4, <1>5_5, QuoteTypes DEF SelectIn, RoomIn, Candidate, SameSelect
      <4> QED
        BY <1>1, <4>1, <1>5_1, <1>5_2, <1>5_3, <1>5_4, <1>5_5 DEF SelectIn, ButtonIn, SameSelect
    <3>2. CASE rq.chat # NoRoom
      <4>1. Candidate(s) = Candidate(rq)
        BY <2>2, <3>2, <1>5_1, <1>5_2, <1>5_3, <1>5_4, <1>5_5 DEF Candidate, SameSelect
      <4> QED
        BY <1>1, <4>1, <1>5_1, <1>5_2, <1>5_3, <1>5_4, <1>5_5 DEF SelectIn, ButtonIn, SameSelect
    <3> QED
      BY <3>1, <3>2
  <2>5. StyleIn(s)
    <3>1. \A p \in Paras : LitBy(rq, p) => LitBy(s, p)
      BY <2>2, <1>5_1, <1>5_2, <1>5_3, <1>5_4, <1>5_5 DEF LitBy, SameStyle
    <3> QED
      BY <1>1, <3>1, <1>5_1, <1>5_2, <1>5_3, <1>5_4, <1>5_5 DEF StyleIn, SameStyle
  <2> QED
    BY <1>5_1, <1>7, <1>8, <2>1, <2>3, <2>4, <2>5 DEF QuotesIn, ComposerIn, SelectIn
<1>10. CASE c = rq.chat
  <2>0. rq.chat # NoRoom
    BY <1>10, QuoteTypes
  <2>1. PICK t : t = IF rq.sel = NoSelection THEN s ELSE Scheduled([s EXCEPT !.sel = NoSelection])
    OBVIOUS
  <2>2. t \in QuotesStates /\ SelectIn(t) /\ SamePlace(s, t) /\ SameDraft(s, t) /\ SameSent(s, t)
    <3>1. CASE rq.sel = NoSelection
      <4>1. Candidate(s) = NoCandidate /\ Candidate(rq) = NoCandidate
        BY <3>1, <1>5_1, <1>5_2, <1>5_3, <1>5_4, <1>5_5, QuoteTypes DEF Candidate, SameSelect
      <4>2. ButtonIn(s)
        BY <1>1, <4>1, <1>5_1, <1>5_2, <1>5_3, <1>5_4, <1>5_5 DEF SelectIn, ButtonIn, SameSelect
      <4> QED
        BY <1>5_1, <1>7, <2>1, <3>1, <4>2 DEF SelectIn, SamePlace, SameDraft, SameSent
    <3>2. CASE rq.sel # NoSelection
      <4>1. PICK a : a = [s EXCEPT !.sel = NoSelection]
        BY Zenon
      <4>2_1. a \in QuotesStates
        BY <1>5_1, <4>1, QuoteTypes DEF QuotesStates
      <4>2_2. SamePlace(s, a) /\ SameDraft(s, a)
        BY <1>5_1, <4>1 DEF QuotesStates, SamePlace, SameDraft
      <4>2_3. SameSent(s, a) /\ SameStyle(s, a)
        BY <1>5_1, <4>1 DEF QuotesStates, SameSent, SameStyle
      <4>2_4. a.cand = s.cand /\ a.timer = s.timer /\ a.ptr = s.ptr /\ a.cut = s.cut
        BY <1>5_1, <4>1 DEF QuotesStates
      <4>2_5. a.sel = NoSelection
        BY <1>5_1, <4>1 DEF QuotesStates
      <4>3. RoomIn(a) /\ ParaIn(a) /\ (a.ptr => a.cand = NoCandidate)
        BY <1>7, <4>2_1, <4>2_2, <4>2_3, <4>2_4, <4>2_5, QuoteTypes DEF RoomIn, ParaIn, PointerIn, SamePlace
      <4>4. t = Scheduled(a)
        BY <2>1, <3>2, <4>1
      <4>5. t \in QuotesStates /\ SelectIn(t) /\ SamePlace(a, t) /\ SameDraft(a, t) /\ SameSent(a, t)
        BY <4>2_1, <4>3, <4>4, ScheduledGives
      <4> QED
        BY <4>5, <4>2_1, <4>2_2, <4>2_3, <4>2_4, <4>2_5 DEF SamePlace, SameDraft, SameSent
    <3> QED
      BY <3>1, <3>2
  <2>3. PICK f : f = [p \in Paras |-> "plain"]
    BY Zenon
  <2>4. f \in BgStates /\ f \in TrStates /\ \A p \in Paras : f[p] = "plain"
    BY <2>3 DEF BgStates, TrStates
  <2>5. PICK w : w = [t EXCEPT !.bg = f, !.tr = f]
    OBVIOUS
  <2>6_1. w \in QuotesStates
    BY <2>2, <2>5, <2>4, Zenon DEF QuotesStates
  <2>6_2. SamePlace(t, w) /\ SameDraft(t, w)
    BY <2>2, <2>5 DEF QuotesStates, SamePlace, SameDraft
  <2>6_3. SameSent(t, w) /\ SameSelect(t, w)
    BY <2>2, <2>5 DEF QuotesStates, SameSent, SameSelect
  <2>6_4. w.h = t.h
    BY <2>2, <2>5 DEF QuotesStates
  <2>6_5. w.bg = f /\ w.tr = f
    BY <2>2, <2>5 DEF QuotesStates
  <2>7. SelectIn(w) /\ StyleIn(w)
    BY <2>2, <2>4, <2>6_1, <2>6_2, <2>6_3, <2>6_4, <2>6_5, SelectKept, PlainStyle DEF PlainParas
  <2>8. DraftIn(w) /\ ValidIn(w) /\ SentIn(w)
    <3>1. w.chat = s.chat /\ w.comp = s.comp /\ w.store = s.store /\ w.carried = s.carried
      BY <2>2, <2>6_1, <2>6_2, <2>6_3, <2>6_4, <2>6_5 DEF SamePlace, SameDraft
    <3>2. w.sent = s.sent /\ w.from = s.from /\ w.sending = s.sending
      BY <2>2, <2>6_1, <2>6_2, <2>6_3, <2>6_4, <2>6_5 DEF SameSent
    <3> QED
      BY <1>8, <3>1, <3>2 DEF DraftIn, ValidIn, SentIn
  <2>9. PICK r : r = Validated(w)
    OBVIOUS
  <2>10. r \in QuotesStates /\ ComposerIn(r) /\ SamePlace(w, r) /\ SameSelect(w, r) /\ SameStyle(w, r)
    BY <2>6_1, <2>8, <2>9, ValidatedGives
  <2>11. rq' = r
    BY <1>s, <1>10, <2>1, <2>3, <2>5, <2>9, Zenon DEF AnswerReplaced
  <2> QED
    BY <2>7, <2>10, <2>11, SelectKept, StyleKept DEF QuotesIn
<1> QED
  BY <1>9, <1>10

LEMMA DeletedStep ==
  ASSUME QuotesIn(rq), NEW c \in Rooms, NEW next \in SomeRoom, RoomDeleted(c, next)
  PROVE  QuotesIn(rq')
<1>1. rq \in QuotesStates /\ ComposerIn(rq) /\ SelectIn(rq) /\ StyleIn(rq)
  BY DEF QuotesIn
<1>2. PICK n \in Nat : n = rq.acts + 1
  BY <1>1, QuoteFields
<1>3. PICK m : m = rq.rooms \ {c}
  BY Zenon
<1>4. m \in SUBSET Rooms
  BY <1>1, <1>3, QuoteFields
<1>5. PICK s : s = [rq EXCEPT !.rooms = m, !.acts = n]
  OBVIOUS
<1>6_1. s \in QuotesStates
  BY <1>1, <1>5, <1>2, <1>4, Zenon DEF QuotesStates
<1>6_2. SamePlace(rq, s) /\ SameDraft(rq, s)
  BY <1>1, <1>5 DEF QuotesStates, SamePlace, SameDraft
<1>6_3. SameSent(rq, s) /\ SameSelect(rq, s)
  BY <1>1, <1>5 DEF QuotesStates, SameSent, SameSelect
<1>6_4. SameStyle(rq, s)
  BY <1>1, <1>5 DEF QuotesStates, SameStyle
<1>7. PICK t : t = IF c = rq.chat THEN Opened(s, next) ELSE s
  OBVIOUS
<1>8. ComposerIn(s) /\ SelectIn(s) /\ StyleIn(s)
  BY <1>1, <1>6_1, <1>6_2, <1>6_3, <1>6_4, ComposerKept, SelectKept, StyleKept
<1>9. QuotesIn(t) /\ t.chat # c
  <2>1. CASE c = rq.chat
    <3>1. next # c
      BY <2>1, QuoteTypes DEF RoomDeleted
    <3>2. QuotesIn(t) /\ t.chat = next
      BY <1>6_1, <1>7, <1>8, <2>1, OpenedGives DEF ComposerIn
    <3> QED
      BY <3>1, <3>2
  <2>2. CASE c # rq.chat
    <3>1. t = s /\ s.chat = rq.chat
      BY <1>7, <2>2, <1>6_1, <1>6_2, <1>6_3, <1>6_4 DEF SamePlace
    <3> QED
      BY <1>6_1, <1>8, <2>2, <3>1 DEF QuotesIn
  <2> QED
    BY <2>1, <2>2
<1>10. PICK r : r = ClearDraft(t, c)
  OBVIOUS
<1>11. rq' = r
  <2> DEFINE S == [rq EXCEPT !.rooms = @ \ {c}, !.acts = @ + 1]
  <2>1. rq' = ClearDraft(IF c = rq.chat THEN Opened(S, next) ELSE S, c)
    BY DEF RoomDeleted
  <2>2. S = s
    BY <1>2, <1>3, <1>5
  <2> HIDE DEF S
  <2> QED
    BY <1>7, <1>10, <2>1, <2>2
<1>12. t \in QuotesStates /\ ComposerIn(t) /\ SelectIn(t) /\ StyleIn(t)
  BY <1>9 DEF QuotesIn
<1>13. /\ r \in QuotesStates /\ AroundDraft(t, r) /\ r.comp = t.comp
       /\ \A d \in Rooms : d # c => r.store[d] = t.store[d]
  BY <1>10, <1>12, ClearDraftGives DEF SomeRoom
<1>14. SelectIn(r) /\ StyleIn(r)
  BY <1>12, <1>13, SelectKept, StyleKept DEF AroundDraft
<1>15. r.chat = t.chat /\ r.ready = t.ready /\ r.gen = t.gen /\ r.carried = t.carried
  BY <1>13 DEF AroundDraft, SamePlace
<1>16. r.sent = t.sent /\ r.from = t.from /\ r.sending = t.sending
  BY <1>13 DEF AroundDraft, SameSent
<1>17. ShownIn(r)
  BY <1>12, <1>13, <1>15, Zenon DEF ComposerIn, ShownIn, SourceVisible
<1>18. DraftIn(r)
  BY <1>9, <1>12, <1>13, <1>15, QuoteFields DEF ComposerIn, DraftIn, SomeRoom
<1>19. ValidIn(r) /\ SentIn(r)
  BY <1>12, <1>13, <1>15, <1>16 DEF ComposerIn, ValidIn, SentIn
<1> QED
  BY <1>11, <1>13, <1>14, <1>17, <1>18, <1>19 DEF QuotesIn, ComposerIn

(* The steps of the composer.                                               *)
LEMMA RemoveStep == ASSUME QuotesIn(rq), RemoveQuote PROVE QuotesIn(rq')
<1>1. rq \in QuotesStates /\ ComposerIn(rq) /\ SelectIn(rq) /\ StyleIn(rq)
  BY DEF QuotesIn
<1>2. PICK a : a = [rq EXCEPT !.comp = NoQuote]
  BY Zenon
<1>3_1. a \in QuotesStates
  BY <1>1, <1>2, QuoteTypes DEF QuotesStates
<1>3_2. SamePlace(rq, a) /\ SameSent(rq, a)
  BY <1>1, <1>2 DEF QuotesStates, SamePlace, SameSent
<1>3_3. SameSelect(rq, a) /\ SameStyle(rq, a)
  BY <1>1, <1>2 DEF QuotesStates, SameSelect, SameStyle
<1>3_4. a.store = rq.store /\ a.carried = rq.carried
  BY <1>1, <1>2 DEF QuotesStates
<1>3_5. a.comp = NoQuote
  BY <1>1, <1>2 DEF QuotesStates
<1>4. PICK r : r = ClearDraft(a, rq.chat)
  OBVIOUS
<1>5. rq' = r
  BY <1>2, <1>4 DEF RemoveQuote
<1>6. /\ r \in QuotesStates /\ AroundDraft(a, r) /\ r.comp = a.comp
      /\ rq.chat \in Rooms => r.store[rq.chat] = NoQuote
  BY <1>1, <1>3_1, <1>4, QuoteFields, ClearDraftGives
<1>7. r.comp = NoQuote /\ r.chat = rq.chat /\ r.carried = rq.carried
  BY <1>6, <1>3_1, <1>3_2, <1>3_3, <1>3_4, <1>3_5 DEF AroundDraft, SamePlace
<1>8. r.sent = rq.sent /\ r.from = rq.from /\ r.sending = rq.sending
  BY <1>6, <1>3_1, <1>3_2, <1>3_3, <1>3_4, <1>3_5 DEF AroundDraft, SameSent
<1>9. ShownIn(r) /\ DraftIn(r)
  BY <1>1, <1>6, <1>7, QuoteFields DEF ShownIn, DraftIn, SomeRoom
<1>10. ValidIn(r) /\ SentIn(r)
  BY <1>1, <1>7, <1>8, QuoteTypes DEF ComposerIn, ValidIn, SentIn
<1>11. SelectIn(a) /\ StyleIn(a)
  BY <1>1, <1>3_1, <1>3_2, <1>3_3, <1>3_4, <1>3_5, SelectKept, StyleKept
<1>12. SelectIn(r) /\ StyleIn(r)
  BY <1>6, <1>11, SelectKept, StyleKept DEF AroundDraft
<1> QED
  BY <1>5, <1>6, <1>9, <1>10, <1>12 DEF QuotesIn, ComposerIn

LEMMA SendStep == ASSUME QuotesIn(rq), SendQuote PROVE QuotesIn(rq')
<1>1. rq \in QuotesStates /\ ComposerIn(rq) /\ SelectIn(rq) /\ StyleIn(rq) /\ rq.comp # NoQuote
  BY DEF QuotesIn, SendQuote, QuoteRegion
<1>2. PICK k \in BOOLEAN : k = (rq.carried \/ rq.comp.room # rq.chat)
  BY <1>1, QuoteFields, Zenon
<1>3. PICK q \in QuoteStates : q = rq.comp
  BY <1>1, QuoteFields
<1>4. PICK f \in SomeRoom : f = rq.chat
  BY <1>1, QuoteFields
<1>5. PICK a : a = [rq EXCEPT !.sending = TRUE, !.sent = q, !.from = f, !.comp = NoQuote, !.carried = k]
  OBVIOUS
<1>6_1. a \in QuotesStates
  BY <1>1, <1>5, <1>2, <1>3, <1>4, QuoteTypes, Zenon DEF QuotesStates
<1>6_2. SamePlace(rq, a) /\ SameSelect(rq, a)
  BY <1>1, <1>5 DEF QuotesStates, SamePlace, SameSelect
<1>6_3. SameStyle(rq, a)
  BY <1>1, <1>5 DEF QuotesStates, SameStyle
<1>6_4. a.store = rq.store
  BY <1>1, <1>5 DEF QuotesStates
<1>6_5. a.sending = TRUE /\ a.sent = q /\ a.from = f /\ a.comp = NoQuote
  BY <1>1, <1>5 DEF QuotesStates
<1>6_6. a.carried = k
  BY <1>1, <1>5 DEF QuotesStates
<1>7. PICK r : r = ClearDraft(a, f)
  OBVIOUS
<1>8. rq' = r
  BY <1>2, <1>3, <1>4, <1>5, <1>7, Zenon DEF SendQuote
<1>9. /\ r \in QuotesStates /\ AroundDraft(a, r) /\ r.comp = a.comp
      /\ f \in Rooms => r.store[f] = NoQuote
  BY <1>6_1, <1>7, ClearDraftGives
<1>10. r.comp = NoQuote /\ r.chat = f /\ r.carried = k
  BY <1>4, <1>9, <1>6_1, <1>6_2, <1>6_3, <1>6_4, <1>6_5, <1>6_6 DEF AroundDraft, SamePlace
<1>11. r.sent = q /\ r.from = f /\ r.sending = TRUE
  BY <1>9, <1>6_1, <1>6_2, <1>6_3, <1>6_4, <1>6_5, <1>6_6 DEF AroundDraft, SameSent
<1>12. ShownIn(r) /\ DraftIn(r)
  BY <1>9, <1>10 DEF ShownIn, DraftIn, SomeRoom
<1>13. ValidIn(r)
  BY <1>1, <1>3, <1>10, <1>11, QuoteTypes DEF ComposerIn, ValidIn
<1>14. SentIn(r)
  BY <1>1, <1>2, <1>3, <1>4, <1>10, <1>11, Zenon DEF SentIn
<1>15. SelectIn(a) /\ StyleIn(a)
  BY <1>1, <1>6_1, <1>6_2, <1>6_3, <1>6_4, <1>6_5, <1>6_6, SelectKept, StyleKept
<1>16. SelectIn(r) /\ StyleIn(r)
  BY <1>9, <1>15, SelectKept, StyleKept DEF AroundDraft
<1> QED
  BY <1>8, <1>9, <1>12, <1>13, <1>14, <1>16 DEF QuotesIn, ComposerIn

LEMMA AcceptedStep == ASSUME QuotesIn(rq), SendAccepted PROVE QuotesIn(rq')
<1>1. rq \in QuotesStates /\ ComposerIn(rq) /\ SelectIn(rq) /\ StyleIn(rq)
  BY DEF QuotesIn
<1>2. PICK r : r = [rq EXCEPT !.sending = FALSE, !.sent = NoQuote, !.from = NoRoom]
  OBVIOUS
<1>n. NoRoom \in SomeRoom
  BY DEF SomeRoom
<1>3_1. r \in QuotesStates
  BY <1>1, <1>2, <1>n, QuoteTypes, Zenon DEF QuotesStates
<1>3_2. SamePlace(rq, r) /\ SameDraft(rq, r)
  BY <1>1, <1>2 DEF QuotesStates, SamePlace, SameDraft
<1>3_3. SameSelect(rq, r) /\ SameStyle(rq, r)
  BY <1>1, <1>2 DEF QuotesStates, SameSelect, SameStyle
<1>3_4. r.sending = FALSE /\ r.sent = NoQuote /\ r.from = NoRoom
  BY <1>1, <1>2 DEF QuotesStates
<1>4. rq' = r
  BY <1>2 DEF SendAccepted
<1>5. ShownIn(r) /\ DraftIn(r)
  BY <1>1, <1>3_1, <1>3_2, <1>3_3, <1>3_4 DEF ComposerIn, ShownIn, DraftIn, SourceVisible, SamePlace, SameDraft
<1>6. ValidIn(r) /\ SentIn(r)
  BY <1>1, <1>3_1, <1>3_2, <1>3_3, <1>3_4, QuoteTypes DEF ComposerIn, ValidIn, SentIn, SameDraft
<1>7. SelectIn(r) /\ StyleIn(r)
  BY <1>1, <1>3_1, <1>3_2, <1>3_3, <1>3_4, SelectKept, StyleKept
<1> QED
  BY <1>3_1, <1>4, <1>5, <1>6, <1>7 DEF QuotesIn, ComposerIn

LEMMA FailedStep == ASSUME QuotesIn(rq), SendFailed PROVE QuotesIn(rq')
<1>1. rq \in QuotesStates /\ ComposerIn(rq) /\ SelectIn(rq) /\ StyleIn(rq) /\ rq.sending
  BY DEF QuotesIn, SendFailed
<1>2. PICK s : s = [rq EXCEPT !.sending = FALSE, !.sent = NoQuote, !.from = NoRoom]
  OBVIOUS
<1>n. NoRoom \in SomeRoom
  BY DEF SomeRoom
<1>3_1. s \in QuotesStates
  BY <1>1, <1>2, <1>n, QuoteTypes, Zenon DEF QuotesStates
<1>3_2. SamePlace(rq, s) /\ SameDraft(rq, s)
  BY <1>1, <1>2 DEF QuotesStates, SamePlace, SameDraft
<1>3_3. SameSelect(rq, s) /\ SameStyle(rq, s)
  BY <1>1, <1>2 DEF QuotesStates, SameSelect, SameStyle
<1>3_4. s.sending = FALSE /\ s.sent = NoQuote /\ s.from = NoRoom
  BY <1>1, <1>2 DEF QuotesStates
<1>4. SelectIn(s) /\ StyleIn(s)
  BY <1>1, <1>3_1, <1>3_2, <1>3_3, <1>3_4, SelectKept, StyleKept
<1>5. CASE rq.comp = NoQuote /\ rq.from # NoRoom
  <2>1. PICK q \in QuoteStates : q = rq.sent
    BY <1>1, QuoteFields
  <2>2. PICK f \in SomeRoom : f = rq.from
    BY <1>1, QuoteFields
  <2>3. Valid(q) /\ q # NoQuote /\ (~rq.carried => q.room = f)
    BY <1>1, <2>1, <2>2 DEF ComposerIn, ValidIn, SentIn
  <2>4. PICK a : a = [s EXCEPT !.comp = q]
    BY Zenon
  <2>5_1. a \in QuotesStates
    BY <1>3_1, <2>4, <2>1 DEF QuotesStates
  <2>5_2. SamePlace(s, a) /\ SameSent(s, a)
    BY <1>3_1, <2>4 DEF QuotesStates, SamePlace, SameSent
  <2>5_3. SameSelect(s, a) /\ SameStyle(s, a)
    BY <1>3_1, <2>4 DEF QuotesStates, SameSelect, SameStyle
  <2>5_4. a.store = s.store /\ a.carried = s.carried
    BY <1>3_1, <2>4 DEF QuotesStates
  <2>5_5. a.comp = q
    BY <1>3_1, <2>4 DEF QuotesStates
  <2>6. PICK w : w = WriteDraft(a, f, q)
    OBVIOUS
  <2>7. /\ w \in QuotesStates /\ AroundDraft(a, w) /\ w.comp = a.comp
        /\ f \in Rooms => w.store[f] = q
    BY <2>3, <2>5_1, <2>6, WriteGives
  <2>8. w.comp = q /\ w.chat = rq.chat /\ w.carried = rq.carried
    BY <2>7, <1>3_1, <1>3_2, <1>3_3, <1>3_4, <2>5_1, <2>5_2, <2>5_3, <2>5_4, <2>5_5 DEF AroundDraft, SamePlace, SameDraft
  <2>9. w.sent = NoQuote /\ w.sending = FALSE
    BY <2>7, <1>3_1, <1>3_2, <1>3_3, <1>3_4, <2>5_1, <2>5_2, <2>5_3, <2>5_4, <2>5_5 DEF AroundDraft, SameSent
  <2>10. DraftIn(w)
    <3> SUFFICES ASSUME ~w.carried, w.chat # NoRoom, w.comp = NoQuote \/ w.comp.room = w.chat
                 PROVE  w.store[w.chat] = w.comp
      BY DEF DraftIn
    <3>1. q.room = f /\ q.room = w.chat
      BY <2>3, <2>8
    <3>2. f \in Rooms
      BY <1>5, <2>2 DEF SomeRoom
    <3> QED
      BY <2>7, <2>8, <3>1, <3>2
  <2>11. ValidIn(w) /\ SentIn(w)
    BY <2>3, <2>8, <2>9, QuoteTypes DEF ValidIn, SentIn
  <2>12. PICK r : r = Validated(w)
    OBVIOUS
  <2>13. r \in QuotesStates /\ ComposerIn(r) /\ SamePlace(w, r) /\ SameSelect(w, r) /\ SameStyle(w, r)
    BY <2>7, <2>10, <2>11, <2>12, ValidatedGives
  <2>14. SelectIn(a) /\ StyleIn(a)
    BY <1>4, <2>5_1, <2>5_2, <2>5_3, <2>5_4, <2>5_5, SelectKept, StyleKept
  <2>15. SelectIn(w) /\ StyleIn(w)
    BY <2>7, <2>14, SelectKept, StyleKept DEF AroundDraft
  <2>16. rq' = r
    BY <1>2, <1>5, <2>1, <2>2, <2>4, <2>6, <2>12, Zenon DEF SendFailed
  <2> QED
    BY <2>13, <2>15, <2>16, SelectKept, StyleKept DEF QuotesIn
<1>6. CASE ~(rq.comp = NoQuote /\ rq.from # NoRoom)
  <2>1. rq' = s
    BY <1>2, <1>6 DEF SendFailed
  <2>2. ShownIn(s) /\ DraftIn(s)
    BY <1>1, <1>3_1, <1>3_2, <1>3_3, <1>3_4 DEF ComposerIn, ShownIn, DraftIn, SourceVisible, SamePlace, SameDraft
  <2>3. ValidIn(s) /\ SentIn(s)
    BY <1>1, <1>3_1, <1>3_2, <1>3_3, <1>3_4, QuoteTypes DEF ComposerIn, ValidIn, SentIn, SameDraft
  <2> QED
    BY <1>3_1, <1>4, <2>1, <2>2, <2>3 DEF QuotesIn, ComposerIn
<1> QED
  BY <1>5, <1>6

LEMMA QuotesStep == QuotesInv /\ [rq.on /\ QuotesNext]_rq => QuotesInv'
<1> SUFFICES ASSUME QuotesIn(rq), [rq.on /\ QuotesNext]_rq PROVE QuotesIn(rq')
  BY DEF QuotesInv
<1>0. rq \in QuotesStates
  BY DEF QuotesIn
<1>1. CASE UNCHANGED rq
  BY <1>1
<1>2. ASSUME NEW c \in Rooms, NEW g \in 0..1, NEW p \in Paras, NEW there \in BOOLEAN,
             RevealQuote(QuoteOf(c, g, p), there)
      PROVE  QuotesIn(rq')
  <2>1. g \in Nat
    OBVIOUS
  <2>2. QuoteOf(c, g, p) \in QuoteStates
    BY <2>1, QuoteMade
  <2> QED
    BY <1>2, <2>2, RevealStep
<1>3. ASSUME NEW there \in BOOLEAN, RevealQuote(rq.comp, there) PROVE QuotesIn(rq')
  <2>1. rq.comp \in QuoteStates
    BY <1>0, QuoteFields
  <2> QED
    BY <1>3, <2>1, RevealStep
<1>4. CASE FinishScroll
  BY <1>4, FinishStep
<1>5. CASE HoldEnds
  BY <1>5, HoldStep
<1>6. CASE FadeEnds
  <2>1. rq' = [Restored(rq) EXCEPT !.h.phase = "done"]
    BY <1>6 DEF FadeEnds
  <2> QED
    BY <2>1, PutBackStep
<1>7. CASE SelectionChanges(NoSelection)
  BY <1>7, QuoteTypes, ChangesStep
<1>8. ASSUME NEW p \in Paras, NEW k \in {"one", "long", "cross"}, SelectionChanges([p |-> p, kind |-> k])
      PROVE  QuotesIn(rq')
  <2>1. PICK x : x = [p |-> p, kind |-> k]
    BY Zenon
  <2>2. x \in SelStates /\ x.p \in Paras
    BY <2>1 DEF SelStates, SomePara
  <2>3. SelectionChanges(x)
    BY <1>8, <2>1
  <2> QED
    BY <2>2, <2>3, ChangesStep
<1>9. CASE SettleTimer
  BY <1>9, SettleStep
<1>10. ASSUME NEW w \in {"answer", "button", "else"}, PointerDown(w) PROVE QuotesIn(rq')
  BY <1>10, DownStep
<1>11. CASE PointerUp
  BY <1>11, UpStep
<1>12. CASE PointerCancel
  BY <1>12, CancelStep
<1>13. CASE DismissPending
  BY <1>13, DismissStep
<1>14. CASE QuoteSelected
  BY <1>14, QuoteStep
<1>15. ASSUME NEW c \in Rooms \cup {NoRoom}, OpenRoom(c) PROVE QuotesIn(rq')
  BY <1>15, OpenStep DEF SomeRoom
<1>16. CASE DetailReady
  BY <1>16, DetailStep
<1>17. ASSUME NEW c \in Rooms, AnswerReplaced(c) PROVE QuotesIn(rq')
  BY <1>17, ReplacedStep
<1>18. ASSUME NEW c \in Rooms, NEW n \in Rooms \cup {NoRoom}, RoomDeleted(c, n) PROVE QuotesIn(rq')
  BY <1>18, DeletedStep DEF SomeRoom
<1>19. CASE RemoveQuote
  BY <1>19, RemoveStep
<1>20. CASE SendQuote
  BY <1>20, SendStep
<1>21. CASE SendAccepted
  BY <1>21, AcceptedStep
<1>22. CASE SendFailed
  BY <1>22, FailedStep
<1> QED
  BY <1>1, <1>2, <1>3, <1>4, <1>5, <1>6, <1>7, <1>8, <1>9, <1>10, <1>11, <1>12, <1>13, <1>14, <1>15, <1>16,
     <1>17, <1>18, <1>19, <1>20, <1>21, <1>22, Zenon DEF QuotesNext

LEMMA QuotesHold ==
  ASSUME QuotesInv
  PROVE  QuotesTypeOK /\ QuotesWhatIsShown /\ DraftIsShown /\ ButtonQuotesSelection /\ StylePutBack
<1>1. rq \in QuotesStates /\ ShownIn(rq) /\ DraftIn(rq) /\ ButtonIn(rq) /\ StyleIn(rq)
  BY DEF QuotesInv, QuotesIn, ComposerIn, SelectIn
<1>2. QuotesTypeOK
  BY <1>1 DEF QuotesStates, HandleStates, SomeRoom, QuotesTypeOK
<1>3. QuotesWhatIsShown /\ DraftIsShown /\ ButtonQuotesSelection
  BY <1>1 DEF QuotesWhatIsShown, DraftIsShown, ButtonQuotesSelection, ShownIn, DraftIn, ButtonIn
<1>4. StylePutBack
  BY <1>1 DEF StylePutBack, StyleIn, LitBy
<1> QED
  BY <1>2, <1>3, <1>4

-----------------------------------------------------------------------------
(* The parts beside each other.                                             *)

(* What was left in storage is of the type of what is kept there.           *)
LEMMA DraftsTyped == ASSUME NEW d \in Drafts PROVE d \in [Rooms -> QuoteStates]
<1>1. PICK q, x : q \in Stored(x) /\ d = [c \in Rooms |-> IF c = x THEN q ELSE NoQuote] /\ x = CHOOSE r \in Rooms : TRUE
  BY Zenon DEF Drafts
<1>2. ASSUME x \in Rooms PROVE q \in QuoteStates
  <2>1. CASE q \in {NoQuote, Garbage}
    BY <2>1, QuoteTypes
  <2>2. CASE q \notin {NoQuote, Garbage}
    <3>1. PICK p \in Paras \cap 1..2 : q = [QuoteOf(x, 0, p) EXCEPT !.anchor = IF p = 1 THEN BadPara ELSE NoPara]
      BY <1>1, <2>2 DEF Stored
    <3>2. PICK a \in Int : a = IF p = 1 THEN BadPara ELSE NoPara
      BY QuoteBounds
    <3>3. QuoteOf(x, 0, p) \in [room : Rooms, gen : Nat, anchor : Int, text : {ParaText[y] : y \in Paras}]
      <4>1. p \in Int /\ 0 \in Nat
        OBVIOUS
      <4> QED
        BY <1>2, <4>1 DEF QuoteOf
    <3>4. q = [QuoteOf(x, 0, p) EXCEPT !.anchor = a]
      BY <3>1, <3>2, Zenon
    <3> QED
      BY <3>3, <3>4 DEF QuoteStates
  <2> QED
    BY <2>1, <2>2
<1>3. \A c \in Rooms : (IF c = x THEN q ELSE NoQuote) \in QuoteStates
  BY <1>2, QuoteTypes
<1> QED
  BY <1>1, <1>3

LEMMA InitParts ==
  ASSUME Init
  PROVE  /\ OptionsInv /\ MenusInv /\ ScrollInv /\ QuotesInv /\ CodeInv /\ PartsInv
         /\ ShareInv /\ FavoritesInv /\ OverlayInv
<1>1. PICK part \in {"options", "menus", "scroll", "quotes", "code", "think", "cite", "bubble",
                     "card", "page", "favorites", "overlays"}, b \in BOOLEAN :
        /\ ro = OptionsStart(part = "options")
        /\ cm = MenusStart(part = "menus")
        /\ ts = [ScrollStart(part = "scroll") EXCEPT !.calm = b /\ part = "scroll"]
        /\ rq \in {QuotesStart(part = "quotes", b /\ part = "quotes", d) :
                     d \in IF part = "quotes" THEN Drafts ELSE {[c \in Rooms |-> NoQuote]}}
        /\ cb \in {CodeStart(part = "code", l) : l \in IF part = "code" THEN Langs ELSE {"plain"}}
        /\ ap \in CASE part = "think" -> {ThinkStart}
                    [] part = "cite" -> {CiteStart(b)}
                    [] part = "bubble" -> {BubbleStart(b, i) : i \in BOOLEAN}
                    [] OTHER -> {PartOff}
        /\ sh = ShareStart(IF part \in {"card", "page"} THEN part ELSE "off")
        /\ fv = FavoritesStart(part = "favorites")
        /\ ov = OverlayStart(part = "overlays")
  BY Zenon DEF Init
<1>b. \A x : (part = x) \in BOOLEAN
  OBVIOUS
<1>2. OptionsInv /\ MenusInv /\ FavoritesInv /\ OverlayInv
  BY <1>1, <1>b, OptionsInit, MenusInit, FavoritesInit, OverlayInit, Zenon
<1>3. CodeInv
  <2>1. PICK l \in Langs : cb = CodeStart(part = "code", l)
    BY <1>1, CodeBounds
  <2> QED
    BY <1>b, <2>1, CodeInit, Zenon
<1>4. PartsInv
  <2>1. \/ ap = PartOff \/ ap = ThinkStart \/ \E x \in BOOLEAN : ap = CiteStart(x)
        \/ \E x \in BOOLEAN, i \in BOOLEAN : ap = BubbleStart(x, i)
    BY <1>1
  <2> QED
    BY <2>1, PartsInit
<1>5. ShareInv
  <2>1. PICK on \in {"off", "card", "page"} : sh = ShareStart(on)
    BY <1>1
  <2> QED
    BY <2>1, ShareInit
<1>6. ScrollInv
  <2>1. PICK on \in BOOLEAN : on = (part = "scroll")
    BY <1>b, Zenon
  <2>2. PICK calm \in BOOLEAN : calm = (b /\ part = "scroll")
    BY <1>b, Zenon
  <2>3. ts = [ScrollStart(on) EXCEPT !.calm = calm]
    BY <1>1, <2>1, <2>2, Zenon
  <2> QED
    BY <2>3, ScrollInit
<1>7. QuotesInv
  <2>1. PICK on \in BOOLEAN : on = (part = "quotes")
    BY <1>b, Zenon
  <2>2. PICK calm \in BOOLEAN : calm = (b /\ part = "quotes")
    BY <1>b, Zenon
  <2>3. PICK d \in (IF part = "quotes" THEN Drafts ELSE {[c \in Rooms |-> NoQuote]}) : rq = QuotesStart(on, calm, d)
    BY <1>1, <2>1, <2>2, Zenon
  <2>4. [c \in Rooms |-> NoQuote] \in [Rooms -> QuoteStates]
    BY QuoteTypes
  <2>5. d \in [Rooms -> QuoteStates]
    BY <2>4, DraftsTyped
  <2> QED
    BY <2>3, <2>5, QuotesInit
<1> QED
  BY <1>2, <1>3, <1>4, <1>5, <1>6, <1>7

(* Every step of the whole is a step of each part or leaves it alone.       *)
LEMMA StepParts ==
  ASSUME [Next]_vars
  PROVE  /\ [OptionsNext]_ro /\ [MenusNext]_cm /\ [ts.on /\ ScrollNext]_ts /\ [rq.on /\ QuotesNext]_rq
         /\ [CodeNext]_cb /\ ((ap.kind # "off" /\ PartsNext) \/ ap' = ap)
         /\ [ShareNext]_sh /\ [FavoritesNext]_fv /\ [OverlayNext]_ov
  BY DEF Next, vars, composer, thread, library

(* What is sent is what the menus show, the level fits the model, a         *)
(* conversation with images keeps a model that reads them while one is      *)
(* offered, and one menu is open at a time, for any catalog, any levels and *)
(* any number of conversations (modelPreference.ts, thinkingLevel.ts,       *)
(* Composer.tsx).                                                           *)
THEOREM OptionsStaySound == Spec => []OptionsSound
<1>1. Init => OptionsInv /\ MenusInv
  BY InitParts
<1>2. (OptionsInv /\ MenusInv) /\ [Next]_vars => (OptionsInv /\ MenusInv)'
  BY StepParts, OptionsStep, MenusStep
<1>3. OptionsInv /\ MenusInv => OptionsSound
  BY OptionsHold, MenusHold DEF OptionsSound
<1> QED
  BY <1>1, <1>2, <1>3, PTL DEF Spec

(* A thread at rest is at its end exactly while it follows, the return      *)
(* button is there exactly when the end is far and no blank is kept below   *)
(* what is read; the composer quotes an answer that is shown, a reload      *)
(* shows the same draft, the button over a selection quotes what is         *)
(* selected and a lit paragraph is put back; for any screen of at least     *)
(* three lines, any conversations and any paragraphs (useStickToBottom.ts,  *)
(* useReplyQuoteSelection.ts, replyQuoteDraftStore.ts).                     *)
THEOREM ThreadStaysSound == Spec => []ThreadSound
<1>1. Init => ScrollInv /\ QuotesInv
  BY InitParts
<1>2. (ScrollInv /\ QuotesInv) /\ [Next]_vars => (ScrollInv /\ QuotesInv)'
  BY StepParts, ScrollStep, QuotesStep
<1>3. ScrollInv /\ QuotesInv => ThreadSound
  BY ScrollHold, QuotesHold DEF ThreadSound
<1> QED
  BY <1>1, <1>2, <1>3, PTL DEF Spec

(* Code is shown whole whatever the highlighter does and is highlighted in  *)
(* the end, the copy button tells how the newest copy ended, the end of a   *)
(* run changes nothing the reader sees of the reasoning, and the card of a  *)
(* citation follows the pointer, for sources of any length and any number   *)
(* of copies, touches and citations (CodeBlock.tsx, ThinkingBlock.tsx,      *)
(* Citation.tsx, Message.tsx).                                              *)
THEOREM AnswerStaysSound == Spec => []AnswerSound
<1>1. Init => CodeInv /\ PartsInv
  BY InitParts
<1>2. (CodeInv /\ PartsInv) /\ [Next]_vars => (CodeInv /\ PartsInv)'
  BY StepParts, CodeStep, PartsStep
<1>3. CodeInv /\ PartsInv => AnswerSound
  BY CodeHold, PartsHold DEF AnswerSound
<1> QED
  BY <1>1, <1>2, <1>3, PTL DEF Spec

(* However the dialog, the share button and the card race, a conversation   *)
(* has at most one active link and a link the owner was told is revoked is  *)
(* dead; the stars of a user in one tab are true; every toast has its whole *)
(* time; for any number of conversations and links (create_share,           *)
(* revoke_share, FavoritesDialog.tsx, Toast.tsx).                           *)
THEOREM LibraryStaysSound == Spec => []LibrarySound
<1>1. Init => ShareInv /\ FavoritesInv /\ OverlayInv
  BY InitParts
<1>2. (ShareInv /\ FavoritesInv /\ OverlayInv) /\ [Next]_vars => (ShareInv /\ FavoritesInv /\ OverlayInv)'
  BY StepParts, ShareStep, FavoritesStep, OverlayStep
<1>3. ShareInv /\ FavoritesInv /\ OverlayInv => LibrarySound
  BY ShareHold, FavoritesHold, OverlayHold DEF LibrarySound
<1> QED
  BY <1>1, <1>2, <1>3, PTL DEF Spec

(* Nothing but the reader scrolls down a reader who scrolled up, and        *)
(* nothing but the reader or a changed layout ends the hold of a question,  *)
(* on any screen of at least three lines (useStickToBottom.ts); no visitor  *)
(* of the public page is given the snapshot or an attachment through a link *)
(* its owner was told is revoked (get_public_share), and Tab in the mobile  *)
(* sheet never takes the focus out of it (BottomSheet.tsx).                 *)
THEOREM StepsStaySound == Spec => ScreenSteps
<1> DEFINE A == \A t \in sh.told : sh'.page.token = t /\ sh'.page.status \in {"ready", "reading"}
                                    => sh'.page = sh.page
           B == ov.over = "sheet" /\ ov'.over = "sheet" /\ ov'.n = ov.n /\ ov'.focus # ov.focus
                  => ov'.focus >= 0
           C == ts.away /\ ts'.away /\ ts'.reads = ts.reads => ts'.top <= ts.top
           D == ts.mode = "anchored" /\ ts'.mode # "anchored" /\ ~ts.unread => ts'.reads # ts.reads \/ ts.mine
<1>1. Init => ShareInv /\ OverlayInv /\ ScrollInv
  BY InitParts
<1>2. (ShareInv /\ OverlayInv /\ ScrollInv) /\ [Next]_vars => (ShareInv /\ OverlayInv /\ ScrollInv)'
  BY StepParts, ShareStep, OverlayStep, ScrollStep
<1>3. ShareInv /\ [Next]_vars => [A]_sh
  BY StepParts, VisitStep
<1>4. OverlayInv /\ [Next]_vars => [B]_ov
  BY StepParts, SheetStep
<1>5. ScrollInv /\ [Next]_vars => [C]_ts /\ [D]_ts
  BY StepParts, ScrollStep DEF Stays, Leaves
<1> HIDE DEF A, B, C, D
<1>6. Spec => [][A]_sh /\ [][B]_ov /\ [][C]_ts /\ [][D]_ts
  BY <1>1, <1>2, <1>3, <1>4, <1>5, PTL DEF Spec
<1> QED
  BY <1>6 DEF A, B, C, D, VisitsActive, SheetKeepsFocus, ReaderStays, OnlyReaderLeaves, ScreenSteps
=============================================================================
