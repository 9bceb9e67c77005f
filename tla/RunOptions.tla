----------------------------- MODULE RunOptions -----------------------------
(***************************************************************************)
(* The options of a run: the model, the thinking level and web search.     *)
(* They are kept twice, in localStorage (frontend/src/runs/*Preference.ts, *)
(* thinkingLevel.ts) and in the state of AppShell; the pill of the         *)
(* composer shows the second, a request is made from the first             *)
(* (currentRunOptions).  A conversation with pictures restricts the models.*)
(***************************************************************************)
EXTENDS Naturals, FiniteSets

CONSTANTS
  Models,       \* ids of chat models
  Sees,         \* the ones with supports_image_input
  Tiers,        \* thinking_levels of a model
  Default,      \* the default of the catalog
  Chats         \* conversations

Levels == {"low", "high", "max"}
ASSUME OptionsAssumption ==
  /\ Sees \subseteq Models /\ Default \in Models /\ Tiers \in [Models -> SUBSET Levels]
  /\ "none" \notin Models /\ "home" \notin Chats

VARIABLE ro

None == "none"
Plain == [state |-> "none", recommended |-> None]
Contexts == {Plain, [state |-> "legacy_upgrade_required", recommended |-> None]}
            \cup [state : {"vision_required"}, recommended : Sees \cup {None}]
NoKey == [chat |-> "home", context |-> Plain]

(* on: this page is there.  offered: availableModels.  saved, kept, wanted: *)
(* the stored model, level and search.  model, level, search: the state of  *)
(* AppShell.  applied: appliedImageContextRef.  foreign: another tab wrote  *)
(* a preference since the page was loaded.                                  *)
OptionsStart(on) ==
  [on |-> on, ready |-> FALSE, offered |-> {}, webSearch |-> FALSE,
   saved |-> None, kept |-> "low", wanted |-> FALSE,
   model |-> None, level |-> "low", search |-> FALSE,
   at |-> "home", context |-> [c \in Chats |-> Plain], applied |-> NoKey,
   foreign |-> FALSE]

-----------------------------------------------------------------------------
(* modelPreferenceStore, clampThinkingLevel                                 *)

FirstOf(S) == IF S = {} THEN None ELSE CHOOSE m \in S : TRUE
Resolve(o) == IF o.saved \in o.offered THEN o.saved
              ELSE IF Default \in o.offered THEN Default
              ELSE FirstOf(o.offered)

ClampThinkingLevel(level, allowed) ==
  IF allowed = {} \/ level \in allowed THEN level
  ELSE IF "high" \in allowed THEN "high" ELSE CHOOSE l \in allowed : TRUE

Compatible(o, c) == {m \in o.offered : IF c.state = "vision_required" THEN m \in Sees ELSE m \notin Sees}
ResolveForImageContext(o, c) ==
  LET S == Compatible(o, c) IN
  IF c.state = "none" THEN Resolve(o)
  ELSE IF c.recommended \in S THEN c.recommended
  ELSE IF o.saved \in S THEN o.saved
  ELSE FirstOf(S)

(* onModelChange: the stored level is snapped onto the tiers of the model.  *)
OnModelPicked(o, m) ==
  LET clamped == ClampThinkingLevel(o.kept, Tiers[m]) IN
  [o EXCEPT !.saved = m, !.model = m,
            !.kept = IF Tiers[m] # {} THEN clamped ELSE @,
            !.level = IF Tiers[m] # {} THEN clamped ELSE @]

-----------------------------------------------------------------------------
(* What the composer shows                                                  *)

ContextNow == IF ro.at = "home" THEN Plain ELSE ro.context[ro.at]
AllowedLevels == IF ro.model = None THEN Levels ELSE Tiers[ro.model]
EffectiveLevel == ClampThinkingLevel(ro.level, AllowedLevels)
ModelSelectable(m) ==
  /\ m \in ro.offered
  /\ ~(ContextNow.state = "vision_required" /\ m \notin Sees)
  /\ ~(ContextNow.state = "legacy_upgrade_required" /\ m \in Sees)
LevelSelectable(l) == l \in AllowedLevels
SearchSelectable == ro.webSearch

VisionMutationBlocked ==
  /\ ContextNow.state = "vision_required"
  /\ ResolveForImageContext(ro, ContextNow) = None \/ ro.model \notin Sees

-----------------------------------------------------------------------------
(* Bootstrap: capabilities, or none of them.  (models is not reset on a     *)
(* failure: it is empty then.)                                              *)
CapabilitiesLoaded(S, web) ==
  /\ ro.on /\ ~ro.ready
  /\ LET o == [ro EXCEPT !.ready = TRUE, !.offered = S, !.webSearch = web] IN
     ro' = [o EXCEPT !.model = Resolve(o)]
CapabilitiesFailed == /\ ro.on /\ ~ro.ready
                      /\ ro' = [ro EXCEPT !.ready = TRUE]

ChooseModel(m) == /\ ro.on /\ ro.ready /\ ModelSelectable(m)
                  /\ ro' = OnModelPicked(ro, m)
ChooseLevel(l) == /\ ro.on /\ LevelSelectable(l)
                  /\ ro' = [ro EXCEPT !.kept = l, !.level = l]
ToggleSearch == /\ ro.on /\ SearchSelectable
                /\ ro' = [ro EXCEPT !.wanted = ~ro.search, !.search = ~@]

Navigate(c) == /\ ro.on /\ ro.ready /\ c # ro.at
               /\ ro' = [ro EXCEPT !.at = c]

(* A message with a picture is sent or upgraded, or the branch with it is   *)
(* left: the server's context of the conversation is another.               *)
ContextChanges(c, x) == /\ ro.on /\ ro.ready /\ ro.context[c] # x /\ ro.at = c
                        /\ ro' = [ro EXCEPT !.context[c] = x]

(* Mutant: the model is changed, the store is not.                          *)
ApplyImageContextShown ==
  LET key == [chat |-> ro.at, context |-> ContextNow]
      m == ResolveForImageContext(ro, ContextNow) IN
  /\ ro.on /\ ro.at # "home" /\ ro.offered # {} /\ ro.applied # key
  /\ ro' = [ro EXCEPT !.applied = key, !.model = IF m = None THEN @ ELSE m]

(* The effect that takes a model the conversation can use, once for each    *)
(* context.                                                                 *)
ApplyImageContext ==
  LET key == [chat |-> ro.at, context |-> ContextNow]
      m == ResolveForImageContext(ro, ContextNow) IN
  /\ ro.on /\ ro.at # "home" /\ ro.offered # {} /\ ro.applied # key
  /\ ro' = [IF m = None \/ m = ro.model THEN ro ELSE OnModelPicked(ro, m)
              EXCEPT !.applied = key]

(* currentRunOptions, read from the stores.                                 *)
CurrentRunOptions(o) ==
  LET m == Resolve(o) IN
  [model |-> m, level |-> ClampThinkingLevel(o.kept, IF m = None THEN {} ELSE Tiers[m]),
   search |-> o.webSearch /\ o.wanted]

(* Another tab of this browser chooses; nothing listens for it.             *)
OtherTab(m, l, s) ==
  /\ ro.on /\ <<m, l, s>> # <<ro.saved, ro.kept, ro.wanted>>
  /\ ro' = [ro EXCEPT !.saved = m, !.kept = l, !.wanted = s, !.foreign = TRUE]

(* The page is loaded again.                                                *)
ReloadPage ==
  /\ ro.on /\ ro.ready
  /\ ro' = [OptionsStart(TRUE) EXCEPT !.saved = ro.saved, !.kept = ro.kept, !.wanted = ro.wanted,
              !.level = ro.kept, !.search = ro.wanted, !.at = ro.at, !.context = ro.context]

OptionsNext ==
  \/ \E S \in SUBSET Models, web \in BOOLEAN : CapabilitiesLoaded(S, web)
  \/ CapabilitiesFailed \/ ToggleSearch \/ ApplyImageContext \/ ReloadPage
  \/ \E m \in Models : ChooseModel(m)
  \/ \E l \in Levels : ChooseLevel(l)
  \/ \E c \in Chats \cup {"home"} : Navigate(c)
  \/ \E c \in Chats, x \in Contexts : ContextChanges(c, x)
  \/ \E m \in Models, l \in Levels, s \in BOOLEAN : OtherTab(m, l, s)

-----------------------------------------------------------------------------
OptionsTypeOK ==
  /\ ro.offered \subseteq Models /\ ro.saved \in Models \cup {None} /\ ro.kept \in Levels
  /\ ro.model \in Models \cup {None} /\ ro.level \in Levels /\ ro.at \in Chats \cup {"home"}
  /\ ro.context \in [Chats -> Contexts]

(* A request made now asks for what the pill shows, unless another tab has  *)
(* written a preference since the page was loaded.                          *)
SentAsShown ==
  LET r == CurrentRunOptions(ro) IN
  ~ro.foreign => /\ r.model = ro.model /\ r.search = (ro.search /\ ro.webSearch)
                 /\ AllowedLevels # {} => r.level = EffectiveLevel

(* Whatever is in the stores, and whoever wrote it, a request asks for a    *)
(* level that its model has.                                                *)
LevelFits ==
  LET r == CurrentRunOptions(ro) IN
  r.model # None /\ Tiers[r.model] # {} => r.level \in Tiers[r.model]

(* In a conversation with pictures a request that is let through names a    *)
(* model that sees.                                                         *)
SeeingKept ==
  /\ ContextNow.state = "vision_required" /\ ~VisionMutationBlocked /\ ~ro.foreign
  => CurrentRunOptions(ro).model \in Sees

(* Once the effect has been at a conversation with pictures, a model that   *)
(* sees is selected: "a stale non-vision preference is being corrected".    *)
VisionCorrected ==
  /\ ContextNow.state = "vision_required" /\ Compatible(ro, ContextNow) # {}
  /\ ro.applied = [chat |-> ro.at, context |-> ContextNow]
  => ro.model \in Sees
=============================================================================
