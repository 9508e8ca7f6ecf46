----------------------- MODULE OverlayRuntimeTheorems -----------------------
(* What holds of OverlayRuntime for every number of metrics, every set of    *)
(* scenes, styles and configurations, and every firmware.                    *)
EXTENDS OverlayRuntime, TLAPS, FiniteSetTheorems

LEMMA CellFacts ==
    /\ Background \in Cell
    /\ \A m \in Metric : MetricCell(m) \in Cell /\ SepCell(m) \in Cell
    /\ Head \in Parts /\ Metrics \in Parts
    /\ \A i \in Slot : <<"order", i>> \in Parts
BY DEF Cell, Background, MetricCell, SepCell, Parts, Head, Metrics, Metric

LEMMA ConfigFacts ==
    /\ DefaultConfig \in Configs
    /\ \A c \in Configs : c \in ConfigRecord
    /\ NoBuild \in BuildLocals
    /\ NoCells \in [Cell -> Widget]
    /\ NoTree \in [Cell -> Int]
<1>1. DefaultConfig \in ConfigRecord /\ 0 \in 0 .. METRIC_COUNT /\ 0 \in Slot
  BY ConfigAssumption, MetricCountAssumption DEF Slot
<1>2. DefaultConfig.style \in Styles
  BY <1>1 DEF ConfigRecord
<1>3. Null \in Widget
  BY <1>1 DEF Null, Widget
<1> QED
  BY <1>1, <1>2, <1>3, ConfigAssumption DEF NoBuild, NoCells, NoTree, BuildLocals

LEMMA InitTypeOK == Init => TypeOK
<1> SUFFICES ASSUME Init PROVE TypeOK
  OBVIOUS
<1>1. g_config \in ConfigRecord
  BY ConfigFacts DEF Init
<1>2. tree \in [Scenes -> [Cell -> Int]]
  BY ConfigFacts DEF Init
<1> QED
  BY <1>1, <1>2, ConfigFacts, RemoveFoundAssumption DEF Init, TypeOK

LEMMA DestroyHudType ==
    ASSUME TypeOK, root_widget \in Scenes, DestroyHud
    PROVE  tree' \in [Scenes -> [Cell -> Int]] /\ hud_ctx' \in [Cell -> Widget]
<1>1. CASE removeFound
  <2> DEFINE row == [c \in Cell |-> IF hud_ctx[c] # Null THEN tree[root_widget][c] - 1
                                    ELSE tree[root_widget][c]]
  <2>1. row \in [Cell -> Int]
    BY DEF TypeOK
  <2>2. tree' = [tree EXCEPT ![root_widget] = row] /\ hud_ctx' = NoCells
    BY <1>1 DEF DestroyHud
  <2> QED
    BY <2>1, <2>2, ConfigFacts DEF TypeOK
<1>2. CASE ~removeFound
  BY <1>2 DEF DestroyHud, TypeOK
<1> QED
  BY <1>1, <1>2

LEMMA DestroyIfAttachedType ==
    ASSUME TypeOK, DestroyIfAttached
    PROVE  tree' \in [Scenes -> [Cell -> Int]] /\ hud_ctx' \in [Cell -> Widget]
<1>1. CASE attached_to_game /\ root_widget # NoScene
  BY <1>1, DestroyHudType DEF DestroyIfAttached, TypeOK
<1>2. CASE ~(attached_to_game /\ root_widget # NoScene)
  BY <1>2 DEF DestroyIfAttached, TypeOK
<1> QED
  BY <1>1, <1>2

LEMMA BuildBeginType ==
    ASSUME TypeOK, BuildBegin, root_widget \in Scenes
    PROVE  /\ tree' \in [Scenes -> [Cell -> Int]]
           /\ hud_ctx' \in [Cell -> Widget]
           /\ bld' \in BuildLocals
<1>0. g_config.style \in Styles /\ 0 \in Slot
  BY MetricCountAssumption DEF TypeOK, ConfigRecord, Slot
<1>1. bld' \in BuildLocals
  BY <1>0, ConfigFacts DEF BuildBegin, NoBuild, BuildLocals
<1> DEFINE bg == [styles |-> {g_config.style}, slot |-> 0, sized |-> TRUE]
<1>2. bg \in Widget
  BY <1>0 DEF Widget
<1>3. [NoCells EXCEPT ![Background] = bg] \in [Cell -> Widget]
  BY <1>2, ConfigFacts
<1>4. hud_ctx' \in [Cell -> Widget]
  BY <1>3, ConfigFacts DEF BuildBegin
<1>5. [tree EXCEPT ![root_widget][Background] = @ + 1] \in [Scenes -> [Cell -> Int]]
  BY CellFacts DEF TypeOK
<1>6. tree' \in [Scenes -> [Cell -> Int]]
  BY <1>5 DEF BuildBegin, TypeOK
<1> QED
  BY <1>1, <1>4, <1>6

LEMMA PlaceSlotType ==
    ASSUME TypeOK, PlaceSlot, root_widget \in Scenes
    PROVE  /\ tree' \in [Scenes -> [Cell -> Int]]
           /\ hud_ctx' \in [Cell -> Widget]
           /\ bld' \in BuildLocals
<1> DEFINE ctx == [c \in Cell |-> IF c \in NewCells THEN NewWidget ELSE hud_ctx[c]]
           row == [c \in Cell |-> IF c \in NewCells THEN tree[root_widget][c] + 1
                                  ELSE tree[root_widget][c]]
<1>1. bld.i \in Slot /\ bld.i + 1 \in 0 .. METRIC_COUNT /\ bld \in BuildLocals
  BY MetricCountAssumption DEF PlaceSlot, Slot, TypeOK
<1>2. NewWidget \in Widget
  BY <1>1 DEF Widget, TypeOK, ConfigRecord, BuildLocals, NewWidget
<1>3. ctx \in [Cell -> Widget]
  BY <1>2 DEF TypeOK
<1>4. [tree EXCEPT ![root_widget] = row] \in [Scenes -> [Cell -> Int]]
  <2>1. row \in [Cell -> Int]
    BY DEF TypeOK
  <2> QED
    BY <2>1 DEF TypeOK
<1>5. CASE /\ hud_ctx' = ctx
           /\ tree' = [tree EXCEPT ![root_widget] = row]
           /\ bld' = [bld EXCEPT !.i = @ + 1, !.placed_count = @ + 1]
  <2>0. bld' = [bld EXCEPT !.i = bld.i + 1, !.placed_count = bld.placed_count + 1]
    BY <1>5
  <2>1. bld' = [i |-> bld.i + 1, sized |-> bld.sized, enabled_count |-> bld.enabled_count,
                placed_count |-> bld.placed_count + 1, style |-> bld.style]
    BY <1>1, <2>0 DEF BuildLocals
  <2>2. bld' \in BuildLocals
    BY <1>1, <2>1 DEF BuildLocals
  <2> QED
    BY <1>3, <1>4, <1>5, <2>2
<1>6. CASE UNCHANGED <<tree, hud_ctx>> /\ bld' = [bld EXCEPT !.i = @ + 1]
  <2>1. bld' \in BuildLocals
    BY <1>1, <1>6 DEF BuildLocals
  <2> QED
    BY <1>6, <2>1 DEF TypeOK
<1> QED
  BY <1>5, <1>6 DEF PlaceSlot

LEMMA MeasureSlotType ==
    ASSUME TypeOK, MeasureSlot PROVE bld' \in BuildLocals
<1>1. /\ bld.i \in Slot /\ bld.i + 1 \in 0 .. METRIC_COUNT /\ bld \in BuildLocals
      /\ MetricAt \in Metric
  BY MetricCountAssumption DEF MeasureSlot, Slot, TypeOK, MetricAt, ConfigRecord
<1>2. CASE bld' = [bld EXCEPT !.i = @ + 1, !.sized = @ \cup {MetricAt},
                             !.enabled_count = @ + 1]
  <2>1. bld' = [i |-> bld.i + 1, sized |-> bld.sized \cup {MetricAt},
                enabled_count |-> bld.enabled_count + 1,
                placed_count |-> bld.placed_count, style |-> bld.style]
    BY <1>1, <1>2 DEF BuildLocals
  <2> QED
    BY <1>1, <2>1 DEF BuildLocals
<1>3. CASE bld' = [bld EXCEPT !.i = @ + 1]
  BY <1>1, <1>3 DEF BuildLocals
<1> QED
  BY <1>2, <1>3 DEF MeasureSlot

LEMMA MergedType ==
    ASSUME NEW old \in ConfigRecord, NEW new \in ConfigRecord, NEW part
    PROVE  Merged(old, new, part) \in ConfigRecord
BY DEF Merged, ConfigRecord

(* The root and the scene of a build: used by every step that draws. *)
RootInv ==
    /\ pc \in {"reset", "measure", "place", "clear"} =>
          /\ root_widget # NoScene
          /\ root_widget = game_scene
          /\ reason = "rebuild" => attached_to_game /\ last_attached_scene = root_widget
    /\ pc \in {"top", "check", "update", "unload", "exited"} =>
          /\ attached_to_game /\ root_widget # NoScene => last_attached_scene = root_widget
          /\ ~attached_to_game => root_widget = NoScene
    /\ pc = "check" /\ attached_to_game /\ root_widget # NoScene => game_scene = root_widget
    /\ pc \in {"boot", "failed"} => ~attached_to_game /\ root_widget = NoScene

(* A half-written g_config agrees with new_cfg on the parts already copied,  *)
(* and is a configuration again as soon as all of them are.                  *)
CopyInv ==
    /\ ~MidCopy => g_config \in Configs
    /\ wpc = "apply" =>
          /\ Head \in copied => /\ g_config.enabled = new_cfg.enabled
                                /\ g_config.bg_visible = new_cfg.bg_visible
                                /\ g_config.style = new_cfg.style
          /\ \A i \in Slot : <<"order", i>> \in copied => g_config.order[i] = new_cfg.order[i]
          /\ Metrics \in copied => g_config.shown = new_cfg.shown

(* Only a running server can have been asked to unload, so the unload path   *)
(* never runs before the worker has raised g_web_running.                    *)
UnloadInv ==
    /\ pc \in {"boot", "failed"} <=> wpc = "off"
    /\ g_should_unload => wpc \in {"accept", "apply", "loop", "gone"}
    /\ pc \in {"unload", "exited"} => g_should_unload
    /\ pc = "exited" => ~ready_file /\ ~g_web_running

(* With RemoveFromParent, hud_ctx is empty whenever no HUD is attached. *)
EmptyInv ==
    removeFound /\ ~Building =>
        (pc \in {"reset", "unload", "exited"} \/ ~attached_to_game \/ root_widget = NoScene
            => hud_ctx = NoCells)

(* As long as no build has overlapped an assignment, pass 2 never meets a    *)
(* metric it has already placed.                                             *)
PlacedInv ==
    ~torn /\ pc \in {"measure", "place"} =>
        /\ \A i, j \in Slot : g_config.order[i] = g_config.order[j] => i = j
        /\ \A c \in Cell : c # Background /\ hud_ctx[c] # Null =>
              pc = "place" /\ \E j \in Slot : j < bld.i /\ c[2] = g_config.order[j]

GhostInv == RootInv /\ CopyInv /\ UnloadInv /\ EmptyInv /\ PlacedInv /\ NoGhostCells

-----------------------------------------------------------------------------
(* Every step of Next, as a list of cases that a proof can take one by one.  *)
LEMMA NextCases ==
    ASSUME Next
    PROVE  \/ \E c \in Configs, started \in BOOLEAN : Boot(c, started)
           \/ BootFails \/ AttachScene \/ GameClosed \/ SceneUnchanged
           \/ RebuildForChange \/ NothingToRebuild \/ BuildBegin \/ MeasureSlot
           \/ MeasureDone \/ PlaceSlot \/ PlaceDone \/ ClearChanged \/ UpdateMetrics
           \/ Unload \/ UnloadDone
           \/ \E bound \in BOOLEAN : WorkerBinds(bound)
           \/ CopyPart \/ SetChanged \/ WorkerLoop
           \/ \E c \in Configs : ReceiveConfig(c)
           \/ PostUnload \/ ServeNothing
           \/ \E s \in Scenes \cup {NoScene} : SwitchScene(s)
           \/ \E s \in Scenes : SceneGetsRoot(s) \/ CollectScene(s)
BY ConfigAssumption DEF Next, HudThread, WorkerRuns, Requests, PostConfig, PostReset, Shell

LEMMA RootInvInductive == RootInv /\ [Next]_vars => RootInv'
<1> SUFFICES ASSUME RootInv, [Next]_vars PROVE RootInv'
  OBVIOUS
<1> USE DEF RootInv, envVars, loopVars, drawVars, flagVars, copyVars, webVars, historyVars
<1>1. ASSUME NEW c \in Configs, NEW started \in BOOLEAN, Boot(c, started) PROVE RootInv'
  BY <1>1 DEF Boot
<1>2. CASE BootFails
  BY <1>2 DEF BootFails
<1>3. CASE AttachScene
  BY <1>3 DEF AttachScene
<1>4. CASE GameClosed
  BY <1>4 DEF GameClosed
<1>5. CASE SceneUnchanged
  BY <1>5 DEF SceneUnchanged
<1>6. CASE RebuildForChange
  BY <1>6 DEF RebuildForChange
<1>7. CASE NothingToRebuild
  BY <1>7 DEF NothingToRebuild
<1>8. CASE BuildBegin
  BY <1>8 DEF BuildBegin
<1>9. CASE MeasureSlot
  BY <1>9 DEF MeasureSlot
<1>10. CASE MeasureDone
  BY <1>10 DEF MeasureDone
<1>11. CASE PlaceSlot
  BY <1>11 DEF PlaceSlot
<1>12. CASE PlaceDone
  BY <1>12 DEF PlaceDone
<1>13. CASE ClearChanged
  BY <1>13 DEF ClearChanged
<1>14. CASE UpdateMetrics
  BY <1>14 DEF UpdateMetrics
<1>15. CASE Unload
  BY <1>15 DEF Unload
<1>16. CASE UnloadDone
  BY <1>16 DEF UnloadDone
<1>17. ASSUME NEW bound \in BOOLEAN, WorkerBinds(bound) PROVE RootInv'
  BY <1>17 DEF WorkerBinds
<1>18. CASE CopyPart
  BY <1>18 DEF CopyPart
<1>19. CASE SetChanged
  BY <1>19 DEF SetChanged
<1>20. CASE WorkerLoop
  BY <1>20 DEF WorkerLoop
<1>21. ASSUME NEW c \in Configs, ReceiveConfig(c) PROVE RootInv'
  BY <1>21 DEF ReceiveConfig
<1>22. CASE PostUnload
  BY <1>22 DEF PostUnload
<1>23. CASE ServeNothing
  BY <1>23 DEF ServeNothing
<1>24. ASSUME NEW s, SwitchScene(s) PROVE RootInv'
  BY <1>24 DEF SwitchScene
<1>25. ASSUME NEW s \in Scenes, SceneGetsRoot(s) \/ CollectScene(s) PROVE RootInv'
  BY <1>25 DEF SceneGetsRoot, CollectScene
<1>26. CASE UNCHANGED vars
  BY <1>26 DEF vars
<1> QED
  BY <1>1, <1>2, <1>3, <1>4, <1>5, <1>6, <1>7, <1>8, <1>9, <1>10, <1>11, <1>12, <1>13,
     <1>14, <1>15, <1>16, <1>17, <1>18, <1>19, <1>20, <1>21, <1>22, <1>23, <1>24, <1>25,
     <1>26, NextCases

LEMMA RootInvHolds == Spec => []RootInv
<1>1. Init => RootInv
  BY DEF Init, RootInv
<1> QED
  BY <1>1, RootInvInductive, PTL DEF Spec


(* Type correctness: in particular the counts of the tree are only taken     *)
(* under a scene that exists, because build_hud() and destroy_hud() are      *)
(* never reached with a null root (the reason RootInv is needed).            *)
LEMMA TypeInductive == TypeOK /\ RootInv /\ [Next]_vars => TypeOK'
<1> SUFFICES ASSUME TypeOK, RootInv, [Next]_vars PROVE TypeOK'
  OBVIOUS
<1> USE DEF envVars, loopVars, drawVars, flagVars, copyVars, webVars, historyVars
<1>0. root_widget \in Scenes \/ pc \notin {"reset", "measure", "place", "clear"}
  BY DEF RootInv, TypeOK
<1>1. ASSUME NEW c \in Configs, NEW started \in BOOLEAN, Boot(c, started) PROVE TypeOK'
  BY <1>1, ConfigAssumption DEF Boot, TypeOK
<1>2. CASE BootFails
  BY <1>2 DEF BootFails, TypeOK
<1>3. CASE AttachScene
  BY <1>3, DestroyIfAttachedType DEF AttachScene, TypeOK
<1>4. CASE GameClosed
  BY <1>4, DestroyIfAttachedType DEF GameClosed, TypeOK
<1>5. CASE SceneUnchanged
  BY <1>5 DEF SceneUnchanged, TypeOK
<1>6. CASE RebuildForChange
  BY <1>0, <1>6, DestroyHudType DEF RebuildForChange, TypeOK
<1>7. CASE NothingToRebuild
  BY <1>7 DEF NothingToRebuild, TypeOK
<1>8. CASE BuildBegin
  <2>1. /\ tree' \in [Scenes -> [Cell -> Int]]
        /\ hud_ctx' \in [Cell -> Widget]
        /\ bld' \in BuildLocals
    BY <1>0, <1>8, BuildBeginType DEF BuildBegin
  <2>2. raced' \in BOOLEAN /\ torn' \in BOOLEAN
    BY <1>8 DEF BuildBegin, TypeOK, MidCopy
  <2>3. /\ pc' \in {"clear", "measure"}
        /\ UNCHANGED <<envVars, ready_file, loopVars, flagVars, webVars>>
    BY <1>8 DEF BuildBegin
  <2> QED
    BY <2>1, <2>2, <2>3 DEF TypeOK
<1>9. CASE MeasureSlot
  BY <1>9, MeasureSlotType DEF MeasureSlot, TypeOK
<1>10. CASE MeasureDone
  <2>1. bld' = [i |-> 0, sized |-> bld.sized, enabled_count |-> bld.enabled_count,
                placed_count |-> bld.placed_count, style |-> bld.style]
    BY <1>10 DEF MeasureDone, TypeOK, BuildLocals
  <2>2. bld' \in BuildLocals
    BY <2>1, MetricCountAssumption DEF TypeOK, BuildLocals
  <2> QED
    BY <1>10, <2>2 DEF MeasureDone, TypeOK
<1>11. CASE PlaceSlot
  BY <1>0, <1>11, PlaceSlotType DEF PlaceSlot, TypeOK
<1>12. CASE PlaceDone
  BY <1>12 DEF PlaceDone, TypeOK
<1>13. CASE ClearChanged
  <2>1. bld' \in BuildLocals /\ g_config_changed' \in BOOLEAN
    BY <1>13, ConfigFacts DEF ClearChanged
  <2>2. /\ reason' \in {"attach", "rebuild"}
        /\ last_attached_scene' \in Scenes \cup {NoScene}
        /\ attached_to_game' \in BOOLEAN
        /\ pc' \in {"check", "update"}
    BY <1>13 DEF ClearChanged, TypeOK
  <2>3. UNCHANGED <<envVars, ready_file, game_scene, root_widget, tree, hud_ctx,
                    g_should_unload, g_web_running, webVars, historyVars>>
    BY <1>13 DEF ClearChanged
  <2> QED
    BY <2>1, <2>2, <2>3 DEF TypeOK
<1>14. CASE UpdateMetrics
  BY <1>14 DEF UpdateMetrics, TypeOK
<1>15. CASE Unload
  BY <1>15, DestroyIfAttachedType DEF Unload, TypeOK
<1>16. CASE UnloadDone
  <2>1. g_web_running' \in BOOLEAN /\ ready_file' \in BOOLEAN /\ pc' = "exited"
    BY <1>16 DEF UnloadDone
  <2>2. UNCHANGED <<envVars, loopVars, drawVars, g_config_changed, g_should_unload, webVars,
                    historyVars>>
    BY <1>16 DEF UnloadDone
  <2> QED
    BY <2>1, <2>2 DEF TypeOK
<1>17. ASSUME NEW bound \in BOOLEAN, WorkerBinds(bound) PROVE TypeOK'
  <2>1. g_web_running' \in BOOLEAN /\ wpc' \in {"accept", "gone"}
    BY <1>17 DEF WorkerBinds, TypeOK
  <2>2. UNCHANGED <<envVars, ready_file, pc, loopVars, drawVars, g_config_changed,
                    g_should_unload, copyVars, historyVars>>
    BY <1>17 DEF WorkerBinds
  <2> QED
    BY <2>1, <2>2 DEF TypeOK
<1>18. CASE CopyPart
  <2>1. g_config' \in ConfigRecord
    BY <1>18, MergedType, ConfigFacts DEF CopyPart, TypeOK
  <2>2. copied' \in SUBSET Parts
    BY <1>18 DEF CopyPart, TypeOK
  <2>3. torn' \in BOOLEAN
    BY <1>18 DEF CopyPart, TypeOK, Building
  <2>4. UNCHANGED <<envVars, ready_file, pc, loopVars, drawVars, flagVars, wpc, new_cfg, raced>>
    BY <1>18 DEF CopyPart
  <2> QED
    BY <2>1, <2>2, <2>3, <2>4 DEF TypeOK
<1>19. CASE SetChanged
  <2>1. g_config_changed' \in BOOLEAN /\ raced' \in BOOLEAN
    BY <1>19 DEF SetChanged, TypeOK, Building
  <2>2. wpc' = "loop" /\ new_cfg' \in Configs /\ copied' \in SUBSET Parts
    BY <1>19, ConfigFacts DEF SetChanged
  <2>3. UNCHANGED <<envVars, ready_file, pc, loopVars, drawVars, g_config, g_should_unload,
                    g_web_running, torn>>
    BY <1>19 DEF SetChanged
  <2> QED
    BY <2>1, <2>2, <2>3 DEF TypeOK
<1>20. CASE WorkerLoop
  BY <1>20 DEF WorkerLoop, TypeOK
<1>21. ASSUME NEW c \in Configs, ReceiveConfig(c) PROVE TypeOK'
  BY <1>21 DEF ReceiveConfig, TypeOK
<1>22. CASE PostUnload
  BY <1>22 DEF PostUnload, TypeOK
<1>23. CASE ServeNothing
  BY <1>23 DEF ServeNothing, TypeOK
<1>24. ASSUME NEW s \in Scenes \cup {NoScene}, SwitchScene(s) PROVE TypeOK'
  BY <1>24 DEF SwitchScene, TypeOK
<1>25. ASSUME NEW s \in Scenes, SceneGetsRoot(s) \/ CollectScene(s) PROVE TypeOK'
  <2>1. tree' \in [Scenes -> [Cell -> Int]]
    BY <1>25, ConfigFacts DEF SceneGetsRoot, CollectScene, TypeOK
  <2>2. ready' \in SUBSET Scenes
    BY <1>25 DEF SceneGetsRoot, CollectScene, TypeOK
  <2>3. UNCHANGED <<scene, removeFound, ready_file, pc, loopVars, hud_ctx, bld, flagVars,
                    webVars, historyVars>>
    BY <1>25 DEF SceneGetsRoot, CollectScene
  <2> QED
    BY <2>1, <2>2, <2>3 DEF TypeOK
<1>26. CASE UNCHANGED vars
  BY <1>26 DEF vars, TypeOK
<1> QED
  BY <1>1, <1>2, <1>3, <1>4, <1>5, <1>6, <1>7, <1>8, <1>9, <1>10, <1>11, <1>12, <1>13,
     <1>14, <1>15, <1>16, <1>17, <1>18, <1>19, <1>20, <1>21, <1>22, <1>23, <1>24, <1>25,
     <1>26, NextCases

THEOREM TypeCorrect == Spec => []TypeOK
<1>1. TypeOK /\ RootInv /\ [Next]_vars => TypeOK'
  BY TypeInductive
<1> QED
  BY <1>1, InitTypeOK, RootInvHolds, PTL DEF Spec

LEMMA PartFacts ==
    /\ Head # Metrics
    /\ \A i \in Slot : <<"order", i>> # Head /\ <<"order", i>> # Metrics
    /\ \A i, j \in Slot : <<"order", i>> = <<"order", j>> => i = j
BY DEF Head, Metrics

LEMMA SameConfig ==
    ASSUME NEW a \in ConfigRecord, NEW b \in ConfigRecord,
           a.enabled = b.enabled, a.bg_visible = b.bg_visible, a.style = b.style,
           a.shown = b.shown, \A i \in Slot : a.order[i] = b.order[i]
    PROVE  a = b
<1>1. a.order = b.order
  BY DEF ConfigRecord
<1> QED
  BY <1>1 DEF ConfigRecord

(* Writing one more part of g_config keeps what the copied parts say.        *)
LEMMA CopyPartCopyInv ==
    ASSUME TypeOK, CopyInv, CopyPart PROVE CopyInv'
<1> PICK part \in Parts \ copied : /\ g_config' = Merged(g_config, new_cfg, part)
                                   /\ copied' = copied \cup {part}
  BY DEF CopyPart
<1>0. /\ wpc = "apply" /\ wpc' = "apply" /\ new_cfg' = new_cfg
      /\ new_cfg \in ConfigRecord /\ new_cfg \in Configs /\ g_config' \in ConfigRecord
  BY ConfigFacts, MergedType DEF CopyPart, TypeOK
<1>1. ASSUME Head \in copied'
      PROVE  /\ g_config'.enabled = new_cfg.enabled
             /\ g_config'.bg_visible = new_cfg.bg_visible
             /\ g_config'.style = new_cfg.style
  BY <1>0, <1>1 DEF CopyInv, Merged
<1>2. ASSUME NEW i \in Slot, <<"order", i>> \in copied'
      PROVE  g_config'.order[i] = new_cfg.order[i]
  BY <1>0, <1>2 DEF CopyInv, Merged
<1>3. ASSUME Metrics \in copied' PROVE g_config'.shown = new_cfg.shown
  BY <1>0, <1>3 DEF CopyInv, Merged
<1>4. ASSUME copied' = Parts PROVE g_config' \in Configs
  <2>1. g_config' = new_cfg
    BY <1>0, <1>1, <1>2, <1>3, <1>4, CellFacts, SameConfig
  <2> QED
    BY <1>0, <2>1
<1>5. copied' # {}
  OBVIOUS
<1> QED
  BY <1>0, <1>1, <1>2, <1>3, <1>4, <1>5 DEF CopyInv, MidCopy

LEMMA CopyInductive == TypeOK /\ CopyInv /\ [Next]_vars => CopyInv'
<1> SUFFICES ASSUME TypeOK, CopyInv, [Next]_vars PROVE CopyInv'
  OBVIOUS
<1> USE DEF envVars, loopVars, drawVars, flagVars, copyVars, webVars, historyVars
<1>1. ASSUME NEW c \in Configs, NEW started \in BOOLEAN, Boot(c, started) PROVE CopyInv'
  BY <1>1 DEF Boot, CopyInv, MidCopy
<1>2. CASE BootFails
  BY <1>2 DEF BootFails, CopyInv, MidCopy
<1>3. CASE AttachScene
  BY <1>3 DEF AttachScene, CopyInv, MidCopy
<1>4. CASE GameClosed
  BY <1>4 DEF GameClosed, CopyInv, MidCopy
<1>5. CASE SceneUnchanged
  BY <1>5 DEF SceneUnchanged, CopyInv, MidCopy
<1>6. CASE RebuildForChange
  BY <1>6 DEF RebuildForChange, CopyInv, MidCopy
<1>7. CASE NothingToRebuild
  BY <1>7 DEF NothingToRebuild, CopyInv, MidCopy
<1>8. CASE BuildBegin
  BY <1>8 DEF BuildBegin, CopyInv, MidCopy
<1>9. CASE MeasureSlot
  BY <1>9 DEF MeasureSlot, CopyInv, MidCopy
<1>10. CASE MeasureDone
  BY <1>10 DEF MeasureDone, CopyInv, MidCopy
<1>11. CASE PlaceSlot
  BY <1>11 DEF PlaceSlot, CopyInv, MidCopy
<1>12. CASE PlaceDone
  BY <1>12 DEF PlaceDone, CopyInv, MidCopy
<1>13. CASE ClearChanged
  BY <1>13 DEF ClearChanged, CopyInv, MidCopy
<1>14. CASE UpdateMetrics
  BY <1>14 DEF UpdateMetrics, CopyInv, MidCopy
<1>15. CASE Unload
  BY <1>15 DEF Unload, CopyInv, MidCopy
<1>16. CASE UnloadDone
  BY <1>16 DEF UnloadDone, CopyInv, MidCopy
<1>17. ASSUME NEW bound \in BOOLEAN, WorkerBinds(bound) PROVE CopyInv'
  BY <1>17 DEF WorkerBinds, CopyInv, MidCopy
<1>18. CASE CopyPart
  BY <1>18, CopyPartCopyInv
<1>19. CASE SetChanged
  BY <1>19 DEF SetChanged, CopyInv, MidCopy
<1>20. CASE WorkerLoop
  BY <1>20 DEF WorkerLoop, CopyInv, MidCopy
<1>21. ASSUME NEW c \in Configs, ReceiveConfig(c) PROVE CopyInv'
  BY <1>21 DEF ReceiveConfig, CopyInv, MidCopy
<1>22. CASE PostUnload
  BY <1>22 DEF PostUnload, CopyInv, MidCopy
<1>23. CASE ServeNothing
  BY <1>23 DEF ServeNothing, CopyInv, MidCopy
<1>24. ASSUME NEW s \in Scenes \cup {NoScene}, SwitchScene(s) PROVE CopyInv'
  BY <1>24 DEF SwitchScene, CopyInv, MidCopy
<1>25. ASSUME NEW s \in Scenes, SceneGetsRoot(s) \/ CollectScene(s) PROVE CopyInv'
  BY <1>25 DEF SceneGetsRoot, CollectScene, CopyInv, MidCopy
<1>26. CASE UNCHANGED vars
  BY <1>26 DEF vars, CopyInv, MidCopy
<1> QED
  BY <1>1, <1>2, <1>3, <1>4, <1>5, <1>6, <1>7, <1>8, <1>9, <1>10, <1>11, <1>12, <1>13,
     <1>14, <1>15, <1>16, <1>17, <1>18, <1>19, <1>20, <1>21, <1>22, <1>23, <1>24, <1>25,
     <1>26, NextCases

LEMMA CopyInvHolds == Spec => []CopyInv
<1>1. Init => CopyInv
  BY ConfigFacts DEF Init, CopyInv
<1> QED
  BY <1>1, CopyInductive, TypeCorrect, PTL DEF Spec

LEMMA UnloadInductive == UnloadInv /\ [Next]_vars => UnloadInv'
<1> SUFFICES ASSUME UnloadInv, [Next]_vars PROVE UnloadInv'
  OBVIOUS
<1> USE DEF envVars, loopVars, drawVars, flagVars, copyVars, webVars, historyVars
<1>1. ASSUME NEW c \in Configs, NEW started \in BOOLEAN, Boot(c, started) PROVE UnloadInv'
  BY <1>1 DEF Boot, UnloadInv
<1>2. CASE BootFails
  BY <1>2 DEF BootFails, UnloadInv
<1>3. CASE AttachScene
  BY <1>3 DEF AttachScene, UnloadInv
<1>4. CASE GameClosed
  BY <1>4 DEF GameClosed, UnloadInv
<1>5. CASE SceneUnchanged
  BY <1>5 DEF SceneUnchanged, UnloadInv
<1>6. CASE RebuildForChange
  BY <1>6 DEF RebuildForChange, UnloadInv
<1>7. CASE NothingToRebuild
  BY <1>7 DEF NothingToRebuild, UnloadInv
<1>8. CASE BuildBegin
  BY <1>8 DEF BuildBegin, UnloadInv
<1>9. CASE MeasureSlot
  BY <1>9 DEF MeasureSlot, UnloadInv
<1>10. CASE MeasureDone
  BY <1>10 DEF MeasureDone, UnloadInv
<1>11. CASE PlaceSlot
  BY <1>11 DEF PlaceSlot, UnloadInv
<1>12. CASE PlaceDone
  BY <1>12 DEF PlaceDone, UnloadInv
<1>13. CASE ClearChanged
  BY <1>13 DEF ClearChanged, UnloadInv
<1>14. CASE UpdateMetrics
  BY <1>14 DEF UpdateMetrics, UnloadInv
<1>15. CASE Unload
  BY <1>15 DEF Unload, UnloadInv
<1>16. CASE UnloadDone
  BY <1>16 DEF UnloadDone, UnloadInv
<1>17. ASSUME NEW bound \in BOOLEAN, WorkerBinds(bound) PROVE UnloadInv'
  BY <1>17 DEF WorkerBinds, UnloadInv
<1>18. CASE CopyPart
  BY <1>18 DEF CopyPart, UnloadInv
<1>19. CASE SetChanged
  BY <1>19 DEF SetChanged, UnloadInv
<1>20. CASE WorkerLoop
  BY <1>20 DEF WorkerLoop, UnloadInv
<1>21. ASSUME NEW c \in Configs, ReceiveConfig(c) PROVE UnloadInv'
  BY <1>21 DEF ReceiveConfig, UnloadInv
<1>22. CASE PostUnload
  BY <1>22 DEF PostUnload, UnloadInv
<1>23. CASE ServeNothing
  BY <1>23 DEF ServeNothing, UnloadInv
<1>24. ASSUME NEW s \in Scenes \cup {NoScene}, SwitchScene(s) PROVE UnloadInv'
  BY <1>24 DEF SwitchScene, UnloadInv
<1>25. ASSUME NEW s \in Scenes, SceneGetsRoot(s) \/ CollectScene(s) PROVE UnloadInv'
  BY <1>25 DEF SceneGetsRoot, CollectScene, UnloadInv
<1>26. CASE UNCHANGED vars
  BY <1>26 DEF vars, UnloadInv
<1> QED
  BY <1>1, <1>2, <1>3, <1>4, <1>5, <1>6, <1>7, <1>8, <1>9, <1>10, <1>11, <1>12, <1>13,
     <1>14, <1>15, <1>16, <1>17, <1>18, <1>19, <1>20, <1>21, <1>22, <1>23, <1>24, <1>25,
     <1>26, NextCases

LEMMA UnloadInvHolds == Spec => []UnloadInv
<1>1. Init => UnloadInv
  BY DEF Init, UnloadInv
<1>2. UnloadInv /\ [Next]_vars => UnloadInv'
  BY UnloadInductive
<1> QED
  BY <1>1, <1>2, PTL DEF Spec

LEMMA EmptyInductive == RootInv /\ EmptyInv /\ [Next]_vars => EmptyInv'
<1> SUFFICES ASSUME RootInv, EmptyInv, [Next]_vars PROVE EmptyInv'
  OBVIOUS
<1> USE DEF envVars, loopVars, drawVars, flagVars, copyVars, webVars, historyVars
<1>1. ASSUME NEW c \in Configs, NEW started \in BOOLEAN, Boot(c, started) PROVE EmptyInv'
  BY <1>1 DEF Boot, EmptyInv, Building, RootInv
<1>2. CASE BootFails
  BY <1>2 DEF BootFails, EmptyInv, Building, RootInv
<1>3. CASE AttachScene
  BY <1>3 DEF AttachScene, EmptyInv, Building, RootInv, DestroyIfAttached, DestroyHud
<1>4. CASE GameClosed
  BY <1>4 DEF GameClosed, EmptyInv, Building, RootInv, DestroyIfAttached, DestroyHud
<1>5. CASE SceneUnchanged
  BY <1>5 DEF SceneUnchanged, EmptyInv, Building, RootInv
<1>6. CASE RebuildForChange
  BY <1>6 DEF RebuildForChange, EmptyInv, Building, RootInv, DestroyHud
<1>7. CASE NothingToRebuild
  BY <1>7 DEF NothingToRebuild, EmptyInv, Building, RootInv
<1>8. CASE BuildBegin
  BY <1>8 DEF BuildBegin, EmptyInv, Building, RootInv
<1>9. CASE MeasureSlot
  BY <1>9 DEF MeasureSlot, EmptyInv, Building, RootInv
<1>10. CASE MeasureDone
  BY <1>10 DEF MeasureDone, EmptyInv, Building, RootInv
<1>11. CASE PlaceSlot
  BY <1>11 DEF PlaceSlot, EmptyInv, Building, RootInv
<1>12. CASE PlaceDone
  BY <1>12 DEF PlaceDone, EmptyInv, Building, RootInv
<1>13. CASE ClearChanged
  BY <1>13 DEF ClearChanged, EmptyInv, Building, RootInv
<1>14. CASE UpdateMetrics
  BY <1>14 DEF UpdateMetrics, EmptyInv, Building, RootInv
<1>15. CASE Unload
  BY <1>15 DEF Unload, EmptyInv, Building, RootInv, DestroyIfAttached, DestroyHud
<1>16. CASE UnloadDone
  BY <1>16 DEF UnloadDone, EmptyInv, Building, RootInv
<1>17. ASSUME NEW bound \in BOOLEAN, WorkerBinds(bound) PROVE EmptyInv'
  BY <1>17 DEF WorkerBinds, EmptyInv, Building, RootInv
<1>18. CASE CopyPart
  BY <1>18 DEF CopyPart, EmptyInv, Building, RootInv
<1>19. CASE SetChanged
  BY <1>19 DEF SetChanged, EmptyInv, Building, RootInv
<1>20. CASE WorkerLoop
  BY <1>20 DEF WorkerLoop, EmptyInv, Building, RootInv
<1>21. ASSUME NEW c \in Configs, ReceiveConfig(c) PROVE EmptyInv'
  BY <1>21 DEF ReceiveConfig, EmptyInv, Building, RootInv
<1>22. CASE PostUnload
  BY <1>22 DEF PostUnload, EmptyInv, Building, RootInv
<1>23. CASE ServeNothing
  BY <1>23 DEF ServeNothing, EmptyInv, Building, RootInv
<1>24. ASSUME NEW s \in Scenes \cup {NoScene}, SwitchScene(s) PROVE EmptyInv'
  BY <1>24 DEF SwitchScene, EmptyInv, Building, RootInv
<1>25. ASSUME NEW s \in Scenes, SceneGetsRoot(s) \/ CollectScene(s) PROVE EmptyInv'
  BY <1>25 DEF SceneGetsRoot, CollectScene, EmptyInv, Building, RootInv
<1>26. CASE UNCHANGED vars
  BY <1>26 DEF vars, EmptyInv, Building, RootInv
<1> QED
  BY <1>1, <1>2, <1>3, <1>4, <1>5, <1>6, <1>7, <1>8, <1>9, <1>10, <1>11, <1>12, <1>13,
     <1>14, <1>15, <1>16, <1>17, <1>18, <1>19, <1>20, <1>21, <1>22, <1>23, <1>24, <1>25,
     <1>26, NextCases

LEMMA EmptyInvHolds == Spec => []EmptyInv
<1>1. Init => EmptyInv
  BY DEF Init, EmptyInv
<1>2. RootInv /\ EmptyInv /\ [Next]_vars => EmptyInv'
  BY EmptyInductive
<1> QED
  BY <1>1, <1>2, RootInvHolds, PTL DEF Spec

(* The cells of one slot are cells of the metric found there.                *)
LEMMA NewCellFacts ==
    \A c \in NewCells : c # Background /\ c[2] = MetricAt
BY DEF NewCells, MetricCell, SepCell, Background

LEMMA NewWidgetShows ==
    /\ NewWidget # Null
    /\ \A st : [styles |-> {st}, slot |-> 0, sized |-> TRUE] # Null
<1>1. Null.styles = {}
  BY DEF Null
<1>2. NewWidget.styles # {}
  BY DEF NewWidget
<1> QED
  BY <1>1, <1>2

LEMMA OrderInjective ==
    ASSUME NEW c \in Configs
    PROVE  \A i, j \in Slot : c.order[i] = c.order[j] => i = j
BY ConfigAssumption

LEMMA PlacedBuildBegin ==
    ASSUME TypeOK, CopyInv, BuildBegin PROVE PlacedInv'
<1> SUFFICES ASSUME ~torn', pc' = "measure" PROVE PlacedInv'
  BY DEF PlacedInv, BuildBegin
<1>1. g_config' = g_config /\ g_config \in Configs
  BY DEF BuildBegin, CopyInv, webVars, copyVars
<1>2. \A i, j \in Slot : g_config.order[i] = g_config.order[j] => i = j
  BY <1>1, OrderInjective
<1>3. \A c \in Cell : c # Background => hud_ctx'[c] = Null
  BY DEF BuildBegin, NoCells
<1> QED
  BY <1>1, <1>2, <1>3 DEF PlacedInv

LEMMA PlacedPlaceSlot ==
    ASSUME TypeOK, PlacedInv, PlaceSlot PROVE PlacedInv'
<1> SUFFICES ASSUME ~torn' PROVE PlacedInv'
  BY DEF PlacedInv
<1>1. /\ ~torn /\ pc = "place" /\ pc' = "place" /\ g_config' = g_config
      /\ bld.i \in Slot /\ bld'.i = bld.i + 1
  BY DEF PlaceSlot, webVars, copyVars, historyVars, TypeOK, BuildLocals
<1>2. ASSUME NEW c \in Cell, c # Background, hud_ctx'[c] # Null
      PROVE  \E j \in Slot : j < bld'.i /\ c[2] = g_config'.order[j]
  <2>1. CASE hud_ctx[c] # Null
    <3>1. PICK j \in Slot : j < bld.i /\ c[2] = g_config.order[j]
      BY <1>1, <1>2, <2>1 DEF PlacedInv
    <3> QED
      BY <1>1, <3>1 DEF Slot
  <2>2. CASE hud_ctx[c] = Null
    <3>1. c \in NewCells
      BY <1>2, <2>2 DEF PlaceSlot
    <3>2. c[2] = g_config.order[bld.i]
      BY <3>1, NewCellFacts DEF MetricAt
    <3> QED
      BY <1>1, <3>2 DEF Slot
  <2> QED
    BY <2>1, <2>2
<1> QED
  BY <1>1, <1>2 DEF PlacedInv

LEMMA PlacedInductive == TypeOK /\ CopyInv /\ PlacedInv /\ [Next]_vars => PlacedInv'
<1> SUFFICES ASSUME TypeOK, CopyInv, PlacedInv, [Next]_vars PROVE PlacedInv'
  OBVIOUS
<1> USE DEF envVars, loopVars, drawVars, flagVars, copyVars, webVars, historyVars
<1>1. ASSUME NEW c \in Configs, NEW started \in BOOLEAN, Boot(c, started) PROVE PlacedInv'
  BY <1>1 DEF Boot, PlacedInv
<1>2. CASE BootFails
  BY <1>2 DEF BootFails, PlacedInv
<1>3. CASE AttachScene
  BY <1>3 DEF AttachScene, PlacedInv
<1>4. CASE GameClosed
  BY <1>4 DEF GameClosed, PlacedInv
<1>5. CASE SceneUnchanged
  BY <1>5 DEF SceneUnchanged, PlacedInv
<1>6. CASE RebuildForChange
  BY <1>6 DEF RebuildForChange, PlacedInv
<1>7. CASE NothingToRebuild
  BY <1>7 DEF NothingToRebuild, PlacedInv
<1>8. CASE BuildBegin
  BY <1>8, PlacedBuildBegin
<1>9. CASE MeasureSlot
  BY <1>9 DEF MeasureSlot, PlacedInv
<1>10. CASE MeasureDone
  BY <1>10 DEF MeasureDone, PlacedInv
<1>11. CASE PlaceSlot
  BY <1>11, PlacedPlaceSlot
<1>12. CASE PlaceDone
  BY <1>12 DEF PlaceDone, PlacedInv
<1>13. CASE ClearChanged
  BY <1>13 DEF ClearChanged, PlacedInv
<1>14. CASE UpdateMetrics
  BY <1>14 DEF UpdateMetrics, PlacedInv
<1>15. CASE Unload
  BY <1>15 DEF Unload, PlacedInv
<1>16. CASE UnloadDone
  BY <1>16 DEF UnloadDone, PlacedInv
<1>17. ASSUME NEW bound \in BOOLEAN, WorkerBinds(bound) PROVE PlacedInv'
  BY <1>17 DEF WorkerBinds, PlacedInv
<1>18. CASE CopyPart
  BY <1>18 DEF CopyPart, PlacedInv, Building
<1>19. CASE SetChanged
  BY <1>19 DEF SetChanged, PlacedInv
<1>20. CASE WorkerLoop
  BY <1>20 DEF WorkerLoop, PlacedInv
<1>21. ASSUME NEW c \in Configs, ReceiveConfig(c) PROVE PlacedInv'
  BY <1>21 DEF ReceiveConfig, PlacedInv
<1>22. CASE PostUnload
  BY <1>22 DEF PostUnload, PlacedInv
<1>23. CASE ServeNothing
  BY <1>23 DEF ServeNothing, PlacedInv
<1>24. ASSUME NEW s \in Scenes \cup {NoScene}, SwitchScene(s) PROVE PlacedInv'
  BY <1>24 DEF SwitchScene, PlacedInv
<1>25. ASSUME NEW s \in Scenes, SceneGetsRoot(s) \/ CollectScene(s) PROVE PlacedInv'
  BY <1>25 DEF SceneGetsRoot, CollectScene, PlacedInv
<1>26. CASE UNCHANGED vars
  BY <1>26 DEF vars, PlacedInv
<1> QED
  BY <1>1, <1>2, <1>3, <1>4, <1>5, <1>6, <1>7, <1>8, <1>9, <1>10, <1>11, <1>12, <1>13,
     <1>14, <1>15, <1>16, <1>17, <1>18, <1>19, <1>20, <1>21, <1>22, <1>23, <1>24, <1>25,
     <1>26, NextCases

LEMMA PlacedInvHolds == Spec => []PlacedInv
<1>1. Init => PlacedInv
  BY DEF Init, PlacedInv
<1> QED
  BY <1>1, PlacedInductive, CopyInvHolds, TypeCorrect, PTL DEF Spec

(* destroy_hud() of a HUD that is the only thing on screen leaves nothing.   *)
LEMMA DestroyHudClean ==
    ASSUME TypeOK, NoGhostCells, removeFound, ~torn, root_widget \in Scenes, DestroyHud
    PROVE  hud_ctx' = NoCells /\ \A s \in Scenes, c \in Cell : tree'[s][c] = 0
<1>1. /\ hud_ctx' = NoCells
      /\ tree' = [tree EXCEPT ![root_widget] =
                     [c \in Cell |-> IF hud_ctx[c] # Null THEN @[c] - 1 ELSE @[c]]]
  BY DEF DestroyHud
<1>2. ASSUME NEW s \in Scenes, NEW c \in Cell PROVE tree'[s][c] = 0
  <2>1. tree[s][c] = IF s = root_widget /\ hud_ctx[c] # Null THEN 1 ELSE 0
    BY DEF NoGhostCells
  <2>2. CASE s = root_widget
    BY <1>1, <2>1, <2>2 DEF TypeOK
  <2>3. CASE s # root_widget
    BY <1>1, <2>1, <2>3 DEF TypeOK
  <2> QED
    BY <2>2, <2>3
<1> QED
  BY <1>1, <1>2

LEMMA DestroyIfAttachedClean ==
    ASSUME TypeOK, NoGhostCells, EmptyInv, pc = "top", removeFound, ~torn, DestroyIfAttached
    PROVE  hud_ctx' = NoCells /\ \A s \in Scenes, c \in Cell : tree'[s][c] = 0
<1>1. CASE attached_to_game /\ root_widget # NoScene
  BY <1>1, DestroyHudClean DEF DestroyIfAttached, TypeOK
<1>2. CASE ~(attached_to_game /\ root_widget # NoScene)
  <2>1. hud_ctx = NoCells
    BY <1>2 DEF EmptyInv, Building
  <2> QED
    BY <1>2, <2>1 DEF DestroyIfAttached, NoGhostCells, NoCells
<1> QED
  BY <1>1, <1>2

LEMMA GhostBuildBegin ==
    ASSUME TypeOK, RootInv, EmptyInv, NoGhostCells, BuildBegin PROVE NoGhostCells'
<1> SUFFICES ASSUME removeFound, ~torn, NEW s \in Scenes, NEW c \in Cell
             PROVE  tree'[s][c] = IF s = root_widget' /\ hud_ctx'[c] # Null THEN 1 ELSE 0
  BY DEF NoGhostCells, BuildBegin, envVars
<1>1. hud_ctx = NoCells /\ root_widget \in Scenes /\ root_widget' = root_widget
  BY DEF EmptyInv, Building, BuildBegin, RootInv, TypeOK, loopVars
<1>2. tree[s][c] = 0
  BY <1>1 DEF NoGhostCells, NoCells
<1>3. CASE hud_ctx' = NoCells /\ UNCHANGED tree
  BY <1>2, <1>3 DEF NoCells
<1>4. CASE /\ hud_ctx' = [NoCells EXCEPT ![Background] =
                    [styles |-> {g_config.style}, slot |-> 0, sized |-> TRUE]]
           /\ tree' = [tree EXCEPT ![root_widget][Background] = @ + 1]
  <2>1. hud_ctx'[c] # Null <=> c = Background
    BY <1>4, NewWidgetShows, CellFacts DEF NoCells
  <2>2. tree'[s][c] = IF s = root_widget /\ c = Background THEN 1 ELSE 0
    BY <1>1, <1>2, <1>4, CellFacts DEF TypeOK
  <2> QED
    BY <1>1, <2>1, <2>2
<1> QED
  BY <1>3, <1>4 DEF BuildBegin

LEMMA GhostPlaceSlot ==
    ASSUME TypeOK, RootInv, PlacedInv, NoGhostCells, PlaceSlot PROVE NoGhostCells'
<1> SUFFICES ASSUME removeFound, ~torn, NEW s \in Scenes, NEW c \in Cell
             PROVE  tree'[s][c] = IF s = root_widget' /\ hud_ctx'[c] # Null THEN 1 ELSE 0
  BY DEF NoGhostCells, PlaceSlot, envVars, historyVars
<1>1. /\ pc = "place" /\ bld.i \in Slot
      /\ root_widget \in Scenes /\ root_widget' = root_widget
  BY DEF PlaceSlot, RootInv, TypeOK, loopVars
<1>2. tree[s][c] = IF s = root_widget /\ hud_ctx[c] # Null THEN 1 ELSE 0
  BY DEF NoGhostCells
<1>3. CASE UNCHANGED <<tree, hud_ctx>>
  BY <1>1, <1>2, <1>3
<1>4. CASE /\ hud_ctx' = [x \in Cell |-> IF x \in NewCells THEN NewWidget ELSE hud_ctx[x]]
           /\ tree' = [tree EXCEPT ![root_widget] =
                          [x \in Cell |-> IF x \in NewCells THEN @[x] + 1 ELSE @[x]]]
  <2>1. CASE c \notin NewCells
    BY <1>1, <1>2, <1>4, <2>1 DEF TypeOK
  <2>2. CASE c \in NewCells
    <3>1. hud_ctx[c] = Null
      <4> SUFFICES ASSUME hud_ctx[c] # Null PROVE FALSE
        OBVIOUS
      <4>1. c # Background /\ c[2] = g_config.order[bld.i]
        BY <2>2, NewCellFacts DEF MetricAt
      <4>2. PICK j \in Slot : j < bld.i /\ c[2] = g_config.order[j]
        BY <1>1, <4>1 DEF PlacedInv
      <4>3. j = bld.i
        BY <1>1, <4>1, <4>2 DEF PlacedInv
      <4> QED
        BY <1>1, <4>2, <4>3 DEF Slot
    <3>2. hud_ctx'[c] # Null
      BY <1>4, <2>2, NewWidgetShows
    <3>3. tree'[s][c] = IF s = root_widget THEN 1 ELSE 0
      BY <1>1, <1>2, <1>4, <2>2, <3>1 DEF TypeOK
    <3> QED
      BY <1>1, <3>2, <3>3
  <2> QED
    BY <2>1, <2>2
<1> QED
  BY <1>3, <1>4 DEF PlaceSlot

LEMMA GhostCollect ==
    ASSUME TypeOK, NoGhostCells, NEW s \in Scenes, CollectScene(s) PROVE NoGhostCells'
<1> SUFFICES ASSUME removeFound, ~torn, NEW r \in Scenes, NEW c \in Cell
             PROVE  tree'[r][c] = IF r = root_widget' /\ hud_ctx'[c] # Null THEN 1 ELSE 0
  BY DEF NoGhostCells, CollectScene, historyVars
<1>1. tree[r][c] = IF r = root_widget /\ hud_ctx[c] # Null THEN 1 ELSE 0
  BY DEF NoGhostCells
<1>2. /\ tree' = [tree EXCEPT ![s] = NoTree] /\ s # root_widget
      /\ root_widget' = root_widget /\ hud_ctx' = hud_ctx
  BY DEF CollectScene, loopVars
<1> QED
  BY <1>1, <1>2 DEF TypeOK, NoTree

(* Without RemoveFromParent nothing is claimed; with it, every rebuild,      *)
(* change of scene and unload starts from a tree that holds just what hud_ctx *)
(* points to.                                                                *)
LEMMA GhostInductive ==
    TypeOK /\ RootInv /\ EmptyInv /\ PlacedInv /\ NoGhostCells /\ [Next]_vars
        => NoGhostCells'
<1> SUFFICES ASSUME TypeOK, RootInv, EmptyInv, PlacedInv, NoGhostCells, [Next]_vars
             PROVE  NoGhostCells'
  OBVIOUS
<1> USE DEF envVars, loopVars, drawVars, flagVars, copyVars, webVars, historyVars
<1>1. ASSUME NEW c \in Configs, NEW started \in BOOLEAN, Boot(c, started) PROVE NoGhostCells'
  BY <1>1 DEF Boot, NoGhostCells
<1>2. CASE BootFails
  BY <1>2 DEF BootFails, NoGhostCells
<1>3. CASE AttachScene
  <2> SUFFICES ASSUME removeFound, ~torn PROVE NoGhostCells'
    BY <1>3 DEF AttachScene, NoGhostCells
  <2>1. hud_ctx' = NoCells /\ \A s \in Scenes, c \in Cell : tree'[s][c] = 0
    BY <1>3, DestroyIfAttachedClean DEF AttachScene
  <2> QED
    BY <2>1 DEF NoGhostCells, NoCells
<1>4. CASE GameClosed
  <2> SUFFICES ASSUME removeFound, ~torn PROVE NoGhostCells'
    BY <1>4 DEF GameClosed, NoGhostCells
  <2>1. hud_ctx' = NoCells /\ \A s \in Scenes, c \in Cell : tree'[s][c] = 0
    BY <1>4, DestroyIfAttachedClean DEF GameClosed
  <2> QED
    BY <2>1 DEF NoGhostCells, NoCells
<1>5. CASE SceneUnchanged
  BY <1>5 DEF SceneUnchanged, NoGhostCells
<1>6. CASE RebuildForChange
  <2> SUFFICES ASSUME removeFound, ~torn PROVE NoGhostCells'
    BY <1>6 DEF RebuildForChange, NoGhostCells
  <2>1. hud_ctx' = NoCells /\ \A s \in Scenes, c \in Cell : tree'[s][c] = 0
    BY <1>6, DestroyHudClean DEF RebuildForChange, TypeOK
  <2> QED
    BY <2>1 DEF NoGhostCells, NoCells
<1>7. CASE NothingToRebuild
  BY <1>7 DEF NothingToRebuild, NoGhostCells
<1>8. CASE BuildBegin
  BY <1>8, GhostBuildBegin
<1>9. CASE MeasureSlot
  BY <1>9 DEF MeasureSlot, NoGhostCells
<1>10. CASE MeasureDone
  BY <1>10 DEF MeasureDone, NoGhostCells
<1>11. CASE PlaceSlot
  BY <1>11, GhostPlaceSlot
<1>12. CASE PlaceDone
  BY <1>12 DEF PlaceDone, NoGhostCells
<1>13. CASE ClearChanged
  BY <1>13 DEF ClearChanged, NoGhostCells
<1>14. CASE UpdateMetrics
  BY <1>14 DEF UpdateMetrics, NoGhostCells
<1>15. CASE Unload
  <2> SUFFICES ASSUME removeFound, ~torn PROVE NoGhostCells'
    BY <1>15 DEF Unload, NoGhostCells
  <2>1. hud_ctx' = NoCells /\ \A s \in Scenes, c \in Cell : tree'[s][c] = 0
    BY <1>15, DestroyIfAttachedClean DEF Unload
  <2> QED
    BY <2>1 DEF NoGhostCells, NoCells
<1>16. CASE UnloadDone
  BY <1>16 DEF UnloadDone, NoGhostCells
<1>17. ASSUME NEW bound \in BOOLEAN, WorkerBinds(bound) PROVE NoGhostCells'
  BY <1>17 DEF WorkerBinds, NoGhostCells
<1>18. CASE CopyPart
  BY <1>18 DEF CopyPart, NoGhostCells
<1>19. CASE SetChanged
  BY <1>19 DEF SetChanged, NoGhostCells
<1>20. CASE WorkerLoop
  BY <1>20 DEF WorkerLoop, NoGhostCells
<1>21. ASSUME NEW c \in Configs, ReceiveConfig(c) PROVE NoGhostCells'
  BY <1>21 DEF ReceiveConfig, NoGhostCells
<1>22. CASE PostUnload
  BY <1>22 DEF PostUnload, NoGhostCells
<1>23. CASE ServeNothing
  BY <1>23 DEF ServeNothing, NoGhostCells
<1>24. ASSUME NEW s \in Scenes \cup {NoScene}, SwitchScene(s) PROVE NoGhostCells'
  BY <1>24 DEF SwitchScene, NoGhostCells
<1>25. ASSUME NEW s \in Scenes, SceneGetsRoot(s) \/ CollectScene(s) PROVE NoGhostCells'
  BY <1>25, GhostCollect DEF SceneGetsRoot, NoGhostCells
<1>26. CASE UNCHANGED vars
  BY <1>26 DEF vars, NoGhostCells
<1> QED
  BY <1>1, <1>2, <1>3, <1>4, <1>5, <1>6, <1>7, <1>8, <1>9, <1>10, <1>11, <1>12, <1>13,
     <1>14, <1>15, <1>16, <1>17, <1>18, <1>19, <1>20, <1>21, <1>22, <1>23, <1>24, <1>25,
     <1>26, NextCases

(* Unless a build overlaps an assignment of g_config, every widget the       *)
(* overlay ever created is either on screen and reachable by destroy_hud(),  *)
(* or gone.                                                                  *)
THEOREM NoGhosts == Spec => []NoGhostCells
<1>1. Init => NoGhostCells
  BY DEF Init, NoGhostCells, NoTree, NoCells
<1> QED
  BY <1>1, GhostInductive, TypeCorrect, RootInvHolds, EmptyInvHolds, PlacedInvHolds, PTL
     DEF Spec

(* After a hot unload no ready file, no raised server flag and no cell is    *)
(* left behind.                                                              *)
THEOREM UnloadClean == Spec => []UnloadLeavesNothing
<1>1. UnloadInv /\ EmptyInv /\ NoGhostCells => UnloadLeavesNothing
  BY DEF UnloadInv, EmptyInv, NoGhostCells, UnloadLeavesNothing, Building, NoCells
<1> QED
  BY <1>1, UnloadInvHolds, EmptyInvHolds, NoGhosts, PTL

(* The root a build drew on is that of the scene recorded as attached.       *)
THEOREM BuildsEnd == Spec => BuildEndsOnItsScene
<1>1. RootInv /\ [Next]_vars
        => [pc = "clear" /\ pc' # "clear" =>
               attached_to_game' /\ last_attached_scene' = root_widget]_vars
  <2> SUFFICES ASSUME RootInv, [Next]_vars, pc = "clear", pc' # "clear"
               PROVE  attached_to_game' /\ last_attached_scene' = root_widget
    OBVIOUS
  <2>1. ClearChanged
    BY NextCases DEF vars, Boot, BootFails, AttachScene, GameClosed, SceneUnchanged,
       RebuildForChange, NothingToRebuild, BuildBegin, MeasureSlot, MeasureDone, PlaceSlot,
       PlaceDone, UpdateMetrics, Unload, UnloadDone, WorkerBinds, CopyPart, SetChanged,
       WorkerLoop, ReceiveConfig, PostUnload, ServeNothing, SwitchScene, SceneGetsRoot,
       CollectScene
  <2> QED
    BY <2>1 DEF ClearChanged, RootInv
<1> QED
  BY <1>1, RootInvHolds, PTL DEF Spec, BuildEndsOnItsScene
-----------------------------------------------------------------------------
(* The two passes of build_hud() against what they are meant to draw, for     *)
(* every number of metrics and every set of configurations: the only way to  *)
(* a HUD that differs from the current configuration is a dirty flag set      *)
(* while the build was running.                                              *)

(* The slots before k that both passes count. *)
Counted(cfg, k) == {j \in Slot : j < k /\ cfg.order[j] \in cfg.shown}

(* What pass 2 has drawn of an enabled configuration when it reaches slot k. *)
Partial(cfg, k) ==
    [c \in Cell |->
        IF c = Background THEN (IF cfg.bg_visible THEN Look(cfg, 0) ELSE Null)
        ELSE IF /\ c[2] \in cfg.shown
                /\ SlotOf(cfg, c[2]) < k
                /\ c[1] = "sep" => ShownAfter(cfg, SlotOf(cfg, c[2])) # {}
             THEN Look(cfg, SlotOf(cfg, c[2]))
             ELSE Null]

(* A build that nothing has disturbed so far has drawn a prefix of the       *)
(* current configuration.                                                    *)
DrawInv ==
    wpc # "apply" /\ ~raced =>
        /\ pc \in {"measure", "place"} =>
              g_config.enabled /\ bld.style = g_config.style
        /\ pc = "measure" =>
              /\ bld.sized = {g_config.order[j] : j \in Counted(g_config, bld.i)}
              /\ bld.enabled_count = Cardinality(Counted(g_config, bld.i))
              /\ bld.placed_count = 0
              /\ hud_ctx = Partial(g_config, 0)
        /\ pc = "place" =>
              /\ bld.sized = {g_config.order[j] : j \in Counted(g_config, METRIC_COUNT)}
              /\ bld.enabled_count = Cardinality(Counted(g_config, METRIC_COUNT))
              /\ bld.placed_count = Cardinality(Counted(g_config, bld.i))
              /\ hud_ctx = Partial(g_config, bld.i)
        /\ pc = "clear" => hud_ctx = Render(g_config)
-----------------------------------------------------------------------------
(* A configuration's order is a permutation: SlotOf inverts it.              *)
LEMMA SlotOfFacts ==
    ASSUME NEW cfg \in Configs
    PROVE  /\ \A m \in Metric : SlotOf(cfg, m) \in Slot /\ cfg.order[SlotOf(cfg, m)] = m
           /\ \A i \in Slot : cfg.order[i] \in Metric /\ SlotOf(cfg, cfg.order[i]) = i
<1>1. \A m \in Metric : SlotOf(cfg, m) \in Slot /\ cfg.order[SlotOf(cfg, m)] = m
  BY ConfigAssumption DEF SlotOf
<1>2. \A i \in Slot : cfg.order[i] \in Metric
  BY ConfigAssumption DEF ConfigRecord
<1> QED
  BY <1>1, <1>2, ConfigAssumption

LEMMA SlotFinite == IsFiniteSet(Slot) /\ \A i \in Slot : i \in Nat /\ i < METRIC_COUNT
<1>1. IsFiniteSet(0 .. METRIC_COUNT - 1)
  BY FS_Interval, MetricCountAssumption
<1> QED
  BY <1>1, MetricCountAssumption DEF Slot

LEMMA CountedFinite ==
    ASSUME NEW cfg, NEW k \in 0 .. METRIC_COUNT
    PROVE  IsFiniteSet(Counted(cfg, k)) /\ Cardinality(Counted(cfg, k)) \in Nat
<1>1. Counted(cfg, k) \in SUBSET Slot
  BY DEF Counted
<1> QED
  BY <1>1, SlotFinite, FS_Subset, FS_CardinalityType

(* One more slot: the counters of either pass follow Counted.                *)
LEMMA CountedStep ==
    ASSUME NEW cfg, NEW i \in Slot
    PROVE  /\ cfg.order[i] \notin cfg.shown => Counted(cfg, i + 1) = Counted(cfg, i)
           /\ cfg.order[i] \in cfg.shown =>
                 /\ Counted(cfg, i + 1) = Counted(cfg, i) \cup {i}
                 /\ Cardinality(Counted(cfg, i + 1)) = Cardinality(Counted(cfg, i)) + 1
<1>1. i \in 0 .. METRIC_COUNT
  BY MetricCountAssumption DEF Slot
<1>2. ASSUME cfg.order[i] \notin cfg.shown PROVE Counted(cfg, i + 1) = Counted(cfg, i)
  BY <1>2, SlotFinite DEF Counted
<1>3. ASSUME cfg.order[i] \in cfg.shown PROVE Counted(cfg, i + 1) = Counted(cfg, i) \cup {i}
  BY <1>3, SlotFinite DEF Counted
<1>4. i \notin Counted(cfg, i)
  BY SlotFinite DEF Counted
<1>5. Cardinality(Counted(cfg, i) \cup {i}) = Cardinality(Counted(cfg, i)) + 1
  BY <1>1, <1>4, CountedFinite, FS_AddElement
<1> QED
  BY <1>2, <1>3, <1>5

(* The separator test of pass 2, by counters, against "some shown metric     *)
(* comes later".                                                             *)
LEMMA SeparatorTest ==
    ASSUME NEW cfg, NEW i \in Slot
    PROVE  Cardinality(Counted(cfg, i + 1)) < Cardinality(Counted(cfg, METRIC_COUNT))
               <=> ShownAfter(cfg, i) # {}
<1>1. i + 1 \in 0 .. METRIC_COUNT /\ METRIC_COUNT \in 0 .. METRIC_COUNT
  BY MetricCountAssumption DEF Slot
<1>2. /\ Cardinality(Counted(cfg, i + 1)) \in Nat
      /\ Cardinality(Counted(cfg, METRIC_COUNT)) \in Nat
      /\ IsFiniteSet(Counted(cfg, METRIC_COUNT))
  BY <1>1, CountedFinite
<1>3. Counted(cfg, i + 1) \in SUBSET Counted(cfg, METRIC_COUNT)
  BY SlotFinite DEF Counted
<1>4. ShownAfter(cfg, i) = Counted(cfg, METRIC_COUNT) \ Counted(cfg, i + 1)
  BY SlotFinite DEF Counted, ShownAfter
<1>5. Cardinality(Counted(cfg, i + 1)) <= Cardinality(Counted(cfg, METRIC_COUNT))
  BY <1>2, <1>3, FS_Subset
<1>6. Cardinality(Counted(cfg, i + 1)) = Cardinality(Counted(cfg, METRIC_COUNT))
         <=> Counted(cfg, i + 1) = Counted(cfg, METRIC_COUNT)
  BY <1>2, <1>3, FS_Subset
<1> QED
  BY <1>2, <1>3, <1>4, <1>5, <1>6

LEMMA CellCases ==
    \A c \in Cell : c # Background => c[1] \in {"cell", "sep"} /\ c[2] \in Metric
                                     /\ c = <<c[1], c[2]>>
BY DEF Cell, Background

LEMMA PartialZero ==
    ASSUME NEW cfg \in Configs
    PROVE  Partial(cfg, 0) =
               [c \in Cell |-> IF c = Background /\ cfg.bg_visible THEN Look(cfg, 0) ELSE Null]
<1>1. \A m \in Metric : ~(SlotOf(cfg, m) < 0)
  BY SlotOfFacts, SlotFinite
<1> QED
  BY <1>1, CellCases DEF Partial

LEMMA PartialAll ==
    ASSUME NEW cfg \in Configs, cfg.enabled
    PROVE  Partial(cfg, METRIC_COUNT) = Render(cfg)
<1>1. \A m \in Metric : SlotOf(cfg, m) < METRIC_COUNT
  BY SlotOfFacts, SlotFinite
<1> QED
  BY <1>1, CellCases DEF Partial, Render

(* A slot whose metric is hidden adds nothing.                               *)
LEMMA PartialHidden ==
    ASSUME NEW cfg \in Configs, NEW i \in Slot, cfg.order[i] \notin cfg.shown
    PROVE  Partial(cfg, i + 1) = Partial(cfg, i)
<1>1. \A m \in Metric : m \in cfg.shown => (SlotOf(cfg, m) < i + 1 <=> SlotOf(cfg, m) < i)
  BY SlotOfFacts, SlotFinite
<1> QED
  BY <1>1, CellCases DEF Partial

(* A slot whose metric is shown adds its cells, with the look of the slot.   *)
LEMMA PartialShown ==
    ASSUME NEW cfg \in Configs, NEW i \in Slot, NEW new,
           cfg.order[i] \in cfg.shown,
           new = {MetricCell(cfg.order[i])} \cup
                 (IF ShownAfter(cfg, i) # {} THEN {SepCell(cfg.order[i])} ELSE {})
    PROVE  Partial(cfg, i + 1) =
               [c \in Cell |-> IF c \in new THEN Look(cfg, i) ELSE Partial(cfg, i)[c]]
<1>1. ASSUME NEW c \in Cell
      PROVE  Partial(cfg, i + 1)[c] = IF c \in new THEN Look(cfg, i) ELSE Partial(cfg, i)[c]
  <2>1. CASE c = Background
    <3>1. c \notin new
      BY <2>1 DEF Background, MetricCell, SepCell
    <3> QED
      BY <2>1, <3>1 DEF Partial
  <2>2. CASE c # Background /\ c[2] = cfg.order[i]
    <3>1. SlotOf(cfg, c[2]) = i /\ i < i + 1 /\ ~(i < i)
      BY <2>2, SlotOfFacts, SlotFinite
    <3>2. c \in new <=> (c[1] = "sep" => ShownAfter(cfg, i) # {})
      BY <2>2, CellCases DEF MetricCell, SepCell
    <3> QED
      BY <2>2, <3>1, <3>2 DEF Partial
  <2>3. CASE c # Background /\ c[2] # cfg.order[i]
    <3>1. c \notin new
      BY <2>3 DEF MetricCell, SepCell
    <3>2. SlotOf(cfg, c[2]) < i + 1 <=> SlotOf(cfg, c[2]) < i
      BY <2>3, CellCases, SlotOfFacts, SlotFinite
    <3> QED
      BY <2>3, <3>1, <3>2 DEF Partial
  <2> QED
    BY <2>1, <2>2, <2>3
<1> QED
  BY <1>1 DEF Partial
-----------------------------------------------------------------------------
(* The steps of an undisturbed build.                                        *)
LEMMA DrawBegin ==
    ASSUME TypeOK, CopyInv, BuildBegin PROVE DrawInv'
<1> SUFFICES ASSUME wpc # "apply", ~raced' PROVE DrawInv'
  BY DEF DrawInv, BuildBegin, webVars
<1>1. g_config' = g_config /\ g_config \in Configs
  BY DEF BuildBegin, CopyInv, MidCopy, webVars, copyVars
<1>2. bld' = [i |-> 0, sized |-> {}, enabled_count |-> 0, placed_count |-> 0,
              style |-> g_config.style]
  BY DEF BuildBegin, NoBuild
<1>3. CASE ~g_config.enabled /\ hud_ctx' = NoCells /\ pc' = "clear"
  <2>1. Render(g_config) = NoCells
    BY <1>3 DEF Render, NoCells
  <2> QED
    BY <1>1, <1>3, <2>1 DEF DrawInv
<1>4. CASE g_config.enabled /\ pc' = "measure"
  <2>1. hud_ctx' = [c \in Cell |-> IF c = Background /\ g_config.bg_visible
                                   THEN Look(g_config, 0) ELSE Null]
    BY <1>4, CellFacts DEF BuildBegin, NoCells, Look
  <2>2. hud_ctx' = Partial(g_config, 0)
    BY <1>1, <2>1, PartialZero
  <2>3. Counted(g_config, 0) = {}
    BY SlotFinite DEF Counted
  <2>4. /\ bld'.sized = {g_config.order[j] : j \in Counted(g_config, 0)}
        /\ bld'.enabled_count = Cardinality(Counted(g_config, 0))
        /\ bld'.placed_count = 0 /\ bld'.i = 0 /\ bld'.style = g_config.style
    BY <1>2, <2>3, FS_EmptySet
  <2> QED
    BY <1>1, <1>4, <2>2, <2>4 DEF DrawInv
<1> QED
  BY <1>3, <1>4 DEF BuildBegin

LEMMA DrawMeasureSlot ==
    ASSUME TypeOK, CopyInv, DrawInv, MeasureSlot PROVE DrawInv'
<1> SUFFICES ASSUME wpc # "apply", ~raced PROVE DrawInv'
  BY DEF DrawInv, MeasureSlot, webVars, historyVars
<1>1. /\ pc = "measure" /\ pc' = "measure" /\ bld.i \in Slot /\ bld \in BuildLocals
      /\ g_config' = g_config /\ g_config \in Configs /\ hud_ctx' = hud_ctx
  BY DEF MeasureSlot, CopyInv, MidCopy, webVars, copyVars, TypeOK
<1>2. /\ g_config.enabled /\ bld.style = g_config.style
      /\ bld.sized = {g_config.order[j] : j \in Counted(g_config, bld.i)}
      /\ bld.enabled_count = Cardinality(Counted(g_config, bld.i))
      /\ bld.placed_count = 0
      /\ hud_ctx = Partial(g_config, 0)
  BY <1>1 DEF DrawInv
<1>3. CASE /\ MetricAt \in g_config.shown
           /\ bld' = [bld EXCEPT !.i = @ + 1, !.sized = @ \cup {MetricAt},
                                 !.enabled_count = @ + 1]
  <2>1. /\ bld'.i = bld.i + 1 /\ bld'.sized = bld.sized \cup {MetricAt}
        /\ bld'.enabled_count = bld.enabled_count + 1
        /\ bld'.placed_count = bld.placed_count /\ bld'.style = bld.style
    BY <1>1, <1>3 DEF BuildLocals
  <2>2. /\ Counted(g_config, bld.i + 1) = Counted(g_config, bld.i) \cup {bld.i}
        /\ Cardinality(Counted(g_config, bld.i + 1)) =
              Cardinality(Counted(g_config, bld.i)) + 1
    BY <1>1, <1>3, CountedStep DEF MetricAt
  <2>3. bld'.sized = {g_config.order[j] : j \in Counted(g_config, bld.i + 1)}
    BY <1>2, <2>1, <2>2 DEF MetricAt
  <2> QED
    BY <1>1, <1>2, <2>1, <2>2, <2>3 DEF DrawInv
<1>4. CASE MetricAt \notin g_config.shown /\ bld' = [bld EXCEPT !.i = @ + 1]
  <2>1. /\ bld'.i = bld.i + 1 /\ bld'.sized = bld.sized
        /\ bld'.enabled_count = bld.enabled_count
        /\ bld'.placed_count = bld.placed_count /\ bld'.style = bld.style
    BY <1>1, <1>4 DEF BuildLocals
  <2>2. Counted(g_config, bld.i + 1) = Counted(g_config, bld.i)
    BY <1>1, <1>4, CountedStep DEF MetricAt
  <2> QED
    BY <1>1, <1>2, <2>1, <2>2 DEF DrawInv
<1> QED
  BY <1>3, <1>4 DEF MeasureSlot

LEMMA DrawMeasureDone ==
    ASSUME TypeOK, CopyInv, DrawInv, MeasureDone PROVE DrawInv'
<1> SUFFICES ASSUME wpc # "apply", ~raced PROVE DrawInv'
  BY DEF DrawInv, MeasureDone, webVars, historyVars
<1>1. /\ pc = "measure" /\ pc' = "place" /\ bld.i = METRIC_COUNT /\ bld \in BuildLocals
      /\ bld' = [bld EXCEPT !.i = 0]
      /\ g_config' = g_config /\ hud_ctx' = hud_ctx
  BY DEF MeasureDone, webVars, copyVars, TypeOK
<1>2. /\ bld'.i = 0 /\ bld'.sized = bld.sized /\ bld'.enabled_count = bld.enabled_count
      /\ bld'.placed_count = bld.placed_count /\ bld'.style = bld.style
  BY <1>1 DEF BuildLocals
<1>3. Counted(g_config, 0) = {}
  BY SlotFinite DEF Counted
<1> QED
  BY <1>1, <1>2, <1>3, FS_EmptySet DEF DrawInv

LEMMA DrawPlaceSlot ==
    ASSUME TypeOK, CopyInv, DrawInv, PlaceSlot PROVE DrawInv'
<1> SUFFICES ASSUME wpc # "apply", ~raced PROVE DrawInv'
  BY DEF DrawInv, PlaceSlot, webVars, historyVars
<1>1. /\ pc = "place" /\ pc' = "place" /\ bld.i \in Slot /\ bld \in BuildLocals
      /\ g_config' = g_config /\ g_config \in Configs
  BY DEF PlaceSlot, CopyInv, MidCopy, webVars, copyVars, TypeOK
<1>2. /\ g_config.enabled /\ bld.style = g_config.style
      /\ bld.sized = {g_config.order[j] : j \in Counted(g_config, METRIC_COUNT)}
      /\ bld.enabled_count = Cardinality(Counted(g_config, METRIC_COUNT))
      /\ bld.placed_count = Cardinality(Counted(g_config, bld.i))
      /\ hud_ctx = Partial(g_config, bld.i)
  BY <1>1 DEF DrawInv
<1>3. CASE /\ MetricAt \in g_config.shown
           /\ hud_ctx' = [c \in Cell |-> IF c \in NewCells THEN NewWidget ELSE hud_ctx[c]]
           /\ bld' = [bld EXCEPT !.i = @ + 1, !.placed_count = @ + 1]
  <2>0. bld' = [bld EXCEPT !.i = bld.i + 1, !.placed_count = bld.placed_count + 1]
    BY <1>3
  <2>1. /\ bld'.i = bld.i + 1 /\ bld'.sized = bld.sized
        /\ bld'.enabled_count = bld.enabled_count
        /\ bld'.placed_count = bld.placed_count + 1 /\ bld'.style = bld.style
    BY <1>1, <2>0 DEF BuildLocals
  <2>2. Cardinality(Counted(g_config, bld.i + 1)) = Cardinality(Counted(g_config, bld.i)) + 1
    BY <1>1, <1>3, CountedStep DEF MetricAt
  <2>3. NewCells = {MetricCell(MetricAt)} \cup
                   (IF ShownAfter(g_config, bld.i) # {} THEN {SepCell(MetricAt)} ELSE {})
    BY <1>1, <1>2, <2>2, SeparatorTest DEF NewCells
  <2>4. NewWidget = Look(g_config, bld.i)
    <3>1. bld.i \in Counted(g_config, METRIC_COUNT)
      BY <1>1, <1>3, SlotFinite DEF Counted, MetricAt
    <3>2. MetricAt \in bld.sized
      BY <1>2, <3>1 DEF MetricAt
    <3>3. {bld.style, g_config.style} = {g_config.style}
      BY <1>2
    <3> QED
      BY <3>2, <3>3 DEF NewWidget, Look
  <2>5. hud_ctx' = Partial(g_config, bld.i + 1)
    BY <1>1, <1>2, <1>3, <2>3, <2>4, PartialShown DEF MetricAt
  <2> QED
    BY <1>1, <1>2, <2>1, <2>2, <2>5 DEF DrawInv
<1>4. CASE /\ MetricAt \notin g_config.shown
           /\ bld' = [bld EXCEPT !.i = @ + 1]
           /\ UNCHANGED <<tree, hud_ctx>>
  <2>1. /\ bld'.i = bld.i + 1 /\ bld'.sized = bld.sized
        /\ bld'.enabled_count = bld.enabled_count
        /\ bld'.placed_count = bld.placed_count /\ bld'.style = bld.style
    BY <1>1, <1>4 DEF BuildLocals
  <2>2. Counted(g_config, bld.i + 1) = Counted(g_config, bld.i)
    BY <1>1, <1>4, CountedStep DEF MetricAt
  <2>3. hud_ctx' = Partial(g_config, bld.i + 1)
    BY <1>1, <1>2, <1>4, PartialHidden DEF MetricAt
  <2> QED
    BY <1>1, <1>2, <2>1, <2>2, <2>3 DEF DrawInv
<1> QED
  BY <1>3, <1>4 DEF PlaceSlot

LEMMA DrawPlaceDone ==
    ASSUME TypeOK, CopyInv, DrawInv, PlaceDone PROVE DrawInv'
<1> SUFFICES ASSUME wpc # "apply", ~raced PROVE DrawInv'
  BY DEF DrawInv, PlaceDone, webVars, historyVars
<1>1. /\ pc = "place" /\ pc' = "clear" /\ bld.i = METRIC_COUNT
      /\ g_config' = g_config /\ g_config \in Configs /\ hud_ctx' = hud_ctx
  BY DEF PlaceDone, CopyInv, MidCopy, drawVars, webVars, copyVars
<1>2. hud_ctx = Partial(g_config, METRIC_COUNT) /\ g_config.enabled
  BY <1>1 DEF DrawInv
<1> QED
  BY <1>1, <1>2, PartialAll DEF DrawInv

LEMMA DrawInductive == TypeOK /\ CopyInv /\ DrawInv /\ [Next]_vars => DrawInv'
<1> SUFFICES ASSUME TypeOK, CopyInv, DrawInv, [Next]_vars PROVE DrawInv'
  OBVIOUS
<1> USE DEF envVars, loopVars, drawVars, flagVars, copyVars, webVars, historyVars
<1>1. ASSUME NEW c \in Configs, NEW started \in BOOLEAN, Boot(c, started) PROVE DrawInv'
  BY <1>1 DEF Boot, DrawInv
<1>2. CASE BootFails
  BY <1>2 DEF BootFails, DrawInv
<1>3. CASE AttachScene
  BY <1>3 DEF AttachScene, DrawInv
<1>4. CASE GameClosed
  BY <1>4 DEF GameClosed, DrawInv
<1>5. CASE SceneUnchanged
  BY <1>5 DEF SceneUnchanged, DrawInv
<1>6. CASE RebuildForChange
  BY <1>6 DEF RebuildForChange, DrawInv
<1>7. CASE NothingToRebuild
  BY <1>7 DEF NothingToRebuild, DrawInv
<1>8. CASE BuildBegin
  BY <1>8, DrawBegin
<1>9. CASE MeasureSlot
  BY <1>9, DrawMeasureSlot
<1>10. CASE MeasureDone
  BY <1>10, DrawMeasureDone
<1>11. CASE PlaceSlot
  BY <1>11, DrawPlaceSlot
<1>12. CASE PlaceDone
  BY <1>12, DrawPlaceDone
<1>13. CASE ClearChanged
  BY <1>13 DEF ClearChanged, DrawInv
<1>14. CASE UpdateMetrics
  BY <1>14 DEF UpdateMetrics, DrawInv
<1>15. CASE Unload
  BY <1>15 DEF Unload, DrawInv
<1>16. CASE UnloadDone
  BY <1>16 DEF UnloadDone, DrawInv
<1>17. ASSUME NEW bound \in BOOLEAN, WorkerBinds(bound) PROVE DrawInv'
  BY <1>17 DEF WorkerBinds, DrawInv
<1>18. CASE CopyPart
  BY <1>18 DEF CopyPart, DrawInv
<1>19. CASE SetChanged
  BY <1>19 DEF SetChanged, DrawInv, Building
<1>20. CASE WorkerLoop
  BY <1>20 DEF WorkerLoop, DrawInv
<1>21. ASSUME NEW c \in Configs, ReceiveConfig(c) PROVE DrawInv'
  BY <1>21 DEF ReceiveConfig, DrawInv
<1>22. CASE PostUnload
  BY <1>22 DEF PostUnload, DrawInv
<1>23. CASE ServeNothing
  BY <1>23 DEF ServeNothing, DrawInv
<1>24. ASSUME NEW s \in Scenes \cup {NoScene}, SwitchScene(s) PROVE DrawInv'
  BY <1>24 DEF SwitchScene, DrawInv
<1>25. ASSUME NEW s \in Scenes, SceneGetsRoot(s) \/ CollectScene(s) PROVE DrawInv'
  BY <1>25 DEF SceneGetsRoot, CollectScene, DrawInv
<1>26. CASE UNCHANGED vars
  BY <1>26 DEF vars, DrawInv
<1> QED
  BY <1>1, <1>2, <1>3, <1>4, <1>5, <1>6, <1>7, <1>8, <1>9, <1>10, <1>11, <1>12, <1>13,
     <1>14, <1>15, <1>16, <1>17, <1>18, <1>19, <1>20, <1>21, <1>22, <1>23, <1>24, <1>25,
     <1>26, NextCases

LEMMA DrawInvHolds == Spec => []DrawInv
<1>1. Init => DrawInv
  BY DEF Init, DrawInv
<1> QED
  BY <1>1, DrawInductive, TypeCorrect, CopyInvHolds, PTL DEF Spec

LEMMA StaleInductive ==
    RootInv /\ DrawInv /\ StaleOnlyIfRaced /\ [Next]_vars => StaleOnlyIfRaced'
<1> SUFFICES ASSUME RootInv, DrawInv, StaleOnlyIfRaced, [Next]_vars PROVE StaleOnlyIfRaced'
  OBVIOUS
<1> USE DEF envVars, loopVars, drawVars, flagVars, copyVars, webVars, historyVars
<1>1. ASSUME NEW c \in Configs, NEW started \in BOOLEAN, Boot(c, started) PROVE StaleOnlyIfRaced'
  BY <1>1 DEF Boot, StaleOnlyIfRaced, Settled, RootInv
<1>2. CASE BootFails
  BY <1>2 DEF BootFails, StaleOnlyIfRaced, Settled
<1>3. CASE AttachScene
  BY <1>3 DEF AttachScene, StaleOnlyIfRaced, Settled, RootInv
<1>4. CASE GameClosed
  BY <1>4 DEF GameClosed, StaleOnlyIfRaced, Settled, RootInv
<1>5. CASE SceneUnchanged
  BY <1>5 DEF SceneUnchanged, StaleOnlyIfRaced, Settled
<1>6. CASE RebuildForChange
  BY <1>6 DEF RebuildForChange, StaleOnlyIfRaced, Settled
<1>7. CASE NothingToRebuild
  BY <1>7 DEF NothingToRebuild, StaleOnlyIfRaced, Settled
<1>8. CASE BuildBegin
  BY <1>8 DEF BuildBegin, StaleOnlyIfRaced, Settled
<1>9. CASE MeasureSlot
  BY <1>9 DEF MeasureSlot, StaleOnlyIfRaced, Settled
<1>10. CASE MeasureDone
  BY <1>10 DEF MeasureDone, StaleOnlyIfRaced, Settled
<1>11. CASE PlaceSlot
  BY <1>11 DEF PlaceSlot, StaleOnlyIfRaced, Settled
<1>12. CASE PlaceDone
  BY <1>12 DEF PlaceDone, StaleOnlyIfRaced, Settled
<1>13. CASE ClearChanged
  BY <1>13 DEF ClearChanged, StaleOnlyIfRaced, Settled, DrawInv
<1>14. CASE UpdateMetrics
  BY <1>14 DEF UpdateMetrics, StaleOnlyIfRaced, Settled
<1>15. CASE Unload
  BY <1>15 DEF Unload, StaleOnlyIfRaced, Settled
<1>16. CASE UnloadDone
  BY <1>16 DEF UnloadDone, StaleOnlyIfRaced, Settled
<1>17. ASSUME NEW bound \in BOOLEAN, WorkerBinds(bound) PROVE StaleOnlyIfRaced'
  BY <1>17 DEF WorkerBinds, StaleOnlyIfRaced, Settled
<1>18. CASE CopyPart
  BY <1>18 DEF CopyPart, StaleOnlyIfRaced, Settled
<1>19. CASE SetChanged
  BY <1>19 DEF SetChanged, StaleOnlyIfRaced, Settled
<1>20. CASE WorkerLoop
  BY <1>20 DEF WorkerLoop, StaleOnlyIfRaced, Settled
<1>21. ASSUME NEW c \in Configs, ReceiveConfig(c) PROVE StaleOnlyIfRaced'
  BY <1>21 DEF ReceiveConfig, StaleOnlyIfRaced, Settled
<1>22. CASE PostUnload
  BY <1>22 DEF PostUnload, StaleOnlyIfRaced, Settled
<1>23. CASE ServeNothing
  BY <1>23 DEF ServeNothing, StaleOnlyIfRaced, Settled
<1>24. ASSUME NEW s \in Scenes \cup {NoScene}, SwitchScene(s) PROVE StaleOnlyIfRaced'
  BY <1>24 DEF SwitchScene, StaleOnlyIfRaced, Settled
<1>25. ASSUME NEW s \in Scenes, SceneGetsRoot(s) \/ CollectScene(s) PROVE StaleOnlyIfRaced'
  BY <1>25 DEF SceneGetsRoot, CollectScene, StaleOnlyIfRaced, Settled
<1>26. CASE UNCHANGED vars
  BY <1>26 DEF vars, StaleOnlyIfRaced, Settled
<1> QED
  BY <1>1, <1>2, <1>3, <1>4, <1>5, <1>6, <1>7, <1>8, <1>9, <1>10, <1>11, <1>12, <1>13,
     <1>14, <1>15, <1>16, <1>17, <1>18, <1>19, <1>20, <1>21, <1>22, <1>23, <1>24, <1>25,
     <1>26, NextCases

(* At rest, and unless the dirty flag was set during the last build, the     *)
(* cells on screen are those of the current configuration.                   *)
THEOREM Fresh == Spec => []StaleOnlyIfRaced
<1>1. Init => StaleOnlyIfRaced
  BY DEF Init, StaleOnlyIfRaced, Settled
<1> QED
  BY <1>1, StaleInductive, RootInvHolds, DrawInvHolds, PTL DEF Spec
=============================================================================
