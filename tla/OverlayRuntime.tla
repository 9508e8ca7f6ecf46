--------------------------- MODULE OverlayRuntime ---------------------------
(***************************************************************************)
(* The two threads of the injected payload and the memory they share.      *)
(*                                                                         *)
(*   - the HUD thread: payload_thread_main() with build_hud() and          *)
(*     destroy_hud(), payload/main.cpp;                                    *)
(*   - the web worker: web_server_worker() with handle_client_http(),      *)
(*     payload/web_server.cpp;                                             *)
(*   - the environment: SceShellUI, which decides which scene object       *)
(*     FindContainerSceneByPath("Game") returns and whether that scene     *)
(*     already has a RootWidget.                                           *)
(*                                                                         *)
(* g_config is a plain struct.  The worker assigns it while the HUD thread *)
(* may be half way through build_hud(), so the assignment is modelled part *)
(* by part, in any order, and the build slot by slot.                      *)
(*                                                                         *)
(* Data is abstracted: a "style" stands for everything that decides how a  *)
(* cell looks (position, sizes, colours), a cell for a title cell, a value *)
(* cell and their labels, which are created and removed together.  It is   *)
(* assumed that the shell's Mono runtime creates every object it is asked  *)
(* for: build_hud() goes on without a cell whose mono_object_new() returns *)
(* null, and a shell that is out of memory is not modelled.                *)
(***************************************************************************)
EXTENDS Integers, FiniteSets

CONSTANTS
    METRIC_COUNT,   \* number of metrics, and of entries of OverlayConfig::order
    Scenes,         \* the scene objects the shell can create
    NoScene,        \* a null MonoObject*
    Styles,         \* the values of the look fields of OverlayConfig
    Configs,        \* the configurations a request or the stored file can carry
    DefaultConfig,  \* config_set_defaults()
    RemoveFound,    \* whether Widget.RemoveFromParent may exist: a subset of BOOLEAN
    MaxGhosts       \* bound: the environment rests once a root holds this many ghosts of a cell

Slot == 0 .. METRIC_COUNT - 1
Metric == Slot

ConfigRecord ==
    [enabled : BOOLEAN, bg_visible : BOOLEAN, style : Styles,
     order : [Slot -> Metric], shown : SUBSET Metric]

ASSUME MetricCountAssumption == METRIC_COUNT \in Nat \ {0}
ASSUME SceneAssumption == NoScene \notin Scenes
(* Both ways a configuration can arrive repair its order to a permutation. *)
ASSUME ConfigAssumption ==
    /\ Configs \subseteq ConfigRecord
    /\ DefaultConfig \in Configs
    /\ \A c \in Configs : \A i, j \in Slot : c.order[i] = c.order[j] => i = j
    /\ \A c \in Configs : \A m \in Metric : \E i \in Slot : c.order[i] = m
ASSUME RemoveFoundAssumption == RemoveFound \subseteq BOOLEAN
ASSUME BoundAssumption == MaxGhosts \in Nat

(* The cells build_hud() can create; hud_ctx has one pointer for each. *)
Background == <<"bg", 0>>
MetricCell(m) == <<"cell", m>>
SepCell(m) == <<"sep", m>>
Cell == {Background} \cup ({"cell", "sep"} \X Metric)

(* What a pointer of hud_ctx leads to: the styles read while the cell was   *)
(* made, the slot it was placed for and whether pass 1 had computed its     *)
(* width.  The null pointer has no style.                                   *)
Widget == [styles : SUBSET Styles, slot : Slot, sized : BOOLEAN]
Null == [styles |-> {}, slot |-> 0, sized |-> FALSE]

(* The parts in which the compiled struct assignment writes g_config. *)
Head == <<"head", 0>>
Metrics == <<"metrics", 0>>
Parts == {Head, Metrics} \cup ({"order"} \X Slot)

VARIABLES
    \* environment
    scene,                \* what FindContainerSceneByPath("Game") returns
    ready,                \* scenes whose RootWidget is not null
    tree,                 \* tree[s][c]: copies of cell c under the root of scene s
    removeFound,          \* Widget.RemoveFromParent exists on this firmware
    ready_file,           \* /system_tmp/ps5_overlay_ready exists
    \* HUD thread
    pc,
    reason,               \* which of its two calls of build_hud() is running
    game_scene,
    attached_to_game,
    last_attached_scene,
    root_widget,
    hud_ctx,
    bld,                  \* locals of build_hud()
    \* shared globals
    g_config,
    g_config_changed,
    g_should_unload,
    g_web_running,
    \* web worker
    wpc,
    new_cfg,
    copied,               \* parts of new_cfg already written to g_config
    \* history
    raced,                \* g_config_changed was set while the last build was running
    torn                  \* some build overlapped an assignment of g_config

envVars == <<scene, ready, removeFound>>
loopVars == <<reason, game_scene, attached_to_game, last_attached_scene, root_widget>>
drawVars == <<tree, hud_ctx, bld>>
flagVars == <<g_config_changed, g_should_unload, g_web_running>>
copyVars == <<g_config, new_cfg, copied>>
webVars == <<wpc, copyVars>>
historyVars == <<raced, torn>>

vars == <<envVars, ready_file, pc, loopVars, drawVars, flagVars, webVars, historyVars>>

NoCells == [c \in Cell |-> Null]
NoTree == [c \in Cell |-> 0]
BuildLocals == [i : 0 .. METRIC_COUNT, sized : SUBSET Metric, enabled_count : Nat,
                placed_count : Nat, style : Styles]
NoBuild == [i |-> 0, sized |-> {}, enabled_count |-> 0, placed_count |-> 0,
            style |-> DefaultConfig.style]

(* The HUD thread is past its first read of g_config and has not yet        *)
(* cleared g_config_changed.                                                *)
Building == pc \in {"measure", "place", "clear"}

(* The worker is inside the struct assignment. *)
MidCopy == wpc = "apply" /\ copied # {} /\ copied # Parts

Init ==
    /\ scene = NoScene
    /\ ready = {}
    /\ tree = [s \in Scenes |-> NoTree]
    /\ removeFound \in RemoveFound
    /\ ready_file = FALSE
    /\ pc = "boot"
    /\ reason = "attach"
    /\ game_scene = NoScene
    /\ attached_to_game = FALSE
    /\ last_attached_scene = NoScene
    /\ root_widget = NoScene
    /\ hud_ctx = NoCells
    /\ bld = NoBuild
    /\ g_config = DefaultConfig
    /\ g_config_changed = FALSE
    /\ g_should_unload = FALSE
    /\ g_web_running = FALSE
    /\ wpc = "off"
    /\ new_cfg = DefaultConfig
    /\ copied = {}
    /\ raced = FALSE
    /\ torn = FALSE
-----------------------------------------------------------------------------
(* The HUD thread: boot. *)

(* Every step of the boot sequence found what it needs: the ready file is   *)
(* written, the configuration loaded and the web server thread created      *)
(* (unless pthread_create is missing or fails).                             *)
Boot(c, started) ==
    /\ pc = "boot"
    /\ ready_file' = TRUE
    /\ g_config' = c
    /\ wpc' = IF started THEN "bind" ELSE "gone"
    /\ pc' = "top"
    /\ UNCHANGED <<envVars, loopVars, drawVars, flagVars, new_cfg, copied, historyVars>>

(* A module, symbol, assembly or class is missing: the thread returns before *)
(* it has written the ready file.                                            *)
BootFails ==
    /\ pc = "boot"
    /\ pc' = "failed"
    /\ UNCHANGED <<envVars, ready_file, loopVars, drawVars, flagVars, webVars, historyVars>>
-----------------------------------------------------------------------------
(* The HUD thread: destroy_hud() and the monitoring loop. *)

(* destroy_hud(root_widget, &hud_ctx): without RemoveFromParent it returns   *)
(* at once and leaves both the tree and the context as they are.             *)
DestroyHud ==
    IF removeFound
    THEN /\ tree' = [tree EXCEPT ![root_widget] =
                        [c \in Cell |-> IF hud_ctx[c] # Null THEN @[c] - 1 ELSE @[c]]]
         /\ hud_ctx' = NoCells
    ELSE UNCHANGED <<tree, hud_ctx>>

DestroyIfAttached ==
    IF attached_to_game /\ root_widget # NoScene
    THEN DestroyHud
    ELSE UNCHANGED <<tree, hud_ctx>>

(* A faulty AttachScene: the scene is recorded before its root is known, and *)
(* the old root is kept when it has none.                                    *)
AttachScene_RecordsEarly ==
    /\ pc = "top" /\ ~g_should_unload
    /\ scene # NoScene /\ scene # last_attached_scene
    /\ DestroyIfAttached
    /\ game_scene' = scene
    /\ last_attached_scene' = scene
    /\ \/ /\ scene \in ready
          /\ root_widget' = scene
          /\ reason' = "attach"
          /\ pc' = "reset"
       \/ /\ scene \notin ready
          /\ pc' = "check"
          /\ UNCHANGED <<root_widget, reason>>
    /\ UNCHANGED <<envVars, ready_file, attached_to_game, bld, flagVars, webVars, historyVars>>

(* A Game scene other than the one the HUD was last built for.  When it has  *)
(* no RootWidget yet nothing but root_widget changes, and the next iteration *)
(* tries again.                                                              *)
AttachScene ==
    /\ pc = "top" /\ ~g_should_unload
    /\ scene # NoScene /\ scene # last_attached_scene
    /\ DestroyIfAttached
    /\ game_scene' = scene
    /\ \/ /\ scene \in ready
          /\ root_widget' = scene
          /\ reason' = "attach"
          /\ pc' = "reset"
       \/ /\ scene \notin ready
          /\ root_widget' = NoScene
          /\ pc' = "check"
          /\ UNCHANGED reason
    /\ UNCHANGED <<envVars, ready_file, attached_to_game, last_attached_scene, bld,
                   flagVars, webVars, historyVars>>

GameClosed ==
    /\ pc = "top" /\ ~g_should_unload
    /\ scene = NoScene /\ attached_to_game
    /\ DestroyIfAttached
    /\ game_scene' = NoScene
    /\ attached_to_game' = FALSE
    /\ last_attached_scene' = NoScene
    /\ root_widget' = NoScene
    /\ pc' = "check"
    /\ UNCHANGED <<envVars, ready_file, reason, bld, flagVars, webVars, historyVars>>

SceneUnchanged ==
    /\ pc = "top" /\ ~g_should_unload
    /\ IF scene = NoScene THEN ~attached_to_game ELSE scene = last_attached_scene
    /\ game_scene' = scene
    /\ pc' = "check"
    /\ UNCHANGED <<envVars, ready_file, reason, attached_to_game, last_attached_scene,
                   root_widget, drawVars, flagVars, webVars, historyVars>>

(* A faulty RebuildForChange: the old HUD is not destroyed first. *)
RebuildForChange_NoDestroy ==
    /\ pc = "check"
    /\ attached_to_game /\ g_config_changed /\ root_widget # NoScene
    /\ reason' = "rebuild"
    /\ pc' = "reset"
    /\ UNCHANGED <<envVars, ready_file, game_scene, attached_to_game, last_attached_scene,
                   root_widget, drawVars, flagVars, webVars, historyVars>>

(* The live configuration check. *)
RebuildForChange ==
    /\ pc = "check"
    /\ attached_to_game /\ g_config_changed /\ root_widget # NoScene
    /\ DestroyHud
    /\ reason' = "rebuild"
    /\ pc' = "reset"
    /\ UNCHANGED <<envVars, ready_file, game_scene, attached_to_game, last_attached_scene,
                   root_widget, bld, flagVars, webVars, historyVars>>

NothingToRebuild ==
    /\ pc = "check"
    /\ ~(attached_to_game /\ g_config_changed /\ root_widget # NoScene)
    /\ pc' = "update"
    /\ UNCHANGED <<envVars, ready_file, loopVars, drawVars, flagVars, webVars, historyVars>>

(* The telemetry update writes the text of the labels hud_ctx points to,     *)
(* then the thread sleeps for a second and game_scene goes out of scope.     *)
(* Texts are abstracted away.                                                *)
UpdateMetrics ==
    /\ pc = "update"
    /\ pc' = "top"
    /\ game_scene' = NoScene
    /\ UNCHANGED <<envVars, ready_file, reason, attached_to_game, last_attached_scene,
                   root_widget, drawVars, flagVars, webVars, historyVars>>
-----------------------------------------------------------------------------
(* The HUD thread: build_hud(). *)

(* Null the context, give up when the overlay is disabled, read the layout   *)
(* fields and create the background panel.                                   *)
BuildBegin ==
    /\ pc = "reset"
    /\ raced' = FALSE
    /\ torn' = (torn \/ MidCopy)
    /\ bld' = [NoBuild EXCEPT !.style = g_config.style]
    /\ \/ /\ ~g_config.enabled
          /\ hud_ctx' = NoCells
          /\ pc' = "clear"
          /\ UNCHANGED tree
       \/ /\ g_config.enabled
          /\ pc' = "measure"
          /\ IF g_config.bg_visible
             THEN /\ hud_ctx' = [NoCells EXCEPT ![Background] =
                        [styles |-> {g_config.style}, slot |-> 0, sized |-> TRUE]]
                  /\ tree' = [tree EXCEPT ![root_widget][Background] = @ + 1]
             ELSE /\ hud_ctx' = NoCells
                  /\ UNCHANGED tree
    /\ UNCHANGED <<envVars, ready_file, loopVars, flagVars, webVars>>

(* The metric both passes look at in this iteration. *)
MetricAt == g_config.order[bld.i]

(* Pass 1: one entry of order[]; an enabled metric gets its widths. *)
MeasureSlot ==
    /\ pc = "measure" /\ bld.i \in Slot
    /\ \/ /\ MetricAt \in g_config.shown
          /\ bld' = [bld EXCEPT !.i = @ + 1, !.sized = @ \cup {MetricAt},
                                !.enabled_count = @ + 1]
       \/ /\ MetricAt \notin g_config.shown
          /\ bld' = [bld EXCEPT !.i = @ + 1]
    /\ UNCHANGED <<envVars, ready_file, pc, loopVars, tree, hud_ctx, flagVars, webVars,
                   historyVars>>

MeasureDone ==
    /\ pc = "measure" /\ bld.i = METRIC_COUNT
    /\ bld' = [bld EXCEPT !.i = 0]
    /\ pc' = "place"
    /\ UNCHANGED <<envVars, ready_file, loopVars, tree, hud_ctx, flagVars, webVars,
                   historyVars>>

(* Faulty helpers of pass 2: a separator after the last metric as well, and  *)
(* a slot counter advanced before the cell is placed.                        *)
NewCells_TrailingSeparator ==
    {MetricCell(MetricAt)} \cup
    (IF bld.placed_count < bld.enabled_count THEN {SepCell(MetricAt)} ELSE {})
NewWidget_NextSlot ==
    [styles |-> {bld.style, g_config.style}, slot |-> bld.i + 1,
     sized |-> MetricAt \in bld.sized]

(* Pass 2 reads order[] and the enabled flags again: the cells of one        *)
(* metric, and a separator after it unless it is the last one counted.  (A   *)
(* null from mono_object_new() would leave a cell out; see the assumption    *)
(* above.)                                                                   *)
NewCells ==
    {MetricCell(MetricAt)} \cup
    (IF bld.placed_count + 1 < bld.enabled_count THEN {SepCell(MetricAt)} ELSE {})
NewWidget ==
    [styles |-> {bld.style, g_config.style}, slot |-> bld.i, sized |-> MetricAt \in bld.sized]

PlaceSlot ==
    /\ pc = "place" /\ bld.i \in Slot
    /\ \/ /\ MetricAt \in g_config.shown
          /\ hud_ctx' = [c \in Cell |-> IF c \in NewCells THEN NewWidget ELSE hud_ctx[c]]
          /\ tree' = [tree EXCEPT ![root_widget] =
                         [c \in Cell |-> IF c \in NewCells THEN @[c] + 1 ELSE @[c]]]
          /\ bld' = [bld EXCEPT !.i = @ + 1, !.placed_count = @ + 1]
       \/ /\ MetricAt \notin g_config.shown
          /\ bld' = [bld EXCEPT !.i = @ + 1]
          /\ UNCHANGED <<tree, hud_ctx>>
    /\ UNCHANGED <<envVars, ready_file, pc, loopVars, flagVars, webVars, historyVars>>

PlaceDone ==
    /\ pc = "place" /\ bld.i = METRIC_COUNT
    /\ pc' = "clear"
    /\ UNCHANGED <<envVars, ready_file, loopVars, drawVars, flagVars, webVars, historyVars>>

(* What follows build_hud() at both call sites: g_config_changed is cleared  *)
(* whether or not it was set while the build was running.                    *)
ClearChanged ==
    /\ pc = "clear"
    /\ g_config_changed' = FALSE
    /\ bld' = NoBuild
    /\ reason' = "attach"
    /\ \/ /\ reason = "attach"
          /\ last_attached_scene' = game_scene
          /\ attached_to_game' = TRUE
          /\ pc' = "check"
       \/ /\ reason = "rebuild"
          /\ pc' = "update"
          /\ UNCHANGED <<last_attached_scene, attached_to_game>>
    /\ UNCHANGED <<envVars, ready_file, game_scene, root_widget, tree, hud_ctx,
                   g_should_unload, g_web_running, webVars, historyVars>>
-----------------------------------------------------------------------------
(* The HUD thread: hot unload. *)

(* Faulty unloads: the HUD is left on screen; an unload waits for a HUD. *)
Unload_KeepsHud ==
    /\ pc = "top" /\ g_should_unload
    /\ pc' = "unload"
    /\ UNCHANGED <<envVars, ready_file, loopVars, drawVars, flagVars, webVars, historyVars>>

Unload_OnlyWhenAttached ==
    /\ pc = "top" /\ g_should_unload /\ attached_to_game
    /\ DestroyIfAttached
    /\ pc' = "unload"
    /\ UNCHANGED <<envVars, ready_file, loopVars, bld, flagVars, webVars, historyVars>>

Unload ==
    /\ pc = "top" /\ g_should_unload
    /\ DestroyIfAttached
    /\ pc' = "unload"
    /\ UNCHANGED <<envVars, ready_file, loopVars, bld, flagVars, webVars, historyVars>>

(* web_server_stop(), unlink of the ready file, return from the thread. *)
UnloadDone ==
    /\ pc = "unload"
    /\ g_web_running' = FALSE
    /\ ready_file' = FALSE
    /\ pc' = "exited"
    /\ UNCHANGED <<envVars, loopVars, drawVars, g_config_changed, g_should_unload, webVars,
                   historyVars>>
-----------------------------------------------------------------------------
(* The web worker.  "accept" is the blocking accept() of its loop; a         *)
(* connection that arrives there is served even when web_server_stop() has   *)
(* already run.                                                              *)

WorkerBinds(bound) ==
    /\ wpc = "bind"
    /\ g_web_running' = IF bound THEN TRUE ELSE g_web_running
    /\ wpc' = IF bound THEN "accept" ELSE "gone"
    /\ UNCHANGED <<envVars, ready_file, pc, loopVars, drawVars, g_config_changed,
                   g_should_unload, copyVars, historyVars>>

(* Copies under a root that the HUD thread can no longer remove.  The        *)
(* environment neither asks nor changes scene once there are MaxGhosts.      *)
Ghosts(s, c) == tree[s][c] - (IF s = root_widget /\ hud_ctx[c] # Null THEN 1 ELSE 0)
WithinBound == \A s \in Scenes, c \in Cell : Ghosts(s, c) < MaxGhosts

ReceiveConfig(c) ==
    /\ wpc = "accept" /\ WithinBound
    /\ new_cfg' = c
    /\ copied' = {}
    /\ wpc' = "apply"
    /\ UNCHANGED <<envVars, ready_file, pc, loopVars, drawVars, flagVars, g_config,
                   historyVars>>

(* POST /api/config: a copy of g_config overlaid with the request body. *)
PostConfig == \E c \in Configs : ReceiveConfig(c)

(* POST /api/reset *)
PostReset == ReceiveConfig(DefaultConfig)

(* g_config = new_cfg, one part of it. *)
Merged(old, new, part) ==
    [enabled    |-> IF part = Head THEN new.enabled ELSE old.enabled,
     bg_visible |-> IF part = Head THEN new.bg_visible ELSE old.bg_visible,
     style      |-> IF part = Head THEN new.style ELSE old.style,
     order      |-> [i \in Slot |-> IF part = <<"order", i>> THEN new.order[i]
                                    ELSE old.order[i]],
     shown      |-> IF part = Metrics THEN new.shown ELSE old.shown]

CopyPart ==
    /\ wpc = "apply"
    /\ \E part \in Parts \ copied :
          /\ g_config' = Merged(g_config, new_cfg, part)
          /\ copied' = copied \cup {part}
    /\ torn' = (torn \/ Building)
    /\ UNCHANGED <<envVars, ready_file, pc, loopVars, drawVars, flagVars, wpc, new_cfg, raced>>

(* A faulty SetChanged: the configuration is not marked dirty. *)
SetChanged_NoFlag ==
    /\ wpc = "apply" /\ copied = Parts
    /\ wpc' = "loop"
    /\ new_cfg' = DefaultConfig
    /\ copied' = {}
    /\ UNCHANGED <<envVars, ready_file, pc, loopVars, drawVars, g_config, flagVars, historyVars>>

(* The assignment is complete: mark the configuration dirty.  The reply and  *)
(* the log line that follow belong to wpc = "loop", and may take for ever.   *)
SetChanged ==
    /\ wpc = "apply" /\ copied = Parts
    /\ g_config_changed' = TRUE
    /\ raced' = (raced \/ Building)
    /\ wpc' = "loop"
    /\ new_cfg' = DefaultConfig
    /\ copied' = {}
    /\ UNCHANGED <<envVars, ready_file, pc, loopVars, drawVars, g_config, g_should_unload,
                   g_web_running, torn>>

(* POST /api/unload *)
PostUnload ==
    /\ wpc = "accept"
    /\ g_should_unload' = TRUE
    /\ wpc' = "loop"
    /\ UNCHANGED <<envVars, ready_file, pc, loopVars, drawVars, g_config_changed,
                   g_web_running, copyVars, historyVars>>

(* accept() fails, or the request is one that changes nothing: the page,     *)
(* GET /api/config, a POST without a body.                                   *)
ServeNothing ==
    /\ wpc = "accept"
    /\ wpc' = "loop"
    /\ UNCHANGED <<envVars, ready_file, pc, loopVars, drawVars, flagVars, copyVars,
                   historyVars>>

(* while (g_web_running) *)
WorkerLoop ==
    /\ wpc = "loop"
    /\ wpc' = IF g_web_running THEN "accept" ELSE "gone"
    /\ UNCHANGED <<envVars, ready_file, pc, loopVars, drawVars, flagVars, copyVars,
                   historyVars>>
-----------------------------------------------------------------------------
(* The environment. *)

SwitchScene(s) ==
    /\ WithinBound
    /\ scene # s
    /\ scene' = s
    /\ UNCHANGED <<ready, removeFound, ready_file, pc, loopVars, drawVars, flagVars,
                   webVars, historyVars>>

SceneGetsRoot(s) ==
    /\ s \notin ready
    /\ ready' = ready \cup {s}
    /\ UNCHANGED <<scene, removeFound, ready_file, pc, loopVars, drawVars, flagVars,
                   webVars, historyVars>>

(* A scene object that nobody refers to any more is collected, with the      *)
(* widgets under it; its address may come back as a new scene.  The stack of *)
(* an attached thread is scanned, so a scene it points to stays.             *)
CollectScene(s) ==
    /\ s \in ready
    /\ s \notin {scene, game_scene, last_attached_scene, root_widget}
    /\ ready' = ready \ {s}
    /\ tree' = [tree EXCEPT ![s] = NoTree]
    /\ UNCHANGED <<scene, removeFound, ready_file, pc, loopVars, hud_ctx, bld, flagVars,
                   webVars, historyVars>>
-----------------------------------------------------------------------------
HudThread ==
    \/ \E c \in Configs, started \in BOOLEAN : Boot(c, started)
    \/ BootFails
    \/ AttachScene \/ GameClosed \/ SceneUnchanged
    \/ RebuildForChange \/ NothingToRebuild
    \/ BuildBegin \/ MeasureSlot \/ MeasureDone \/ PlaceSlot \/ PlaceDone \/ ClearChanged
    \/ UpdateMetrics
    \/ Unload \/ UnloadDone

(* What the worker does without waiting for a client. *)
WorkerRuns ==
    \/ \E bound \in BOOLEAN : WorkerBinds(bound)
    \/ CopyPart \/ SetChanged \/ WorkerLoop

(* What a client makes it do. *)
Requests == PostConfig \/ PostReset \/ PostUnload \/ ServeNothing

Shell ==
    \/ \E s \in Scenes \cup {NoScene} : SwitchScene(s)
    \/ \E s \in Scenes : SceneGetsRoot(s) \/ CollectScene(s)

Next == HudThread \/ WorkerRuns \/ Requests \/ Shell

Spec == Init /\ [][Next]_vars

(* Both threads are scheduled: neither holds a lock the other waits for, and *)
(* the HUD thread only sleeps for a second.  Of the worker only the          *)
(* assignment and the flag behind it are fair, between which it waits for    *)
(* nobody; its replies, accept(), the clients and the shell are not.         *)
FairSpec == Spec /\ WF_vars(HudThread) /\ WF_vars(CopyPart \/ SetChanged)
-----------------------------------------------------------------------------
(* What build_hud() is meant to leave behind for a configuration nobody      *)
(* changes under it: one cell per shown metric, in the configured order, a   *)
(* separator after each but the last, all in one style.                      *)
SlotOf(cfg, m) == CHOOSE i \in Slot : cfg.order[i] = m
Look(cfg, i) == [styles |-> {cfg.style}, slot |-> i, sized |-> TRUE]
ShownAfter(cfg, i) == {j \in Slot : j > i /\ cfg.order[j] \in cfg.shown}

Render(cfg) ==
    [c \in Cell |->
        IF ~cfg.enabled THEN Null
        ELSE IF c = Background THEN (IF cfg.bg_visible THEN Look(cfg, 0) ELSE Null)
        ELSE IF /\ c[2] \in cfg.shown
                /\ c[1] = "sep" => ShownAfter(cfg, SlotOf(cfg, c[2])) # {}
             THEN Look(cfg, SlotOf(cfg, c[2]))
             ELSE Null]
-----------------------------------------------------------------------------
TypeOK ==
    /\ scene \in Scenes \cup {NoScene}
    /\ ready \in SUBSET Scenes
    /\ tree \in [Scenes -> [Cell -> Int]]
    /\ removeFound \in BOOLEAN /\ ready_file \in BOOLEAN
    /\ pc \in {"boot", "failed", "top", "check", "reset", "measure", "place", "clear",
               "update", "unload", "exited"}
    /\ reason \in {"attach", "rebuild"}
    /\ game_scene \in Scenes \cup {NoScene}
    /\ attached_to_game \in BOOLEAN
    /\ last_attached_scene \in Scenes \cup {NoScene}
    /\ root_widget \in Scenes \cup {NoScene}
    /\ hud_ctx \in [Cell -> Widget]
    /\ bld \in BuildLocals
    /\ g_config \in ConfigRecord
    /\ g_config_changed \in BOOLEAN /\ g_should_unload \in BOOLEAN
    /\ g_web_running \in BOOLEAN
    /\ wpc \in {"off", "bind", "accept", "apply", "loop", "gone"}
    /\ new_cfg \in Configs
    /\ copied \in SUBSET Parts
    /\ raced \in BOOLEAN /\ torn \in BOOLEAN

(* A HUD is on a live root and no change is pending or being written. *)
Settled ==
    /\ pc \in {"top", "check", "update"}
    /\ attached_to_game /\ root_widget # NoScene
    /\ ~g_config_changed
    /\ wpc # "apply"

(* The web page reports a change as applied once the worker has replied, and *)
(* the loop rebuilds the HUD when it sees the dirty flag: at rest the cells  *)
(* on screen are those of the current configuration.  Both call sites of     *)
(* build_hud() clear the flag after the build, so this is NOT so.            *)
SettledHudIsCurrent == Settled => hud_ctx = Render(g_config)

(* It fails in one way only: the flag was set while the last build was       *)
(* running.  Otherwise the two passes of build_hud(), each reading g_config  *)
(* slot by slot while the worker may start writing it, leave exactly the     *)
(* cells, separators, slots, widths and style of the current configuration.  *)
StaleOnlyIfRaced == Settled /\ ~raced => hud_ctx = Render(g_config)

(* destroy_hud() can only remove what hud_ctx points to.  Unless             *)
(* RemoveFromParent is missing or a build overlapped an assignment of        *)
(* g_config, the scene roots hold exactly one copy of every cell hud_ctx     *)
(* points to, under the current root, and nothing else: no ghost cell        *)
(* survives a rebuild, a change of scene or an unload.                       *)
NoGhostCells ==
    removeFound /\ ~torn =>
        \A s \in Scenes, c \in Cell :
            tree[s][c] = IF s = root_widget /\ hud_ctx[c] # Null THEN 1 ELSE 0

(* What the unload step leaves in the shell process: no ready file for the   *)
(* next injection to trip over, a stopped server flag that the worker cannot *)
(* have raised again, and no cell under any root (with the same two          *)
(* exceptions).                                                              *)
UnloadLeavesNothing ==
    pc = "exited" =>
        /\ ~ready_file /\ ~g_web_running
        /\ removeFound /\ ~torn => \A s \in Scenes, c \in Cell : tree[s][c] = 0

(* The unload page says that the HUD disappears from the screen.  This is    *)
(* NOT so, even where RemoveFromParent is found: a build that read order[]   *)
(* across an assignment may place one metric twice, and the first copy is    *)
(* then in the tree and no longer in hud_ctx.                                *)
UnloadClearsScreen ==
    pc = "exited" => \A s \in Scenes, c \in Cell : tree[s][c] = 0

(* However scenes come and go, with a root or still without one, and         *)
(* whichever of the two calls of build_hud() it is: when the build is over,  *)
(* the root it drew on is that of the scene recorded as attached, so the     *)
(* next destroy_hud() is about the same scene.                               *)
BuildEndsOnItsScene ==
    [][pc = "clear" /\ pc' # "clear" =>
          attached_to_game' /\ last_attached_scene' = root_widget]_vars

(* Hot unload: once a client has asked for it, the HUD thread gets to its    *)
(* exit, whatever scenes come and go.                                        *)
UnloadCompletes == g_should_unload ~> pc = "exited"

(* The shell keeps showing scene s, its root exists, nobody asks for unload  *)
(* or leaves a change half applied; and the loop is not in the state it      *)
(* cannot leave, in which the shown scene never gets a HUD: s recorded as    *)
(* attached, but its root forgotten while another scene, without a root yet, *)
(* was current.                                                              *)
Quiet(s) ==
    /\ scene = s /\ s \in ready
    /\ pc \notin {"boot", "failed", "exited"} /\ ~g_should_unload
    /\ wpc # "apply" /\ ~raced
    /\ ~(last_attached_scene = s /\ root_widget = NoScene /\ pc # "reset")

(* Then the HUD ends up on that scene, current, and stays there.             *)
HudConverges ==
    \A s \in Scenes :
        <>[]Quiet(s) => <>[](root_widget = s /\ hud_ctx = Render(g_config))
=============================================================================
