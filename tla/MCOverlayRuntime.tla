-------------------------- MODULE MCOverlayRuntime --------------------------
(* Instances of OverlayRuntime for TLC: two scenes, and either two metrics    *)
(* or one, with two configurations.                                          *)
EXTENDS OverlayRuntime, TLC

CONSTANTS s1, s2

MCScenes == {s1, s2}
MCStyles == {"small", "large"}

Cfg(e, b, st, o, sh) ==
    [enabled |-> e, bg_visible |-> b, style |-> st,
     order |-> [i \in Slot |-> o[i + 1]], shown |-> sh]

MCDefault == Cfg(TRUE, TRUE, "small", <<0, 1>>, {0, 1})
MCConfigs == {MCDefault, Cfg(TRUE, FALSE, "large", <<1, 0>>, {0, 1})}

(* One metric, for liveness: the overlay on and off.                         *)
MCOneDefault == Cfg(TRUE, TRUE, "small", <<0>>, {0})
MCOneMetricConfigs == {MCOneDefault, Cfg(FALSE, TRUE, "small", <<0>>, {0})}

SceneSymmetry == Permutations(MCScenes)

(* The HUD thread looks at the scene, and at whether it has a root, at the   *)
(* top of its loop only: a step of the shell at any other time leads to the  *)
(* same behaviours as that step just before the next look.                   *)
ShellStepsAtTop == UNCHANGED <<scene, ready>> \/ pc = "top"
=============================================================================
