---------------------------- MODULE MCControlPage ----------------------------
(* One tab beside other clients, a second tab among them; three metrics, and *)
(* for every setting a few values on both sides of each limit, between two   *)
(* printed digits, and too large for an int.                                 *)
EXTENDS ControlPage

Overflowing(n) == 2 * (INT_MAX + 1) + n

Doc(before, metrics) == [before |-> before, after |-> Absent, metrics |-> metrics]
AllOn == [k \in Metric |-> "true"]

MCDefault ==
    [pos_v |-> 0, pos_h |-> 0, offset_x |-> 480, font_size |-> 18, bar_height |-> 680,
     bg_opacity |-> 140, web_port |-> 8585, bg_color |-> <<0, 0>>,
     switches |-> [enabled |-> TRUE, metric |-> [k \in Metric |-> TRUE]],
     order |-> Absent]

MCBuiltIn ==
    [MCDefault EXCEPT !.web_port = Absent, !.switches = Doc("true", AllOn), !.order = <<0, 1, 2>>]
MCFallBack ==
    [MCBuiltIn EXCEPT !.switches = Doc("true", [AllOn EXCEPT ![1] = NoObject]), !.order = <<0, 2>>]

(* Values of the page's sliders: lengths in steps of whole pixels, the       *)
(* opacity in steps of 5 %.                                                  *)
MCControls ==
    [pos_v |-> {0, 1}, pos_h |-> {0, 2}, offset_x |-> {560}, font_size |-> {12, 32},
     bar_height |-> {1120}, bg_opacity |-> {10}, web_port |-> {},
     bg_color |-> {<<13, 1>>}, switches |-> {0}]

MCClientTexts ==
    [pos_v |-> {7}, pos_h |-> {7}, offset_x |-> {490}, font_size |-> {9, Overflowing(20)},
     bar_height |-> {1595, 1601}, bg_opacity |-> {1, 201}, web_port |-> {8080},
     bg_color |-> {Absent, <<16, 3>>, <<12, Blank>>, <<LineBreak, 3>>},
     switches |-> {[Doc(Absent, [AllOn EXCEPT ![0] = "false"]) EXCEPT !.after = "true"],
                   Doc("true", [AllOn EXCEPT ![1] = "false", ![2] = NoObject])},
     order |-> {<<2, Unknown>>, <<1, NotString>>}]

MCEditorTexts ==
    [pos_v |-> {1, 7}, pos_h |-> {2, 7}, offset_x |-> {487}, font_size |-> {49, Overflowing(20)},
     bar_height |-> {410}, bg_opacity |-> {14000, 300}, web_port |-> {80, Overflowing(8080)},
     bg_color |-> {Absent, <<3, 16>>, <<7, Blank>>},
     switches |-> {[enabled |-> "false", sections |-> <<[name |-> Unknown, enabled |-> "false"],
                                                        [name |-> 1, enabled |-> "false"]>>]},
     order |-> {<<Unknown, 2>>}]
=============================================================================
