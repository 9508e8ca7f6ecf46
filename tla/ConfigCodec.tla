------------------------------ MODULE ConfigCodec ------------------------------
(***************************************************************************)
(* The two texts of a configuration: the JSON document of the control page *)
(* (serialize_config_json, parse_config_json, payload/web_server.cpp) and  *)
(* config.ini (config_save, config_load, payload/config.cpp), one setting  *)
(* at a time.  ConfigOrder has the order of the metrics; this module has   *)
(* the numbers, a colour channel, and the switches, whose keys the parser  *)
(* finds by searching the text.                                            *)
(*                                                                         *)
(* A number is an integer count of the setting's unit: 1/20 for lengths,   *)
(* 1/200 for the opacity, 1 for the rest.  Its text is the same count,     *)
(* rounded to the digits the format prints.  Both parsers of floats, which *)
(* multiply by a power of ten, are taken to be exact.                      *)
(***************************************************************************)
EXTENDS ConfigOrder

CONSTANTS
    INT_MAX,        \* the largest int
    Absent          \* a setting the text does not have

(* An int holds every number that is accepted, 65535 being the largest; a   *)
(* setting the text does not have is told from every text there is.         *)
ASSUME IntAssumption == INT_MAX \in Nat /\ INT_MAX >= 65535
ASSUME AbsentAssumption == Absent \notin Int /\ Absent \notin {"true", "false"}

(* Digits printed in JSON and in the file, and the range that is accepted.  *)
Lengths == [unit |-> 20, json |-> 2, ini |-> 20]
Number ==
    [ pos_v      |-> [unit |-> 1, json |-> 1, ini |-> 1],
      pos_h      |-> [unit |-> 1, json |-> 1, ini |-> 1],
      offset_x   |-> Lengths,
      font_size  |-> [unit |-> 1, json |-> 1, ini |-> 1],
      bar_height |-> Lengths,
      bg_opacity |-> [unit |-> 200, json |-> 2, ini |-> 2],
      web_port   |-> [unit |-> 1, json |-> 1, ini |-> 1] ]

Integral == {"pos_v", "pos_h", "font_size", "web_port"}

(* Faulty variants, further down: the range is not checked; JSON prints one *)
(* digit of the opacity; the file has it in percent, without digits.  The   *)
(* ranges are those both parsers check; config.hpp documents narrower ones, *)
(* 12..36 for the font size and 24..60 for the height of the bar.           *)
InRange(s, n) ==
    CASE s = "font_size"  -> n \in 10 .. 48
      [] s = "bar_height" -> n \in 20 * 20 .. 80 * 20
      [] s = "bg_opacity" -> n \in 0 .. 200
      [] s = "web_port"   -> n \in 1024 .. 65535
      [] OTHER            -> TRUE

(* parse_int and json_get_int add digit to digit in an int: what comes of a *)
(* number that does not fit wraps around in the build.                      *)
Ints == -INT_MAX - 1 .. INT_MAX
Wrap(n) == ((n + INT_MAX + 1) % (2 * INT_MAX + 2)) - INT_MAX - 1
Parse(s, text) == IF s \in Integral THEN Wrap(text) ELSE text

(* What printf may print: a value half way between two is printed as either.*)
Nearest(n, step) ==
    {k \in {(n \div step) * step, (n \div step) * step + step} :
        2 * (IF k > n THEN k - n ELSE n - k) <= step}

NumberFromJson_Unchecked(s, text, old) ==
    IF s # "web_port" /\ text # Absent THEN Parse(s, text) ELSE old

NumberFromJson(s, text, old) ==
    IF s # "web_port" /\ text # Absent /\ InRange(s, Parse(s, text)) THEN Parse(s, text) ELSE old

NumberToJson_OneDigit(s, n) ==
    IF s = "bg_opacity" THEN Nearest(n, 20) ELSE Nearest(n, Number[s].json)

NumberToJson(s, n) == IF s = "web_port" THEN {Absent} ELSE Nearest(n, Number[s].json)

(* Positions are names in the file; an opacity above 1 is a percentage.     *)
NumberFromIni(s, text, old) ==
    LET n == Parse(s, text)
        read == CASE s = "pos_v" -> IF text = 1 THEN 1 ELSE 0
                  [] s = "pos_h" -> IF text \in {1, 2} THEN text ELSE 0
                  [] s = "bg_opacity" -> IF n > 200 THEN n \div 100 ELSE n
                  [] OTHER -> n
    IN  IF text # Absent /\ InRange(s, read) THEN read ELSE old

NumberToIni_Percent(s, n) ==
    CASE s = "pos_v" -> {IF n = 1 THEN 1 ELSE 0}
      [] s = "pos_h" -> {IF n \in {1, 2} THEN n ELSE 0}
      [] s = "bg_opacity" -> Nearest(n * 100, 200)
      [] OTHER -> Nearest(n, Number[s].ini)

NumberToIni(s, n) ==
    CASE s = "pos_v" -> {IF n = 1 THEN 1 ELSE 0}
      [] s = "pos_h" -> {IF n \in {1, 2} THEN n ELSE 0}
      [] OTHER -> Nearest(n, Number[s].ini)
-----------------------------------------------------------------------------
(* A colour: '#' and the characters of one channel, two instead of six.     *)
(* Hexadecimal digits, any other characters, which count as zero, and among *)
(* these the ones that mean something to the reader of the file.  A text    *)
(* that does not begin with '#' or is too short is Absent.                  *)
Blank == 17
LineBreak == 18
hex_char_to_int(c) == IF c \in 0 .. 15 THEN c ELSE 0
hex_to_rgb(hex) == 16 * hex_char_to_int(hex[1]) + hex_char_to_int(hex[2])

(* The file has the text as it is; its reader stops at the end of the line, *)
(* takes the blanks off the end, and then finds the text too short.         *)
CutShort(hex) == hex[1] = LineBreak \/ hex[2] \in {Blank, LineBreak}

ColorFromJson(text, old) == IF text # Absent THEN text ELSE old
ColorFromIni(text, old) == IF text # Absent /\ ~CutShort(text) THEN text ELSE old
-----------------------------------------------------------------------------
(* The switches.  A document has a switch of its own, before or after the   *)
(* objects of the metrics, and an object for some metrics, each with or     *)
(* without a switch; the objects stand in the order of the metrics, inside  *)
(* "metrics" or not.                                                        *)
Switch == {"true", "false"}
NoObject == "no object"

ReadBool(text, old) == IF text \in Switch THEN text = "true" ELSE old
PrintBool(b) == IF b THEN "true" ELSE "false"

(* json_find_key(json, "enabled") returns the first place in the text: that *)
(* may be the switch of a metric.                                           *)
FindEnabled(doc) ==
    LET having == {k \in Metric : doc.metrics[k] \in Switch}
    IN  IF doc.before # Absent THEN doc.before
        ELSE IF having # {} THEN doc.metrics[CHOOSE k \in having : \A l \in having : k <= l]
        ELSE doc.after

SwitchesFromJson(doc, old) ==
    [enabled |-> ReadBool(FindEnabled(doc), old.enabled),
     metric |-> [k \in Metric |-> ReadBool(doc.metrics[k], old.metric[k])]]

SwitchValues == [enabled : BOOLEAN, metric : [Metric -> BOOLEAN]]

SwitchesToJson(v) ==
    [before |-> PrintBool(v.enabled), after |-> Absent,
     metrics |-> [k \in Metric |-> PrintBool(v.metric[k])]]

(* In the file a section names the metric its switch belongs to, and a name *)
(* nobody knows is the one of fps.  Sections are read one after the other.  *)
SwitchesFromIni(text, old) ==
    LET ReadSections[n \in 0 .. Len(text.sections)] ==
            IF n = 0 THEN old.metric
            ELSE LET section == text.sections[n]
                 IN  [ReadSections[n - 1] EXCEPT ![str_to_metric_type(section.name)] =
                         ReadBool(section.enabled, @)]
    IN  [enabled |-> ReadBool(text.enabled, old.enabled),
         metric |-> ReadSections[Len(text.sections)]]

SwitchesToIni(v) ==
    [enabled |-> PrintBool(v.enabled),
     sections |-> [k \in 1 .. METRIC_COUNT |->
                      [name |-> k - 1, enabled |-> PrintBool(v.metric[k - 1])]]]
-----------------------------------------------------------------------------
(* Every setting the same way.                                              *)
Setting == (DOMAIN Number) \cup {"bg_color", "switches", "order"}

FromJson(s, text, old) ==
    IF s = "bg_color" THEN ColorFromJson(text, old)
    ELSE IF s = "switches" THEN SwitchesFromJson(text, old)
    ELSE NumberFromJson(s, text, old)

ToJson(s, v) ==
    IF s = "bg_color" THEN {v}
    ELSE IF s = "switches" THEN {SwitchesToJson(v)}
    ELSE NumberToJson(s, v)

FromIni(s, text, old) ==
    IF s = "bg_color" THEN ColorFromIni(text, old)
    ELSE IF s = "switches" THEN SwitchesFromIni(text, old)
    ELSE NumberFromIni(s, text, old)

ToIni(s, v) ==
    IF s = "bg_color" THEN {v}
    ELSE IF s = "switches" THEN {SwitchesToIni(v)}
    ELSE NumberToIni(s, v)

(* What the HUD makes of a value: a position it does not know is the top or *)
(* the left.                                                                *)
Drawn(s, v) ==
    CASE s = "pos_v" -> IF v = 1 THEN 1 ELSE 0
      [] s = "pos_h" -> IF v \in {1, 2} THEN v ELSE 0
      [] s = "bg_color" -> hex_to_rgb(v)
      [] OTHER -> v

(* As near as the digits that were printed allow.                           *)
Close(s, a, b, step) ==
    IF s \in DOMAIN Number
    THEN 2 * (Drawn(s, a) - Drawn(s, b)) <= step /\ 2 * (Drawn(s, b) - Drawn(s, a)) <= step
    ELSE Drawn(s, a) = Drawn(s, b)
=============================================================================
