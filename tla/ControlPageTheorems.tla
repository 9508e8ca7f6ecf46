-------------------------- MODULE ControlPageTheorems --------------------------
(***************************************************************************)
(* The control page against the console, for any number of pages, metrics  *)
(* and numbers: a save of what was loaded, and a restart over what was     *)
(* saved, leave on the screen what was there, to the printed digits, but   *)
(* for the colours that the reader of the file refuses.                    *)
(***************************************************************************)
EXTENDS ControlPage, ConfigOrderTheorems

JsonStep(s) == IF s \in DOMAIN Number THEN Number[s].json ELSE 0
IniStep(s) == IF s \in DOMAIN Number THEN Number[s].ini ELSE 0

(* What a text of a setting, and its value in the console, can be.          *)
JsonText(s, t) ==
    /\ s = "order" => t \in Seq(Tokens("json"))
    /\ s \in DOMAIN Number => t \in Int \cup {Absent}
IniText(s, t) ==
    /\ s = "order" => t \in Seq(Tokens("ini"))
    /\ s \in DOMAIN Number => t \in Int \cup {Absent}
    /\ s = "switches" => Len(t.sections) \in Nat
Valid(s, v) ==
    /\ s \in DOMAIN Number => v \in Int /\ InRange(s, v) /\ (s \in Integral => v \in Ints)
    /\ s = "bg_color" => v # Absent
    /\ s = "switches" => v \in SwitchValues

LEMMA SettingFacts ==
    /\ DOMAIN Number = {"pos_v", "pos_h", "offset_x", "font_size", "bar_height", "bg_opacity",
                        "web_port"}
    /\ Integral = {"pos_v", "pos_h", "font_size", "web_port"}
    /\ Setting = DOMAIN Number \cup {"bg_color", "switches", "order"}
    /\ "bg_color" \notin DOMAIN Number /\ "switches" \notin DOMAIN Number
    /\ "order" \notin DOMAIN Number
BY DEF Number, Integral, Setting

(* The digits that are printed.                                             *)
LEMMA Steps ==
    /\ Number["pos_v"].json = 1 /\ Number["pos_h"].json = 1 /\ Number["offset_x"].json = 2
    /\ Number["font_size"].json = 1 /\ Number["bar_height"].json = 2
    /\ Number["bg_opacity"].json = 2 /\ Number["web_port"].json = 1
    /\ Number["pos_v"].ini = 1 /\ Number["pos_h"].ini = 1 /\ Number["offset_x"].ini = 20
    /\ Number["font_size"].ini = 1 /\ Number["bar_height"].ini = 20
    /\ Number["bg_opacity"].ini = 2 /\ Number["web_port"].ini = 1
BY DEF Number, Lengths

(* A printed number is a multiple of its last digit, at most half of it away.*)
LEMMA Rounding ==
    ASSUME NEW n \in Int, NEW step \in {1, 2, 20}, NEW k \in Nearest(n, step)
    PROVE  /\ k \in Int
           /\ 2 * (n - k) <= step /\ 2 * (k - n) <= step
           /\ \E q \in Int : k = q * step
<1>1. /\ k \in {(n \div step) * step, (n \div step) * step + step}
      /\ 2 * (IF k > n THEN k - n ELSE n - k) <= step
  BY DEF Nearest
<1>2. n \div step \in Int
  OBVIOUS
<1>3. k = (n \div step) * step \/ k = (n \div step + 1) * step
  <2>1. CASE step = 1
    BY <1>1, <1>2, <2>1
  <2>2. CASE step = 2
    BY <1>1, <1>2, <2>2
  <2>3. CASE step = 20
    BY <1>1, <1>2, <2>3
  <2> QED
    BY <2>1, <2>2, <2>3
<1>4. k \in Int
  BY <1>2, <1>3
<1>5. 2 * (n - k) <= step /\ 2 * (k - n) <= step
  BY <1>1, <1>4
<1>6. \E q \in Int : k = q * step
  <2>1. CASE k = (n \div step) * step
    BY <1>2, <2>1
  <2>2. CASE k = (n \div step + 1) * step
    <3>1. n \div step + 1 \in Int
      BY <1>2
    <3> QED
      BY <2>2, <3>1
  <2> QED
    BY <1>3, <2>1, <2>2
<1> QED
  BY <1>4, <1>5, <1>6

LEMMA Modulus ==
    ASSUME NEW a \in Int, NEW b \in Nat \ {0}
    PROVE  /\ a % b \in 0 .. b - 1
           /\ a \in 0 .. b - 1 => a % b = a
OBVIOUS

(* A number that fits is parsed as it is, and any other becomes one that    *)
(* fits.                                                                    *)
LEMMA WrapFits ==
    ASSUME NEW n \in Int
    PROVE  Wrap(n) \in Ints /\ (n \in Ints => Wrap(n) = n)
<1> DEFINE a == n + INT_MAX + 1
<1> DEFINE b == 2 * INT_MAX + 2
<1>1. INT_MAX \in Nat /\ b \in Nat \ {0} /\ a \in Int
  BY IntAssumption
<1>2. Wrap(n) = (a % b) - INT_MAX - 1
  BY DEF Wrap
<1>3. \A x \in Int, y \in Nat \ {0} : x % y \in 0 .. y - 1 /\ (x \in 0 .. y - 1 => x % y = x)
  BY Modulus
<1> HIDE DEF a, b
<1>4. a % b \in 0 .. b - 1 /\ (a \in 0 .. b - 1 => a % b = a)
  BY <1>1, <1>3
<1> USE DEF a, b
<1> QED
  BY <1>1, <1>2, <1>4 DEF Ints

LEMMA ParsedIsInt ==
    ASSUME NEW s, NEW t \in Int
    PROVE  /\ Parse(s, t) \in Int
           /\ s \in Integral => Parse(s, t) \in Ints
           /\ s \notin Integral \/ t \in Ints => Parse(s, t) = t
BY WrapFits DEF Parse, Ints

(* A setting keeps its range whatever a text says.                          *)
LEMMA NumberFromJsonValid ==
    ASSUME NEW s \in DOMAIN Number, NEW t \in Int \cup {Absent}, NEW old, Valid(s, old)
    PROVE  Valid(s, NumberFromJson(s, t, old))
<1>1. CASE s # "web_port" /\ t # Absent /\ InRange(s, Parse(s, t))
  <2>1. Parse(s, t) \in Int /\ (s \in Integral => Parse(s, t) \in Ints)
    BY <1>1, ParsedIsInt
  <2> QED
    BY <1>1, <2>1, SettingFacts DEF NumberFromJson, Valid
<1>2. CASE ~(s # "web_port" /\ t # Absent /\ InRange(s, Parse(s, t)))
  BY <1>2 DEF NumberFromJson
<1> QED
  BY <1>1, <1>2

(* What is made of a number of the file before its range is checked.        *)
LEMMA NumberFromIniCases ==
    ASSUME NEW s \in DOMAIN Number, NEW t \in Int \cup {Absent}, NEW old
    PROVE  \/ NumberFromIni(s, t, old) = old
           \/ /\ t \in Int
              /\ s = "pos_v" => NumberFromIni(s, t, old) \in {0, 1}
              /\ s = "pos_h" => NumberFromIni(s, t, old) \in {0, 1, 2}
              /\ s = "bg_opacity" => NumberFromIni(s, t, old) \in 0 .. 200
              /\ s \notin {"pos_v", "pos_h", "bg_opacity"} =>
                    /\ NumberFromIni(s, t, old) = Parse(s, t)
                    /\ InRange(s, Parse(s, t))
<1>1. CASE t = Absent
  BY <1>1 DEF NumberFromIni
<1>2. CASE t \in Int
  <2>1. CASE s = "pos_v"
    BY <1>2, <2>1 DEF NumberFromIni
  <2>2. CASE s = "pos_h"
    BY <1>2, <2>2 DEF NumberFromIni
  <2>3. CASE s = "bg_opacity"
    BY <1>2, <2>3, AbsentAssumption DEF NumberFromIni, InRange
  <2>4. CASE s \notin {"pos_v", "pos_h", "bg_opacity"}
    BY <1>2, <2>4 DEF NumberFromIni
  <2> QED
    BY <2>1, <2>2, <2>3, <2>4
<1> QED
  BY <1>1, <1>2

LEMMA CasesValid ==
    ASSUME NEW s \in DOMAIN Number, NEW t \in Int, NEW v,
           s = "pos_v" => v \in {0, 1},
           s = "pos_h" => v \in {0, 1, 2},
           s = "bg_opacity" => v \in 0 .. 200,
           s \notin {"pos_v", "pos_h", "bg_opacity"} => v = Parse(s, t) /\ InRange(s, Parse(s, t))
    PROVE  v \in Int /\ InRange(s, v) /\ (s \in Integral => v \in Ints)
<1>1. CASE s \in {"pos_v", "pos_h"}
  <2>1. v \in {0, 1, 2}
    BY <1>1
  <2>2. InRange(s, v)
    <3>1. CASE s = "pos_v"
      BY <3>1 DEF InRange
    <3>2. CASE s = "pos_h"
      BY <3>2 DEF InRange
    <3> QED
      BY <1>1, <3>1, <3>2
  <2>3. v \in Int /\ v \in Ints
    BY <2>1, IntAssumption DEF Ints
  <2> QED
    BY <2>2, <2>3
<1>2. CASE s = "bg_opacity"
  BY <1>2, SettingFacts DEF InRange
<1>3. CASE s \notin {"pos_v", "pos_h", "bg_opacity"}
  BY <1>3, ParsedIsInt
<1> QED
  BY <1>1, <1>2, <1>3

LEMMA NumberFromIniValid ==
    ASSUME NEW s \in DOMAIN Number, NEW t \in Int \cup {Absent}, NEW old, Valid(s, old)
    PROVE  Valid(s, NumberFromIni(s, t, old))
<1>1. CASE NumberFromIni(s, t, old) = old
  BY <1>1
<1>2. CASE NumberFromIni(s, t, old) # old
  <2>1. PICK v : v = NumberFromIni(s, t, old)
    OBVIOUS
  <2>2. /\ t \in Int
        /\ s = "pos_v" => v \in {0, 1}
        /\ s = "pos_h" => v \in {0, 1, 2}
        /\ s = "bg_opacity" => v \in 0 .. 200
        /\ s \notin {"pos_v", "pos_h", "bg_opacity"} =>
              v = Parse(s, t) /\ InRange(s, Parse(s, t))
    BY <1>2, <2>1, NumberFromIniCases
  <2>3. v \in Int /\ InRange(s, v) /\ (s \in Integral => v \in Ints)
    BY <2>2, CasesValid
  <2> QED
    BY <2>1, <2>3, SettingFacts DEF Valid
<1> QED
  BY <1>1, <1>2

(* The drawn value of a number moves no more than the number.               *)
LEMMA CloseNumbers ==
    ASSUME NEW s \in DOMAIN Number, NEW a \in Int, NEW b \in Int, NEW step \in Nat,
           \/ s \notin {"pos_v", "pos_h"} /\ 2 * (a - b) <= step /\ 2 * (b - a) <= step
           \/ a = b
           \/ Drawn(s, a) = Drawn(s, b)
    PROVE  Close(s, a, b, step)
<1>1. CASE s \in {"pos_v", "pos_h"}
  BY <1>1 DEF Close, Drawn
<1>2. CASE s \notin {"pos_v", "pos_h"}
  <2>1. Drawn(s, a) = a /\ Drawn(s, b) = b
    BY <1>2, SettingFacts DEF Drawn
  <2> QED
    BY <2>1 DEF Close
<1> QED
  BY <1>1, <1>2

(* Printed digits stay within the range of the setting.                     *)
LEMMA RoundedInRange ==
    ASSUME NEW s \in DOMAIN Number, NEW n \in Int, InRange(s, n),
           NEW step \in {Number[s].json, Number[s].ini}, NEW k \in Nearest(n, step)
    PROVE  /\ k \in Int /\ InRange(s, k)
           /\ 2 * (n - k) <= step /\ 2 * (k - n) <= step
           /\ step = 1 => k = n
           /\ step \in Nat
<1>1. step \in {1, 2, 20}
  BY Steps, SettingFacts
<1>2. /\ k \in Int /\ 2 * (n - k) <= step /\ 2 * (k - n) <= step
      /\ \E q \in Int : k = q * step
  BY <1>1, Rounding
<1>3. step = 1 => k = n
  BY <1>2
<1>4. InRange(s, k)
  <2>1. CASE step = 1
    BY <1>3, <2>1
  <2>2. CASE s = "bar_height"
    <3>1. n \in 400 .. 1600
      BY <2>2 DEF InRange
    <3>2. step \in {2, 20}
      BY <2>2, Steps
    <3>3. CASE step = 2
      <4>1. PICK q \in Int : k = q * 2
        BY <1>2, <3>3
      <4>2. k \in 400 .. 1600
        BY <1>2, <3>1, <3>3, <4>1
      <4> QED
        BY <2>2, <4>2 DEF InRange
    <3>4. CASE step = 20
      <4>1. PICK q \in Int : k = q * 20
        BY <1>2, <3>4
      <4>2. k \in 400 .. 1600
        <5>1. 2 * (n - k) <= 20 /\ 2 * (k - n) <= 20
          BY <1>2, <3>4
        <5>2. 20 <= q /\ q <= 80
          BY <3>1, <4>1, <5>1
        <5> QED
          BY <4>1, <5>2
      <4> QED
        BY <2>2, <4>2 DEF InRange
    <3> QED
      BY <3>2, <3>3, <3>4
  <2>3. CASE s = "bg_opacity"
    <3>1. n \in 0 .. 200
      BY <2>3 DEF InRange
    <3>2. step = 2
      BY <2>3, Steps
    <3> QED
      BY <1>2, <2>3, <3>1, <3>2 DEF InRange
  <2>4. CASE s = "offset_x"
    BY <2>4 DEF InRange
  <2> QED
    BY <2>1, <2>2, <2>3, <2>4, Steps, SettingFacts
<1> QED
  BY <1>1, <1>2, <1>3, <1>4

(* What JSON printed is read back to within a digit.                        *)
LEMMA NumberJsonRound ==
    ASSUME NEW s \in DOMAIN Number, NEW v, Valid(s, v), NEW t \in NumberToJson(s, v)
    PROVE  /\ t \in Int \cup {Absent}
           /\ Close(s, v, NumberFromJson(s, t, v), Number[s].json)
<1>0. v \in Int /\ InRange(s, v) /\ (s \in Integral => v \in Ints)
  BY DEF Valid
<1>1. Number[s].json \in {1, 2}
  BY Steps, SettingFacts
<1>2. CASE s = "web_port"
  <2>1. t = Absent /\ NumberFromJson(s, t, v) = v
    BY <1>2 DEF NumberToJson, NumberFromJson
  <2> QED
    BY <1>0, <1>1, <2>1, CloseNumbers
<1>3. CASE s # "web_port"
  <2>1. t \in Nearest(v, Number[s].json)
    BY <1>3 DEF NumberToJson
  <2>2. /\ t \in Int /\ InRange(s, t)
        /\ 2 * (v - t) <= Number[s].json /\ 2 * (t - v) <= Number[s].json
        /\ Number[s].json = 1 => t = v
    BY <1>0, <2>1, RoundedInRange
  <2>3. s \in Integral => Number[s].json = 1
    BY Steps, SettingFacts
  <2>4. Parse(s, t) = t
    BY <1>0, <2>2, <2>3, ParsedIsInt
  <2>5. NumberFromJson(s, t, v) = t
    BY <1>3, <2>2, <2>4, AbsentAssumption DEF NumberFromJson
  <2>6. s \in {"pos_v", "pos_h"} => t = v
    BY <2>2, <2>3, SettingFacts
  <2> QED
    BY <1>0, <1>1, <2>2, <2>5, <2>6, CloseNumbers
<1> QED
  BY <1>2, <1>3

(* What the file holds is read back, over any defaults, to within a digit.  *)
LEMMA NumberIniRound ==
    ASSUME NEW s \in DOMAIN Number, NEW v, Valid(s, v), NEW t \in NumberToIni(s, v), NEW d
    PROVE  /\ t \in Int
           /\ Close(s, v, NumberFromIni(s, t, d), Number[s].ini)
<1>0. v \in Int /\ InRange(s, v) /\ (s \in Integral => v \in Ints)
  BY DEF Valid
<1>1. Number[s].ini \in {1, 2, 20}
  BY Steps, SettingFacts
<1>2. CASE s = "pos_v"
  <2>1. t = Drawn(s, v) /\ t \in {0, 1}
    BY <1>2 DEF NumberToIni, Drawn
  <2>2. t # Absent
    BY <2>1, AbsentAssumption
  <2>3. NumberFromIni(s, t, d) = t
    BY <1>2, <2>1, <2>2 DEF NumberFromIni, InRange
  <2>4. Drawn(s, t) = Drawn(s, v)
    BY <1>2, <2>1 DEF Drawn
  <2> QED
    BY <1>0, <1>1, <2>1, <2>3, <2>4, CloseNumbers
<1>3. CASE s = "pos_h"
  <2>1. t = Drawn(s, v) /\ t \in {0, 1, 2}
    BY <1>3 DEF NumberToIni, Drawn
  <2>2. t # Absent
    BY <2>1, AbsentAssumption
  <2>3. NumberFromIni(s, t, d) = t
    BY <1>3, <2>1, <2>2 DEF NumberFromIni, InRange
  <2>4. Drawn(s, t) = Drawn(s, v)
    BY <1>3, <2>1 DEF Drawn
  <2> QED
    BY <1>0, <1>1, <2>1, <2>3, <2>4, CloseNumbers
<1>4. CASE s \notin {"pos_v", "pos_h"}
  <2>1. t \in Nearest(v, Number[s].ini)
    BY <1>4 DEF NumberToIni
  <2>2. /\ t \in Int /\ InRange(s, t)
        /\ 2 * (v - t) <= Number[s].ini /\ 2 * (t - v) <= Number[s].ini
        /\ Number[s].ini = 1 => t = v
    BY <1>0, <2>1, RoundedInRange
  <2>3. s \in Integral => Number[s].ini = 1
    BY Steps, SettingFacts
  <2>4. Parse(s, t) = t /\ t # Absent
    BY <1>0, <2>2, <2>3, ParsedIsInt, AbsentAssumption
  <2>5. NumberFromIni(s, t, d) = t
    <3>1. CASE s = "bg_opacity"
      <4>1. ~(t > 200)
        BY <2>2, <3>1 DEF InRange
      <4> QED
        BY <2>2, <2>4, <3>1, <4>1 DEF NumberFromIni
    <3>2. CASE s # "bg_opacity"
      BY <1>4, <2>2, <2>4, <3>2 DEF NumberFromIni
    <3> QED
      BY <3>1, <3>2
  <2> QED
    BY <1>0, <1>1, <1>4, <2>2, <2>5, CloseNumbers
<1> QED
  BY <1>2, <1>3, <1>4

-----------------------------------------------------------------------------
(* Induction over the numbers, as a fact about sets of numbers.             *)
LEMMA NatSetInduction ==
    ASSUME NEW T, 0 \in T, \A n \in Nat : n \in T => n + 1 \in T
    PROVE  \A n \in Nat : n \in T
<1> DEFINE R == {ss \in Nat \X Nat : ss[1] < ss[2]}
<1>1. IsWellFoundedOn(R, Nat)
  BY NatLessThanWellFounded DEF OpToRel
<1>2. SUFFICES ASSUME Nat \ T # {} PROVE FALSE
  OBVIOUS
<1>3. PICK x \in Nat \ T : \A y \in Nat \ T : <<y, x>> \notin R
  <2> HIDE DEF R
  <2> QED
    BY <1>1, <1>2, WFMin
<1>4. x # 0 /\ x - 1 \in Nat /\ <<x - 1, x>> \in R
  OBVIOUS
<1>5. x - 1 \in T
  BY <1>3, <1>4
<1> QED
  BY <1>3, <1>4, <1>5

(* A function that is defined from its value one below exists.              *)
StepByStep(g, N, M, a, step) ==
    g \in [0 .. N -> M] /\ g[0] = a /\ \A n \in 1 .. N : g[n] = step[n][g[n - 1]]

LEMMA FiniteRecursion ==
    ASSUME NEW N \in Nat, NEW M, NEW a \in M, NEW step \in [1 .. N -> [M -> M]]
    PROVE  \E g : StepByStep(g, N, M, a, step)
<1> SUFFICES \E g \in [0 .. N -> M] :
                 g[0] = a /\ \A n \in 1 .. N : g[n] = step[n][g[n - 1]]
  BY DEF StepByStep
<1> DEFINE T == {k \in Nat : k <= N => \E g \in [0 .. k -> M] :
                    g[0] = a /\ \A n \in 1 .. k : g[n] = step[n][g[n - 1]]}
<1>1. 0 \in T
  <2> DEFINE g == [n \in 0 .. 0 |-> a]
  <2>1. g \in [0 .. 0 -> M] /\ g[0] = a /\ \A n \in 1 .. 0 : g[n] = step[n][g[n - 1]]
    OBVIOUS
  <2> HIDE DEF g
  <2>2. \E h \in [0 .. 0 -> M] : h[0] = a /\ \A n \in 1 .. 0 : h[n] = step[n][h[n - 1]]
    BY <2>1
  <2> QED
    BY <2>2
<1>2. ASSUME NEW k \in Nat, k \in T, k + 1 <= N PROVE k + 1 \in T
  <2>1. PICK g \in [0 .. k -> M] : g[0] = a /\ \A n \in 1 .. k : g[n] = step[n][g[n - 1]]
    BY <1>2
  <2> DEFINE h == [n \in 0 .. k + 1 |-> IF n = k + 1 THEN step[k + 1][g[k]] ELSE g[n]]
  <2>2. step[k + 1] \in [M -> M] /\ g[k] \in M
    BY <1>2, <2>1
  <2>3. h \in [0 .. k + 1 -> M]
    BY <2>1, <2>2
  <2>4. h[0] = a
    BY <2>1
  <2>5. ASSUME NEW n \in 1 .. k + 1 PROVE h[n] = step[n][h[n - 1]]
    <3>1. CASE n = k + 1
      BY <3>1
    <3>2. CASE n \in 1 .. k
      <4>1. n - 1 \in 0 .. k /\ n \in 0 .. k
        BY <3>2
      <4>2. h[n] = g[n] /\ h[n - 1] = g[n - 1]
        BY <4>1
      <4> QED
        BY <2>1, <3>2, <4>2
    <3> QED
      BY <3>1, <3>2
  <2> HIDE DEF h
  <2> QED
    BY <2>3, <2>4, <2>5
<1>3. \A k \in Nat : k \in T => k + 1 \in T
  <2>1. \A k \in Nat : ~(k + 1 <= N) => k + 1 \in T
    OBVIOUS
  <2> HIDE DEF T
  <2> QED
    BY <1>2, <2>1
<1>4. N \in T
  <2> HIDE DEF T
  <2> QED
    BY <1>1, <1>3, NatSetInduction
<1> QED
  BY <1>4

(* The switches of the metrics after the first n sections of a file.        *)
SectionRead(section, metric) ==
    [metric EXCEPT ![str_to_metric_type(section.name)] = ReadBool(section.enabled, @)]
IsReading(f, sections, metric) ==
    f = [n \in 0 .. Len(sections) |->
            IF n = 0 THEN metric ELSE SectionRead(sections[n], f[n - 1])]

LEMMA SectionReadType ==
    ASSUME NEW section, NEW metric \in [Metric -> BOOLEAN]
    PROVE  SectionRead(section, metric) \in [Metric -> BOOLEAN]
BY MetricOfToken DEF SectionRead, ReadBool

LEMMA ReadingExists ==
    ASSUME NEW sections, Len(sections) \in Nat, NEW metric \in [Metric -> BOOLEAN]
    PROVE  \E f : IsReading(f, sections, metric)
<1>1. PICK N \in Nat : N = Len(sections)
  OBVIOUS
<1>2. PICK M : M = [Metric -> BOOLEAN]
  OBVIOUS
<1>3. PICK step : step = [n \in 1 .. N |-> [g \in M |-> SectionRead(sections[n], g)]]
  OBVIOUS
<1>4. step \in [1 .. N -> [M -> M]]
  BY <1>2, <1>3, SectionReadType
<1>5. metric \in M
  BY <1>2
<1>6. PICK f : StepByStep(f, N, M, metric, step)
  BY <1>4, <1>5, FiniteRecursion
<1>7. f \in [0 .. N -> M] /\ f[0] = metric /\ \A n \in 1 .. N : f[n] = step[n][f[n - 1]]
  BY <1>6 DEF StepByStep
<1>8. ASSUME NEW n \in 0 .. N
      PROVE  f[n] = IF n = 0 THEN metric ELSE SectionRead(sections[n], f[n - 1])
  <2>1. CASE n = 0
    BY <1>7, <2>1
  <2>2. CASE n # 0
    <3>1. n \in 1 .. N /\ n - 1 \in 0 .. N
      BY <2>2
    <3>2. f[n] = step[n][f[n - 1]] /\ f[n - 1] \in M
      BY <1>7, <3>1
    <3>3. step[n][f[n - 1]] = SectionRead(sections[n], f[n - 1])
      BY <1>3, <3>1, <3>2
    <3> QED
      BY <2>2, <3>2, <3>3
  <2> QED
    BY <2>1, <2>2
<1>9. IsReading(f, sections, metric)
  BY <1>1, <1>7, <1>8 DEF IsReading
<1> QED
  BY <1>9

LEMMA ReadingType ==
    ASSUME NEW f, NEW sections, Len(sections) \in Nat, NEW metric \in [Metric -> BOOLEAN],
           IsReading(f, sections, metric)
    PROVE  \A n \in 0 .. Len(sections) : f[n] \in [Metric -> BOOLEAN]
<1> DEFINE T == {n \in Nat : n <= Len(sections) => f[n] \in [Metric -> BOOLEAN]}
<1>1. 0 \in T
  BY DEF IsReading
<1>2. ASSUME NEW n \in Nat, n \in T, n + 1 <= Len(sections) PROVE n + 1 \in T
  <2>1. f[n] \in [Metric -> BOOLEAN]
    BY <1>2
  <2>2. f[n + 1] = SectionRead(sections[n + 1], f[n])
    BY <1>2 DEF IsReading
  <2> QED
    BY <2>1, <2>2, SectionReadType
<1>3. \A n \in Nat : n \in T => n + 1 \in T
  BY <1>2
<1>4. \A n \in Nat : n \in T
  <2> HIDE DEF T
  <2> QED
    BY <1>1, <1>3, NatSetInduction
<1> QED
  BY <1>4

(* What config_load() makes of the sections is such a reading.              *)
LEMMA SwitchesFromIniIs ==
    ASSUME NEW text, Len(text.sections) \in Nat, NEW old, old.metric \in [Metric -> BOOLEAN]
    PROVE  \E f : /\ IsReading(f, text.sections, old.metric)
                  /\ SwitchesFromIni(text, old) =
                        [enabled |-> ReadBool(text.enabled, old.enabled),
                         metric |-> f[Len(text.sections)]]
<1> DEFINE F == CHOOSE f : IsReading(f, text.sections, old.metric)
<1>1. IsReading(F, text.sections, old.metric)
  <2>1. \E f : IsReading(f, text.sections, old.metric)
    BY ReadingExists
  <2> QED
    BY <2>1
<1>2. SwitchesFromIni(text, old) =
         [enabled |-> ReadBool(text.enabled, old.enabled), metric |-> F[Len(text.sections)]]
  BY DEF SwitchesFromIni, IsReading, SectionRead
<1> QED
  BY <1>1, <1>2

LEMMA SwitchWords ==
    /\ \A b \in BOOLEAN : \A old : ReadBool(PrintBool(b), old) = b
    /\ \A b : PrintBool(b) # Absent
    /\ \A text : \A old \in BOOLEAN : ReadBool(text, old) \in BOOLEAN
BY AbsentAssumption DEF ReadBool, PrintBool, Switch

LEMMA SwitchesJsonValid ==
    ASSUME NEW doc, NEW old \in SwitchValues
    PROVE  SwitchesFromJson(doc, old) \in SwitchValues
<1>1. ReadBool(FindEnabled(doc), old.enabled) \in BOOLEAN
  BY SwitchWords DEF SwitchValues
<1>2. [k \in Metric |-> ReadBool(doc.metrics[k], old.metric[k])] \in [Metric -> BOOLEAN]
  BY SwitchWords DEF SwitchValues
<1> QED
  BY <1>1, <1>2 DEF SwitchesFromJson, SwitchValues

(* The document the console prints is read as it was meant.                 *)
LEMMA SwitchesJsonRound ==
    ASSUME NEW v \in SwitchValues, NEW old
    PROVE  SwitchesFromJson(SwitchesToJson(v), old) = v
<1> DEFINE doc == SwitchesToJson(v)
<1>1. /\ doc.before = PrintBool(v.enabled)
      /\ doc.metrics = [k \in Metric |-> PrintBool(v.metric[k])]
  BY DEF SwitchesToJson
<1>2. FindEnabled(doc) = PrintBool(v.enabled)
  BY <1>1, SwitchWords DEF FindEnabled
<1> HIDE DEF doc
<1>3. v.enabled \in BOOLEAN /\ v.metric \in [Metric -> BOOLEAN]
      /\ v = [enabled |-> v.enabled, metric |-> v.metric]
  BY DEF SwitchValues
<1>4. ReadBool(FindEnabled(doc), old.enabled) = v.enabled
  BY <1>2, <1>3, SwitchWords
<1>5. [k \in Metric |-> ReadBool(doc.metrics[k], old.metric[k])] = v.metric
  <2>1. ASSUME NEW k \in Metric PROVE ReadBool(doc.metrics[k], old.metric[k]) = v.metric[k]
    BY <1>1, <1>3, SwitchWords
  <2> QED
    BY <1>3, <2>1
<1> QED
  BY <1>3, <1>4, <1>5 DEF SwitchesFromJson, doc

LEMMA SwitchesIniValid ==
    ASSUME NEW text, Len(text.sections) \in Nat, NEW old \in SwitchValues
    PROVE  SwitchesFromIni(text, old) \in SwitchValues
<1>1. old.enabled \in BOOLEAN /\ old.metric \in [Metric -> BOOLEAN]
  BY DEF SwitchValues
<1>2. PICK f : /\ IsReading(f, text.sections, old.metric)
               /\ SwitchesFromIni(text, old) =
                     [enabled |-> ReadBool(text.enabled, old.enabled),
                      metric |-> f[Len(text.sections)]]
  BY <1>1, SwitchesFromIniIs
<1>3. f[Len(text.sections)] \in [Metric -> BOOLEAN]
  <2>1. Len(text.sections) \in 0 .. Len(text.sections)
    OBVIOUS
  <2> QED
    BY <1>1, <1>2, <2>1, ReadingType
<1>4. ReadBool(text.enabled, old.enabled) \in BOOLEAN
  BY <1>1, SwitchWords
<1> QED
  BY <1>2, <1>3, <1>4 DEF SwitchValues

(* The sections of the metrics, one after the other, set every switch.      *)
LEMMA SwitchesIniRound ==
    ASSUME NEW v \in SwitchValues, NEW old \in SwitchValues
    PROVE  SwitchesFromIni(SwitchesToIni(v), old) = v /\ Len(SwitchesToIni(v).sections) \in Nat
<1> DEFINE sections == [k \in 1 .. METRIC_COUNT |->
                          [name |-> k - 1, enabled |-> PrintBool(v.metric[k - 1])]]
<1> DEFINE text == SwitchesToIni(v)
<1>1. v.enabled \in BOOLEAN /\ v.metric \in [Metric -> BOOLEAN]
      /\ v = [enabled |-> v.enabled, metric |-> v.metric]
      /\ old.enabled \in BOOLEAN /\ old.metric \in [Metric -> BOOLEAN]
  BY DEF SwitchValues
<1>2. text.sections = sections /\ text.enabled = PrintBool(v.enabled)
  BY DEF SwitchesToIni
<1>3. Len(sections) = METRIC_COUNT /\ METRIC_COUNT \in Nat
  BY MetricCountAssumption
<1> HIDE DEF text
<1>4. PICK f : /\ IsReading(f, sections, old.metric)
               /\ SwitchesFromIni(text, old) =
                     [enabled |-> ReadBool(text.enabled, old.enabled), metric |-> f[METRIC_COUNT]]
  <2> HIDE DEF sections
  <2> QED
    BY <1>1, <1>2, <1>3, SwitchesFromIniIs
<1>5. \A n \in 0 .. METRIC_COUNT : f[n] \in [Metric -> BOOLEAN]
  <2> HIDE DEF sections
  <2> QED
    BY <1>1, <1>3, <1>4, ReadingType
<1> DEFINE T == {n \in Nat : n <= METRIC_COUNT =>
                    \A k \in Metric : k < n => f[n][k] = v.metric[k]}
<1>6. 0 \in T
  BY SlotFacts
<1>7. ASSUME NEW n \in Nat, n \in T, n + 1 <= METRIC_COUNT PROVE n + 1 \in T
  <2>1. n \in Metric /\ n + 1 \in 1 .. METRIC_COUNT /\ n \in 0 .. METRIC_COUNT
    BY <1>3, <1>7 DEF Metric
  <2>2. sections[n + 1].name = n /\ sections[n + 1].enabled = PrintBool(v.metric[n])
    BY <2>1
  <2>3. f[n + 1] = SectionRead(sections[n + 1], f[n])
    <3> HIDE DEF sections
    <3> QED
      BY <1>3, <1>4, <2>1 DEF IsReading
  <2>4. str_to_metric_type(n) = n
    BY <2>1 DEF str_to_metric_type
  <2>5. f[n] \in [Metric -> BOOLEAN]
    BY <1>5, <2>1
  <2>6. f[n + 1] = [f[n] EXCEPT ![n] = ReadBool(PrintBool(v.metric[n]), f[n][n])]
    <3> HIDE DEF sections
    <3> QED
      BY <2>2, <2>3, <2>4 DEF SectionRead
  <2>7. ReadBool(PrintBool(v.metric[n]), f[n][n]) = v.metric[n]
    BY <1>1, <2>1, SwitchWords
  <2>8. \A k \in Metric : k < n => f[n][k] = v.metric[k]
    BY <1>3, <1>7
  <2>9. ASSUME NEW k \in Metric, k < n + 1 PROVE f[n + 1][k] = v.metric[k]
    <3>1. CASE k = n
      BY <2>1, <2>5, <2>6, <2>7, <3>1
    <3>2. CASE k < n
      BY <2>1, <2>5, <2>6, <2>8, <3>2, SlotFacts
    <3> QED
      BY <2>9, <3>1, <3>2, SlotFacts
  <2> HIDE DEF sections
  <2> QED
    BY <2>9
<1> HIDE DEF sections
<1>8. \A n \in Nat : n \in T => n + 1 \in T
  <2>1. \A n \in Nat : ~(n + 1 <= METRIC_COUNT) => n + 1 \in T
    OBVIOUS
  <2> HIDE DEF T
  <2> QED
    BY <1>7, <2>1
<1>9. METRIC_COUNT \in T
  <2> HIDE DEF T
  <2> QED
    BY <1>3, <1>6, <1>8, NatSetInduction
<1>10. f[METRIC_COUNT] = v.metric
  <2>1. f[METRIC_COUNT] \in [Metric -> BOOLEAN]
    BY <1>3, <1>5
  <2>2. \A k \in Metric : f[METRIC_COUNT][k] = v.metric[k]
    BY <1>3, <1>9, SlotFacts
  <2> QED
    BY <1>1, <2>1, <2>2
<1>11. ReadBool(text.enabled, old.enabled) = v.enabled
  BY <1>1, <1>2, SwitchWords
<1>12. SwitchesFromIni(text, old) = v
  BY <1>1, <1>4, <1>10, <1>11
<1> QED
  BY <1>2, <1>3, <1>12 DEF text

IsRequest(r) ==
    /\ r = [state |-> r.state, text |-> r.text, fresh |-> r.fresh]
    /\ r.state \in {"idle", "sent", "ok", "failed"} /\ r.fresh \in BOOLEAN
Requests(rs) == rs = [p \in Page |-> rs[p]] /\ \A p \in Page : IsRequest(rs[p])

ConsoleTypes ==
    /\ setting \in Setting /\ edited \in {"no", "text", "removed"}
    /\ \/ event = NoEvent
       \/ /\ event = [kind |-> event.kind, old |-> event.old, keep |-> event.keep]
          /\ event.kind \in {"save", "reset", "client", "restart"}
    /\ setting # "order" => pc \in {"validate", "done"} /\ Valid(setting, running)
    /\ edited = "removed" \/ file = Pending \/ IniText(setting, file)

(* A text that, sent to the console, changes nothing there.  While the      *)
(* parser of the order runs that is the list it reads.                      *)
Current(t) ==
    /\ setting = "order" =>
          IF pc = "done" THEN Asked(t, order) ELSE t = tokens /\ source # "none"
    /\ setting # "order" =>
          Close(setting, running, FromJson(setting, t, running), JsonStep(setting))

(* What a page shows, an answer on its way to it, and what it posted: texts,*)
(* and what counts as fresh is current.                                     *)
Shown(text, fresh) == JsonText(setting, text) /\ (fresh => Current(text))
Answer(r) == r.state = "ok" => Shown(r.text, r.fresh)
Posted(r) == r.state = "sent" => Shown(r.text, r.fresh)

PagesInv ==
    /\ config = [p \in Page |-> config[p]] /\ synced \in [Page -> BOOLEAN]
    /\ Requests(get) /\ Requests(save) /\ Requests(reset)
    /\ \A p \in Page : Shown(config[p], synced[p]) /\ Answer(get[p]) /\ Posted(save[p])

(* A file that, loaded over the defaults, gives what runs now, unless the   *)
(* user changed it or it has a colour its reader refuses.                   *)
Refused(v) == setting = "bg_color" /\ CutShort(v)

NumberFile ==
    setting # "order" /\ edited = "no" =>
        \/ Refused(running)
        \/ Close(setting, running, FromIni(setting, file, Default[setting]), IniStep(setting))

OrderFile ==
    setting = "order" /\ edited = "no" =>
        /\ event = NoEvent /\ (Open \/ pc # "done") => file = OrderText(DefaultOrder)
        /\ Open /\ pc = "done" => file \in {Pending, OrderText(order)}
        /\ event # NoEvent /\ pc # "done" =>
              \/ file = Pending
              \/ event.kind = "restart" /\ event.keep /\ file = OrderText(event.old)

(* While a list is parsed that gives the order there was: the slots that are*)
(* filled have it already.                                                  *)
Kept == event.kind \in {"save", "restart"} /\ event.keep
OrderKept ==
    setting = "order" /\ Kept =>
        /\ pc \in {"tokens", "append"} =>
              /\ event.old \in Permutations /\ Asked(tokens, event.old)
              /\ \A i \in Slot : i < idx => order[i] = event.old[i]
        /\ pc \in {"validate", "done"} => order = event.old

NumberKept ==
    setting # "order" =>
        /\ event.kind = "save" /\ event.keep =>
              Close(setting, event.old, running, JsonStep(setting))
        /\ event.kind = "restart" /\ event.keep =>
              \/ Refused(event.old)
              \/ Close(setting, event.old, running, IniStep(setting))

ConsoleInv ==
    /\ IInv /\ RequestInv /\ ConsoleTypes
    /\ NumberFile /\ OrderFile /\ OrderKept /\ NumberKept

PageInv == ConsoleInv /\ PagesInv
-----------------------------------------------------------------------------
(* One setting like the other.                                              *)
LEMMA FromJsonValid ==
    ASSUME NEW s \in Setting, s # "order", NEW old, Valid(s, old), NEW t, JsonText(s, t)
    PROVE  Valid(s, FromJson(s, t, old))
<1>1. CASE s \in DOMAIN Number
  <2>1. FromJson(s, t, old) = NumberFromJson(s, t, old)
    BY <1>1, SettingFacts DEF FromJson
  <2> QED
    BY <1>1, <2>1, NumberFromJsonValid DEF JsonText
<1>2. CASE s = "bg_color"
  BY <1>2, SettingFacts DEF FromJson, ColorFromJson, Valid
<1>3. CASE s = "switches"
  <2>1. FromJson(s, t, old) = SwitchesFromJson(t, old)
    BY <1>3 DEF FromJson
  <2>2. SwitchesFromJson(t, old) \in SwitchValues
    BY <1>3, SwitchesJsonValid DEF Valid
  <2> QED
    BY <1>3, <2>1, <2>2, SettingFacts DEF Valid
<1> QED
  BY <1>1, <1>2, <1>3, SettingFacts

LEMMA FromIniValid ==
    ASSUME NEW s \in Setting, s # "order", NEW old, Valid(s, old), NEW t, IniText(s, t)
    PROVE  Valid(s, FromIni(s, t, old))
<1>1. CASE s \in DOMAIN Number
  <2>1. FromIni(s, t, old) = NumberFromIni(s, t, old)
    BY <1>1, SettingFacts DEF FromIni
  <2> QED
    BY <1>1, <2>1, NumberFromIniValid DEF IniText
<1>2. CASE s = "bg_color"
  BY <1>2, SettingFacts DEF FromIni, ColorFromIni, Valid
<1>3. CASE s = "switches"
  <2>1. FromIni(s, t, old) = SwitchesFromIni(t, old)
    BY <1>3 DEF FromIni
  <2>2. SwitchesFromIni(t, old) \in SwitchValues
    BY <1>3, SwitchesIniValid DEF Valid, IniText
  <2> QED
    BY <1>3, <2>1, <2>2, SettingFacts DEF Valid
<1> QED
  BY <1>1, <1>2, <1>3, SettingFacts

LEMMA CloseToItself ==
    ASSUME NEW s \in Setting, NEW v, Valid(s, v),
           NEW step \in {JsonStep(s), IniStep(s)}
    PROVE  Close(s, v, v, step)
<1>1. CASE s \in DOMAIN Number
  <2>1. v \in Int /\ step \in Nat
    BY <1>1, Steps, SettingFacts DEF Valid, JsonStep, IniStep
  <2> QED
    BY <1>1, <2>1, CloseNumbers
<1>2. CASE s \notin DOMAIN Number
  BY <1>2 DEF Close
<1> QED
  BY <1>1, <1>2

(* What the console prints, sent back, changes nothing.                     *)
LEMMA ToJsonRound ==
    ASSUME NEW s \in Setting, s # "order", NEW v, Valid(s, v), NEW t \in ToJson(s, v)
    PROVE  JsonText(s, t) /\ Close(s, v, FromJson(s, t, v), JsonStep(s))
<1>1. CASE s \in DOMAIN Number
  <2>1. FromJson(s, t, v) = NumberFromJson(s, t, v) /\ t \in NumberToJson(s, v)
    BY <1>1, SettingFacts DEF FromJson, ToJson
  <2> QED
    BY <1>1, <2>1, NumberJsonRound, SettingFacts DEF JsonText, JsonStep
<1>2. CASE s = "bg_color"
  BY <1>2, SettingFacts DEF FromJson, ToJson, ColorFromJson, JsonText, Close
<1>3. CASE s = "switches"
  <2>1. FromJson(s, t, v) = v
    BY <1>3, SwitchesJsonRound DEF FromJson, ToJson, Valid
  <2> QED
    BY <1>3, <2>1, SettingFacts, CloseToItself DEF JsonText
<1> QED
  BY <1>1, <1>2, <1>3, SettingFacts

(* What the console saves is loaded again, over any defaults, but for the   *)
(* colours the reader of the file refuses.                                  *)
LEMMA ToIniRound ==
    ASSUME NEW s \in Setting, s # "order", NEW v, Valid(s, v), NEW d, Valid(s, d),
           NEW t \in ToIni(s, v)
    PROVE  /\ IniText(s, t)
           /\ \/ s = "bg_color" /\ CutShort(v)
              \/ Close(s, v, FromIni(s, t, d), IniStep(s))
<1>1. CASE s \in DOMAIN Number
  <2>1. FromIni(s, t, d) = NumberFromIni(s, t, d) /\ t \in NumberToIni(s, v)
    BY <1>1, SettingFacts DEF FromIni, ToIni
  <2>2. t \in Int /\ Close(s, v, NumberFromIni(s, t, d), Number[s].ini)
    BY <1>1, <2>1, NumberIniRound
  <2> QED
    BY <1>1, <2>1, <2>2, SettingFacts, AbsentAssumption DEF IniText, IniStep
<1>2. CASE s = "bg_color"
  BY <1>2, SettingFacts DEF FromIni, ToIni, ColorFromIni, IniText, Close, Valid
<1>3. CASE s = "switches"
  <2>1. t = SwitchesToIni(v) /\ v \in SwitchValues /\ d \in SwitchValues
    BY <1>3 DEF ToIni, Valid
  <2>2. FromIni(s, t, d) = v /\ Len(t.sections) \in Nat
    BY <1>3, <2>1, SwitchesIniRound DEF FromIni
  <2> QED
    BY <1>3, <2>2, SettingFacts, CloseToItself DEF IniText
<1> QED
  BY <1>1, <1>2, <1>3, SettingFacts

(* A text that is parsed twice gives what it gave the first time.           *)
LEMMA FromJsonAgain ==
    ASSUME NEW s \in Setting, s # "order", NEW t, NEW old
    PROVE  FromJson(s, t, FromJson(s, t, old)) = FromJson(s, t, old)
<1>1. CASE s \in DOMAIN Number
  BY <1>1, SettingFacts DEF FromJson, NumberFromJson
<1>2. CASE s = "bg_color"
  BY <1>2 DEF FromJson, ColorFromJson
<1>3. CASE s = "switches"
  <2>1. \A text, o : ReadBool(text, ReadBool(text, o)) = ReadBool(text, o)
    BY DEF ReadBool
  <2> DEFINE first == SwitchesFromJson(t, old)
  <2>2. /\ first.enabled = ReadBool(FindEnabled(t), old.enabled)
        /\ \A k \in Metric : first.metric[k] = ReadBool(t.metrics[k], old.metric[k])
    BY DEF SwitchesFromJson
  <2> HIDE DEF first
  <2>3. ReadBool(FindEnabled(t), first.enabled) = ReadBool(FindEnabled(t), old.enabled)
    BY <2>1, <2>2
  <2>4. [k \in Metric |-> ReadBool(t.metrics[k], first.metric[k])] =
        [k \in Metric |-> ReadBool(t.metrics[k], old.metric[k])]
    BY <2>1, <2>2
  <2>5. SwitchesFromJson(t, first) = SwitchesFromJson(t, old)
    BY <2>3, <2>4 DEF SwitchesFromJson
  <2> QED
    BY <1>3, <2>5 DEF FromJson, first
<1> QED
  BY <1>1, <1>2, <1>3, SettingFacts

LEMMA DefaultValid == \A s \in Setting : s # "order" => Valid(s, Default[s])
BY DefaultAssumption, SettingFacts DEF Valid

(* An order, written out, asks for that order.                              *)
LEMMA OrderTextFacts ==
    ASSUME NEW o \in Permutations
    PROVE  /\ OrderText(o) \in Seq(Metric) /\ Asked(OrderText(o), o)
           /\ \A from : OrderText(o) \in Seq(Tokens(from))
<1>1. /\ METRIC_COUNT \in Nat /\ Slot = 0 .. METRIC_COUNT - 1
      /\ o \in [Slot -> Metric] /\ \A i, j \in Slot : o[i] = o[j] => i = j
  BY MetricCountAssumption DEF Permutations, IsPermutation, Slot
<1> DEFINE list == OrderText(o)
<1>2. /\ list = [n \in 1 .. METRIC_COUNT |-> o[n - 1]]
      /\ list \in [1 .. METRIC_COUNT -> Metric]
  BY <1>1 DEF OrderText
<1> HIDE DEF list
<1>3. list \in Seq(Metric) /\ Len(list) = METRIC_COUNT
  BY <1>1, <1>2
<1>4. \A from : Metric \subseteq Tokens(from)
  BY DEF Tokens
<1>5. \A from : list \in Seq(Tokens(from))
  BY <1>1, <1>2, <1>4
<1>6. ASSUME NEW i \in Slot, NEW j \in Slot, i < j PROVE Before(list, o[i], o[j])
  <2>1. \A n \in 1 .. METRIC_COUNT :
           list[n] # NotString /\ str_to_metric_type(list[n]) = o[n - 1]
    BY <1>2, TokenAssumption DEF str_to_metric_type
  <2>2. i + 1 \in 1 .. METRIC_COUNT /\ j \in 1 .. METRIC_COUNT - 1
    BY <1>1, <1>6
  <2>3. Mentions(list, o[i], i + 1)
    <3>1. \A k \in 1 .. i + 1 : k \in 1 .. METRIC_COUNT
      BY <1>1, <2>2
    <3> QED
      BY <1>1, <1>3, <2>1, <2>2, <3>1 DEF Mentions, Read
  <2>4. ASSUME NEW k \in 1 .. i + 1 PROVE ~Mentions(list, o[j], k)
    <3>1. k \in 1 .. METRIC_COUNT /\ k - 1 \in Slot /\ k - 1 # j
      BY <1>1, <1>6, <2>2
    <3>2. o[k - 1] # o[j]
      BY <1>1, <3>1
    <3> QED
      BY <2>1, <3>1, <3>2 DEF Mentions
  <2> QED
    BY <1>3, <2>2, <2>3, <2>4 DEF Before
<1> QED
  BY <1>3, <1>5, <1>6 DEF Asked, list

LEMMA DefaultOrderFacts == DefaultOrder \in Permutations
BY SlotFacts DEF DefaultOrder, Permutations, IsPermutation

(* A page is given texts, and edits them to texts.                          *)
LEMMA PageTexts ==
    /\ \A s \in Setting : JsonText(s, BuiltIn[s]) /\ JsonText(s, FallBack[s])
    /\ \A s \in Setting : \A t \in ClientTexts[s] : JsonText(s, t)
    /\ \A s \in Setting : \A t \in EditorTexts[s] : IniText(s, t)
BY TextAssumption, SettingFacts DEF JsonText, IniText

LEMMA EditsText ==
    ASSUME setting \in Setting, NEW old, JsonText(setting, old), NEW t \in Edits(old)
    PROVE  JsonText(setting, t)
<1>1. CASE setting = "order"
  <2>1. PICK i \in 1 .. Len(old) - 1 : t = [old EXCEPT ![i] = old[i + 1], ![i + 1] = old[i]]
    BY <1>1 DEF Edits
  <2>2. old \in Seq(Tokens("json"))
    BY <1>1 DEF JsonText
  <2>3. /\ Len(old) \in Nat /\ old \in [1 .. Len(old) -> Tokens("json")]
        /\ i \in 1 .. Len(old) /\ i + 1 \in 1 .. Len(old)
    BY <2>2
  <2>4. t \in [1 .. Len(old) -> Tokens("json")]
    BY <2>1, <2>3
  <2>5. t \in Seq(Tokens("json"))
    BY <2>3, <2>4
  <2> QED
    BY <1>1, <2>5, SettingFacts DEF JsonText
<1>2. CASE setting \in DOMAIN Number
  <2>1. t \in Controls[setting]
    BY <1>2, SettingFacts DEF Edits
  <2>2. t \in Int \cup {Absent}
    BY <1>2, <2>1, TextAssumption
  <2> QED
    BY <1>2, <2>2, SettingFacts DEF JsonText
<1>3. CASE setting \in {"bg_color", "switches"}
  BY <1>3, SettingFacts DEF JsonText
<1> QED
  BY <1>1, <1>2, <1>3, SettingFacts

(* The page may replace what it holds, and its requests, by others like it. *)
PageMoves(p, text, fresh, g, s, r) ==
    /\ config' = [config EXCEPT ![p] = text] /\ synced' = [synced EXCEPT ![p] = fresh]
    /\ get' = [get EXCEPT ![p] = g] /\ save' = [save EXCEPT ![p] = s]
    /\ reset' = [reset EXCEPT ![p] = r]
    /\ UNCHANGED <<vars, setting, consoleVars>>

LEMMA Unmoved ==
    ASSUME PageInv, UNCHANGED <<vars, setting, consoleVars>>
    PROVE  /\ ConsoleInv'
           /\ \A text, fresh : Shown(text, fresh)' <=> Shown(text, fresh)
<1>1. /\ UNCHANGED <<source, tokens, pc, pos, order, idx, seen, m>>
      /\ UNCHANGED <<setting, running, file, edited, event>>
  BY DEF vars, consoleVars
<1>2. IInv' /\ RequestInv'
  BY NextIInv, NextRequest DEF PageInv, ConsoleInv
<1>3. ConsoleTypes' /\ NumberFile' /\ OrderFile'
  <2>1. ConsoleTypes /\ NumberFile /\ OrderFile
    BY DEF PageInv, ConsoleInv
  <2> QED
    BY <1>1, <2>1 DEF ConsoleTypes, NumberFile, Refused, OrderFile, Open
<1>4. OrderKept' /\ NumberKept'
  <2>1. OrderKept /\ NumberKept
    BY DEF PageInv, ConsoleInv
  <2> QED
    BY <1>1, <2>1 DEF OrderKept, NumberKept, Refused, Kept
<1>5. \A text : Current(text)' <=> Current(text)
  BY <1>1 DEF Current
<1> QED
  BY <1>1, <1>2, <1>3, <1>4, <1>5 DEF ConsoleInv, Shown

LEMMA RequestUpdate ==
    ASSUME NEW rs, Requests(rs), NEW p \in Page, NEW r, IsRequest(r)
    PROVE  Requests([rs EXCEPT ![p] = r])
BY DEF Requests

LEMMA PageStep ==
    ASSUME PageInv, NEW p \in Page, NEW text, NEW fresh \in BOOLEAN, NEW g, NEW s, NEW r,
           PageMoves(p, text, fresh, g, s, r),
           Shown(text, fresh), IsRequest(g), Answer(g), IsRequest(s), Posted(s), IsRequest(r)
    PROVE  PageInv'
<1>1. UNCHANGED <<vars, setting, consoleVars>> /\ setting' = setting
  BY DEF PageMoves
<1>2. /\ ConsoleInv'
      /\ \A t, f : Shown(t, f)' <=> Shown(t, f)
  BY <1>1, Unmoved
<1>3. /\ config = [q \in Page |-> config[q]] /\ synced \in [Page -> BOOLEAN]
      /\ Requests(get) /\ Requests(save) /\ Requests(reset)
      /\ \A q \in Page : Shown(config[q], synced[q]) /\ Answer(get[q]) /\ Posted(save[q])
  BY DEF PageInv, PagesInv
<1>4. /\ Requests(get') /\ \A q \in Page : get'[q] = IF q = p THEN g ELSE get[q]
      /\ Requests(save') /\ \A q \in Page : save'[q] = IF q = p THEN s ELSE save[q]
      /\ Requests(reset')
  <2>1. /\ get' = [get EXCEPT ![p] = g] /\ save' = [save EXCEPT ![p] = s]
        /\ reset' = [reset EXCEPT ![p] = r]
    BY DEF PageMoves
  <2>2. Requests(get') /\ \A q \in Page : get'[q] = IF q = p THEN g ELSE get[q]
    <3>1. Requests(get')
      BY <1>3, <2>1, RequestUpdate
    <3>2. \A q \in Page : get'[q] = IF q = p THEN g ELSE get[q]
      BY <1>3, <2>1 DEF Requests
    <3> QED
      BY <3>1, <3>2
  <2>3. Requests(save') /\ \A q \in Page : save'[q] = IF q = p THEN s ELSE save[q]
    <3>1. Requests(save')
      BY <1>3, <2>1, RequestUpdate
    <3>2. \A q \in Page : save'[q] = IF q = p THEN s ELSE save[q]
      BY <1>3, <2>1 DEF Requests
    <3> QED
      BY <3>1, <3>2
  <2>4. Requests(reset')
    BY <1>3, <2>1, RequestUpdate
  <2> QED
    BY <2>2, <2>3, <2>4
<1>5. /\ config' = [q \in Page |-> IF q = p THEN text ELSE config[q]]
      /\ synced' = [q \in Page |-> IF q = p THEN fresh ELSE synced[q]]
  BY <1>3 DEF PageMoves
<1>6. config' = [q \in Page |-> config'[q]] /\ synced' \in [Page -> BOOLEAN]
  BY <1>3, <1>5
<1>7. \A q \in Page : Shown(config'[q], synced'[q])
  BY <1>3, <1>5
<1>8. \A q \in Page :
         /\ get'[q].state = "ok" => Shown(get'[q].text, get'[q].fresh)
         /\ save'[q].state = "sent" => Shown(save'[q].text, save'[q].fresh)
  BY <1>3, <1>4 DEF Answer, Posted
<1>9. PagesInv'
  <2>1. (\A q \in Page : Shown(config[q], synced[q]))'
    BY <1>2, <1>7
  <2>2. (\A q \in Page : Answer(get[q]) /\ Posted(save[q]))'
    BY <1>2, <1>8 DEF Answer, Posted
  <2>3. (Requests(get) /\ Requests(save) /\ Requests(reset))'
    BY <1>4 DEF Requests
  <2> QED
    BY <1>6, <2>1, <2>2, <2>3 DEF PagesInv
<1> QED
  BY <1>2, <1>9 DEF PageInv

LEMMA RequestFacts ==
    /\ IsRequest(Idle) /\ Idle.state = "idle"
    /\ IsRequest(Sent) /\ Sent.state = "sent" /\ ~Sent.fresh
    /\ IsRequest([Idle EXCEPT !.state = "failed"]) /\ [Idle EXCEPT !.state = "failed"].state = "failed"
<1>1. Idle = [state |-> "idle", text |-> Absent, fresh |-> FALSE]
  BY DEF Idle
<1>2. PICK sent : sent = Sent
  OBVIOUS
<1>3. PICK lost : lost = [Idle EXCEPT !.state = "failed"]
  OBVIOUS
<1>4. sent = [state |-> "sent", text |-> Absent, fresh |-> FALSE]
  BY <1>1, <1>2 DEF Sent
<1>5. lost = [state |-> "failed", text |-> Absent, fresh |-> FALSE]
  BY <1>1, <1>3
<1>6. IsRequest(Idle) /\ Idle.state = "idle"
  BY <1>1 DEF IsRequest
<1>7. IsRequest(sent) /\ sent.state = "sent" /\ ~sent.fresh
  BY <1>4 DEF IsRequest
<1>8. IsRequest(lost) /\ lost.state = "failed"
  BY <1>5 DEF IsRequest
<1> QED
  BY <1>2, <1>3, <1>6, <1>7, <1>8

LEMMA PageFacts ==
    ASSUME PageInv, NEW p \in Page
    PROVE  /\ config = [config EXCEPT ![p] = config[p]] /\ synced = [synced EXCEPT ![p] = synced[p]]
           /\ get = [get EXCEPT ![p] = get[p]] /\ save = [save EXCEPT ![p] = save[p]]
           /\ reset = [reset EXCEPT ![p] = reset[p]]
           /\ synced[p] \in BOOLEAN /\ Shown(config[p], synced[p])
           /\ IsRequest(get[p]) /\ Answer(get[p]) /\ IsRequest(save[p]) /\ Posted(save[p])
           /\ IsRequest(reset[p]) /\ setting \in Setting
<1>1. /\ config = [q \in Page |-> config[q]] /\ synced \in [Page -> BOOLEAN]
      /\ get = [q \in Page |-> get[q]] /\ save = [q \in Page |-> save[q]]
      /\ reset = [q \in Page |-> reset[q]]
      /\ IsRequest(get[p]) /\ IsRequest(save[p]) /\ IsRequest(reset[p])
      /\ Shown(config[p], synced[p]) /\ Answer(get[p]) /\ Posted(save[p])
      /\ setting \in Setting
  BY DEF PageInv, PagesInv, ConsoleInv, ConsoleTypes, Requests
<1> QED
  BY <1>1

LEMMA EditKeeps ==
    ASSUME PageInv, NEW p \in Page, Edit(p)
    PROVE  PageInv'
<1>1. PICK text \in Edits(config[p]) : config' = [config EXCEPT ![p] = text]
  BY DEF Edit
<1>2. JsonText(setting, text)
  BY <1>1, PageFacts, EditsText DEF Shown
<1>3. PageMoves(p, text, FALSE, get[p], save[p], reset[p])
  BY <1>1, PageFacts DEF Edit, PageMoves
<1> QED
  BY <1>2, <1>3, PageFacts, PageStep DEF Shown

LEMMA ClicksKeep ==
    ASSUME PageInv, NEW p \in Page, ClickSave(p) \/ ClickReset(p)
    PROVE  PageInv'
<1>1. CASE ClickSave(p)
  <2> DEFINE s == [state |-> "sent", text |-> config[p], fresh |-> synced[p]]
  <2>1. IsRequest(s) /\ Posted(s)
    BY PageFacts DEF IsRequest, Posted
  <2>2. PageMoves(p, config[p], synced[p], get[p], s, reset[p])
    BY <1>1, PageFacts DEF ClickSave, PageMoves
  <2> QED
    BY <2>1, <2>2, PageFacts, PageStep
<1>2. CASE ClickReset(p)
  <2>1. PageMoves(p, config[p], synced[p], get[p], save[p], Sent)
    BY <1>2, PageFacts DEF ClickReset, PageMoves
  <2> QED
    BY <2>1, PageFacts, RequestFacts, PageStep
<1> QED
  BY <1>1, <1>2

LEMMA AnsweredKeeps ==
    ASSUME PageInv, NEW p \in Page, LoadAnswered(p) \/ SaveAnswered(p) \/ ResetAnswered(p)
    PROVE  PageInv'
<1>0. /\ Answer(Idle) /\ Answer(Sent) /\ Posted(Idle)
      /\ Shown(FallBack[setting], FALSE)
  BY PageFacts, RequestFacts, PageTexts DEF Answer, Posted, Shown
<1>1. CASE LoadAnswered(p)
  <2>1. CASE get[p].state = "ok"
    <3>1. PageMoves(p, get[p].text, get[p].fresh, Idle, save[p], reset[p])
      BY <1>1, <2>1, PageFacts DEF LoadAnswered, PageMoves
    <3>2. Shown(get[p].text, get[p].fresh) /\ get[p].fresh \in BOOLEAN
      BY <2>1, PageFacts DEF Answer, IsRequest
    <3> QED
      BY <1>0, <3>1, <3>2, PageFacts, RequestFacts, PageStep
  <2>2. CASE get[p].state # "ok"
    <3>1. PageMoves(p, config[p], synced[p], Idle, save[p], reset[p])
      BY <1>1, <2>2, PageFacts DEF LoadAnswered, PageMoves
    <3> QED
      BY <1>0, <3>1, PageFacts, RequestFacts, PageStep
  <2> QED
    BY <2>1, <2>2
<1>2. CASE SaveAnswered(p)
  <2>1. PageMoves(p, config[p], synced[p], get[p], Idle, reset[p])
    BY <1>2, PageFacts DEF SaveAnswered, PageMoves
  <2> QED
    BY <1>0, <2>1, PageFacts, RequestFacts, PageStep
<1>3. CASE ResetAnswered(p)
  <2>1. CASE reset[p].state = "ok"
    <3>1. PageMoves(p, config[p], synced[p], Sent, save[p], Idle)
      BY <1>3, <2>1, PageFacts DEF ResetAnswered, PageMoves
    <3> QED
      BY <1>0, <3>1, PageFacts, RequestFacts, PageStep
  <2>2. CASE reset[p].state # "ok"
    <3>1. PageMoves(p, FallBack[setting], FALSE, get[p], save[p], Idle)
      BY <1>3, <2>2, PageFacts DEF ResetAnswered, PageMoves
    <3> QED
      BY <1>0, <3>1, PageFacts, RequestFacts, PageStep
  <2> QED
    BY <2>1, <2>2
<1> QED
  BY <1>1, <1>2, <1>3

LEMMA LoseKeeps ==
    ASSUME PageInv, NEW p \in Page, Lose(p)
    PROVE  PageInv'
<1> DEFINE lost == [Idle EXCEPT !.state = "failed"]
<1>0. IsRequest(lost) /\ Answer(lost) /\ Posted(lost)
  BY RequestFacts DEF Answer, Posted
<1>1. \/ PageMoves(p, config[p], synced[p], lost, save[p], reset[p])
      \/ PageMoves(p, config[p], synced[p], get[p], lost, reset[p])
      \/ PageMoves(p, config[p], synced[p], get[p], save[p], lost)
  BY PageFacts DEF Lose, PageMoves
<1> HIDE DEF lost
<1> QED
  BY <1>0, <1>1, PageFacts, PageStep

(* An answer of the console is current when it leaves.                      *)
LEMMA HandleLoadKeeps ==
    ASSUME PageInv, NEW p \in Page, HandleLoad(p)
    PROVE  PageInv'
<1>1. PICK text \in IF setting = "order" THEN {OrderText(order)} ELSE ToJson(setting, running) :
         get' = [get EXCEPT ![p] = [state |-> "ok", text |-> text, fresh |-> TRUE]]
  BY DEF HandleLoad
<1> DEFINE g == [state |-> "ok", text |-> text, fresh |-> TRUE]
<1>2. IsRequest(g)
  BY DEF IsRequest
<1>3. Shown(text, TRUE)
  <2>1. CASE setting = "order"
    <3>1. pc = "done" /\ order \in Permutations /\ text = OrderText(order)
      BY <1>1, <2>1 DEF PageInv, ConsoleInv, IInv, DoneInv, TypeOK, Permutations, HandleLoad, Ready
    <3> QED
      BY <2>1, <3>1, OrderTextFacts, SettingFacts DEF Shown, JsonText, Current
  <2>2. CASE setting # "order"
    <3>1. setting \in Setting /\ Valid(setting, running) /\ text \in ToJson(setting, running)
      BY <1>1, <2>2 DEF PageInv, ConsoleInv, ConsoleTypes
    <3> QED
      BY <2>2, <3>1, ToJsonRound DEF Shown, Current
  <2> QED
    BY <2>1, <2>2
<1>4. Answer(g)
  BY <1>3 DEF Answer
<1>5. PageMoves(p, config[p], synced[p], g, save[p], reset[p])
  BY <1>1, PageFacts DEF HandleLoad, PageMoves
<1> QED
  BY <1>2, <1>4, <1>5, PageFacts, PageStep

-----------------------------------------------------------------------------
LEMMA RequestParts ==
    ASSUME NEW a \in {"idle", "sent", "ok", "failed"}, NEW text, NEW f \in BOOLEAN, NEW r,
           r = [state |-> a, text |-> text, fresh |-> f]
    PROVE  /\ IsRequest(r) /\ r.state = a /\ r.text = text /\ r.fresh = f
           /\ \A q, g : q = [r EXCEPT !.fresh = g]
                           => q = [state |-> a, text |-> text, fresh |-> g]
           /\ \A q : q = [r EXCEPT !.state = "ok"]
                        => q = [state |-> "ok", text |-> text, fresh |-> f]
<1>1. r.state = a /\ r.text = text /\ r.fresh = f
  OBVIOUS
<1>2. \A q, g : q = [r EXCEPT !.fresh = g] => q = [state |-> a, text |-> text, fresh |-> g]
  OBVIOUS
<1>3. \A q : q = [r EXCEPT !.state = "ok"] => q = [state |-> "ok", text |-> text, fresh |-> f]
  OBVIOUS
<1> QED
  BY <1>1, <1>2, <1>3 DEF IsRequest

(* What the console does to the pages: nothing they hold is current, unless *)
(* it was just sent.                                                        *)
LEMMA StaleFacts ==
    ASSUME NEW rs, Requests(rs), NEW new, new = Stale(rs)
    PROVE  /\ Requests(new)
           /\ \A q \in Page : /\ new[q].state = rs[q].state /\ new[q].text = rs[q].text
                              /\ new[q].fresh = FALSE
<1>1. ASSUME NEW q \in Page
      PROVE  /\ IsRequest(new[q])
             /\ new[q].state = rs[q].state /\ new[q].text = rs[q].text /\ new[q].fresh = FALSE
  <2>1. PICK r : r = rs[q]
    OBVIOUS
  <2>2. PICK n : n = new[q]
    OBVIOUS
  <2>3. n = [r EXCEPT !.fresh = FALSE]
    BY <2>1, <2>2 DEF Stale
  <2>4. r = [state |-> r.state, text |-> r.text, fresh |-> r.fresh]
        /\ r.state \in {"idle", "sent", "ok", "failed"} /\ r.fresh \in BOOLEAN
    BY <2>1 DEF Requests, IsRequest
  <2>5. PICK g \in BOOLEAN : g = FALSE
    OBVIOUS
  <2>6. n = [r EXCEPT !.fresh = g]
    BY <2>3, <2>5, Zenon
  <2>7. n = [state |-> r.state, text |-> r.text, fresh |-> g]
    BY <2>4, <2>6, RequestParts
  <2>8. IsRequest(n) /\ n.state = r.state /\ n.text = r.text /\ n.fresh = g
    BY <2>4, <2>7, RequestParts
  <2> QED
    BY <2>1, <2>2, <2>5, <2>8
<1>2. new = [q \in Page |-> new[q]]
  BY DEF Stale
<1> QED
  BY <1>1, <1>2 DEF Requests

Answered(new, rs, p) == new = [rs EXCEPT ![p].state = "ok"]

LEMMA AnsweredFacts ==
    ASSUME NEW rs, Requests(rs), NEW p \in Page, NEW new, Answered(new, rs, p)
    PROVE  /\ Requests(new)
           /\ \A q \in Page : /\ new[q].state = "sent" => rs[q].state = "sent"
                              /\ new[q].text = rs[q].text /\ new[q].fresh = rs[q].fresh
<1>1. rs = [q \in Page |-> rs[q]] /\ \A q \in Page : IsRequest(rs[q])
  BY DEF Requests
<1>2. new[p] = [rs[p] EXCEPT !.state = "ok"] /\ \A q \in Page : q # p => new[q] = rs[q]
  BY <1>1 DEF Answered
<1>3. IsRequest(new[p]) /\ new[p].state = "ok" /\ new[p].text = rs[p].text
      /\ new[p].fresh = rs[p].fresh
  <2>1. PICK r : r = rs[p]
    OBVIOUS
  <2>2. PICK n : n = new[p]
    OBVIOUS
  <2>3. n = [r EXCEPT !.state = "ok"]
    BY <1>2, <2>1, <2>2
  <2>4. r = [state |-> r.state, text |-> r.text, fresh |-> r.fresh]
        /\ r.state \in {"idle", "sent", "ok", "failed"} /\ r.fresh \in BOOLEAN
    BY <1>1, <2>1 DEF IsRequest
  <2>5. n = [state |-> "ok", text |-> r.text, fresh |-> r.fresh]
    BY <2>3, <2>4, RequestParts
  <2>6. IsRequest(n) /\ n.state = "ok" /\ n.text = r.text /\ n.fresh = r.fresh
    BY <2>4, <2>5, RequestParts
  <2> QED
    BY <2>1, <2>2, <2>6
<1>4. new = [q \in Page |-> new[q]]
  BY <1>1 DEF Answered
<1>5. ASSUME NEW q \in Page
      PROVE  /\ IsRequest(new[q])
             /\ new[q].state = "sent" => rs[q].state = "sent"
             /\ new[q].text = rs[q].text /\ new[q].fresh = rs[q].fresh
  <2>1. CASE q = p
    BY <1>3, <2>1
  <2>2. CASE q # p
    BY <1>1, <1>2, <2>2
  <2> QED
    BY <2>1, <2>2
<1> QED
  BY <1>4, <1>5 DEF Requests

LEMMA PagesForget ==
    ASSUME PageInv, UNCHANGED <<setting, config>>, get' = Stale(get),
           Requests(save'), Requests(reset'),
           \A q \in Page : /\ save'[q].state = "sent" => save[q].state = "sent"
                           /\ save'[q].text = save[q].text /\ save'[q].fresh = FALSE,
           synced' \in [Page -> BOOLEAN],
           (\A q \in Page : synced[q] => Current(config[q]))'
    PROVE  PagesInv'
<1>1. /\ config = [q \in Page |-> config[q]] /\ Requests(get)
      /\ \A q \in Page : Shown(config[q], synced[q]) /\ Answer(get[q]) /\ Posted(save[q])
  BY DEF PageInv, PagesInv
<1>2. /\ Requests(get')
      /\ \A q \in Page : /\ get'[q].state = get[q].state /\ get'[q].text = get[q].text
                         /\ get'[q].fresh = FALSE
  BY <1>1, StaleFacts
<1>3. (\A q \in Page : Shown(config[q], synced[q]))'
  BY <1>1 DEF Shown
<1>4. (\A q \in Page : Answer(get[q]) /\ Posted(save[q]))'
  BY <1>1, <1>2 DEF Answer, Posted, Shown
<1>5. (Requests(get) /\ Requests(save) /\ Requests(reset))'
  BY <1>2 DEF Requests
<1> QED
  BY <1>1, <1>3, <1>4, <1>5 DEF PagesInv

LEMMA PagesStay ==
    ASSUME PageInv, UNCHANGED <<setting, config, synced, get, save, reset>>,
           \A t : Current(t) => Current(t)'
    PROVE  PagesInv'
<1>1. PagesInv
  BY DEF PageInv
<1>2. \A t, f : Shown(t, f) => Shown(t, f)'
  BY DEF Shown
<1>3. (\A q \in Page : Shown(config[q], synced[q]) /\ Answer(get[q]) /\ Posted(save[q]))'
  BY <1>1, <1>2 DEF PagesInv, Answer, Posted
<1>4. (Requests(get) /\ Requests(save) /\ Requests(reset))'
  BY <1>1 DEF PagesInv, Requests
<1> QED
  BY <1>1, <1>3, <1>4 DEF PagesInv
-----------------------------------------------------------------------------
(* The parser starts afresh, or is not needed.                              *)
LEMMA StartParseInv ==
    ASSUME NEW from \in {"json", "ini"}, NEW text \in Seq(Tokens(from)), StartParse(from, text),
           order' \in Permutations
    PROVE  IInv' /\ RequestInv'
<1>1. /\ source' = from /\ tokens' = text /\ pc' = "tokens" /\ pos' = 1 /\ idx' = 0
      /\ seen' = {} /\ m' = 0 /\ order' \in [Slot -> Metric]
  BY DEF StartParse, Permutations
<1>2. tokens' \in Seq(Tokens(source')) /\ Len(tokens') \in Nat
  BY <1>1
<1>3. TypeOK'
  BY <1>1, <1>2, MetricCountAssumption DEF TypeOK, Sources
<1>4. Filled(0)' = {}
  BY SlotFacts DEF Filled
<1>5. FillInv'
  BY <1>1, <1>4, FS_EmptySet, SlotFacts DEF FillInv
<1>6. AppendInv' /\ DoneInv'
  BY <1>1 DEF AppendInv, DoneInv
<1>7. Sorted(0)'
  BY SlotFacts DEF Sorted
<1>8. RequestInv'
  BY <1>1, <1>7 DEF RequestInv
<1> QED
  BY <1>3, <1>5, <1>6, <1>8 DEF IInv

LEMMA NoListInv ==
    ASSUME NoList, order' \in Permutations
    PROVE  IInv' /\ RequestInv'
<1>1. /\ source' = "none" /\ tokens' = << >> /\ pc' = "done" /\ pos' = 1 /\ idx' = 0
      /\ seen' = {} /\ m' = 0 /\ order' \in [Slot -> Metric] /\ IsPermutation(order')
  BY DEF NoList, Permutations
<1>2. TypeOK'
  BY <1>1, MetricCountAssumption DEF TypeOK, Sources
<1>3. FillInv' /\ AppendInv' /\ DoneInv' /\ RequestInv'
  BY <1>1 DEF FillInv, AppendInv, DoneInv, RequestInv, IsPermutation
<1> QED
  BY <1>2, <1>3 DEF IInv

LEMMA ParserRests ==
    ASSUME ConsoleInv, UNCHANGED vars
    PROVE  IInv' /\ RequestInv'
BY NextIInv, NextRequest DEF ConsoleInv

LEMMA DoneOrder ==
    ASSUME ConsoleInv, pc = "done"
    PROVE  order \in Permutations
BY DEF ConsoleInv, IInv, TypeOK, DoneInv, Permutations

-----------------------------------------------------------------------------
(* While the parser runs over a list that asks for the old order, the next  *)
(* metric to be placed is the one the old order has in that slot.           *)
LEMMA NextIsOld ==
    ASSUME TypeOK, FillInv, pc \in {"tokens", "append"}, idx < METRIC_COUNT,
           NEW old \in Permutations, Asked(tokens, old),
           \A i \in Slot : i < idx => order[i] = old[i],
           NEW mt \in Metric, mt \notin seen,
           \A x \in Metric : x \notin seen /\ x # mt => ~Before(tokens, x, mt)
    PROVE  old[idx] = mt
<1>1. /\ idx \in Slot /\ seen = Filled(idx)
      /\ old \in [Slot -> Metric] /\ \A i, j \in Slot : old[i] = old[j] => i = j
      /\ \A k \in Metric : \E i \in Slot : old[i] = k
  <2>1. idx \in Slot /\ seen = Filled(idx)
    BY MetricCountAssumption DEF TypeOK, FillInv, Slot
  <2>2. old \in [Slot -> Metric] /\ IsPermutation(old)
    BY DEF Permutations
  <2> QED
    BY <2>1, <2>2 DEF IsPermutation
<1>2. PICK j \in Slot : old[j] = mt
  BY <1>1
<1>3. ~(j < idx)
  BY <1>1, <1>2 DEF Filled
<1>4. old[idx] \notin seen
  <2> SUFFICES ASSUME old[idx] \in seen PROVE FALSE
    OBVIOUS
  <2>1. PICK i \in Slot : i < idx /\ order[i] = old[idx]
    BY <1>1 DEF Filled
  <2>2. old[i] = old[idx] /\ i # idx
    BY <1>1, <2>1, SlotFacts
  <2> QED
    BY <1>1, <2>2
<1>5. ASSUME idx < j PROVE FALSE
  <2>1. Before(tokens, old[idx], old[j])
    BY <1>1, <1>5 DEF Asked
  <2>2. old[idx] # mt
    BY <1>1, <1>2, <1>5, SlotFacts
  <2> QED
    BY <1>1, <1>2, <1>4, <2>1, <2>2
<1>6. j = idx
  BY <1>1, <1>3, <1>5, SlotFacts
<1> QED
  BY <1>2, <1>6

LEMMA PlaceOld ==
    ASSUME TypeOK, FillInv, pc \in {"tokens", "append"}, idx < METRIC_COUNT,
           NEW old, \A i \in Slot : i < idx => order[i] = old[i],
           NEW mt \in Metric, Place(mt), mt \notin seen => old[idx] = mt
    PROVE  \A i \in Slot : i < idx' => order'[i] = old[i]
<1>1. idx \in Slot /\ order \in [Slot -> Metric]
  BY MetricCountAssumption DEF TypeOK, Slot
<1>2. CASE mt \in seen /\ UNCHANGED <<order, idx, seen>>
  BY <1>2
<1>3. CASE mt \notin seen /\ order' = [order EXCEPT ![idx] = mt] /\ idx' = idx + 1
  <2> SUFFICES ASSUME NEW i \in Slot, i < idx + 1 PROVE order'[i] = old[i]
    BY <1>3
  <2>1. i < idx \/ i = idx
    BY <1>1, SlotFacts
  <2> QED
    BY <1>1, <1>3, <2>1
<1> QED
  BY <1>2, <1>3 DEF Place

LEMMA NextOrderKept ==
    ASSUME IInv, RequestInv, OrderKept, Next, UNCHANGED <<setting, event>>
    PROVE  OrderKept'
<1> SUFFICES ASSUME setting = "order", Kept PROVE OrderKept'
  BY DEF OrderKept, Kept
<1>0. TypeOK /\ FillInv /\ AppendInv /\ DoneInv
  BY DEF IInv
<1>1. /\ pc \in {"tokens", "append"} =>
            /\ event.old \in Permutations /\ Asked(tokens, event.old)
            /\ \A i \in Slot : i < idx => order[i] = event.old[i]
      /\ pc \in {"validate", "done"} => order = event.old
  BY DEF OrderKept
<1>2. CASE TakeToken
  <2> DEFINE mt == str_to_metric_type(tokens[pos])
  <2>1. /\ pc = "tokens" /\ idx < METRIC_COUNT /\ mt \in Metric /\ Place(mt)
        /\ pos \in 1 .. Len(tokens) /\ tokens[pos] # NotString
        /\ UNCHANGED <<tokens, pc>> /\ Len(tokens) \in Nat
    BY <1>0, <1>2, MetricOfToken DEF TakeToken, MoreTokens, TypeOK
  <2>2. /\ \A k \in 1 .. pos - 1 : tokens[k] # NotString
        /\ \A a \in Metric :
              a \in seen <=> \E k \in 1 .. pos - 1 : str_to_metric_type(tokens[k]) = a
    BY <2>1 DEF RequestInv
  <2>3. Mentions(tokens, mt, pos)
    BY <2>1, <2>2 DEF Mentions, Read
  <2> HIDE DEF mt
  <2>4. ASSUME mt \notin seen, NEW x \in Metric, x \notin seen, x # mt PROVE ~Before(tokens, x, mt)
    <3> SUFFICES ASSUME NEW j \in 1 .. Len(tokens), Mentions(tokens, x, j),
                        \A k \in 1 .. j : ~Mentions(tokens, mt, k)
                 PROVE  FALSE
      BY <2>1, <2>3 DEF Before
    <3>1. j \in 1 .. pos - 1
      BY <2>1, <2>3
    <3> QED
      BY <2>2, <2>4, <3>1 DEF Mentions
  <2>5. mt \notin seen => event.old[idx] = mt
    BY <1>0, <1>1, <2>1, <2>4, NextIsOld
  <2>6. \A i \in Slot : i < idx' => order'[i] = event.old[i]
    BY <1>0, <1>1, <2>1, <2>5, PlaceOld
  <2> QED
    BY <1>1, <2>1, <2>6 DEF OrderKept
<1>3. CASE TokensDone
  <2>1. pc = "tokens" /\ pc' = "append" /\ UNCHANGED <<tokens, order, idx>>
    BY <1>3 DEF TokensDone
  <2> QED
    BY <1>1, <2>1 DEF OrderKept
<1>4. CASE AppendMissing
  <2>1. /\ pc = "append" /\ idx < METRIC_COUNT /\ m \in Metric /\ Place(m)
        /\ UNCHANGED <<tokens, pc>> /\ idx # METRIC_COUNT
    BY <1>0, <1>4, MetricCountAssumption DEF AppendMissing, MoreMissing, TypeOK, Metric
  <2>2. \A mt \in Metric : Mentioned(mt) => mt \in seen
    BY <2>1 DEF RequestInv
  <2>3. ASSUME NEW x \in Metric, x \notin seen PROVE ~Before(tokens, x, m)
    <3>1. \A j \in 1 .. Len(tokens) : ~Mentions(tokens, x, j)
      BY <2>2, <2>3 DEF Mentioned
    <3>2. ~(x < m)
      BY <1>0, <2>1, <2>3 DEF AppendInv
    <3> QED
      BY <3>1, <3>2 DEF Before
  <2>4. m \notin seen => event.old[idx] = m
    BY <1>0, <1>1, <2>1, <2>3, NextIsOld
  <2>5. \A i \in Slot : i < idx' => order'[i] = event.old[i]
    BY <1>0, <1>1, <2>1, <2>4, PlaceOld
  <2> QED
    BY <1>1, <2>1, <2>5 DEF OrderKept
<1>5. CASE AppendDone
  <2>1. /\ pc = "append" /\ ~MoreMissing /\ pc' \in {"done", "validate"}
        /\ UNCHANGED <<tokens, order>>
    BY <1>5 DEF AppendDone
  <2>2. idx = METRIC_COUNT
    BY <1>0, <2>1, FullIsPermutation
  <2>3. event.old \in Permutations /\ \A i \in Slot : order[i] = event.old[i]
    BY <1>1, <2>1, <2>2, SlotFacts
  <2>4. order = event.old
    BY <1>0, <2>3 DEF TypeOK, Permutations
  <2> QED
    BY <2>1, <2>4 DEF OrderKept
<1>6. CASE Validate \/ ValidateDone
  <2>1. pc = "validate" /\ pc' \in {"validate", "done"} /\ UNCHANGED <<tokens, order>>
    BY <1>6 DEF Validate, ValidateDone
  <2> QED
    BY <1>1, <2>1 DEF OrderKept
<1> QED
  BY <1>2, <1>3, <1>4, <1>5, <1>6 DEF Next

(* A step of the parser.                                                    *)
LEMMA NextKeeps ==
    ASSUME PageInv, Next, UNCHANGED <<setting, consoleVars, config, synced, get, save, reset>>
    PROVE  PageInv'
<1>1. /\ IInv /\ RequestInv /\ ConsoleTypes
      /\ NumberFile /\ OrderFile /\ OrderKept /\ NumberKept
  BY DEF PageInv, ConsoleInv
<1>2. UNCHANGED <<setting, running, file, edited, event>>
  BY DEF consoleVars
<1>3. IInv' /\ RequestInv'
  BY <1>1, NextIInv, NextRequest
<1>4. OrderKept'
  BY <1>1, <1>2, NextOrderKept
<1>5. /\ pc # "done" /\ UNCHANGED <<source, tokens>>
      /\ pc = "validate" => pc' \in {"validate", "done"}
  BY DEF Next, TakeToken, TokensDone, AppendMissing, AppendDone, Validate, ValidateDone
<1>6. ConsoleTypes' /\ NumberFile' /\ NumberKept'
  BY <1>1, <1>2, <1>5 DEF ConsoleTypes, NumberFile, NumberKept, Refused
<1>7. OrderFile'
  <2> SUFFICES ASSUME setting = "order", edited = "no" PROVE OrderFile'
    BY <1>2 DEF OrderFile
  <2>1. /\ event = NoEvent => file = OrderText(DefaultOrder)
        /\ event # NoEvent =>
              \/ file = Pending
              \/ event.kind = "restart" /\ event.keep /\ file = OrderText(event.old)
    BY <1>1, <1>5 DEF OrderFile
  <2>2. pc' = "done" /\ event.kind = "restart" /\ event.keep => order' = event.old
    BY <1>2, <1>4 DEF OrderKept, Kept
  <2>3. Open' /\ pc' = "done" /\ event = NoEvent => order' = DefaultOrder
    BY <1>2 DEF Open
  <2> QED
    BY <1>2, <2>1, <2>2, <2>3 DEF OrderFile
<1>8. \A t : Current(t) => Current(t)'
  <2>1. pc' = "done" /\ source # "none" => Asked(tokens', order')
    <3>1. OrderIsRequested'
      BY <1>3, RequestIsOrder, PTL
    <3> QED
      BY <1>5, <3>1 DEF OrderIsRequested
  <2> QED
    BY <1>2, <1>5, <2>1 DEF Current
<1>9. PagesInv'
  BY <1>2, <1>8, PagesStay
<1> QED
  BY <1>3, <1>4, <1>6, <1>7, <1>9 DEF PageInv, ConsoleInv

LEMMA SaveOrderKeeps ==
    ASSUME PageInv, SaveOrder
    PROVE  PageInv'
<1>1. /\ IInv /\ RequestInv /\ ConsoleTypes
      /\ NumberFile /\ OrderFile /\ OrderKept /\ NumberKept /\ ConsoleInv
  BY DEF PageInv, ConsoleInv
<1>2. /\ setting = "order" /\ pc = "done" /\ file = Pending /\ file' = OrderText(order)
      /\ UNCHANGED <<vars, setting, running, edited, event, config, synced, get, save, reset>>
  BY DEF SaveOrder
<1>3. UNCHANGED <<source, tokens, pc, pos, order, idx, seen, m>>
  BY <1>2 DEF vars
<1>4. IInv' /\ RequestInv'
  BY <1>1, <1>2, ParserRests
<1>5. file' \in Seq(Tokens("ini"))
  BY <1>1, <1>2, DoneOrder, OrderTextFacts
<1>6. ConsoleTypes'
  BY <1>1, <1>2, <1>5, SettingFacts DEF ConsoleTypes, IniText
<1>7. OrderFile'
  BY <1>1, <1>2, <1>3 DEF OrderFile, Open
<1>8. NumberFile' /\ NumberKept' /\ OrderKept'
  BY <1>1, <1>2, <1>3 DEF NumberFile, NumberKept, Refused, OrderKept, Kept
<1>9. PagesInv'
  BY <1>2, <1>3, PagesStay DEF Current
<1> QED
  BY <1>4, <1>6, <1>7, <1>8, <1>9 DEF PageInv, ConsoleInv

LEMMA UserEditsKeeps ==
    ASSUME PageInv, UserEditsFile
    PROVE  PageInv'
<1>1. /\ IInv /\ RequestInv /\ ConsoleTypes
      /\ NumberFile /\ OrderFile /\ OrderKept /\ NumberKept /\ ConsoleInv
  BY DEF PageInv, ConsoleInv
<1>2. \/ /\ file' \in EditorTexts[setting]
         /\ edited' = "text"
      \/ edited' = "removed"
  BY DEF UserEditsFile
<1>3. UNCHANGED <<vars, setting, running, event, config, synced, get, save, reset>>
  BY DEF UserEditsFile
<1>4. UNCHANGED <<source, tokens, pc, pos, order, idx, seen, m>>
  BY <1>3 DEF vars
<1>5. IInv' /\ RequestInv'
  BY <1>1, <1>3, ParserRests
<1>6. edited' = "removed" \/ IniText(setting, file')
  BY <1>1, <1>2, PageTexts DEF ConsoleTypes
<1>7. ConsoleTypes'
  BY <1>1, <1>2, <1>3, <1>4, <1>6 DEF ConsoleTypes
<1>8. OrderFile' /\ NumberFile'
  BY <1>2 DEF OrderFile, NumberFile
<1>9. NumberKept' /\ OrderKept'
  BY <1>1, <1>3, <1>4 DEF NumberKept, Refused, OrderKept, Kept
<1>10. PagesInv'
  BY <1>3, <1>4, PagesStay DEF Current
<1> QED
  BY <1>5, <1>7, <1>8, <1>9, <1>10 DEF PageInv, ConsoleInv

(* The events of the console.                                               *)
LEMMA EventFacts ==
    ASSUME NEW kind \in {"save", "reset", "client", "restart"}, NEW old, NEW keep, NEW e,
           e = [kind |-> kind, old |-> old, keep |-> keep]
    PROVE  /\ e = [kind |-> e.kind, old |-> e.old, keep |-> e.keep]
           /\ e.kind = kind /\ e.old = old /\ e.keep = keep /\ e # NoEvent
BY DEF NoEvent

LEMMA NoEventFacts ==
    ASSUME NEW kind \in {"save", "reset", "client", "restart"}, NEW e,
           e = [NoEvent EXCEPT !.kind = kind]
    PROVE  /\ e = [kind |-> e.kind, old |-> e.old, keep |-> e.keep]
           /\ e.kind = kind /\ ~e.keep /\ e # NoEvent
<1>1. PICK n : n = NoEvent
  OBVIOUS
<1>2. PICK no \in BOOLEAN : no = FALSE
  OBVIOUS
<1>3. n = [kind |-> "none", old |-> Absent, keep |-> no]
  BY <1>1, <1>2 DEF NoEvent
<1>4. e = [n EXCEPT !.kind = kind]
  BY <1>1
<1>5. e = [kind |-> kind, old |-> Absent, keep |-> no]
  BY <1>3, <1>4
<1>6. e = [kind |-> e.kind, old |-> e.old, keep |-> e.keep] /\ e.kind = kind
  BY <1>5
<1>7. e.keep = no
  BY <1>5
<1>8. e # NoEvent
  BY <1>1, <1>3, <1>6
<1> QED
  BY <1>2, <1>6, <1>7, <1>8

(* A configuration that was posted: what runs now, and what the file says.  *)
LEMMA PostKeeps ==
    ASSUME PageInv, pc = "done", NEW text, Post(text), JsonText(setting, text),
           setting' = setting,
           event' = [kind |-> event'.kind, old |-> event'.old, keep |-> event'.keep],
           event'.kind \in {"save", "client"}, event' # NoEvent,
           event'.keep /\ event'.kind = "save" => Current(text) /\ event'.old = Value
    PROVE  ConsoleInv' /\ \A t : t = text => Current(t)'
<1>1. ConsoleInv /\ ConsoleTypes /\ setting \in Setting
  BY DEF PageInv, ConsoleInv, ConsoleTypes
<1>2. CASE setting = "order"
  <2>1. StartParse("json", text) /\ file' = Pending /\ edited' = "no" /\ order' = order
    BY <1>2 DEF Post
  <2>2. order \in Permutations
    BY <1>1, DoneOrder
  <2>3. IInv' /\ RequestInv'
    BY <1>2, <2>1, <2>2, StartParseInv DEF JsonText
  <2>4. source' = "json" /\ tokens' = text /\ pc' = "tokens" /\ idx' = 0
    BY <2>1 DEF StartParse
  <2>5. ConsoleTypes' /\ NumberFile' /\ NumberKept'
    BY <1>1, <1>2, <2>1 DEF ConsoleTypes, NumberFile, NumberKept
  <2>6. OrderFile'
    BY <2>1, <2>4 DEF OrderFile
  <2>7. OrderKept'
    <3> SUFFICES ASSUME event'.kind = "save", event'.keep
                 PROVE  event'.old \in Permutations /\ Asked(tokens', event'.old)
      BY <2>4, SlotFacts DEF OrderKept, Kept
    <3> QED
      BY <1>2, <2>2, <2>4 DEF Current, Value
  <2>8. \A t : t = text => Current(t)'
    BY <1>2, <2>4 DEF Current
  <2> QED
    BY <2>3, <2>5, <2>6, <2>7, <2>8 DEF ConsoleInv
<1>3. CASE setting # "order"
  <2>1. /\ running' = FromJson(setting, text, running) /\ file' \in ToIni(setting, running')
        /\ edited' = "no" /\ UNCHANGED vars
    BY <1>3 DEF Post
  <2>2. UNCHANGED <<source, tokens, pc, pos, order, idx, seen, m>>
    BY <2>1 DEF vars
  <2>3. IInv' /\ RequestInv'
    BY <1>1, <2>1, ParserRests
  <2>4. Valid(setting, running) /\ Valid(setting, running') /\ Valid(setting, Default[setting])
    BY <1>1, <1>3, <2>1, FromJsonValid, DefaultValid DEF ConsoleTypes
  <2>5. /\ IniText(setting, file')
        /\ \/ Refused(running)'
           \/ Close(setting, running', FromIni(setting, file', Default[setting]), IniStep(setting))
    BY <1>1, <1>3, <2>1, <2>4, ToIniRound DEF Refused
  <2>6. ConsoleTypes' /\ NumberFile' /\ OrderFile' /\ OrderKept'
    BY <1>1, <1>3, <2>1, <2>2, <2>4, <2>5
       DEF ConsoleTypes, NumberFile, OrderFile, OrderKept
  <2>7. NumberKept'
    <3> SUFFICES ASSUME event'.kind = "save", event'.keep
                 PROVE  Close(setting, event'.old, running', JsonStep(setting))
      BY <1>3 DEF NumberKept
    <3> QED
      BY <1>3, <2>1 DEF Current, Value
  <2>8. FromJson(setting, text, running') = running'
    BY <1>1, <1>3, <2>1, FromJsonAgain
  <2>9. Close(setting, running', running', JsonStep(setting))
    BY <1>1, <2>4, CloseToItself
  <2>10. \A t : t = text => Current(t)'
    BY <1>3, <2>8, <2>9 DEF Current
  <2> QED
    BY <2>3, <2>6, <2>7, <2>10 DEF ConsoleInv
<1> QED
  BY <1>2, <1>3

LEMMA HandleSaveKeeps ==
    ASSUME PageInv, NEW p \in Page, HandleSave(p)
    PROVE  PageInv'
<1> DEFINE text == save[p].text
<1>1. /\ pc = "done" /\ save[p].state = "sent" /\ Post(text)
      /\ event' = [kind |-> "save", old |-> Value, keep |-> save[p].fresh]
      /\ get' = Stale(get) /\ save' = [Stale(save) EXCEPT ![p].state = "ok"]
      /\ synced' = [q \in Page |-> q = p /\ config[p] = text]
      /\ UNCHANGED <<setting, config, reset>>
  BY DEF HandleSave, Ready
<1>2. Shown(text, save[p].fresh)
  BY <1>1, PageFacts DEF Posted
<1> HIDE DEF text
<1>3. /\ event' = [kind |-> event'.kind, old |-> event'.old, keep |-> event'.keep]
      /\ event'.kind = "save" /\ event'.old = Value /\ event'.keep = save[p].fresh
      /\ event' # NoEvent
  BY <1>1, EventFacts
<1>4. ConsoleInv' /\ \A t : t = text => Current(t)'
  BY <1>1, <1>2, <1>3, PostKeeps DEF Shown
<1>5. Requests(save) /\ Requests(reset)
  BY DEF PageInv, PagesInv
<1>6. /\ Requests(save')
      /\ \A q \in Page : /\ save'[q].state = "sent" => save[q].state = "sent"
                         /\ save'[q].text = save[q].text /\ save'[q].fresh = FALSE
  <2>1. PICK stale : stale = Stale(save)
    OBVIOUS
  <2>2. /\ Requests(stale)
        /\ \A q \in Page : /\ stale[q].state = save[q].state /\ stale[q].text = save[q].text
                           /\ stale[q].fresh = FALSE
    BY <1>5, <2>1, StaleFacts
  <2>3. Answered(save', stale, p)
    BY <1>1, <2>1 DEF Answered
  <2>4. /\ Requests(save')
        /\ \A q \in Page : /\ save'[q].state = "sent" => stale[q].state = "sent"
                           /\ save'[q].text = stale[q].text /\ save'[q].fresh = stale[q].fresh
    BY <2>2, <2>3, AnsweredFacts
  <2> QED
    BY <2>2, <2>4
<1>7. synced' \in [Page -> BOOLEAN]
  BY <1>1
<1>8. (\A q \in Page : synced[q] => Current(config[q]))'
  <2>1. \A q \in Page : synced'[q] => config'[q] = text
    BY <1>1
  <2> QED
    BY <1>4, <2>1
<1>9. Requests(reset')
  BY <1>1, <1>5
<1>10. PagesInv'
  BY <1>1, <1>6, <1>7, <1>8, <1>9, PagesForget
<1> QED
  BY <1>4, <1>10 DEF PageInv

LEMMA NothingSynced ==
    ASSUME synced' = [p \in Page |-> FALSE]
    PROVE  /\ synced' \in [Page -> BOOLEAN]
           /\ (\A q \in Page : synced[q] => Current(config[q]))'
BY DEF Current

LEMMA ClientPostsKeeps ==
    ASSUME PageInv, ClientPosts
    PROVE  PageInv'
<1>1. PICK text \in ClientTexts[setting] : Post(text)
  BY DEF ClientPosts
<1>2. /\ pc = "done" /\ event' = [NoEvent EXCEPT !.kind = "client"]
      /\ get' = Stale(get) /\ save' = Stale(save)
      /\ synced' = [p \in Page |-> FALSE]
      /\ UNCHANGED <<setting, config, reset>>
  BY DEF ClientPosts, Ready
<1>3. JsonText(setting, text)
  BY <1>1, PageTexts DEF PageInv, ConsoleInv, ConsoleTypes
<1>4. /\ event' = [kind |-> event'.kind, old |-> event'.old, keep |-> event'.keep]
      /\ event'.kind = "client" /\ event' # NoEvent
  BY <1>2, NoEventFacts
<1>5. ConsoleInv'
  BY <1>1, <1>2, <1>3, <1>4, PostKeeps
<1>6. Requests(save) /\ Requests(reset)
  BY DEF PageInv, PagesInv
<1>7. /\ Requests(save') /\ Requests(reset')
      /\ \A q \in Page : /\ save'[q].state = "sent" => save[q].state = "sent"
                         /\ save'[q].text = save[q].text /\ save'[q].fresh = FALSE
  BY <1>2, <1>6, StaleFacts
<1>8. PagesInv'
  BY <1>2, <1>7, NothingSynced, PagesForget
<1> QED
  BY <1>5, <1>8 DEF PageInv

LEMMA HandleResetKeeps ==
    ASSUME PageInv, NEW p \in Page, HandleReset(p)
    PROVE  PageInv'
<1>1. /\ edited' = "no" /\ event' = [NoEvent EXCEPT !.kind = "reset"]
      /\ get' = Stale(get) /\ save' = Stale(save)
      /\ reset' = [reset EXCEPT ![p].state = "ok"]
      /\ synced' = [q \in Page |-> FALSE]
      /\ UNCHANGED <<setting, config>>
  BY DEF HandleReset
<1>2. ConsoleInv /\ ConsoleTypes /\ setting \in Setting
  BY DEF PageInv, ConsoleInv, ConsoleTypes
<1>3. /\ event' = [kind |-> event'.kind, old |-> event'.old, keep |-> event'.keep]
      /\ event'.kind = "reset" /\ ~event'.keep /\ event' # NoEvent
  BY <1>1, NoEventFacts
<1>4. NumberKept' /\ OrderKept'
  BY <1>3 DEF NumberKept, OrderKept, Kept
<1>5. ConsoleInv'
  <2>1. CASE setting = "order"
    <3>1. NoList /\ order' = DefaultOrder /\ file' = OrderText(DefaultOrder)
      BY <2>1 DEF HandleReset
    <3>2. IInv' /\ RequestInv'
      BY <3>1, DefaultOrderFacts, NoListInv
    <3>3. file' \in Seq(Tokens("ini"))
      BY <3>1, DefaultOrderFacts, OrderTextFacts
    <3>4. ConsoleTypes'
      BY <1>1, <1>2, <1>3, <2>1, <3>3, SettingFacts DEF ConsoleTypes, IniText
    <3>5. OrderFile' /\ NumberFile'
      BY <1>1, <1>3, <2>1, <3>1 DEF OrderFile, NumberFile, NoList
    <3> QED
      BY <1>4, <3>2, <3>4, <3>5 DEF ConsoleInv
  <2>2. CASE setting # "order"
    <3>1. running' = Default[setting] /\ file' \in ToIni(setting, running') /\ UNCHANGED vars
      BY <2>2 DEF HandleReset
    <3>2. IInv' /\ RequestInv'
      BY <1>2, <3>1, ParserRests
    <3>3. pc' = pc
      BY <3>1 DEF vars
    <3>4. Valid(setting, running') /\ Valid(setting, Default[setting])
      BY <1>2, <2>2, <3>1, DefaultValid
    <3>5. /\ IniText(setting, file')
          /\ \/ Refused(running)'
             \/ Close(setting, running', FromIni(setting, file', Default[setting]), IniStep(setting))
      BY <1>1, <1>2, <2>2, <3>1, <3>4, ToIniRound DEF Refused
    <3>6. ConsoleTypes'
      BY <1>1, <1>2, <1>3, <2>2, <3>3, <3>4, <3>5 DEF ConsoleTypes
    <3>7. OrderFile' /\ NumberFile'
      BY <1>1, <2>2, <3>5 DEF OrderFile, NumberFile
    <3> QED
      BY <1>4, <3>2, <3>6, <3>7 DEF ConsoleInv
  <2> QED
    BY <2>1, <2>2
<1>6. Requests(save) /\ Requests(reset)
  BY DEF PageInv, PagesInv
<1>7. /\ Requests(save')
      /\ \A q \in Page : /\ save'[q].state = "sent" => save[q].state = "sent"
                         /\ save'[q].text = save[q].text /\ save'[q].fresh = FALSE
  BY <1>1, <1>6, StaleFacts
<1>8. Requests(reset')
  BY <1>1, <1>6, AnsweredFacts DEF Answered
<1>9. PagesInv'
  BY <1>1, <1>7, <1>8, NothingSynced, PagesForget
<1> QED
  BY <1>5, <1>9 DEF PageInv

LEMMA RestartOrder ==
    ASSUME PageInv, Restart, setting = "order",
           event' = [kind |-> event'.kind, old |-> event'.old, keep |-> event'.keep],
           event'.kind = "restart", event'.old = Value, event'.keep = (edited = "no"),
           event' # NoEvent, UNCHANGED setting
    PROVE  ConsoleInv'
<1>1. /\ pc = "done" /\ file # Pending /\ Open
      /\ ConsoleInv /\ ConsoleTypes /\ OrderFile
  BY DEF Restart, Ready, PageInv, ConsoleInv
<1>2. order \in Permutations /\ order' = DefaultOrder /\ order' \in Permutations
  BY <1>1, DoneOrder, DefaultOrderFacts DEF Restart
<1>3. NumberFile' /\ NumberKept'
  BY DEF NumberFile, NumberKept
<1>4. CASE edited = "removed"
  <2>1. NoList /\ file' = OrderText(DefaultOrder) /\ edited' = "no" /\ pc' = "done"
    BY <1>4 DEF Restart, NoList
  <2>2. IInv' /\ RequestInv'
    BY <1>2, <2>1, NoListInv
  <2>3. file' \in Seq(Tokens("ini"))
    BY <2>1, DefaultOrderFacts, OrderTextFacts
  <2>4. ConsoleTypes'
    BY <1>1, <2>1, <2>3, SettingFacts DEF ConsoleTypes, IniText
  <2>5. OrderFile' /\ OrderKept'
    BY <1>2, <1>4, <2>1 DEF OrderFile, OrderKept, Kept
  <2> QED
    BY <1>3, <2>2, <2>4, <2>5 DEF ConsoleInv
<1>5. CASE edited # "removed"
  <2>1. /\ StartParse("ini", file) /\ source' = "ini" /\ tokens' = file
        /\ pc' = "tokens" /\ idx' = 0 /\ UNCHANGED <<running, file, edited>>
    BY <1>5 DEF Restart, StartParse
  <2>2. IniText(setting, file)
    BY <1>1, <1>5 DEF ConsoleTypes
  <2>3. IInv' /\ RequestInv'
    BY <1>2, <2>1, <2>2, StartParseInv DEF IniText
  <2>4. edited = "no" => file = OrderText(order)
    BY <1>1 DEF OrderFile
  <2>5. ConsoleTypes'
    BY <1>1, <2>1, <2>2 DEF ConsoleTypes
  <2>6. OrderFile'
    BY <2>1, <2>4 DEF OrderFile, Value
  <2>7. OrderKept'
    <3> SUFFICES ASSUME event'.keep
                 PROVE  event'.old \in Permutations /\ Asked(tokens', event'.old)
      BY <2>1, SlotFacts DEF OrderKept, Kept
    <3>1. file = OrderText(order) /\ event'.old = order
      BY <2>4 DEF Value
    <3> QED
      BY <1>2, <2>1, <3>1, OrderTextFacts
  <2> QED
    BY <1>3, <2>3, <2>5, <2>6, <2>7 DEF ConsoleInv
<1> QED
  BY <1>4, <1>5

LEMMA RestartNumber ==
    ASSUME PageInv, Restart, setting # "order",
           event' = [kind |-> event'.kind, old |-> event'.old, keep |-> event'.keep],
           event'.kind = "restart", event'.old = Value, event'.keep = (edited = "no"),
           event' # NoEvent, UNCHANGED setting
    PROVE  ConsoleInv'
<1>1. /\ pc = "done" /\ file # Pending
      /\ ConsoleInv /\ ConsoleTypes /\ NumberFile /\ setting \in Setting
  BY DEF Restart, Ready, PageInv, ConsoleInv, ConsoleTypes
<1>2. UNCHANGED vars /\ pc' = pc
  BY DEF Restart, vars
<1>3. IInv' /\ RequestInv'
  BY <1>1, <1>2, ParserRests
<1>4. Valid(setting, running) /\ Valid(setting, Default[setting])
  BY <1>1, DefaultValid DEF ConsoleTypes
<1>5. OrderFile' /\ OrderKept'
  BY DEF OrderFile, OrderKept
<1>6. CASE edited = "removed"
  <2>1. running' = Default[setting] /\ file' \in ToIni(setting, running') /\ edited' = "no"
    BY <1>6 DEF Restart
  <2>2. /\ IniText(setting, file')
        /\ \/ Refused(running)'
           \/ Close(setting, running', FromIni(setting, file', Default[setting]), IniStep(setting))
    BY <1>1, <1>4, <2>1, ToIniRound DEF Refused
  <2>3. ConsoleTypes'
    BY <1>1, <1>2, <1>4, <2>1, <2>2 DEF ConsoleTypes
  <2>4. NumberFile' /\ NumberKept'
    BY <1>6, <2>2 DEF NumberFile, NumberKept
  <2> QED
    BY <1>3, <1>5, <2>3, <2>4 DEF ConsoleInv
<1>7. CASE edited # "removed"
  <2>1. running' = FromIni(setting, file, Default[setting]) /\ UNCHANGED <<file, edited>>
    BY <1>7 DEF Restart
  <2>2. IniText(setting, file)
    BY <1>1, <1>7 DEF ConsoleTypes
  <2>3. Valid(setting, running')
    BY <1>1, <1>4, <2>1, <2>2, FromIniValid
  <2>4. ConsoleTypes'
    BY <1>1, <1>2, <2>1, <2>2, <2>3 DEF ConsoleTypes
  <2>5. NumberFile'
    <3>1. Close(setting, running', running', IniStep(setting))
      BY <1>1, <2>3, CloseToItself
    <3> QED
      BY <2>1, <3>1 DEF NumberFile
  <2>6. NumberKept'
    <3> SUFFICES ASSUME edited = "no"
                 PROVE  \/ Refused(running)
                        \/ Close(setting, running, running', IniStep(setting))
      BY DEF NumberKept, Refused, Value
    <3> QED
      BY <1>1, <2>1 DEF NumberFile
  <2> QED
    BY <1>3, <1>5, <2>4, <2>5, <2>6 DEF ConsoleInv
<1> QED
  BY <1>6, <1>7

LEMMA RestartKeeps ==
    ASSUME PageInv, Restart
    PROVE  PageInv'
<1>1. /\ event' = [kind |-> "restart", old |-> Value, keep |-> edited = "no"]
      /\ get' = Stale(get) /\ save' = Stale(save)
      /\ synced' = [p \in Page |-> FALSE]
      /\ UNCHANGED <<setting, config, reset>>
  BY DEF Restart
<1>2. /\ event' = [kind |-> event'.kind, old |-> event'.old, keep |-> event'.keep]
      /\ event'.kind = "restart" /\ event'.old = Value /\ event'.keep = (edited = "no")
      /\ event' # NoEvent
  BY <1>1, EventFacts
<1>4. setting = "order" => ConsoleInv'
  BY <1>1, <1>2, RestartOrder
<1>5. setting # "order" => ConsoleInv'
  BY <1>1, <1>2, RestartNumber
<1>6. Requests(save) /\ Requests(reset)
  BY DEF PageInv, PagesInv
<1>7. /\ Requests(save') /\ Requests(reset')
      /\ \A q \in Page : /\ save'[q].state = "sent" => save[q].state = "sent"
                         /\ save'[q].text = save[q].text /\ save'[q].fresh = FALSE
  BY <1>1, <1>6, StaleFacts
<1>8. PagesInv'
  BY <1>1, <1>7, NothingSynced, PagesForget
<1> QED
  BY <1>4, <1>5, <1>8 DEF PageInv
-----------------------------------------------------------------------------
LEMMA InitPageInv == PageInit => PageInv
<1> SUFFICES ASSUME PageInit PROVE PageInv
  OBVIOUS
<1>1. /\ Init /\ setting \in Setting /\ (setting # "order" => source = "none")
      /\ running = Default[setting] /\ edited = "no" /\ event = NoEvent
      /\ setting = "order" => file = OrderText(DefaultOrder)
      /\ setting # "order" => file \in ToIni(setting, running)
      /\ config = [p \in Page |-> BuiltIn[setting]] /\ synced = [p \in Page |-> FALSE]
      /\ get = [p \in Page |-> Sent] /\ save = [p \in Page |-> Idle]
      /\ reset = [p \in Page |-> Idle]
  BY DEF PageInit, Setting
<1>2. IInv /\ RequestInv
  BY <1>1, InitIInv, InitRequest
<1>3. /\ source = "none" => pc = "validate"
      /\ pc \in {"validate", "tokens"}
  BY <1>1 DEF Init
<1>4. event.kind = "none"
  BY <1>1 DEF NoEvent
<1>5. ConsoleTypes /\ NumberFile /\ OrderFile
  <2>1. CASE setting = "order"
    <3>1. file \in Seq(Tokens("ini"))
      BY <1>1, <2>1, DefaultOrderFacts, OrderTextFacts
    <3> QED
      BY <1>1, <1>3, <2>1, <3>1, SettingFacts DEF ConsoleTypes, IniText, NumberFile, OrderFile
  <2>2. CASE setting # "order"
    <3>1. Valid(setting, running)
      BY <1>1, <2>2, DefaultValid
    <3>2. /\ IniText(setting, file)
          /\ \/ Refused(running)
             \/ Close(setting, running, FromIni(setting, file, Default[setting]), IniStep(setting))
      BY <1>1, <2>2, <3>1, ToIniRound DEF Refused
    <3> QED
      BY <1>1, <1>3, <2>2, <3>1, <3>2 DEF ConsoleTypes, NumberFile, OrderFile
  <2> QED
    BY <2>1, <2>2
<1>6. NumberKept /\ OrderKept
  BY <1>1, <1>3, <1>4 DEF NumberKept, OrderKept, Kept
<1>7. Requests(get) /\ Requests(save) /\ Requests(reset)
  BY <1>1, RequestFacts DEF Requests
<1>8. \A p \in Page : Shown(config[p], synced[p]) /\ Answer(get[p]) /\ Posted(save[p])
  BY <1>1, RequestFacts, PageTexts DEF Shown, Answer, Posted
<1>9. PagesInv
  BY <1>1, <1>7, <1>8 DEF PagesInv
<1> QED
  BY <1>2, <1>5, <1>6, <1>9 DEF PageInv, ConsoleInv

LEMMA NextPageInv == PageInv /\ [PageNext]_allVars => PageInv'
<1> SUFFICES ASSUME PageInv, [PageNext]_allVars PROVE PageInv'
  OBVIOUS
<1>1. CASE Next /\ UNCHANGED <<setting, consoleVars, config, synced, get, save, reset>>
  BY <1>1, NextKeeps
<1>2. CASE SaveOrder
  BY <1>2, SaveOrderKeeps
<1>3. ASSUME NEW p \in Page, Edit(p) PROVE PageInv'
  BY <1>3, EditKeeps
<1>4. ASSUME NEW p \in Page, ClickSave(p) \/ ClickReset(p) PROVE PageInv'
  BY <1>4, ClicksKeep
<1>5. ASSUME NEW p \in Page, Lose(p) PROVE PageInv'
  BY <1>5, LoseKeeps
<1>6. ASSUME NEW p \in Page, LoadAnswered(p) \/ SaveAnswered(p) \/ ResetAnswered(p) PROVE PageInv'
  BY <1>6, AnsweredKeeps
<1>7. ASSUME NEW p \in Page, HandleLoad(p) PROVE PageInv'
  BY <1>7, HandleLoadKeeps
<1>8. ASSUME NEW p \in Page, HandleSave(p) PROVE PageInv'
  BY <1>8, HandleSaveKeeps
<1>9. ASSUME NEW p \in Page, HandleReset(p) PROVE PageInv'
  BY <1>9, HandleResetKeeps
<1>10. CASE ClientPosts
  BY <1>10, ClientPostsKeeps
<1>11. CASE UserEditsFile
  BY <1>11, UserEditsKeeps
<1>12. CASE Restart
  BY <1>12, RestartKeeps
<1>13. CASE UNCHANGED allVars
  <2>1. UNCHANGED <<vars, setting, consoleVars, config, synced, get, save, reset>>
    BY <1>13 DEF allVars
  <2>2. ConsoleInv' /\ \A t, f : Shown(t, f)' <=> Shown(t, f)
    BY <2>1, Unmoved
  <2>3. UNCHANGED <<pc, order, tokens, source, running, setting>>
    BY <2>1 DEF vars, consoleVars
  <2>4. PagesInv'
    BY <2>1, <2>3, PagesStay DEF Current
  <2> QED
    BY <2>2, <2>4 DEF PageInv
<1> QED
  BY <1>1, <1>2, <1>3, <1>4, <1>5, <1>6, <1>7, <1>8, <1>9, <1>10, <1>11, <1>12, <1>13
     DEF PageNext

LEMMA PageInvHolds == PageSpec => []PageInv
BY InitPageInv, NextPageInv, PTL DEF PageSpec

(* Whatever is posted or written into the file, in any order of requests,   *)
(* answers and losses, the settings with a range stay inside it.            *)
THEOREM PageTypeCorrect == PageSpec => []PageTypeOK
<1>1. PageInv => PageTypeOK
  <2> SUFFICES ASSUME PageInv PROVE PageTypeOK
    OBVIOUS
  <2>1. /\ setting \in Setting /\ edited \in {"no", "text", "removed"}
        /\ setting \in DOMAIN Number => running \in Int /\ InRange(setting, running)
    BY SettingFacts DEF PageInv, ConsoleInv, ConsoleTypes, Valid
  <2>2. /\ DOMAIN config = Page /\ synced \in [Page -> BOOLEAN]
        /\ \A p \in Page : IsRequest(get[p]) /\ IsRequest(save[p]) /\ IsRequest(reset[p])
    BY DEF PageInv, PagesInv, Requests
  <2> QED
    BY <2>1, <2>2 DEF PageTypeOK, IsRequest
<1> QED
  BY <1>1, PageInvHolds, PTL

(* A save of a page that shows what the console runs leaves the screen as   *)
(* it was, to the digits of the document, for any number of pages.          *)
THEOREM UntouchedAlwaysStays == PageSpec => []UntouchedStays
<1>1. PageInv => UntouchedStays
  <2> SUFFICES ASSUME PageInv, pc = "done", event.kind = "save", event.keep
               PROVE  Close(setting, event.old, Value, JsonStep(setting))
    BY DEF UntouchedStays, JsonStep
  <2>1. OrderKept /\ NumberKept
    BY DEF PageInv, ConsoleInv
  <2>2. CASE setting = "order"
    BY <2>1, <2>2, SettingFacts DEF OrderKept, Kept, Value, Close
  <2>3. CASE setting # "order"
    BY <2>1, <2>3 DEF NumberKept, Value
  <2> QED
    BY <2>2, <2>3
<1> QED
  BY <1>1, PageInvHolds, PTL

(* A restart leaves the screen as it was, to the digits of the file, unless *)
(* the user changed the file, or the background has a colour that the reader*)
(* of the file refuses.                                                     *)
THEOREM ReloadAlwaysKeeps == PageSpec => []ReloadKeeps
<1>1. PageInv => ReloadKeeps
  <2> SUFFICES ASSUME PageInv, pc = "done", event.kind = "restart", event.keep
               PROVE  \/ Refused(event.old)
                      \/ Close(setting, event.old, Value, IniStep(setting))
    BY DEF ReloadKeeps, Refused, IniStep
  <2>1. OrderKept /\ NumberKept
    BY DEF PageInv, ConsoleInv
  <2>2. CASE setting = "order"
    BY <2>1, <2>2, SettingFacts DEF OrderKept, Kept, Value, Close
  <2>3. CASE setting # "order"
    BY <2>1, <2>3 DEF NumberKept, Value
  <2> QED
    BY <2>2, <2>3
<1> QED
  BY <1>1, PageInvHolds, PTL

(* The order the parsers leave behind is the requested permutation, also    *)
(* when one list comes after the other, over whatever order there was.      *)
THEOREM PageKeepsOrder ==
    PageSpec => [](TypeOK /\ OrderIsPermutation /\ RepairNeverNeeded /\ OrderIsRequested)
<1>1. PageInv => TypeOK /\ OrderIsPermutation
  BY DEF PageInv, ConsoleInv, IInv, DoneInv, OrderIsPermutation
<1>2. PageInv => RepairNeverNeeded /\ OrderIsRequested
  BY NoRepair, RequestIsOrder DEF PageInv, ConsoleInv
<1> QED
  BY <1>1, <1>2, PageInvHolds, PTL

=============================================================================
