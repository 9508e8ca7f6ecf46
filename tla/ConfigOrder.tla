----------------------------- MODULE ConfigOrder -----------------------------
(***************************************************************************)
(* How OverlayConfig::order gets its value: the "order" array of a request *)
(* body (parse_config_json, payload/web_server.cpp), the "order" line of   *)
(* config.ini and the validation pass at the end of config_load            *)
(* (payload/config.cpp).  build_hud() and destroy_hud() rely on order      *)
(* being a permutation of the metrics.                                     *)
(*                                                                         *)
(* A token is what one entry of the list names: a metric, a name nobody    *)
(* knows, or (JSON only) something that is not a string.  An over-long     *)
(* JSON name is a name nobody knows followed by something that is not a    *)
(* string.                                                                 *)
(***************************************************************************)
EXTENDS Integers, Sequences

CONSTANTS
    METRIC_COUNT,
    Unknown,        \* a name str_to_metric_type() does not know
    NotString,      \* a JSON array entry without quotes
    MaxTokens       \* bound: length of the list

Metric == 0 .. METRIC_COUNT - 1
Slot == 0 .. METRIC_COUNT - 1
METRIC_FPS == 0

ASSUME MetricCountAssumption == METRIC_COUNT \in Nat \ {0}
ASSUME TokenAssumption == Unknown \notin Metric /\ NotString \notin Metric /\ Unknown # NotString
ASSUME MaxTokensAssumption == MaxTokens \in Nat

(* "none" is an .ini file without an order line. *)
Sources == {"json", "ini", "none"}
Tokens(source) == Metric \cup {Unknown} \cup (IF source = "json" THEN {NotString} ELSE {})
TokenLists(source) ==
    IF source = "none" THEN {<< >>} ELSE UNION {[1 .. n -> Tokens(source)] : n \in 0 .. MaxTokens}

IsPermutation(o) ==
    /\ \A i, j \in Slot : o[i] = o[j] => i = j
    /\ \A m \in Metric : \E i \in Slot : o[i] = m
Permutations == {o \in [Slot -> Metric] : IsPermutation(o)}

VARIABLES source, tokens,
    pc,
    pos,        \* next token
    order,      \* cfg->order, overwritten in place
    idx,        \* o_idx, the next slot to fill
    seen,       \* the metrics marked in seen[]
    m           \* loop variable of the passes that follow

vars == <<source, tokens, pc, pos, order, idx, seen, m>>

(* cfg->order starts as the defaults, an earlier order line or the current  *)
(* configuration: a permutation in each case.                               *)
Init ==
    /\ source \in Sources
    /\ tokens \in TokenLists(source)
    /\ order \in Permutations
    /\ pc = IF source = "none" THEN "validate" ELSE "tokens"
    /\ pos = 1 /\ idx = 0 /\ seen = {} /\ m = 0
-----------------------------------------------------------------------------
(* Faulty variants: an unknown name is one past the last metric; a metric   *)
(* is placed but not marked; the last entry of the list is not read.        *)
str_to_metric_type_Invalid(t) == IF t \in Metric THEN t ELSE METRIC_COUNT

str_to_metric_type(t) == IF t \in Metric THEN t ELSE METRIC_FPS

Place_Unmarked(mt) ==
    \/ /\ mt \notin seen
       /\ order' = [order EXCEPT ![idx] = mt]
       /\ idx' = idx + 1
       /\ seen' = seen
    \/ mt \in seen /\ UNCHANGED <<order, idx, seen>>

(* if (!seen[mt]) { cfg->order[o_idx++] = mt; seen[mt] = true; } *)
Place(mt) ==
    \/ /\ mt \notin seen
       /\ order' = [order EXCEPT ![idx] = mt]
       /\ idx' = idx + 1
       /\ seen' = seen \cup {mt}
    \/ mt \in seen /\ UNCHANGED <<order, idx, seen>>

MoreTokens_LastIgnored ==
    pos < Len(tokens) /\ idx < METRIC_COUNT /\ tokens[pos] # NotString

MoreTokens == pos <= Len(tokens) /\ idx < METRIC_COUNT /\ tokens[pos] # NotString

TakeToken ==
    /\ pc = "tokens" /\ MoreTokens
    /\ Place(str_to_metric_type(tokens[pos]))
    /\ pos' = pos + 1
    /\ UNCHANGED <<source, tokens, pc, m>>

TokensDone ==
    /\ pc = "tokens" /\ ~MoreTokens
    /\ pc' = "append"
    /\ m' = 0
    /\ UNCHANGED <<source, tokens, pos, order, idx, seen>>

(* A faulty append pass: it stops one metric early. *)
MoreMissing_OffByOne == m < METRIC_COUNT - 1 /\ idx < METRIC_COUNT

(* Metrics the list does not name are appended. *)
MoreMissing == m < METRIC_COUNT /\ idx < METRIC_COUNT

AppendMissing ==
    /\ pc = "append" /\ MoreMissing
    /\ Place(m)
    /\ m' = m + 1
    /\ UNCHANGED <<source, tokens, pc, pos>>

AppendDone ==
    /\ pc = "append" /\ ~MoreMissing
    /\ pc' = IF source = "json" THEN "done" ELSE "validate"
    /\ m' = 0
    /\ seen' = {}
    /\ UNCHANGED <<source, tokens, pos, order, idx>>

(* One entry of the validation pass of config_load.  An entry that is out   *)
(* of range or marked already would lead to the repair of the order, which  *)
(* no state reaches (RepairNeverNeeded).                                    *)
NeedsRepair == pc = "validate" /\ m < METRIC_COUNT /\ order[m] \notin Metric \ seen

Validate ==
    /\ pc = "validate" /\ m < METRIC_COUNT /\ ~NeedsRepair
    /\ seen' = seen \cup {order[m]}
    /\ m' = m + 1
    /\ UNCHANGED <<source, tokens, pc, pos, order, idx>>

ValidateDone ==
    /\ pc = "validate" /\ m = METRIC_COUNT
    /\ pc' = "done"
    /\ UNCHANGED <<source, tokens, pos, order, idx, seen, m>>

Next ==
    \/ TakeToken \/ TokensDone
    \/ AppendMissing \/ AppendDone
    \/ Validate \/ ValidateDone

Spec == Init /\ [][Next]_vars
-----------------------------------------------------------------------------
TypeOK ==
    /\ source \in Sources
    /\ tokens \in Seq(Tokens(source))
    /\ pc \in {"tokens", "append", "validate", "done"}
    /\ pos \in 1 .. Len(tokens) + 1
    /\ order \in [Slot -> Metric]
    /\ idx \in 0 .. METRIC_COUNT
    /\ seen \in SUBSET Metric
    /\ m \in 0 .. METRIC_COUNT

(* Whatever the list holds (duplicates, unknown names, too few or too many  *)
(* entries, a broken tail), the order every caller gets is a permutation:   *)
(* no slot keeps a value from before, no metric is lost or drawn twice.     *)
OrderIsPermutation == pc = "done" => IsPermutation(order)

(* The repair pass of config_load is dead code: neither the defaults nor an *)
(* order line can produce an order it would have to repair.                 *)
RepairNeverNeeded == ~NeedsRepair

(* Where a metric belongs: by its first mention in the part of the list     *)
(* that is read, else after all mentioned ones, by number.                  *)
Read(list, j) == j \in 1 .. Len(list) /\ \A k \in 1 .. j : list[k] # NotString
Mentions(list, mt, j) == Read(list, j) /\ str_to_metric_type(list[j]) = mt
Before(list, a, b) ==
    \/ \E j \in 1 .. Len(list) :
          Mentions(list, a, j) /\ \A k \in 1 .. j : ~Mentions(list, b, k)
    \/ /\ \A j \in 1 .. Len(list) : ~Mentions(list, a, j) /\ ~Mentions(list, b, j)
       /\ a < b
Asked(list, o) == \A i, j \in Slot : i < j => Before(list, o[i], o[j])

(* The user sees the metrics in the order the page or the file gave: the    *)
(* two loops of either parser agree with that definition.                   *)
OrderIsRequested == pc = "done" /\ source # "none" => Asked(tokens, order)
=============================================================================
