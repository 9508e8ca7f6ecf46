------------------------ MODULE ConfigOrderTheorems ------------------------
(* For every number of metrics and every list, both parsers leave a          *)
(* permutation: what ConfigAssumption of OverlayRuntime takes for granted.   *)
EXTENDS ConfigOrder, FiniteSetTheorems, TLAPS

LEMMA SlotFacts ==
    /\ 0 \in Metric /\ Slot = Metric
    /\ IsFiniteSet(Metric) /\ Cardinality(Metric) = METRIC_COUNT
    /\ \A i \in Slot : i \in Nat /\ i < METRIC_COUNT
<1>1. IsFiniteSet(0 .. METRIC_COUNT - 1) /\ Cardinality(0 .. METRIC_COUNT - 1) = METRIC_COUNT
  BY FS_Interval, MetricCountAssumption
<1> QED
  BY <1>1, MetricCountAssumption DEF Metric, Slot

LEMMA MetricOfToken ==
    \A t : str_to_metric_type(t) \in Metric
BY SlotFacts DEF str_to_metric_type, METRIC_FPS

(* The metrics in the slots before k. *)
Filled(k) == {order[i] : i \in {j \in Slot : j < k}}

(* While slots are filled: the counter, the marks and the filled slots agree,*)
(* and no metric was placed twice.                                           *)
FillInv ==
    pc \in {"tokens", "append"} =>
        /\ idx = Cardinality(seen)
        /\ seen = Filled(idx)
        /\ \A i, j \in Slot : i < idx /\ j < idx /\ order[i] = order[j] => i = j

AppendInv == pc = "append" => \A k \in Metric : k < m => k \in seen

DoneInv ==
    /\ pc \in {"validate", "done"} => IsPermutation(order)
    /\ pc = "validate" => seen = Filled(m)

IInv == TypeOK /\ FillInv /\ AppendInv /\ DoneInv

(* Placing a metric keeps the three in step. *)
LEMMA PlaceKeeps ==
    ASSUME TypeOK, FillInv, pc \in {"tokens", "append"}, idx < METRIC_COUNT,
           NEW mt \in Metric, Place(mt)
    PROVE  /\ order' \in [Slot -> Metric] /\ idx' \in 0 .. METRIC_COUNT
           /\ seen' \in SUBSET Metric /\ mt \in seen' /\ seen \subseteq seen'
           /\ idx' = Cardinality(seen')
           /\ seen' = {order'[i] : i \in {j \in Slot : j < idx'}}
           /\ \A i, j \in Slot : i < idx' /\ j < idx' /\ order'[i] = order'[j] => i = j
<1>0. /\ idx \in Slot /\ idx = Cardinality(seen) /\ seen = Filled(idx) /\ seen \in SUBSET Metric
      /\ \A i, j \in Slot : i < idx /\ j < idx /\ order[i] = order[j] => i = j
      /\ order \in [Slot -> Metric]
  BY MetricCountAssumption DEF TypeOK, FillInv, Slot
<1>1. CASE mt \in seen /\ UNCHANGED <<order, idx, seen>>
  BY <1>0, <1>1 DEF Filled, TypeOK
<1>2. CASE /\ mt \notin seen /\ order' = [order EXCEPT ![idx] = mt]
           /\ idx' = idx + 1 /\ seen' = seen \cup {mt}
  <2>1. IsFiniteSet(seen)
    BY <1>0, SlotFacts, FS_Subset
  <2>2. Cardinality(seen') = idx + 1
    BY <1>0, <1>2, <2>1, FS_AddElement
  <2>3. \A i \in Slot : i < idx => order'[i] = order[i] /\ order[i] # mt
    <3> SUFFICES ASSUME NEW i \in Slot, i < idx
                 PROVE  order'[i] = order[i] /\ order[i] # mt
      OBVIOUS
    <3>1. order[i] \in seen
      BY <1>0 DEF Filled
    <3>2. i # idx
      BY <1>0, MetricCountAssumption DEF Slot
    <3> QED
      BY <1>0, <1>2, <3>1, <3>2
  <2>4. order'[idx] = mt
    BY <1>0, <1>2
  <2>5. \A i \in Slot : i < idx' <=> i < idx \/ i = idx
    <3>1. idx' = idx + 1 /\ idx \in 0 .. METRIC_COUNT - 1
      BY <1>0, <1>2 DEF Slot
    <3>2. \A i \in 0 .. METRIC_COUNT - 1 : i < idx' <=> i < idx \/ i = idx
      BY <3>1, MetricCountAssumption
    <3> QED
      BY <3>2 DEF Slot
  <2>6. seen' = {order'[i] : i \in {j \in Slot : j < idx'}}
    <3> DEFINE New == {order'[i] : i \in {j \in Slot : j < idx'}}
    <3>1. ASSUME NEW k \in seen PROVE k \in New
      BY <1>0, <2>3, <2>5 DEF Filled
    <3>2. mt \in New
      BY <1>0, <2>4, <2>5
    <3>3. ASSUME NEW k \in New PROVE k \in seen \cup {mt}
      BY <1>0, <2>3, <2>4, <2>5 DEF Filled
    <3> HIDE DEF New
    <3>4. seen' = New
      BY <1>2, <3>1, <3>2, <3>3
    <3> QED
      BY <3>4 DEF New
  <2>7. \A i, j \in Slot : i < idx' /\ j < idx' /\ order'[i] = order'[j] => i = j
    BY <1>0, <2>3, <2>4, <2>5
  <2>8. order' \in [Slot -> Metric] /\ idx' \in 0 .. METRIC_COUNT /\ seen' \in SUBSET Metric
    <3>1. order' \in [Slot -> Metric]
      BY <1>0, <1>2
    <3>2. idx' \in 0 .. METRIC_COUNT
      <4>1. idx \in 0 .. METRIC_COUNT - 1 /\ idx' = idx + 1
        BY <1>0, <1>2 DEF Slot
      <4> QED
        BY <4>1, MetricCountAssumption
    <3> QED
      BY <1>0, <1>2, <3>1, <3>2
  <2> QED
    BY <1>2, <2>2, <2>6, <2>7, <2>8
<1> QED
  BY <1>1, <1>2 DEF Place

(* When the append pass ends every slot was filled and every metric placed,  *)
(* by counting: neither loop guard alone says so.                            *)
LEMMA FullIsPermutation ==
    ASSUME TypeOK, FillInv, AppendInv, pc = "append", ~MoreMissing
    PROVE  idx = METRIC_COUNT /\ IsPermutation(order)
<1>0. /\ idx = Cardinality(seen) /\ seen = Filled(idx) /\ seen \in SUBSET Metric
      /\ \A i, j \in Slot : i < idx /\ j < idx /\ order[i] = order[j] => i = j
      /\ idx \in 0 .. METRIC_COUNT /\ m \in 0 .. METRIC_COUNT
      /\ \A k \in Metric : k < m => k \in seen
  BY DEF TypeOK, FillInv, AppendInv
<1>1. idx = METRIC_COUNT /\ seen = Metric
  <2>1. CASE m = METRIC_COUNT
    <3>1. seen = Metric
      BY <1>0, <2>1, SlotFacts
    <3> QED
      BY <1>0, <3>1, SlotFacts
  <2>2. CASE idx = METRIC_COUNT
    BY <1>0, <2>2, SlotFacts, FS_Subset
  <2> QED
    BY <1>0, <2>1, <2>2, MetricCountAssumption DEF MoreMissing
<1>2. \A i, j \in Slot : order[i] = order[j] => i = j
  BY <1>0, <1>1, SlotFacts
<1>3. \A k \in Metric : \E i \in Slot : order[i] = k
  BY <1>0, <1>1 DEF Filled
<1> QED
  BY <1>1, <1>2, <1>3 DEF IsPermutation

LEMMA InitIInv == Init => IInv
<1> SUFFICES ASSUME Init PROVE IInv
  OBVIOUS
<1>1. tokens \in Seq(Tokens(source))
  <2>1. CASE source = "none"
    BY <2>1 DEF Init, TokenLists
  <2>2. CASE source # "none"
    <3>1. PICK n \in 0 .. MaxTokens : tokens \in [1 .. n -> Tokens(source)]
      BY <2>2 DEF Init, TokenLists
    <3> QED
      BY <3>1, MaxTokensAssumption
  <2> QED
    BY <2>1, <2>2
<1>2. /\ order \in [Slot -> Metric] /\ IsPermutation(order)
      /\ pos = 1 /\ idx = 0 /\ seen = {} /\ m = 0 /\ source \in Sources
      /\ pc \in {"validate", "tokens"}
  BY DEF Init, Permutations
<1>3. Len(tokens) \in Nat
  BY <1>1
<1>4. TypeOK
  BY <1>1, <1>2, <1>3, MetricCountAssumption DEF TypeOK
<1>5. Filled(0) = {}
  BY SlotFacts DEF Filled
<1>6. FillInv
  BY <1>2, <1>5, FS_EmptySet, MetricCountAssumption DEF FillInv, Slot
<1>7. AppendInv /\ DoneInv
  BY <1>2, <1>5 DEF AppendInv, DoneInv
<1> QED
  BY <1>4, <1>6, <1>7 DEF IInv

LEMMA NextIInv == IInv /\ [Next]_vars => IInv'
<1> SUFFICES ASSUME IInv, [Next]_vars PROVE IInv'
  OBVIOUS
<1>0. TypeOK /\ FillInv /\ AppendInv /\ DoneInv
  BY DEF IInv
<1>1. CASE TakeToken
  <2> DEFINE mt == str_to_metric_type(tokens[pos])
  <2>1. /\ pc = "tokens" /\ idx < METRIC_COUNT /\ mt \in Metric /\ Place(mt)
        /\ pos <= Len(tokens) /\ pos' = pos + 1
        /\ UNCHANGED <<source, tokens, pc, m>>
    BY <1>1, MetricOfToken DEF TakeToken, MoreTokens
  <2>2. /\ order' \in [Slot -> Metric] /\ idx' \in 0 .. METRIC_COUNT
        /\ seen' \in SUBSET Metric /\ idx' = Cardinality(seen')
        /\ seen' = {order'[i] : i \in {j \in Slot : j < idx'}}
        /\ \A i, j \in Slot : i < idx' /\ j < idx' /\ order'[i] = order'[j] => i = j
    BY <1>0, <2>1, PlaceKeeps
  <2>3. pos' \in 1 .. Len(tokens') + 1
    BY <1>0, <2>1 DEF TypeOK
  <2> HIDE DEF mt
  <2>4. TypeOK'
    BY <1>0, <2>1, <2>2, <2>3 DEF TypeOK
  <2> QED
    BY <2>1, <2>2, <2>4 DEF IInv, FillInv, AppendInv, DoneInv, Filled
<1>2. CASE TokensDone
  <2>1. TypeOK'
    BY <1>0, <1>2, MetricCountAssumption DEF TypeOK, TokensDone
  <2> QED
    BY <1>0, <1>2, <2>1, SlotFacts
       DEF TokensDone, IInv, FillInv, AppendInv, DoneInv, Filled
<1>3. CASE AppendMissing
  <2>1. /\ pc = "append" /\ idx < METRIC_COUNT /\ m < METRIC_COUNT /\ m \in Metric /\ Place(m)
        /\ m' = m + 1 /\ UNCHANGED <<source, tokens, pc, pos>>
    BY <1>0, <1>3, MetricCountAssumption DEF AppendMissing, MoreMissing, TypeOK, Metric
  <2>2. /\ order' \in [Slot -> Metric] /\ idx' \in 0 .. METRIC_COUNT
        /\ seen' \in SUBSET Metric /\ m \in seen' /\ seen \subseteq seen'
        /\ idx' = Cardinality(seen')
        /\ seen' = {order'[i] : i \in {j \in Slot : j < idx'}}
        /\ \A i, j \in Slot : i < idx' /\ j < idx' /\ order'[i] = order'[j] => i = j
    BY <1>0, <2>1, PlaceKeeps
  <2>3. m' \in 0 .. METRIC_COUNT
    BY <2>1, MetricCountAssumption DEF Metric
  <2>4. TypeOK'
    BY <1>0, <2>1, <2>2, <2>3 DEF TypeOK
  <2>5. AppendInv'
    BY <1>0, <2>1, <2>2, SlotFacts DEF AppendInv
  <2> QED
    BY <2>1, <2>2, <2>4, <2>5 DEF IInv, FillInv, DoneInv, Filled
<1>4. CASE AppendDone
  <2>1. /\ pc = "append" /\ ~MoreMissing /\ pc' \in {"done", "validate"} /\ m' = 0 /\ seen' = {}
        /\ UNCHANGED <<source, tokens, pos, order, idx>>
    BY <1>4 DEF AppendDone
  <2>2. IsPermutation(order)
    BY <1>0, <2>1, FullIsPermutation
  <2>3. TypeOK'
    BY <1>0, <2>1, MetricCountAssumption DEF TypeOK
  <2> QED
    BY <2>1, <2>2, <2>3, SlotFacts
       DEF IInv, FillInv, AppendInv, DoneInv, Filled, IsPermutation
<1>5. CASE Validate
  <2>1. /\ pc = "validate" /\ m \in Slot /\ m' = m + 1 /\ seen' = seen \cup {order[m]}
        /\ UNCHANGED <<source, tokens, pc, pos, order, idx>>
    BY <1>0, <1>5, MetricCountAssumption DEF Validate, TypeOK, Slot
  <2>2. TypeOK'
    BY <1>0, <2>1, MetricCountAssumption DEF TypeOK, Slot
  <2>3. \A i \in Slot : i < m + 1 <=> i < m \/ i = m
    BY <2>1, SlotFacts
  <2>4. seen' = Filled(m)'
    BY <1>0, <2>1, <2>3 DEF DoneInv, Filled
  <2> QED
    BY <1>0, <2>1, <2>2, <2>4 DEF IInv, FillInv, AppendInv, DoneInv, IsPermutation
<1>6. CASE ValidateDone
  <2>1. TypeOK'
    BY <1>0, <1>6 DEF TypeOK, ValidateDone
  <2> QED
    BY <1>0, <1>6, <2>1
       DEF ValidateDone, IInv, FillInv, AppendInv, DoneInv, IsPermutation
<1>7. CASE UNCHANGED vars
  <2>1. TypeOK'
    BY <1>0, <1>7 DEF TypeOK, vars
  <2> QED
    BY <1>0, <1>7, <2>1
       DEF vars, IInv, FillInv, AppendInv, DoneInv, IsPermutation, Filled
<1> QED
  BY <1>1, <1>2, <1>3, <1>4, <1>5, <1>6, <1>7 DEF Next

LEMMA IInvHolds == Spec => []IInv
BY InitIInv, NextIInv, PTL DEF Spec

(* The slots before k hold their metrics in the order that was asked for.    *)
Sorted(k) == \A i, j \in Slot : i < j /\ j < k => Before(tokens, order[i], order[j])

(* Somewhere in the part of the list that is read.                           *)
Mentioned(mt) == \E j \in 1 .. Len(tokens) : Mentions(tokens, mt, j)

(* While tokens are taken, what was placed is what was mentioned so far; in  *)
(* the append pass, all that was mentioned and the other metrics below m.    *)
RequestInv ==
    /\ pc = "tokens" =>
        /\ \A k \in 1 .. pos - 1 : tokens[k] # NotString
        /\ \A mt \in Metric :
              mt \in seen <=> \E k \in 1 .. pos - 1 : str_to_metric_type(tokens[k]) = mt
        /\ Sorted(idx)
    /\ pc = "append" =>
        /\ idx = METRIC_COUNT \/ \A mt \in Metric : Mentioned(mt) => mt \in seen
        /\ \A mt \in seen : Mentioned(mt) \/ mt < m
        /\ Sorted(idx)
    /\ pc \in {"validate", "done"} /\ source # "none" => Sorted(METRIC_COUNT)

(* A metric that belongs behind all placed ones may take the next slot.      *)
LEMMA PlaceSorted ==
    ASSUME TypeOK, FillInv, pc \in {"tokens", "append"}, idx < METRIC_COUNT,
           NEW mt \in Metric, Place(mt), UNCHANGED tokens, Sorted(idx),
           mt \notin seen => \A a \in seen : Before(tokens, a, mt)
    PROVE  Sorted(idx)'
<1>0. /\ idx \in Slot /\ seen = Filled(idx) /\ order \in [Slot -> Metric]
  BY MetricCountAssumption DEF TypeOK, FillInv, Slot
<1>1. ASSUME NEW k, \A i, j \in Slot : i < j /\ j < k => Before(tokens, order'[i], order'[j])
      PROVE  \A i, j \in Slot : i < j /\ j < k => (Before(tokens, order[i], order[j]))'
  BY <1>1 DEF Before, Mentions, Read
<1>2. CASE mt \in seen /\ UNCHANGED <<order, idx, seen>>
  BY <1>0, <1>1, <1>2 DEF Sorted
<1>3. CASE /\ mt \notin seen /\ order' = [order EXCEPT ![idx] = mt]
           /\ idx' = idx + 1 /\ seen' = seen \cup {mt}
  <2> SUFFICES ASSUME NEW i \in Slot, NEW j \in Slot, i < j, j < idx + 1
               PROVE  Before(tokens, order'[i], order'[j])
    BY <1>1, <1>3 DEF Sorted
  <2>1. i < idx /\ i # idx /\ (j < idx \/ j = idx)
    BY <1>0, SlotFacts
  <2>2. order'[i] = order[i] /\ order[i] \in Metric /\ order[i] \in seen
    BY <1>0, <1>3, <2>1 DEF Filled
  <2>3. CASE j < idx
    <3>1. order'[j] = order[j] /\ order[j] \in Metric /\ Before(tokens, order[i], order[j])
      BY <1>0, <1>3, <2>3, SlotFacts DEF Sorted
    <3> QED
      BY <2>2, <3>1
  <2>4. CASE j = idx
    <3>1. order'[j] = mt /\ Before(tokens, order[i], mt)
      BY <1>0, <1>3, <2>2, <2>4
    <3> QED
      BY <2>2, <3>1
  <2> QED
    BY <2>1, <2>3, <2>4
<1> QED
  BY <1>2, <1>3 DEF Place

LEMMA InitRequest == Init => RequestInv
<1> SUFFICES ASSUME Init PROVE RequestInv
  OBVIOUS
<1>1. /\ pc = (IF source = "none" THEN "validate" ELSE "tokens")
      /\ pos = 1 /\ idx = 0 /\ seen = {}
  BY DEF Init
<1>2. Sorted(0)
  BY SlotFacts DEF Sorted
<1> QED
  BY <1>1, <1>2 DEF RequestInv

LEMMA NextRequest == IInv /\ RequestInv /\ [Next]_vars => RequestInv'
<1> SUFFICES ASSUME IInv, RequestInv, [Next]_vars PROVE RequestInv'
  OBVIOUS
<1>0. TypeOK /\ FillInv /\ AppendInv /\ DoneInv
  BY DEF IInv
<1>1. ASSUME UNCHANGED <<tokens, order>>
      PROVE  /\ \A k : Sorted(k)' <=> Sorted(k)
             /\ \A mt : Mentioned(mt)' <=> Mentioned(mt)
  BY <1>1 DEF Sorted, Before, Mentioned, Mentions, Read
<1>2. CASE TakeToken
  <2> DEFINE mt == str_to_metric_type(tokens[pos])
  <2>1. /\ pc = "tokens" /\ idx < METRIC_COUNT /\ mt \in Metric /\ Place(mt)
        /\ pos \in 1 .. Len(tokens) /\ pos' = pos + 1 /\ tokens[pos] # NotString
        /\ UNCHANGED <<source, tokens, pc, m>> /\ Len(tokens) \in Nat
    BY <1>0, <1>2, MetricOfToken DEF TakeToken, MoreTokens, TypeOK
  <2>2. /\ \A k \in 1 .. pos - 1 : tokens[k] # NotString
        /\ \A a \in Metric :
              a \in seen <=> \E k \in 1 .. pos - 1 : str_to_metric_type(tokens[k]) = a
        /\ Sorted(idx) /\ seen \in SUBSET Metric
    BY <1>0, <2>1 DEF RequestInv, TypeOK
  <2>3. \A k \in 1 .. pos : Read(tokens, k)
    BY <2>1, <2>2 DEF Read
  <2>4. ASSUME mt \notin seen, NEW a \in seen PROVE Before(tokens, a, mt)
    <3>1. PICK j \in 1 .. pos - 1 : str_to_metric_type(tokens[j]) = a
      BY <2>2, <2>4
    <3>2. j \in 1 .. Len(tokens) /\ j \in 1 .. pos /\ Mentions(tokens, a, j)
      BY <2>1, <2>3, <3>1 DEF Mentions
    <3>3. ASSUME NEW k \in 1 .. j PROVE str_to_metric_type(tokens[k]) # mt
      <4>1. k \in 1 .. pos - 1
        BY <2>1, <3>1
      <4> QED
        BY <2>1, <2>2, <2>4, <4>1
    <3> QED
      BY <3>2, <3>3 DEF Before, Mentions
  <2>5. seen' = seen \cup {mt}
    BY <2>1 DEF Place
  <2> HIDE DEF mt
  <2>6. Sorted(idx)'
    BY <1>0, <2>1, <2>2, <2>4, PlaceSorted
  <2>7. \A k : k \in 1 .. pos' - 1 <=> k \in 1 .. pos - 1 \/ k = pos
    BY <2>1
  <2>8. \A k \in 1 .. pos' - 1 : tokens'[k] # NotString
    BY <2>1, <2>2, <2>7
  <2>9. \A a \in Metric :
           a \in seen' <=> \E k \in 1 .. pos' - 1 : str_to_metric_type(tokens'[k]) = a
    BY <2>1, <2>2, <2>5, <2>7 DEF mt
  <2> QED
    BY <2>1, <2>6, <2>8, <2>9 DEF RequestInv
<1>3. CASE TokensDone
  <2>1. /\ pc = "tokens" /\ pc' = "append" /\ m' = 0 /\ ~MoreTokens
        /\ UNCHANGED <<source, tokens, pos, order, idx, seen>>
        /\ pos \in 1 .. Len(tokens) + 1 /\ idx \in 0 .. METRIC_COUNT /\ Len(tokens) \in Nat
        /\ seen \in SUBSET Metric
    BY <1>0, <1>3 DEF TokensDone, TypeOK
  <2>2. /\ \A k \in 1 .. pos - 1 : tokens[k] # NotString
        /\ \A a \in Metric :
              a \in seen <=> \E k \in 1 .. pos - 1 : str_to_metric_type(tokens[k]) = a
        /\ Sorted(idx)
    BY <2>1 DEF RequestInv
  <2>3. \A mt \in seen : Mentioned(mt)
    BY <2>1, <2>2 DEF Mentioned, Mentions, Read
  <2>4. ASSUME idx # METRIC_COUNT, NEW mt \in Metric, Mentioned(mt) PROVE mt \in seen
    <3>1. PICK j \in 1 .. Len(tokens) : Mentions(tokens, mt, j)
      BY <2>4 DEF Mentioned
    <3>2. idx < METRIC_COUNT
      BY <2>1, <2>4, MetricCountAssumption
    <3>3. pos > Len(tokens) \/ tokens[pos] = NotString
      BY <2>1, <3>2 DEF MoreTokens
    <3>4. j \in 1 .. pos - 1
      <4>1. CASE pos > Len(tokens)
        BY <2>1, <4>1
      <4>2. CASE tokens[pos] = NotString /\ j >= pos
        BY <2>1, <3>1, <4>2 DEF Mentions, Read
      <4> QED
        BY <2>1, <3>3, <4>1, <4>2
    <3> QED
      BY <2>2, <3>1, <3>4 DEF Mentions
  <2> QED
    BY <1>1, <2>1, <2>2, <2>3, <2>4 DEF RequestInv
<1>4. CASE AppendMissing
  <2>1. /\ pc = "append" /\ idx < METRIC_COUNT /\ m \in Metric /\ Place(m)
        /\ m' = m + 1 /\ UNCHANGED <<source, tokens, pc, pos>>
        /\ seen \in SUBSET Metric /\ idx \in 0 .. METRIC_COUNT
    BY <1>0, <1>4, MetricCountAssumption DEF AppendMissing, MoreMissing, TypeOK, Metric
  <2>2. /\ \A mt \in Metric : Mentioned(mt) => mt \in seen
        /\ \A mt \in seen : Mentioned(mt) \/ mt < m
        /\ Sorted(idx)
    BY <2>1, MetricCountAssumption DEF RequestInv
  <2>3. ASSUME m \notin seen, NEW a \in seen PROVE Before(tokens, a, m)
    <3>1. ~Mentioned(m)
      BY <2>1, <2>2, <2>3
    <3>2. \A j \in 1 .. Len(tokens) : ~Mentions(tokens, m, j)
      BY <3>1 DEF Mentioned
    <3>3. CASE Mentioned(a)
      <4>1. PICK j \in 1 .. Len(tokens) : Mentions(tokens, a, j)
        BY <3>3 DEF Mentioned
      <4>2. \A k \in 1 .. j : ~Mentions(tokens, m, k)
        BY <3>2 DEF Mentions, Read
      <4> QED
        BY <4>1, <4>2 DEF Before
    <3>4. CASE ~Mentioned(a)
      BY <2>2, <2>3, <3>2, <3>4 DEF Before, Mentioned
    <3> QED
      BY <3>3, <3>4
  <2>4. Sorted(idx)'
    BY <1>0, <2>1, <2>2, <2>3, PlaceSorted
  <2>5. seen' = seen \cup {m}
    BY <2>1 DEF Place
  <2>6. \A mt : Mentioned(mt)' <=> Mentioned(mt)
    BY <2>1 DEF Mentioned, Mentions, Read
  <2>7. \A mt \in seen' : Mentioned(mt)' \/ mt < m'
    BY <2>1, <2>2, <2>5, <2>6, SlotFacts
  <2> QED
    BY <2>1, <2>2, <2>4, <2>5, <2>6, <2>7 DEF RequestInv
<1>5. CASE AppendDone
  <2>1. /\ pc = "append" /\ ~MoreMissing /\ pc' \in {"done", "validate"}
        /\ UNCHANGED <<tokens, order>>
    BY <1>5 DEF AppendDone
  <2>2. idx = METRIC_COUNT
    BY <1>0, <2>1, FullIsPermutation
  <2>3. Sorted(METRIC_COUNT)
    BY <2>1, <2>2 DEF RequestInv
  <2> QED
    BY <1>1, <2>1, <2>3 DEF RequestInv
<1>6. CASE Validate \/ ValidateDone
  <2>1. /\ pc = "validate" /\ pc' \in {"validate", "done"} /\ UNCHANGED <<source, tokens, order>>
    BY <1>6 DEF Validate, ValidateDone
  <2> QED
    BY <1>1, <2>1 DEF RequestInv
<1>7. CASE UNCHANGED vars
  <2>1. UNCHANGED <<source, tokens, pc, pos, order, idx, seen, m>>
    BY <1>7 DEF vars
  <2> QED
    BY <1>1, <2>1 DEF RequestInv
<1> QED
  BY <1>2, <1>3, <1>4, <1>5, <1>6, <1>7 DEF Next

(* Every list gives a permutation of the metrics.                            *)
THEOREM OrderAlwaysPermutation == Spec => []OrderIsPermutation
<1>1. IInv => OrderIsPermutation
  BY DEF IInv, DoneInv, OrderIsPermutation
<1> QED
  BY <1>1, IInvHolds, PTL

LEMMA NoRepair == IInv => RepairNeverNeeded
<1> SUFFICES ASSUME IInv, pc = "validate", m < METRIC_COUNT, order[m] \notin Metric \ seen
             PROVE  FALSE
  BY DEF RepairNeverNeeded, NeedsRepair
<1>1. m \in Slot /\ order[m] \in Metric
  BY MetricCountAssumption DEF IInv, TypeOK, Slot
<1>2. PICK i \in Slot : i < m /\ order[i] = order[m]
  BY <1>1 DEF IInv, DoneInv, Filled
<1> QED
  BY <1>1, <1>2, SlotFacts DEF IInv, DoneInv, IsPermutation

(* The repair pass of config_load never runs.                                *)
THEOREM RepairIsDead == Spec => []RepairNeverNeeded
BY NoRepair, IInvHolds, PTL

(* The parser's variables keep their types.                                  *)
THEOREM OrderTypeCorrect == Spec => []TypeOK
<1>1. IInv => TypeOK
  BY DEF IInv
<1> QED
  BY <1>1, IInvHolds, PTL

LEMMA RequestIsOrder == IInv /\ RequestInv => OrderIsRequested
<1> SUFFICES ASSUME RequestInv, pc = "done", source # "none",
                    NEW i \in Slot, NEW j \in Slot, i < j
             PROVE  Before(tokens, order[i], order[j])
  BY DEF OrderIsRequested, Asked
<1>1. Sorted(METRIC_COUNT)
  BY DEF RequestInv
<1> QED
  BY <1>1, SlotFacts DEF Sorted

(* The two loops leave the metrics in the order of their first mention, and  *)
(* behind them the others by number, for every list and number of metrics.   *)
THEOREM OrderAlwaysRequested == Spec => []OrderIsRequested
BY InitIInv, NextIInv, InitRequest, NextRequest, RequestIsOrder, PTL DEF Spec
=============================================================================
