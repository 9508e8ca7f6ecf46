-------------------------- MODULE TelemetryTheorems --------------------------
(***************************************************************************)
(* The frame rate taken from the flip counter, for any period, windows,    *)
(* rates and clocks: readings kept between two calls agree with the window *)
(* they stand for, unless the window is known to be spoilt.  The CPU load, *)
(* for any set of cores and any clock: the load kept is the share of the   *)
(* last two samples, by the lemmas about sums in the middle of the module. *)
(***************************************************************************)
EXTENDS Telemetry, FiniteSetTheorems, TLAPS

FpsTypeOK ==
    /\ time \in Nat /\ offset \in Nat
    /\ flips \in Nat /\ counter \in Nat
    /\ prev \in [count : Nat, time : Nat]
    /\ window \in [time : Nat, flips : Nat, clean : BOOLEAN]
    /\ window.flips <= flips
    /\ "clean" \in DOMAIN closed

(* The counter never runs ahead of the flips; the clock is as far ahead of  *)
(* the window as it was when the window began.                              *)
Readings ==
    prev.time # 0 =>
        /\ counter - prev.count <= flips - window.flips
        /\ window.clean => counter - prev.count = flips - window.flips
        /\ monotonic => prev.time = window.time
        /\ window.clean => prev.time = IF monotonic THEN window.time ELSE window.time + offset

(* The rate that is kept is the one of the window that was closed last.     *)
LastWindow ==
    /\ shown.from = "dce" => shown.rate = rate
    /\ closed.clean /\ closed.flips <= MaxRate * closed.time
            => rate.n * closed.time = closed.flips * rate.d

FpsInv == FpsTypeOK /\ Readings /\ LastWindow

LEMMA Constants ==
    /\ Period \in Nat /\ MinWindow \in Nat /\ MaxRate \in Nat
    /\ FlipChoices \subseteq Nat /\ Offsets \subseteq Nat
BY SamplerAssumption

LEMMA FpsInitInv == Init => FpsInv
BY Constants DEF Init, FpsInv, FpsTypeOK, Readings, LastWindow

(* What the variables of a frame rate sample are after a full window.       *)
LEMMA FullWindow ==
    ASSUME FpsInv, WindowFull, monotonic \/ window.clean
    PROVE  /\ Now - prev.time = time - window.time
           /\ Now - prev.time \in Nat
           /\ counter - prev.count <= flips - window.flips
           /\ window.clean => counter - prev.count = flips - window.flips
BY DEF FpsInv, FpsTypeOK, Readings, WindowFull, Forward, Now

LEMMA FpsNextInv == FpsInv /\ [Next]_vars => FpsInv'
<1> SUFFICES ASSUME FpsInv, [Next]_vars PROVE FpsInv'
    OBVIOUS
<1> USE DEF FpsInv
<1>1. CASE UNCHANGED vars
    BY <1>1 DEF vars, clockVars, fpsVars, FpsTypeOK, Readings, LastWindow
<1>2. CASE Sleep
    <2>1. \/ UNCHANGED <<flips, counter>>
          \/ \E k \in FlipChoices : flips' = flips + k /\ counter' = counter + k
        BY <1>2 DEF Sleep
    <2>2. time' = time + Period
          /\ UNCHANGED <<offset, monotonic, prev, rate, shown, window, closed>>
        BY <1>2 DEF Sleep
    <2>3. FpsTypeOK' /\ Readings'
        BY <2>1, <2>2, Constants DEF FpsTypeOK, Readings
    <2> QED BY <2>2, <2>3 DEF LastWindow
<1>3. CASE SetClock
    <2>1. offset' \in Nat /\ UNCHANGED <<time, flips, counter, monotonic, prev, rate, shown, closed>>
        BY <1>3, Constants DEF SetClock
    <2>2. window' = [window EXCEPT !.clean = window.clean /\ monotonic]
        BY <1>3 DEF SetClock
    <2>3. /\ window'.time = window.time /\ window'.flips = window.flips
          /\ window'.clean => window.clean /\ monotonic
          /\ window' \in [time : Nat, flips : Nat, clean : BOOLEAN]
        BY <2>2 DEF FpsTypeOK
    <2>4. FpsTypeOK'
        BY <2>1, <2>3 DEF FpsTypeOK
    <2>5. Readings'
        BY <2>1, <2>3 DEF FpsTypeOK, Readings
    <2> QED BY <2>1, <2>4, <2>5 DEF LastWindow
<1>4. CASE CounterRestarts
    <2>1. counter' = 0
          /\ UNCHANGED <<time, offset, flips, monotonic, prev, rate, shown, closed>>
        BY <1>4 DEF CounterRestarts, clockVars
    <2>2. /\ window'.time = window.time /\ window'.flips = window.flips
          /\ window'.clean = FALSE
          /\ window' \in [time : Nat, flips : Nat, clean : BOOLEAN]
        BY <1>4 DEF CounterRestarts, FpsTypeOK
    <2>3. FpsTypeOK' /\ Readings'
        BY <2>1, <2>2 DEF FpsTypeOK, Readings
    <2> QED BY <2>1, <2>3 DEF LastWindow
<1>5. CASE NotShown \/ SampleLoad \/ FpsFromFile \/ NoDevice
    <2>1. UNCHANGED <<time, offset, flips, counter, monotonic, prev, rate, window, closed>>
        BY <1>5 DEF NotShown, SampleLoad, FpsFromFile, NoDevice, fpsVars
    <2>2. shown' = shown \/ shown'.from # "dce"
        BY <1>5 DEF NotShown, SampleLoad, FpsFromFile, NoDevice, fpsVars, Show
    <2> QED BY <2>1, <2>2 DEF FpsTypeOK, Readings, LastWindow
<1>6. CASE SampleCounter
    <2>1. /\ UNCHANGED <<time, offset, flips, counter, monotonic>>
          /\ rate' = NextRate /\ shown' = [from |-> "dce", rate |-> rate']
        BY <1>6 DEF SampleCounter, Show
    <2>2. CASE ~(WindowFull \/ ~Forward)
        <3>1. UNCHANGED <<prev, window, closed>> /\ rate' = rate
            BY <1>6, <2>1, <2>2 DEF SampleCounter, NextRate
        <3> QED BY <2>1, <3>1 DEF FpsTypeOK, Readings, LastWindow
    <2>3. CASE WindowFull \/ ~Forward
        <3>1. /\ prev' = [count |-> counter, time |-> Now]
              /\ window' = [time |-> time, flips |-> flips, clean |-> TRUE]
            BY <1>6, <2>3 DEF SampleCounter, Rebase, CloseWindow
        <3>2. Now \in Nat
            BY DEF Now, FpsTypeOK
        <3> DEFINE full == [time |-> time - window.time, flips |-> flips - window.flips,
                            clean |-> window.clean]
        <3>3. closed' = IF WindowFull THEN full ELSE [closed EXCEPT !.clean = FALSE]
            BY <1>6, <2>3 DEF SampleCounter, CloseWindow
        <3>4. /\ "clean" \in DOMAIN closed'
              /\ ~WindowFull => closed'.clean = FALSE
            BY <3>3 DEF FpsTypeOK
        <3>5. FpsTypeOK' /\ Readings'
            BY <2>1, <3>1, <3>2, <3>4 DEF FpsTypeOK, Readings, Now
        <3>6. ASSUME closed'.clean, closed'.flips <= MaxRate * closed'.time
              PROVE  rate'.n * closed'.time = closed'.flips * rate'.d
            <4>1. WindowFull
                BY <3>6, <3>4
            <4>2. closed' = full
                BY <3>3, <4>1
            <4>3. /\ Now - prev.time = time - window.time
                  /\ counter - prev.count = flips - window.flips
                BY <3>6, <4>1, <4>2, FullWindow
            <4>4. flips - window.flips >= 0
                BY DEF FpsTypeOK
            <4>5. rate' = [n |-> flips - window.flips, d |-> time - window.time]
                BY <2>1, <3>6, <4>1, <4>2, <4>3, <4>4 DEF NextRate
            <4> QED BY <4>2, <4>5
        <3> QED BY <2>1, <3>5, <3>6 DEF LastWindow
    <2> QED BY <2>2, <2>3
<1> QED BY <1>1, <1>2, <1>3, <1>4, <1>5, <1>6 DEF Next

(* More flips in the same time are a higher rate.                           *)
LEMMA Monotone ==
    ASSUME NEW a \in Int, NEW b \in Int, a <= b, NEW d \in Nat PROVE a * d <= b * d
BY SMTT(30)

(* A new rate is explained by the flips of its window.                      *)
LEMMA NewRateExplained ==
    FpsInv /\ [Next]_vars =>
        (rate' # rate /\ (monotonic \/ window.clean)
            => rate'.n * (time - window.time) <= (flips - window.flips) * rate'.d)
<1> SUFFICES ASSUME FpsInv, [Next]_vars, rate' # rate, monotonic \/ window.clean
             PROVE  rate'.n * (time - window.time) <= (flips - window.flips) * rate'.d
    OBVIOUS
<1>1. SampleCounter
    BY DEF Next, vars, fpsVars, Sleep, SetClock, CounterRestarts, NotShown, SampleLoad,
           FpsFromFile, NoDevice
<1>2. WindowFull /\ rate' = [n |-> counter - prev.count, d |-> Now - prev.time]
    BY <1>1 DEF SampleCounter, NextRate
<1>3. /\ Now - prev.time = time - window.time /\ Now - prev.time \in Nat
      /\ counter - prev.count <= flips - window.flips
    BY <1>2, FullWindow
<1>4. counter - prev.count \in Int /\ flips - window.flips \in Int
    BY DEF FpsInv, FpsTypeOK
<1>5. (counter - prev.count) * (Now - prev.time) <= (flips - window.flips) * (Now - prev.time)
    BY <1>3, <1>4, Monotone
<1> QED BY <1>2, <1>3, <1>5

(* Frames are never invented, for any counter that only restarts, any       *)
(* period and any clock that is not set within the window.                  *)
THEOREM RatesExplained == Spec => FpsNeverInvented
BY FpsInitInv, FpsNextInv, NewRateExplained, PTL DEF Spec, FpsNeverInvented

(* After a window nothing spoilt the frame rate is the one of that window.  *)
THEOREM RateOfWindow == Spec => []FpsIsMeasured
<1>1. FpsInv => FpsIsMeasured
    BY DEF FpsInv, LastWindow, FpsIsMeasured
<1> QED BY <1>1, FpsInitInv, FpsNextInv, PTL DEF Spec
-----------------------------------------------------------------------------
(* Sums over a finite set.  Induction over the numbers, as a fact about     *)
(* sets of numbers, stands in for induction over the set.                   *)
LEMMA NatSetInduction ==
    ASSUME NEW T, 0 \in T, \A n \in Nat : n \in T => n + 1 \in T
    PROVE  \A n \in Nat : n \in T
<1> DEFINE R == {ss \in Nat \X Nat : ss[1] < ss[2]}
<1>1. IsWellFoundedOn(R, Nat)
  BY NatLessThanWellFounded DEF OpToRel
<1>2. SUFFICES ASSUME Nat \ T # {} PROVE FALSE
  OBVIOUS
<1>3. PICK x \in Nat \ T : \A y \in Nat \ T : <<y, x>> \notin R
  <2> HIDE DEF R
  <2> QED
    BY <1>1, <1>2, WFMin
<1>4. x # 0 /\ x - 1 \in Nat /\ <<x - 1, x>> \in R
  OBVIOUS
<1>5. x - 1 \in T
  BY <1>3, <1>4
<1> QED
  BY <1>3, <1>4, <1>5

(* What SumFunctionOnSet computes, up to the sets of n elements.            *)
First(T) == CHOOSE x \in T : TRUE
Upto(S, n) == {T \in SUBSET S : Cardinality(T) <= n}
Summing(g, f, sets) ==
    g = [T \in sets |-> IF T = {} THEN 0 ELSE f[First(T)] + g[T \ {First(T)}]]

LEMMA WithoutFirst ==
    ASSUME NEW S, IsFiniteSet(S), NEW T \in SUBSET S, T # {}
    PROVE  /\ First(T) \in T /\ First(T) \in S /\ T \ {First(T)} \in SUBSET S
           /\ Cardinality(T) \in Nat /\ Cardinality(T) # 0
           /\ Cardinality(T \ {First(T)}) = Cardinality(T) - 1
<1>1. First(T) \in T
  BY DEF First
<1>2. IsFiniteSet(T)
  BY FS_Subset
<1>3. Cardinality(T \ {First(T)}) = Cardinality(T) - 1 /\ Cardinality(T) \in Nat
  BY <1>1, <1>2, FS_RemoveElement, FS_CardinalityType
<1>4. Cardinality(T) # 0
  BY <1>2, FS_EmptySet
<1> QED
  BY <1>1, <1>3, <1>4

LEMMA SummingExists ==
    ASSUME NEW S, IsFiniteSet(S), NEW f
    PROVE  \E g : Summing(g, f, SUBSET S)
<1> DEFINE N == {n \in Nat : \E g : Summing(g, f, Upto(S, n))}
<1>1. 0 \in N
  <2>1. PICK g : g = [T \in Upto(S, 0) |-> 0]
    OBVIOUS
  <2>2. \A T \in Upto(S, 0) : T = {}
    BY FS_Subset, FS_EmptySet, FS_CardinalityType DEF Upto
  <2>3. Summing(g, f, Upto(S, 0))
    BY <2>1, <2>2 DEF Summing
  <2> QED
    BY <2>3
<1>2. ASSUME NEW n \in Nat, n \in N PROVE n + 1 \in N
  <2>1. PICK g : Summing(g, f, Upto(S, n))
    BY <1>2
  <2>2. PICK h : h = [T \in Upto(S, n + 1) |->
                         IF T = {} THEN 0 ELSE f[First(T)] + g[T \ {First(T)}]]
    OBVIOUS
  <2>3. \A T \in Upto(S, n) : T \in Upto(S, n + 1)
    BY FS_Subset, FS_CardinalityType DEF Upto
  <2>4. \A T \in Upto(S, n) : h[T] = g[T]
    BY <2>1, <2>2, <2>3 DEF Summing
  <2>5. \A T \in Upto(S, n + 1) : T # {} => T \ {First(T)} \in Upto(S, n)
    BY WithoutFirst DEF Upto
  <2>6. Summing(h, f, Upto(S, n + 1))
    BY <2>2, <2>4, <2>5 DEF Summing
  <2> QED
    BY <2>6
<1>3. Cardinality(S) \in N
  <2>1. Cardinality(S) \in Nat
    BY FS_CardinalityType
  <2> HIDE DEF N
  <2> QED
    BY <1>1, <1>2, <2>1, NatSetInduction
<1>4. Upto(S, Cardinality(S)) = SUBSET S
  BY FS_Subset DEF Upto
<1> QED
  BY <1>3, <1>4

LEMMA SumIs ==
    ASSUME NEW S, IsFiniteSet(S), NEW f
    PROVE  \E g : Summing(g, f, SUBSET S) /\ SumFunctionOnSet(f, S) = g[S]
<1> DEFINE G == CHOOSE g : Summing(g, f, SUBSET S)
<1>1. Summing(G, f, SUBSET S)
  BY SummingExists
<1>2. SumFunctionOnSet(f, S) = G[S]
  BY DEF SumFunctionOnSet, FoldFunctionOnSet, MapThenFoldSet, Summing, First
<1> QED
  BY <1>1, <1>2

(* Where no value is above b the sum is at most b for each element.         *)
LEMMA SumBounds ==
    ASSUME NEW S, IsFiniteSet(S), NEW b \in Nat, NEW f, \A x \in S : f[x] \in 0 .. b
    PROVE  SumFunctionOnSet(f, S) \in 0 .. b * Cardinality(S)
<1>1. PICK g : Summing(g, f, SUBSET S) /\ SumFunctionOnSet(f, S) = g[S]
  BY SumIs
<1> DEFINE N == {n \in Nat : \A T \in SUBSET S : Cardinality(T) = n => g[T] \in 0 .. b * n}
<1>2. 0 \in N
  BY <1>1, FS_Subset, FS_EmptySet DEF Summing
<1>3. ASSUME NEW n \in Nat, n \in N PROVE n + 1 \in N
  <2> SUFFICES ASSUME NEW T \in SUBSET S, Cardinality(T) = n + 1
               PROVE  g[T] \in 0 .. b * (n + 1)
    OBVIOUS
  <2>1. T # {}
    <3>1. Cardinality(T) # 0
      OBVIOUS
    <3> HIDE DEF N
    <3> QED
      BY <3>1, FS_EmptySet
  <2>2. /\ First(T) \in S /\ T \ {First(T)} \in SUBSET S
        /\ Cardinality(T \ {First(T)}) = n
    BY <2>1, WithoutFirst
  <2>3. g[T \ {First(T)}] \in 0 .. b * n
    BY <1>3, <2>2
  <2>4. g[T] = f[First(T)] + g[T \ {First(T)}]
    BY <1>1, <2>1 DEF Summing
  <2>5. f[First(T)] \in 0 .. b
    BY <2>2
  <2>6. b * n \in Nat /\ b * (n + 1) = b * n + b
    OBVIOUS
  <2> QED
    BY <2>3, <2>4, <2>5, <2>6
<1>4. Cardinality(S) \in N
  <2>1. Cardinality(S) \in Nat
    BY FS_CardinalityType
  <2> HIDE DEF N
  <2> QED
    BY <1>2, <1>3, <2>1, NatSetInduction
<1> QED
  BY <1>1, <1>4

(* The sum of the differences is the difference of the sums.                *)
LEMMA SumDifference ==
    ASSUME NEW S, IsFiniteSet(S), NEW a, NEW b, NEW d,
           \A x \in S : a[x] \in Int /\ b[x] \in Int /\ d[x] = a[x] - b[x]
    PROVE  /\ SumFunctionOnSet(a, S) \in Int /\ SumFunctionOnSet(b, S) \in Int
           /\ SumFunctionOnSet(d, S) = SumFunctionOnSet(a, S) - SumFunctionOnSet(b, S)
<1>1. PICK ga : Summing(ga, a, SUBSET S) /\ SumFunctionOnSet(a, S) = ga[S]
  BY SumIs
<1>2. PICK gb : Summing(gb, b, SUBSET S) /\ SumFunctionOnSet(b, S) = gb[S]
  BY SumIs
<1>3. PICK gd : Summing(gd, d, SUBSET S) /\ SumFunctionOnSet(d, S) = gd[S]
  BY SumIs
<1> DEFINE N == {n \in Nat : \A T \in SUBSET S : Cardinality(T) = n =>
                    ga[T] \in Int /\ gb[T] \in Int /\ gd[T] = ga[T] - gb[T]}
<1>4. 0 \in N
  BY <1>1, <1>2, <1>3, FS_Subset, FS_EmptySet DEF Summing
<1>5. ASSUME NEW n \in Nat, n \in N PROVE n + 1 \in N
  <2> SUFFICES ASSUME NEW T \in SUBSET S, Cardinality(T) = n + 1
               PROVE  ga[T] \in Int /\ gb[T] \in Int /\ gd[T] = ga[T] - gb[T]
    OBVIOUS
  <2>1. T # {}
    <3>1. Cardinality(T) # 0
      OBVIOUS
    <3> HIDE DEF N
    <3> QED
      BY <3>1, FS_EmptySet
  <2>2. PICK x, U : x = First(T) /\ U = T \ {First(T)}
    OBVIOUS
  <2>3. x \in S /\ U \in SUBSET S /\ Cardinality(U) = n
    BY <2>1, <2>2, WithoutFirst
  <2>4. ga[U] \in Int /\ gb[U] \in Int /\ gd[U] = ga[U] - gb[U]
    BY <1>5, <2>3
  <2>5. ga[T] = a[x] + ga[U] /\ gb[T] = b[x] + gb[U] /\ gd[T] = d[x] + gd[U]
    BY <1>1, <1>2, <1>3, <2>1, <2>2 DEF Summing
  <2> QED
    BY <2>3, <2>4, <2>5
<1>6. Cardinality(S) \in N
  <2>1. Cardinality(S) \in Nat
    BY FS_CardinalityType
  <2> HIDE DEF N
  <2> QED
    BY <1>4, <1>5, <2>1, NatSetInduction
<1> QED
  BY <1>1, <1>2, <1>3, <1>6
-----------------------------------------------------------------------------
(* The bank that is not written next holds the last sample, if there is     *)
(* one; every core idled for part of the time since.                        *)
LastSample ==
    LET last == samples.last
        kept == bank[1 - current]
    IN  /\ kept.used = last.taken /\ last.taken \in BOOLEAN
        /\ last.taken =>
              /\ kept.clock = last.time + last.offset /\ kept.idle = last.idle
              /\ kept.busy = last.time * Cardinality(Core) - SumFunctionOnSet(last.idle, Core)
              /\ last.time \in Nat /\ last.offset \in Nat /\ last.idle \in [Core -> Nat]
              /\ last.time + (IF pc = "update" THEN Period ELSE 0) <= time
              /\ \A c \in Core : idle[c] - last.idle[c] \in 0 .. time - last.time

LoadInv ==
    /\ pc \in {"sleep", "update"} /\ time \in 0 .. MaxTime /\ offset \in Offsets
    /\ idle \in [Core -> Nat]
    /\ current \in {0, 1} /\ bank = [b \in {0, 1} |-> bank[b]]
    /\ tids \in SUBSET Core /\ discovered \in BOOLEAN
    /\ LastSample
    /\ load.d \in Nat \ {0} /\ load.n \in 0 .. load.d
    /\ LoadIsMeasured

LEMMA CoreFacts ==
    /\ IsFiniteSet(Core) /\ Cardinality(Core) \in Nat \ {0}
    /\ Period \in Nat \ {0} /\ MinGap \in Nat /\ MinGap < Period
    /\ MaxTime \in Nat /\ Period <= MaxTime /\ Offsets \subseteq Nat
<1>1. Cardinality(Core) \in Nat
  BY SamplerAssumption, FS_CardinalityType
<1> QED
  BY <1>1, SamplerAssumption

LEMMA InitLoad == Init => LoadInv
<1> SUFFICES ASSUME Init PROVE LoadInv
  OBVIOUS
<1>1. /\ pc = "sleep" /\ time = Period /\ offset \in Offsets
      /\ idle = [c \in Core |-> 0] /\ bank = [b \in {0, 1} |-> NoReading] /\ current = 0
      /\ tids = {} /\ discovered = FALSE /\ load = [n |-> 0, d |-> 1]
      /\ samples.last = NoSample /\ samples.before = NoSample
  BY DEF Init, Zero
<1>2. ~samples.last.taken /\ ~samples.before.taken /\ ~NoReading.used
  BY <1>1 DEF NoSample, NoReading
<1>3. LastSample
  <2>1. bank[1 - current].used = FALSE /\ samples.last.taken = FALSE
    BY <1>1 DEF NoSample, NoReading
  <2> QED
    BY <2>1 DEF LastSample
<1>4. LoadIsMeasured
  BY <1>2 DEF LoadIsMeasured
<1>5. idle \in [Core -> Nat] /\ bank = [b \in {0, 1} |-> bank[b]]
  BY <1>1
<1>6. time \in 0 .. MaxTime
  BY <1>1, CoreFacts
<1>7. load.d \in Nat \ {0} /\ load.n \in 0 .. load.d
  BY <1>1
<1> QED
  BY <1>1, <1>3, <1>4, <1>5, <1>6, <1>7 DEF LoadInv

(* The idle share of the known cores is a share, and nothing is cut off     *)
(* where no core idled longer than the interval.                            *)
LEMMA ShareOfIdleFacts ==
    ASSUME NEW cur, NEW old, NEW known \in SUBSET Core, known # {}, NEW m \in Nat,
           NEW ticks \in Nat \ {0}, cur.clock - old.clock = ticks,
           \A c \in Core : cur.idle[c] - old.idle[c] \in 0 .. m
    PROVE  LET share == ShareOfIdle(cur, old, known)
               rested == SumFunctionOnSet(Deltas(cur, old), known)
               whole == ticks * Cardinality(known)
           IN  /\ share.d = whole /\ whole \in Nat \ {0} /\ share.n \in 0 .. whole
               /\ rested \in Nat
               /\ m <= ticks => share.n = whole - rested
<1> DEFINE rested == SumFunctionOnSet(Deltas(cur, old), known)
<1>1. IsFiniteSet(known) /\ Cardinality(known) \in Nat \ {0}
  BY CoreFacts, FS_Subset, FS_CardinalityType, FS_EmptySet
<1>2. \A c \in known : Deltas(cur, old)[c] \in 0 .. m
  BY DEF Deltas
<1>3. rested \in 0 .. m * Cardinality(known)
  BY <1>1, <1>2, SumBounds
<1>4. PICK k, r, w : k = Cardinality(known) /\ r = rested /\ w = ticks * k
  OBVIOUS
<1>5. w \in Nat \ {0} /\ r \in Nat /\ (m <= ticks => r <= w)
  <2>1. k \in Nat \ {0} /\ r \in 0 .. m * k
    BY <1>1, <1>3, <1>4
  <2>2. w \in Nat \ {0}
    BY <1>4, <2>1, SMTT(30)
  <2>3. m <= ticks => m * k <= ticks * k
    BY <2>1, Monotone
  <2>4. m * k \in Nat
    BY <2>1
  <2> QED
    BY <1>4, <2>1, <2>2, <2>3, <2>4
<1>6. ShareOfIdle(cur, old, known) = [n |-> w - (IF r > w THEN w ELSE r), d |-> w]
  BY <1>4 DEF ShareOfIdle, Clamp
<1> QED
  BY <1>4, <1>5, <1>6

(* The share of all cores is a share: no time of an interval is negative.   *)
LEMMA ShareOfAllFacts ==
    ASSUME NEW cur, NEW old, NEW ticks \in Nat \ {0}, cur.clock - old.clock = ticks,
           NEW t \in Nat, NEW u \in Nat, u <= t,
           \A c \in Core : cur.idle[c] \in Nat /\ old.idle[c] \in Nat,
           cur.busy = t * Cardinality(Core) - SumFunctionOnSet(cur.idle, Core),
           old.busy = u * Cardinality(Core) - SumFunctionOnSet(old.idle, Core)
    PROVE  LET share == ShareOfAll(cur, old)
           IN  share.d \in Nat \ {0} /\ share.n \in 0 .. share.d
<1>1. /\ SumFunctionOnSet(cur.idle, Core) \in Int /\ SumFunctionOnSet(old.idle, Core) \in Int
      /\ SumFunctionOnSet(Deltas(cur, old), Core)
            = SumFunctionOnSet(cur.idle, Core) - SumFunctionOnSet(old.idle, Core)
  <2>1. \A c \in Core : /\ cur.idle[c] \in Int /\ old.idle[c] \in Int
                        /\ Deltas(cur, old)[c] = cur.idle[c] - old.idle[c]
    BY DEF Deltas
  <2> QED
    BY <2>1, CoreFacts, SumDifference
<1>2. SumFunction(Deltas(cur, old)) = SumFunctionOnSet(Deltas(cur, old), Core)
  <2>1. DOMAIN Deltas(cur, old) = Core
    BY DEF Deltas
  <2> QED
    BY <2>1 DEF SumFunction, SumFunctionOnSet, FoldFunction
<1>3. PICK k, s, w : /\ k = Cardinality(Core) /\ w = ticks * k
                     /\ s = SumFunction(Deltas(cur, old)) + cur.busy - old.busy
  OBVIOUS
<1>4. w \in Nat \ {0} /\ s \in Nat
  <2>1. k \in Nat \ {0}
    BY <1>3, CoreFacts
  <2>2. w \in Nat \ {0}
    BY <1>3, <2>1, SMTT(30)
  <2>3. u * k <= t * k /\ t * k \in Int /\ u * k \in Int
    BY <2>1, Monotone
  <2>4. s = t * k - u * k
    BY <1>1, <1>2, <1>3, <2>3
  <2> QED
    BY <2>2, <2>3, <2>4
<1>5. ShareOfAll(cur, old) = [n |-> IF s > w THEN w ELSE s, d |-> w]
  BY <1>3 DEF ShareOfAll, Clamp
<1> QED
  BY <1>4, <1>5

(* The actions that take no sample.                                         *)
LEMMA LoadSleep == LoadInv /\ Sleep => LoadInv'
<1> SUFFICES ASSUME LoadInv, Sleep PROVE LoadInv'
  OBVIOUS
<1>1. /\ pc = "sleep" /\ pc' = "update" /\ time' = time + Period /\ time' <= MaxTime
      /\ UNCHANGED <<offset, bank, current, tids, discovered, load, samples>>
  BY DEF Sleep
<1>2. /\ time \in 0 .. MaxTime /\ offset \in Offsets /\ idle \in [Core -> Nat]
      /\ current \in {0, 1} /\ bank = [b \in {0, 1} |-> bank[b]]
      /\ tids \in SUBSET Core /\ discovered \in BOOLEAN /\ LastSample
      /\ load.d \in Nat \ {0} /\ load.n \in 0 .. load.d /\ LoadIsMeasured
  BY DEF LoadInv
<1>3. idle' \in [Core -> Nat] /\ \A c \in Core : idle'[c] - idle[c] \in 0 .. Period
  <2>1. CASE UNCHANGED idle
    BY <1>2, <2>1, CoreFacts
  <2>2. CASE \E rest \in [Core -> {1, Period}] : idle' = [c \in Core |-> idle[c] + rest[c]]
    <3>1. PICK rest \in [Core -> {1, Period}] : idle' = [c \in Core |-> idle[c] + rest[c]]
      BY <2>2
    <3>2. \A c \in Core : rest[c] \in 1 .. Period /\ idle[c] \in Nat
      BY <1>2, CoreFacts
    <3> QED
      BY <3>1, <3>2, CoreFacts
  <2> QED
    BY <2>1, <2>2 DEF Sleep
<1>4. time' \in 0 .. MaxTime
  BY <1>1, <1>2, CoreFacts
<1>5. LastSample'
  <2>1. ASSUME samples.last.taken
        PROVE  /\ samples.last.time + Period <= time'
               /\ \A c \in Core : idle'[c] - samples.last.idle[c] \in 0 .. time' - samples.last.time
    <3>1. /\ samples.last.time \in Nat /\ samples.last.idle \in [Core -> Nat]
          /\ samples.last.time <= time
          /\ \A c \in Core : idle[c] - samples.last.idle[c] \in 0 .. time - samples.last.time
      BY <1>1, <1>2, <2>1 DEF LastSample
    <3>2. \A c \in Core : /\ idle[c] \in Nat /\ idle'[c] \in Nat /\ samples.last.idle[c] \in Nat
                          /\ idle'[c] - idle[c] \in 0 .. Period
      BY <1>2, <1>3, <3>1
    <3> QED
      BY <1>1, <1>2, <3>1, <3>2, CoreFacts
  <2> QED
    BY <1>1, <1>2, <2>1 DEF LastSample
<1>6. LoadIsMeasured'
  BY <1>1, <1>2 DEF LoadIsMeasured
<1> QED
  BY <1>1, <1>2, <1>3, <1>4, <1>5, <1>6 DEF LoadInv

LEMMA LoadOthers ==
    ASSUME LoadInv, UNCHANGED <<time, cpuVars>>,
           \/ pc' = pc
           \/ pc = "update" /\ pc' = "sleep",
           offset' \in Offsets
    PROVE  LoadInv'
<1>1. UNCHANGED <<time, idle, bank, current, tids, discovered, load, samples>>
  BY DEF cpuVars
<1>2. /\ pc \in {"sleep", "update"} /\ time \in 0 .. MaxTime /\ LastSample /\ LoadIsMeasured
  BY DEF LoadInv
<1>3. LastSample'
  <2>1. samples.last.taken =>
            samples.last.time + (IF pc' = "update" THEN Period ELSE 0) <= time
    BY <1>2, CoreFacts DEF LastSample
  <2> QED
    BY <1>1, <1>2, <2>1 DEF LastSample
<1>4. LoadIsMeasured'
  BY <1>1, <1>2 DEF LoadIsMeasured
<1> QED
  BY <1>1, <1>2, <1>3, <1>4 DEF LoadInv

(* A read that failed leaves the reading of the last sample alone.          *)
LEMMA LoadFailed ==
    ASSUME LoadInv, NEW found \in SUBSET Core, LoadUnread(found),
           UNCHANGED <<time, offset, idle>>, pc = "update", pc' = "sleep"
    PROVE  LoadInv'
<1>1. /\ bank' = [bank EXCEPT ![current].used = TRUE] /\ current' = current
      /\ UNCHANGED <<load, samples>> /\ tids' = tids \cup found
      /\ discovered' = (discovered \/ Cardinality(found) >= MinFound)
  BY DEF LoadUnread, Discover, AfterFailure
<1>2. /\ time \in 0 .. MaxTime /\ offset \in Offsets /\ idle \in [Core -> Nat]
      /\ current \in {0, 1} /\ bank = [b \in {0, 1} |-> bank[b]]
      /\ tids \in SUBSET Core /\ discovered \in BOOLEAN /\ LastSample
      /\ load.d \in Nat \ {0} /\ load.n \in 0 .. load.d /\ LoadIsMeasured
  BY DEF LoadInv
<1>3. 1 - current \in {0, 1} /\ 1 - current # current
  BY <1>2
<1>4. PICK yes \in BOOLEAN : yes = TRUE
  OBVIOUS
<1>5. bank'[1 - current] = bank[1 - current] /\ bank' = [b \in {0, 1} |-> bank'[b]]
  <2>1. bank' = [bank EXCEPT ![current].used = yes]
    BY <1>1, <1>4, Zenon
  <2> QED
    BY <1>2, <1>3, <2>1
<1>6. LastSample'
  <2>1. samples.last.taken => samples.last.time <= time
    BY <1>2, CoreFacts DEF LastSample
  <2>2. samples' = samples /\ bank'[1 - current'] = bank[1 - current] /\ UNCHANGED <<time, idle>>
    BY <1>1, <1>5
  <2>3. samples.last.taken => samples.last.time + (IF pc' = "update" THEN Period ELSE 0) <= time
    BY <1>2, <2>1, CoreFacts DEF LastSample
  <2> QED
    BY <1>2, <2>2, <2>3 DEF LastSample
<1>7. LoadIsMeasured'
  BY <1>1, <1>2 DEF LoadIsMeasured
<1>8. tids' \in SUBSET Core /\ discovered' \in BOOLEAN
  BY <1>1, <1>2
<1> QED
  BY <1>1, <1>2, <1>5, <1>6, <1>7, <1>8 DEF LoadInv

(* A read that succeeded: the new load is a share, and the one of the two   *)
(* samples where the clock ran evenly between them.                         *)
LEMMA LoadTaken ==
    ASSUME LoadInv, NEW found \in SUBSET Core, LoadRead(found),
           UNCHANGED <<time, offset, idle>>, pc = "update", pc' = "sleep"
    PROVE  LoadInv'
<1>1. /\ time \in 0 .. MaxTime /\ offset \in Offsets /\ idle \in [Core -> Nat]
      /\ current \in {0, 1} /\ bank = [b \in {0, 1} |-> bank[b]]
      /\ tids \in SUBSET Core /\ discovered \in BOOLEAN /\ LastSample
      /\ load.d \in Nat \ {0} /\ load.n \in 0 .. load.d
  BY DEF LoadInv
<1>2. PICK reading : /\ reading = [used |-> TRUE, clock |-> time + offset, idle |-> idle,
                            busy |-> time * Cardinality(Core) - SumFunction(idle)]
  OBVIOUS
<1>3. PICK new : new = [taken |-> TRUE, time |-> time, offset |-> offset, idle |-> idle,
                        tids |-> IF discovered' THEN tids' ELSE {}]
  OBVIOUS
<1>4. /\ bank' = [bank EXCEPT ![current] = reading] /\ current' = 1 - current
      /\ load' = NextLoad(reading, bank[1 - current])
      /\ samples' = [before |-> samples.last, last |-> new]
      /\ tids' = tids \cup found
      /\ discovered' = (discovered \/ Cardinality(found) >= MinFound)
  BY <1>2, <1>3 DEF LoadRead, Discover
<1>5. tids' \in SUBSET Core /\ discovered' \in BOOLEAN
  BY <1>1, <1>4
<1>6. /\ bank' = [b \in {0, 1} |-> bank'[b]] /\ current' \in {0, 1}
      /\ bank'[1 - current'] = reading
  <2>1. 1 - current' = current /\ current' \in {0, 1}
    BY <1>1, <1>4
  <2>2. bank'[current] = reading /\ bank' = [b \in {0, 1} |-> bank'[b]]
    BY <1>1, <1>4
  <2> QED
    BY <2>1, <2>2
<1>7. samples'.last = new /\ samples'.before = samples.last
  BY <1>4
<1>8. /\ reading.used = TRUE /\ reading.clock = time + offset /\ reading.idle = idle
      /\ reading.busy = time * Cardinality(Core) - SumFunctionOnSet(idle, Core)
  BY <1>1, <1>2 DEF SumFunction, SumFunctionOnSet, FoldFunction
<1>9. /\ new.taken = TRUE /\ new.time = time /\ new.offset = offset /\ new.idle = idle
      /\ new.tids = IF discovered' THEN tids' ELSE {}
  BY <1>3
<1>10. LastSample'
  <2>1. \A c \in Core : idle[c] - new.idle[c] \in 0 .. time - new.time
    BY <1>1, <1>9
  <2>2. new.time \in Nat /\ new.offset \in Nat /\ new.idle \in [Core -> Nat]
    BY <1>1, <1>9, CoreFacts
  <2>3. PICK kept : kept = bank'[1 - current']
    OBVIOUS
  <2>4. kept.used = new.taken /\ new.taken \in BOOLEAN
    BY <1>6, <1>8, <1>9, <2>3
  <2>5. /\ kept.clock = new.time + new.offset /\ kept.idle = new.idle
        /\ kept.busy = new.time * Cardinality(Core) - SumFunctionOnSet(new.idle, Core)
    BY <1>6, <1>8, <1>9, <2>3
  <2>6. new.time + (IF pc' = "update" THEN Period ELSE 0) <= time
    BY <1>1, <1>9, CoreFacts
  <2> QED
    BY <1>7, <2>1, <2>2, <2>3, <2>4, <2>5, <2>6 DEF LastSample
<1> DEFINE old == bank[1 - current]
           last == samples.last
           whole == (time - last.time) * Cardinality(new.tids)
           rested == SumFunctionOnSet([c \in Core |-> new.idle[c] - last.idle[c]], new.tids)
<1>11. CASE ~last.taken
  <2>1. load' = load
    BY <1>1, <1>4, <1>11 DEF NextLoad, LastSample
  <2>2. LoadIsMeasured'
    BY <1>7, <1>11 DEF LoadIsMeasured
  <2> QED
    BY <1>1, <1>5, <1>6, <1>10, <2>1, <2>2 DEF LoadInv
<1>12. CASE last.taken
  <2>1. /\ old.used = TRUE /\ old.clock = last.time + last.offset /\ old.idle = last.idle
        /\ old.busy = last.time * Cardinality(Core) - SumFunctionOnSet(last.idle, Core)
        /\ last.time \in Nat /\ last.offset \in Nat /\ last.idle \in [Core -> Nat]
        /\ last.time + Period <= time
        /\ \A c \in Core : idle[c] - last.idle[c] \in 0 .. time - last.time
    BY <1>1, <1>12 DEF LastSample
  <2>2. PICK ticks : ticks = reading.clock - old.clock
    OBVIOUS
  <2>3. PICK m : m = time - last.time
    OBVIOUS
  <2>4. ticks \in Int /\ m \in Nat /\ m > MinGap /\ (last.offset = offset => ticks = m)
    BY <1>1, <1>8, <2>1, <2>2, <2>3, CoreFacts
  <2>5. /\ \A c \in Core : reading.idle[c] - old.idle[c] \in 0 .. m
        /\ \A c \in Core : reading.idle[c] \in Nat /\ old.idle[c] \in Nat
    BY <1>1, <1>8, <2>1, <2>3
  <2>6. Deltas(reading, old) = [c \in Core |-> new.idle[c] - last.idle[c]]
    BY <1>8, <1>9, <2>1 DEF Deltas
  <2>7. CASE ticks <= MinGap
    <3>1. load' = load
      BY <1>4, <2>2, <2>7 DEF NextLoad
    <3>2. last.offset # offset
      BY <2>4, <2>7, CoreFacts
    <3>3. LoadIsMeasured'
      BY <1>7, <1>9, <3>2 DEF LoadIsMeasured
    <3> QED
      BY <1>1, <1>5, <1>6, <1>10, <3>1, <3>3 DEF LoadInv
  <2>8. CASE ticks > MinGap /\ discovered' /\ tids' # {}
    <3>1. load' = ShareOfIdle(reading, old, tids')
      BY <1>4, <2>1, <2>2, <2>4, <2>8, CoreFacts DEF NextLoad
    <3>2. ticks \in Nat \ {0}
      BY <2>4, <2>8, CoreFacts
    <3>3. PICK k, r, w : /\ k = Cardinality(tids') /\ w = ticks * k
                         /\ r = SumFunctionOnSet(Deltas(reading, old), tids')
      OBVIOUS
    <3>4. /\ load'.d = w /\ w \in Nat \ {0} /\ load'.n \in 0 .. w
          /\ m <= ticks => load'.n = w - r
      BY <1>5, <2>2, <2>4, <2>5, <2>8, <3>1, <3>2, <3>3, ShareOfIdleFacts
    <3>5. LoadIsMeasured'
      <4>1. ASSUME last.offset = offset
            PROVE  load'.n * (m * k) = ((m * k) - r) * load'.d
        <5>1. m = ticks /\ m <= ticks
          BY <2>4, <4>1
        <5>2. m * k = w /\ load'.n = w - r
          BY <3>3, <3>4, <5>1
        <5> QED
          BY <3>4, <5>2
      <4>2. new.tids = tids'
        BY <1>9, <2>8
      <4> QED
        BY <1>7, <1>9, <2>3, <2>6, <3>3, <4>1, <4>2 DEF LoadIsMeasured
    <3> QED
      BY <1>1, <1>5, <1>6, <1>10, <3>4, <3>5 DEF LoadInv
  <2>9. CASE ticks > MinGap /\ ~(discovered' /\ tids' # {})
    <3>1. load' = ShareOfAll(reading, old)
      BY <1>4, <2>1, <2>2, <2>4, <2>9, CoreFacts DEF NextLoad
    <3>2. ticks \in Nat \ {0}
      BY <2>4, <2>9, CoreFacts
    <3>3. load'.d \in Nat \ {0} /\ load'.n \in 0 .. load'.d
      <4>1. last.time <= time /\ time \in Nat
        BY <1>1, <2>1, CoreFacts
      <4> QED
        BY <1>8, <2>1, <2>2, <2>5, <3>1, <3>2, <4>1, ShareOfAllFacts
    <3>4. LoadIsMeasured'
      BY <1>7, <1>9, <2>9 DEF LoadIsMeasured
    <3> QED
      BY <1>1, <1>5, <1>6, <1>10, <3>3, <3>4 DEF LoadInv
  <2> QED
    BY <2>4, <2>7, <2>8, <2>9, CoreFacts
<1> QED
  BY <1>11, <1>12

LEMMA NextLoadInv == LoadInv /\ [Next]_vars => LoadInv'
<1> SUFFICES ASSUME LoadInv, [Next]_vars PROVE LoadInv'
  OBVIOUS
<1>1. pc \in {"sleep", "update"} /\ offset \in Offsets
  BY DEF LoadInv
<1>2. CASE UNCHANGED vars
  <2>1. UNCHANGED <<time, cpuVars>> /\ pc' = pc /\ offset' = offset
    BY <1>2 DEF vars, clockVars
  <2> QED
    BY <1>1, <2>1, LoadOthers
<1>3. CASE Sleep
  BY <1>3, LoadSleep
<1>4. CASE SetClock \/ CounterRestarts
  <2>1. UNCHANGED <<time, cpuVars>> /\ pc' = pc /\ offset' \in Offsets
    BY <1>1, <1>4 DEF SetClock, CounterRestarts, clockVars
  <2> QED
    BY <2>1, LoadOthers
<1>5. CASE NotShown \/ FpsFromFile \/ NoDevice \/ SampleCounter
  <2>1. UNCHANGED <<time, cpuVars>> /\ offset' = offset /\ pc = "update" /\ pc' = "sleep"
    BY <1>5 DEF NotShown, FpsFromFile, NoDevice, SampleCounter
  <2> QED
    BY <1>1, <2>1, LoadOthers
<1>6. CASE SampleLoad
  <2>1. pc = "update" /\ pc' = "sleep" /\ UNCHANGED <<time, offset, idle>>
    BY <1>6 DEF SampleLoad
  <2>2. CASE UNCHANGED cpuVars
    BY <1>1, <2>1, <2>2, LoadOthers
  <2>3. CASE \E found \in SUBSET Core : LoadUnread(found) \/ LoadRead(found)
    BY <2>1, <2>3, LoadFailed, LoadTaken
  <2> QED
    BY <1>6, <2>2, <2>3 DEF SampleLoad
<1> QED
  BY <1>2, <1>3, <1>4, <1>5, <1>6 DEF Next

(* The load is measured, for any number of cores, any interval above the    *)
(* least distance of two samples and any way the clock is set.              *)
THEOREM LoadAlwaysMeasured == Spec => []LoadIsMeasured
<1>1. LoadInv => LoadIsMeasured
  BY DEF LoadInv
<1> QED
  BY <1>1, InitLoad, NextLoadInv, PTL DEF Spec
-----------------------------------------------------------------------------
(* The rest of the type invariant: the rate that is shown is one that is    *)
(* believed, and the counter restarts but never runs ahead.                 *)
Believed ==
    /\ metric \in {"fps", "cpu"} /\ symbols \subseteq Function
    /\ counter <= flips
    /\ fd \in {"unopened", "open", "failed"} /\ monotonic \in BOOLEAN
    /\ rate.n >= 0 /\ rate.n <= MaxRate * rate.d
    /\ shown.from \in {"none", "file", "dce"}

LEMMA InitBelieved == Init => Believed
<1> SUFFICES ASSUME Init PROVE Believed
  OBVIOUS
<1>1. /\ metric \in {"fps", "cpu"} /\ counter = 0 /\ flips = 0 /\ fd = "unopened"
      /\ symbols \in (IF metric = "cpu" THEN SUBSET Function ELSE {{}})
      /\ monotonic \in (IF metric = "fps" THEN BOOLEAN ELSE {TRUE})
      /\ rate.n = 0 /\ rate.d = 1 /\ shown.from = "none"
  BY DEF Init, Zero
<1>2. symbols \subseteq Function /\ monotonic \in BOOLEAN
  BY <1>1
<1> QED
  BY <1>1, <1>2, Constants DEF Believed

LEMMA NextBelieved == FpsInv /\ Believed /\ [Next]_vars => Believed'
<1> SUFFICES ASSUME FpsInv, Believed, [Next]_vars PROVE Believed'
  OBVIOUS
<1>1. flips \in Nat /\ counter \in Nat
  BY DEF FpsInv, FpsTypeOK
<1>2. CASE UNCHANGED vars
  BY <1>2 DEF vars, clockVars, fpsVars, Believed
<1>3. CASE Sleep
  <2>1. counter' <= flips'
    BY <1>1, <1>3, Constants DEF Sleep, Believed
  <2> QED
    BY <1>3, <2>1 DEF Sleep, Believed
<1>4. CASE SetClock \/ CounterRestarts
  BY <1>1, <1>4 DEF SetClock, CounterRestarts, clockVars, Believed
<1>5. CASE NotShown \/ SampleLoad
  BY <1>5 DEF NotShown, SampleLoad, fpsVars, Believed
<1>6. CASE FpsFromFile \/ NoDevice
  BY <1>6 DEF FpsFromFile, NoDevice, Open, Show, Believed
<1>7. CASE SampleCounter
  <2>1. /\ UNCHANGED <<metric, symbols, flips, counter, monotonic>>
        /\ fd' = "open" /\ shown'.from = "dce" /\ rate' = NextRate
    BY <1>7 DEF SampleCounter, Show
  <2>2. rate'.n >= 0 /\ rate'.n <= MaxRate * rate'.d
    BY <2>1 DEF NextRate, Believed
  <2> QED
    BY <2>1, <2>2 DEF Believed
<1> QED
  BY <1>2, <1>3, <1>4, <1>5, <1>6, <1>7 DEF Next

(* A load is a share of 1 and a shown rate is within what is believed,      *)
(* whatever the clocks and the counter do.                                  *)
THEOREM SamplerTypeCorrect == Spec => []TypeOK
<1>1. FpsInv /\ LoadInv /\ Believed => TypeOK
  <2> SUFFICES ASSUME FpsInv, LoadInv, Believed PROVE TypeOK
    OBVIOUS
  <2>1. flips \in Nat /\ counter \in Nat /\ prev.count \in Nat
    BY DEF FpsInv, FpsTypeOK
  <2>2. /\ pc \in {"sleep", "update"} /\ time \in 0 .. MaxTime /\ offset \in Offsets
        /\ idle \in [Core -> Nat]
        /\ current \in {0, 1} /\ bank = [b \in {0, 1} |-> bank[b]]
        /\ tids \in SUBSET Core /\ discovered \in BOOLEAN
        /\ load.d \in Nat \ {0} /\ load.n \in 0 .. load.d
    BY DEF LoadInv
  <2>3. DOMAIN idle = Core /\ DOMAIN bank = {0, 1} /\ load.d > 0
    BY <2>2
  <2>4. counter \in 0 .. flips
    BY <2>1 DEF Believed
  <2> QED
    BY <2>1, <2>2, <2>3, <2>4 DEF Believed, TypeOK
<1> QED
  BY <1>1, FpsInitInv, FpsNextInv, InitLoad, NextLoadInv, InitBelieved, NextBelieved, PTL DEF Spec

=============================================================================
