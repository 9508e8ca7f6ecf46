------------------------------- MODULE Telemetry -------------------------------
(***************************************************************************)
(* The two samplers of payload/main.cpp that turn counters into rates and  *)
(* therefore keep readings between two calls: sample_cpu_load (CPU load    *)
(* from the run time of the idle threads) and get_fps_reading with         *)
(* sample_dce_hardware_fps (frames per second from the flip counter of the *)
(* display controller).  The HUD thread calls each of them at most once    *)
(* per iteration of its loop.  They share no variable, so one behaviour    *)
(* shows one of the two metrics.                                           *)
(*                                                                         *)
(* A rate is a fraction [n, d]: a share of 1 for the load, flips per tick  *)
(* for the frame rate.                                                     *)
(***************************************************************************)
EXTENDS Integers, FiniteSets, Functions, FiniteSetsExt

CONSTANTS
    Core,
    MinFound,       \* idle threads to find before the search ends (4)
    Period,         \* ticks of one iteration of the HUD thread
    MinGap,         \* least distance of two load samples (0.05 s)
    MinWindow,      \* least distance of two counter readings (0.20 s)
    MaxRate,        \* highest frame rate that is believed (245)
    FlipChoices,    \* flips in one iteration
    Offsets,        \* how far the wall clock may be ahead of the time since boot
    MaxTime         \* bound: the time since boot

ASSUME SamplerAssumption ==
    /\ IsFiniteSet(Core) /\ MinFound \in 1 .. Cardinality(Core)
    /\ Period \in Nat /\ MinGap \in 0 .. Period - 1 /\ MinWindow \in 0 .. Period
    /\ MaxRate \in Nat /\ MaxTime \in Nat /\ Period <= MaxTime
    /\ FlipChoices \subseteq Nat
    /\ Offsets \subseteq Nat

Zero == [n |-> 0, d |-> 1]

VARIABLES
    metric,         \* the label the HUD shows: "fps" or "cpu"
    symbols,        \* the library functions resolve_telemetry_symbols() found
    pc, time,
    offset          \* wall clock minus time

clockVars == <<metric, symbols, pc, time, offset>>

VARIABLES
    idle,           \* run time of the idle thread of each core
    bank, current,  \* s_thread_data, s_current_bank
    tids,           \* cores whose s_idle_tid is known
    discovered,     \* s_idle_tid_discovered
    load,           \* s_cpu_usage_pct
    samples         \* history: the last two samples taken

cpuVars == <<idle, bank, current, tids, discovered, load, samples>>

VARIABLES
    flips,          \* flips since the start
    counter,        \* the flip counter, which a new video mode restarts
    fd, monotonic,  \* s_dce_fd; whether clock 4 works on this system
    prev,           \* s_prev_flip_count, s_prev_time_ns
    rate,           \* s_dce_fps
    shown,          \* what get_fps_reading() returned last, and from where
    window,         \* history: the window that is open
    closed          \* history: the last window that was closed

fpsVars == <<flips, counter, fd, monotonic, prev, rate, shown, window, closed>>
vars == <<clockVars, cpuVars, fpsVars>>

Function == {"sceKernelGetCpuUsage", "sceKernelGetThreadName"}
NoReading == [used |-> FALSE, clock |-> 0, idle |-> [c \in Core |-> 0], busy |-> 0]
NoSample == [taken |-> FALSE, time |-> 0, offset |-> 0, idle |-> [c \in Core |-> 0], tids |-> {}]

Init ==
    /\ metric \in {"fps", "cpu"}
    /\ symbols \in IF metric = "cpu" THEN SUBSET Function ELSE {{}}
    /\ pc = "sleep" /\ time = Period /\ offset \in Offsets
    /\ idle = [c \in Core |-> 0]
    /\ bank = [b \in {0, 1} |-> NoReading] /\ current = 0
    /\ tids = {} /\ discovered = FALSE /\ load = Zero
    /\ samples = [last |-> NoSample, before |-> NoSample]
    /\ flips = 0 /\ counter = 0
    /\ fd = "unopened" /\ monotonic \in (IF metric = "fps" THEN BOOLEAN ELSE {TRUE})
    /\ prev = [count |-> 0, time |-> 0] /\ rate = Zero
    /\ shown = [from |-> "none", rate |-> Zero]
    /\ window = [time |-> 0, flips |-> 0, clean |-> FALSE] /\ closed = window
-----------------------------------------------------------------------------
(* The environment: an iteration passes, in which every core idles for some *)
(* of it or the screen is flipped some times; somebody sets the wall clock; *)
(* the counter starts again.                                                *)
Sleep ==
    /\ pc = "sleep" /\ time + Period <= MaxTime
    /\ time' = time + Period
    /\ pc' = "update"
    /\ \/ /\ metric = "cpu"
          /\ \E rest \in [Core -> {1, Period}] :
                idle' = [c \in Core |-> idle[c] + rest[c]]
          /\ UNCHANGED <<flips, counter>>
       \/ /\ metric = "fps"
          /\ \E k \in FlipChoices : flips' = flips + k /\ counter' = counter + k
          /\ UNCHANGED idle
    /\ UNCHANGED <<metric, symbols, offset, bank, current, tids, discovered, load, samples,
                   fd, monotonic, prev, rate, shown, window, closed>>

SetClock ==
    /\ pc = "sleep"
    /\ \E o \in Offsets \ {offset} : offset' = o
    /\ window' = [window EXCEPT !.clean = window.clean /\ monotonic]
    /\ UNCHANGED <<metric, symbols, pc, time, cpuVars, flips, counter, fd, monotonic, prev,
                   rate, shown, closed>>

CounterRestarts ==
    /\ pc = "sleep" /\ metric = "fps" /\ counter > 0
    /\ counter' = 0
    /\ window' = [window EXCEPT !.clean = FALSE]
    /\ UNCHANGED <<clockVars, cpuVars, flips, fd, monotonic, prev, rate, shown, closed>>

(* The label is not in the HUD this time: the metric is not sampled.        *)
NotShown ==
    /\ pc = "update"
    /\ pc' = "sleep"
    /\ UNCHANGED <<metric, symbols, time, offset, cpuVars, fpsVars>>
-----------------------------------------------------------------------------
(* sample_cpu_load *)

(* The idle threads the search by name finds this time; it ends once        *)
(* MinFound of them were found in one call.                                 *)
Discover(found) ==
    /\ found \subseteq (IF "sceKernelGetThreadName" \in symbols THEN Core ELSE {})
    /\ discovered => found = {}
    /\ tids' = tids \cup found
    /\ discovered' = (discovered \/ Cardinality(found) >= MinFound)

Clamp_Missing(f) == f

(* if (avg_idle > 1.0) avg_idle = 1.0, and the like for the active time.    *)
Clamp(f) == [f EXCEPT !.n = IF @ > f.d THEN f.d ELSE @]

Deltas(cur, old) == [c \in Core |-> cur.idle[c] - old.idle[c]]

(* One minus the average idle share of the threads that are known ...       *)
ShareOfIdle(cur, old, known) ==
    LET whole == (cur.clock - old.clock) * Cardinality(known)
        rested == Clamp([n |-> SumFunctionOnSet(Deltas(cur, old), known), d |-> whole])
    IN  [n |-> whole - rested.n, d |-> whole]

(* ... or else the run time of all threads, the idle ones among them.       *)
ShareOfAll(cur, old) ==
    Clamp([n |-> SumFunction(Deltas(cur, old)) + cur.busy - old.busy,
           d |-> (cur.clock - old.clock) * Cardinality(Core)])

NextLoad(cur, old) ==
    IF ~old.used \/ cur.clock - old.clock <= MinGap THEN load
    ELSE IF discovered' /\ tids' # {} THEN ShareOfIdle(cur, old, tids')
    ELSE ShareOfAll(cur, old)

(* A faulty bank selection: the banks are swapped although the read failed. *)
AfterFailure_Swapped(b) == 1 - b

(* Nothing but Thread_Count of the current bank is written.                 *)
AfterFailure(b) == b

LoadUnread(found) ==
    /\ Discover(found)
    /\ bank' = [bank EXCEPT ![current].used = TRUE]
    /\ current' = AfterFailure(current)
    /\ UNCHANGED <<load, samples>>

LoadRead(found) ==
    LET reading == [used |-> TRUE, clock |-> time + offset, idle |-> idle,
                    busy |-> time * Cardinality(Core) - SumFunction(idle)]
    IN  /\ Discover(found)
        /\ bank' = [bank EXCEPT ![current] = reading]
        /\ current' = 1 - current
        /\ load' = NextLoad(reading, bank[1 - current])
        /\ samples' = [before |-> samples.last,
                       last |-> [taken |-> TRUE, time |-> time, offset |-> offset, idle |-> idle,
                                 tids |-> IF discovered' THEN tids' ELSE {}]]

SampleLoad ==
    /\ pc = "update" /\ metric = "cpu"
    /\ \/ /\ "sceKernelGetCpuUsage" \in symbols
          /\ \E found \in SUBSET Core : LoadUnread(found) \/ LoadRead(found)
       \/ /\ "sceKernelGetCpuUsage" \notin symbols
          /\ UNCHANGED cpuVars
    /\ pc' = "sleep"
    /\ UNCHANGED <<metric, symbols, time, offset, idle, fpsVars>>
-----------------------------------------------------------------------------
(* get_fps_reading *)

Show(from, r) == shown' = [from |-> from, rate |-> r]

(* One of the five files holds a value in range; which sampler wrote it,    *)
(* and when, is not looked at.                                              *)
FpsFromFile ==
    /\ pc = "update" /\ metric = "fps"
    /\ Show("file", [n |-> 1, d |-> 1])
    /\ pc' = "sleep"
    /\ UNCHANGED <<metric, symbols, time, offset, cpuVars, flips, counter, fd, monotonic,
                   prev, rate, window, closed>>

(* /dev/dce is opened once; if that fails it is never tried again.          *)
Open(result) == fd' = IF fd = "unopened" THEN result ELSE fd

NoDevice ==
    /\ pc = "update" /\ metric = "fps"
    /\ \E result \in {"open", "failed"} : Open(result)
    /\ Show("none", Zero)           \* no descriptor, or the ioctl failed
    /\ pc' = "sleep"
    /\ UNCHANGED <<metric, symbols, time, offset, cpuVars, flips, counter, monotonic, prev,
                   rate, window, closed>>

(* CLOCK_MONOTONIC, or the wall clock where that reads zero.                *)
Now == IF monotonic THEN time ELSE time + offset

Forward == prev.time # 0 /\ Now > prev.time
WindowFull == Forward /\ Now - prev.time >= MinWindow

(* Faulty variants: a smaller counter is not taken over; the window begins  *)
(* anew but the flips of the one before are kept.                           *)
Rebase_OnlyForward ==
    prev' = [count |-> IF counter >= prev.count THEN counter ELSE prev.count, time |-> Now]
Rebase_OnlyTime ==
    prev' = [count |-> IF Forward THEN counter ELSE prev.count, time |-> Now]

Rebase == prev' = [count |-> counter, time |-> Now]

NextRate ==
    LET raw == [n |-> counter - prev.count, d |-> Now - prev.time]
    IN  IF WindowFull /\ raw.n >= 0 /\ raw.n <= MaxRate * raw.d THEN raw ELSE rate

CloseWindow ==
    /\ closed' = IF WindowFull
                 THEN [time |-> time - window.time, flips |-> flips - window.flips,
                       clean |-> window.clean]
                 ELSE [closed EXCEPT !.clean = FALSE]
    /\ window' = [time |-> time, flips |-> flips, clean |-> TRUE]

SampleCounter ==
    /\ pc = "update" /\ metric = "fps"
    /\ Open("open") /\ fd' = "open"
    /\ rate' = NextRate
    /\ IF WindowFull \/ ~Forward
       THEN Rebase /\ CloseWindow
       ELSE UNCHANGED <<prev, window, closed>>
    /\ Show("dce", rate')
    /\ pc' = "sleep"
    /\ UNCHANGED <<metric, symbols, time, offset, cpuVars, flips, counter, monotonic>>

Next ==
    \/ Sleep \/ SetClock \/ CounterRestarts \/ NotShown
    \/ SampleLoad
    \/ FpsFromFile \/ NoDevice \/ SampleCounter

Spec == Init /\ [][Next]_vars
-----------------------------------------------------------------------------
(* The load is a share of 1 whatever the clock did between the two samples. *)
TypeOK ==
    /\ metric \in {"fps", "cpu"} /\ symbols \subseteq Function
    /\ pc \in {"sleep", "update"} /\ time \in 0 .. MaxTime /\ offset \in Offsets
    /\ DOMAIN idle = Core
    /\ DOMAIN bank = {0, 1} /\ current \in {0, 1}
    /\ tids \subseteq Core /\ discovered \in BOOLEAN
    /\ load.d > 0 /\ load.n \in 0 .. load.d
    /\ flips \in Nat /\ counter \in 0 .. flips
    /\ fd \in {"unopened", "open", "failed"} /\ monotonic \in BOOLEAN
    /\ prev.count \in Nat
    /\ rate.n >= 0 /\ rate.n <= MaxRate * rate.d
    /\ shown.from \in {"none", "file", "dce"}

(* The load is the busy share of the known cores between the last two       *)
(* samples that succeeded, however many reads failed or were skipped in     *)
(* between and whatever was in the banks before, unless the wall clock was  *)
(* set between the two.                                                     *)
LoadIsMeasured ==
    LET a == samples.before  b == samples.last
        rested == SumFunctionOnSet([c \in Core |-> b.idle[c] - a.idle[c]], b.tids)
        whole == (b.time - a.time) * Cardinality(b.tids)
    IN  a.taken /\ a.offset = b.offset /\ b.tids # {}
            => load.n * whole = (whole - rested) * load.d

(* The frame rate follows the flips of the window that was closed last: a   *)
(* counter that restarted or a clock that was set spoils one window, and    *)
(* the next one is right again.                                             *)
FpsIsMeasured ==
    shown.from = "dce" /\ closed.clean /\ closed.flips <= MaxRate * closed.time
        => shown.rate.n * closed.time = closed.flips * shown.rate.d

(* Frames are never invented: unless the clock was set, a new rate is no    *)
(* more than the flips of its window explain, restarted counter or not.     *)
FpsNeverInvented ==
    [][rate' # rate /\ (monotonic \/ window.clean)
        => rate'.n * (time - window.time) <= (flips - window.flips) * rate'.d]_vars
=============================================================================
