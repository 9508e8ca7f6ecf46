# Verification of ps5-new-overlay

TLA+ models of the PS5 overlay in `src/`: the payload that draws a telemetry HUD
inside SceShellUI and is configured over HTTP, the page that does that, the files it
keeps its settings in, the samplers behind its numbers, the detour engine kept beside
it, and the loader that puts it there. TLC checks the models on small instances;
TLAPS proves their safety properties for every value of the constants.

`tlc -workers 2 -config X.cfg M` checks a run of the table below, `tlapm M.tla` a
module of proofs. `PROJECT.json` lists components, runs, the faulty variant that
breaks each property, the source lines behind every definition, findings, hazards
and theorems.

## The system

```
 loader (main, injector, pt, elfldr, ucred)       a process of its own, ends after one injection
    | ptrace: map, copy, run a stager
    v
 SceShellUI -------------------------------------------------------------------
    own threads: scenes and their root widgets; descriptors; files
    HUD thread    payload_thread_main(): build_hud / destroy_hud, monitoring loop
       | creates                    ^ g_config, g_config_changed, g_should_unload
       v                            |
    web worker    web_server_worker(): accept, read, handle_client_http()
       | config_save / config_load: config.ini, its mirror, the user's copy
```

The two payload threads share `g_config` (a plain struct), two `volatile` flags,
`g_web_running` and `g_server_fd`. There is no lock anywhere in the shipped payload.

### Components

| component | state | operations | hard behaviour | what makes it correct |
|---|---|---|---|---|
| HUD thread (`payload/main.cpp`) | the scene it is attached to, its root, `hud_ctx` | boot, attach, detach, rebuild, telemetry update, unload | scenes change, lose and get roots at any time; the configuration changes under a build | the HUD shown is that of the configuration; nothing stays behind |
| HUD construction (`build_hud`, `destroy_hud`) | widget pointers, cells under the root | two passes over `order[]`, removal | each read of `g_config` is separate; a pointer that is overwritten loses its cell | one cell per metric, all removable |
| Web worker (`payload/web_server.cpp`) | request buffer, `new_cfg` | POST config, reset, unload; GET | assigns `g_config` while the HUD is built | a change gets to the screen |
| HTTP server (same file) | `g_server_fd`, client descriptor | bind over candidates, accept, read, dispatch, close, stop | two threads close the same descriptors, in a table shared with SceShellUI; requests come in pieces | touches only its own descriptors, leaks none, ends |
| JSON request parser (same file) | the `OverlayConfig` it overlays | scalar fields, metrics, `order` | any list of names, numbers of any length, keys searched in the text | `order[]` stays a permutation, numbers stay in range, a switch means what it says |
| Control page (`INDEX_HTML`, same file) | `currentConfig` of each open page | load, edit, save, reset | answers late or lost, other pages and clients in between | saving what was not touched changes nothing |
| Configuration files (`payload/config.cpp`) | three files | load, save of two copies | a crash, a power cut, a failing call between any two steps | acknowledged settings survive |
| INI parser (same file) | `OverlayConfig` | lines, `order`, repair pass | a file the user edited | `order[]` is a permutation; what is saved loads back |
| Telemetry (`payload/main.cpp` 454-734) | two banks of CPU samples, last DCE count and time | `sample_cpu_load`, `sample_dce_hardware_fps`, `get_fps_reading` | failed samples, counters that restart | a value is a difference of two real samples |
| Mono bridge (`payload/mono_runtime.cpp`) | resolved pointers | thin calls | | - |
| Loader (`loader/main.c`, `injector.c`, `proc.c`) | credentials, progress | find, attach, load, start, detach | a dozen failure paths | SceShellUI goes on where it was; the report is true |
| Remote calls (`loader/pt.c`) | saved registers | `pt_syscall`, `pt_call`, `pt_call2` | a request fails in the middle of a call | registers come back |
| ELF loader (`loader/elfldr.c`) | mirror of the image | `elfldr_load` | partial failure | the payload starts in a whole image |
| Detour engine (`payload/detour/`), hook path (`payload/overlay*.cpp`) | trampoline slots, prepared patches | allocate, relocate, prepare, commit, abort | a thread inside the function, a second hook, exhaustion | a call runs every hook and then the original; slots are never shared. Not linked by the Makefile |
| Symbol hashes, logging, notifications, build | - | - | | - |

## Modules

### OverlayRuntime (with MCOverlayRuntime)

The two payload threads and the shell. `pc` is the HUD thread's place, `wpc` the
worker's. One action per branch of an iteration of the loop (`AttachScene`,
`GameClosed`, `SceneUnchanged`, `RebuildForChange`, `NothingToRebuild`,
`UpdateMetrics`, `Unload`, `UnloadDone`); `build_hud()` is `BuildBegin`, one
`MeasureSlot` and one `PlaceSlot` per entry of `order[]`, and what its callers do
after it is `ClearChanged`, so that the worker can step in at every slot. The worker's assignment
`g_config = new_cfg` is one `CopyPart` per part (head, the metric array, each slot
of `order[]`), in any order, as a compiler may emit it.

`tree[s][c]` counts the copies of cell `c` under the root of scene `s`; `hud_ctx[c]`
is what the pointer for it leads to. A cell the tree has and `hud_ctx` does not is
a *ghost*: `destroy_hud()` cannot remove it.

Abstractions: one "style" value stands for position, sizes and colours; a cell
stands for a title cell, a value cell and their labels, which are created and
removed together; the head of the struct and its metric array are one part each
(their fields are read at one place of a pass); texts are left out. The shell's Mono runtime is
assumed to create every object it is asked for: `build_hud()` goes on without a cell whose
`mono_object_new()` returns null (`main.cpp:250`, 361, 377, 397), and a shell that is out of
memory is not modelled. `hud_ctx` is a
local the code leaves uninitialised before the first build; `attached_to_game` is
false until then, so it is never read, and the model starts it with null pointers.
The scenes a thread still points to are not collected: the stack of an attached
thread is scanned.

### ConfigOrder, ConfigCodec, ControlPage (with MCControlPage)

`ConfigOrder`: the order list of a request or of an `.ini` file, entry by entry:
`TakeToken`, then `AppendMissing` for what the list did not name, then, for files,
`Validate`. The reference definition `Before` says where each metric belongs,
independently of the loops.

`ConfigCodec`: every other setting, as the four conversions between a configuration
and its two texts. A number is an integer count of a unit small enough to hold what
either text prints; its text is rounded to the digits of the format; `parse_int()` and
`json_get_int()` wrap around at `INT_MAX`, while the two parsers of floats, which multiply
by a power of ten, are taken to be exact. The opacity is a percentage above 1. The
switches are found by searching the document for `"enabled"`, as the code does. A colour
is a text of a length and a last character: `json_get_color()` takes any that begins with
`#` and has seven characters, the file gets it as it is, and the reader of the file cuts it
at a line break, trims it, and wants seven characters again (`CutShort`).
One of several fields read and printed alike stands for all of them (`offset_x` for
`offset_y`, `bg_color` for the colours of the metrics).

`ControlPage`: any number of open pages, each with its `currentConfig` and at most one
load, one save and one reset on their way; the console handles them in any order;
requests and answers get lost; other clients post, the user edits `config.ini` or removes
it, the payload restarts, and saves the defaults when there was no file. A save goes
through `FromJson` and `ToIni`, a restart through `FromIni`, a load through `ToJson`; a list
of metrics goes through the steps of `ConfigOrder`, of which `ControlPage` is a composition.
A behaviour follows one setting. `synced` and `event` are history: whether a page shows what
the console runs, and what last changed the configuration; `edited` is what the user did to
the file since.

### ConfigStore

`disk[f]` is what a read of file `f` returns, `atRisk[f]` what a power cut may leave
of it; `fsync()` narrows the second to the first. A configuration is a model value:
the text of the file is left out. Every system call may fail: an `open()` at a start that fails
for whatever reason makes the load go on to the next file (`unread` remembers which), and
when it fails for all of them the defaults are saved over files that are there; a failing
`read()` leads where an empty file leads.

### WebServer

Descriptors as numbers in a table shared with SceShellUI (`owner[fd]`); the worker,
`web_server_stop()` on the HUD thread, the shell's own opens and closes, and clients.
A request is its kind and the number of pieces of its header and of its body; the
first piece holds the request line. The lowest free number is handed out. An
`accept()` that was waiting when the other thread closed the descriptor may still
return. Test, use and reset of `g_server_fd` are separate accesses. A reply is a step of its own
(`Replied`, and the one in `HandleUnload`): the client socket has no send timeout, so it may
take for ever.

### Telemetry

`sample_cpu_load()` with its two banks, its search for the idle threads and all its
early returns; `get_fps_reading()` with the sample file, the flip counter of the
display controller, the two clocks (one since boot, one a wall clock that can be set)
and the restart of the counter. Both are called from the HUD thread, once per
iteration at most. A rate is a fraction, so nothing is lost to rounding. `samples`,
`window` and `closed` are history: the two samples and the counting window the reading
is supposed to stand for. The README of the repository also names a software fallback
by way of `SceVshAppSystem` hooks; no code does that, and none is modelled.

### SlotAllocator, TrampolineArena, X64Relocator, Detour (with MCDetour)

The Makefile links none of this code; it is modelled as it would run. `SlotAllocator`
is what the header of the arena promises, in one action. `TrampolineArena` is
`allocate_near()`: the search of the mappings, a new mapping near the function, and the
overlap check of `record_unique()`; `Promise` instantiates the first with the second's
slots. `X64Relocator` has the operators of `onion_x64_relocate()`: how many
instructions are stolen, where each goes, what is written in its place, where a
branch into the stolen code is sent, and what is refused. An instruction is what it
does, its length and the address it refers to; encodings are left out, and with them
the decoder, which is external.

`Detour` is `InstallDetour()` for several hooks, step by step (`Allocate`, `Protect`,
`Decode`, `Relocate`, `BuildPatch`, `Publish`, `Commit` or `CommitFails`, `Retry`),
against a thread that executes what is in memory, and the functions it calls, while `home`
follows the function as it was without hooks; `back` is the address the call it is in comes
back to. The code does not stop threads, and `spoilt` records the five things it does not
watch for: the thread stands amid the bytes that are replaced; a call it is in comes back
there; a second hook came between the decoding and the copy of the expected bytes; the
address in an earlier patch was decoded as a branch and rewritten; the function jumps back
behind its first instruction. Each of them leads a thread off its course, which a run
without that exception shows; `FramesRunOriginal` and `HooksKept` say that nothing else does.
One return address is kept: what a callee calls in turn is part of the callee.

### Loader

`main()`, `inject_elf_into_pid()`, `elfldr_load()` and the remote calls of `pt.c`.
Of the target's registers the model keeps whose frame they are. `pc` in `Remote` is
a place where the loader makes the target run a system call, a function (the errno
of an error message) or the stager; `rpc` is the place inside that remote call;
`OnSuccess` and `OnError` say where the loader goes on. Every request may fail.
`unheeded` has the two failures that get past the loader: a relocation of an unsupported
type, which is logged and skipped (`elfldr.c:373`), and the copy of the
arguments, whose result nobody reads. `pt_errno()` (`pt.c:539`) calls its function without
asking whether it was resolved: where it was not, the thread runs at address 0 and the step
loop does not end (`rpc = "astray"`). `pt_call2()` takes any SIGTRAP for the stager's
(`stray`). What a foreign stop does to `pt_step()` is not modelled. Variables below
"history" record the failures the code has no way back from, and the properties name them
as their exceptions.

### How they fit

The configurations `OverlayRuntime` allows are those with a permutation for
`order[]` (`ConfigAssumption`): that either parser produces nothing else is
`OrderAlwaysPermutation` of `ConfigOrderTheorems`. `ControlPage` extends `ConfigOrder` and
`ConfigCodec`: its posts and restarts start the parser's steps. There a save of the
files succeeds; `ConfigStore` is about one that does not. `Detour` extends
`TrampolineArena` and `X64Relocator`: its allocation is a step of the arena, so the
refinement is checked on the composed behaviour. `Telemetry` is what `UpdateMetrics` of
`OverlayRuntime` calls; they share no variable. A save in `ConfigStore` is what
`PostConfig` and `PostReset` do before the assignment that `CopyPart` models. The
requests of `WebServer` are those of `OverlayRuntime`, which leaves sockets out; the
flag `g_should_unload` that `SetUnload` raises is the one `Unload` reads. `BootFails`
of `OverlayRuntime` is a payload that the loader started with missing arguments.

## Runs

| run | cfg | distinct states | shows |
|---|---|---|---|
| overlay_safety | OverlayRuntime.cfg | 1.39 million | types; a HUD differs from the configuration only after a dirty flag set during a build; no ghost cell, nothing left by an unload, unless a build overlapped an assignment; a build ends on the scene it was begun for |
| overlay_liveness | OverlayLiveness.cfg | 358 thousand | an unload always ends; with a quiet shell the HUD becomes current and stays so |
| overlay_lost_change | OverlayLostChange.cfg | violation | a change posted during a build is lost |
| overlay_ghosts | OverlayGhosts.cfg | violation | a build across an assignment leaves a cell nothing can remove |
| config_order | ControlPage.cfg | 1.95 million | permutation, dead repair pass, requested order; numbers in range; an untouched page saved, and a restart, change nothing that is drawn, but for a colour only one of the parsers accepts |
| config_store | ConfigStore.cfg | 451 thousand | settings survive, one copy is intact, the running settings are durable, the defaults replace them at need only |
| config_fallback | ConfigFallback.cfg | violation | a start runs with what is left of the primary, beside a complete mirror |
| telemetry | Telemetry.cfg | 799 thousand | the load is that of the last two samples, the frame rate that of the last window, no frame is invented |
| web_server | WebServer.cfg | 148 thousand | only own descriptors outside an unload, no leaks, split bodies whole, no client holds the worker by what it sends, the stop completes once the reply is out |
| web_descriptors | WebDescriptors.cfg | violation | the unload closes a descriptor of the shell |
| loader | Loader.cfg | 36 thousand | target resumed and released, credentials back, complete image, true report, each but for the failures named; the loader ends but for the call at address 0 |
| detour | Detour.cfg | 1.13 million | a thread stays on the course of the unhooked function, in it and where its calls come back to, and no hook is lost, but for the five exceptions; the arena implements the slot allocator and never has to refuse an overlap |

### Bounds

- `OverlayRuntime`: two scenes (an old and a new one are enough for a switch during
  a build, a return to the first and a recycled address), two metrics (the fewest
  with an order to exchange and a separator), two configurations that differ in every
  abstract field, `MaxGhosts = 1`: the shell and the clients rest once a root holds
  a ghost. The invariants under `~torn` do not depend on that bound, for they say
  there is none; neither `StaleOnlyIfRaced` nor the liveness run needs a second one.
  `SceneSymmetry` is sound: the
  scenes are interchangeable in every definition and the run has no liveness
  property. `ShellStepsAtTop` lets the shell step only where the HUD thread is about
  to look: it reads the scene and its root nowhere else, so any other step of the
  shell commutes up to that point; `CollectScene` touches no scene the HUD thread points
  to. The liveness run has one metric, no
  symmetry and no constraint.
- `ControlPage` with `ConfigOrder`: three metrics, lists of up to four entries: one more
  than the slots, so that duplicates, unknown names and a full order all occur. One
  page beside clients whose posts stand for every other page; for each setting a few
  values on both sides of every limit, between two printed digits, and beyond the
  18 bits of an `int` there (the code's 32 make the same wrap at a larger number). A
  page has one request of each kind on its way.
- `Telemetry`: two cores, one of which may stay undiscovered; five iterations, which is
  two windows closed after a restart of the counter or of the sampling; a wall clock
  ahead by 0, 1 or 6 ticks, so it is set by less and by more than a window; flips below and
  above the highest rate that is believed.
- `Detour`: two hooks, which are alike (`HooksAlike`), two functions and an address off the
  grid, two mappings of two slots, so that both run out; six programs, one for each
  way the relocator treats a branch. The thread calls one of the functions; the other,
  out of reach of some mappings and refused by the relocator, is there for failures.
- `ConfigStore`: two configurations, the defaults and another one; any number of
  saves, crashes and power cuts. That two are enough is what the theorems add, which are
  about any number.
- `WebServer`: three descriptors (listening socket, client, shell), two candidate
  ports, a buffer of three pieces against requests of up to four: some fit and some do not.
- `Loader`: three segments, one of them executable, so both kinds of protection
  and both loop ends occur; every failure of every request.

### Fairness

Both payload threads are scheduled: neither waits for a lock, and the HUD thread only
sleeps. In `OverlayRuntime` all of the HUD thread is fair, and of the worker only the
assignment and the flag behind it, between which it waits for nobody. In `WebServer`
nothing is assumed of clients, of the shell or of `accept()`; `read()` gives up after the
three seconds the worker sets, so `ReadEnds` is fair and `Read` is not; a `write()` has no
timeout, so no reply is fair. Hence `EveryRequestEnds` speaks of the reading only, up to the
reply or the close, and `UnloadStopsServer` starts where the reply to the unload is out.
`HudConverges` assumes a shell that keeps showing a scene with a root, and excludes the one
state the loop cannot leave (`Quiet`). The loader's
requests return; a function called in SceShellUI returns, unless it was never resolved; a
failing `waitpid()` is not something fairness counts on.

`Telemetry`, `ControlPage`, `Detour` and `ConfigStore` state safety only: a sampler that
is not called, a user who does not save or a hook that is never installed breaks
no promise. A HUD thread that has exited, a loader that is done, a bounded clock and an
installation that has failed for good are ends: those runs do not look for deadlock.

## Findings

1. **A change can be lost** (`overlay_lost_change`, `main.cpp:906` and `925`): the
   dirty flag is cleared after the build that read the configuration.
2. **Ghost cells** (`overlay_ghosts`, `main.cpp:362`): a build that reads `order[]` across
   the unlocked assignment places a metric twice and forgets the first cell.
3. **The mirror is no fallback** (`config_fallback`, `config.cpp:252`): it is only opened
   when the primary cannot be; a primary that is empty, cut off or older than the mirror
   is what the start runs with, beside a mirror that was saved whole.
4. **The unload handler closes the client's descriptor twice** (`web_descriptors`,
   `web_server.cpp:1342` and `1470`).

More weaknesses are in the models and named as exceptions of the properties; TLC shows each
of them when its exception is taken out of the property:

- `Quiet` of `HudConverges`: after scene A, then B that has no root yet, then A again, A
  still counts as attached and its root is forgotten; no HUD is built for it
  (`main.cpp:894-899`), although the README of the repository says "renders on top of any game".
- `removeFound` of `NoGhostCells`: without `Widget.RemoveFromParent` `destroy_hud()` gives up
  (`main.cpp:193`), and the unload ends with the HUD under its root.
- `astray` of `LoaderEnds`: `pt_errno()` calls a function that was not resolved
  (`pt.c:539`), and the loader steps for ever with SceShellUI stopped, while the README of
  the repository speaks of a pre-resolution that "prevents crashes and freezes".
- `rax` of `ReportsTruth`: `pt_call2()` returns the interrupted thread's `rax` (`pt.c:394`); a
  -1 in it makes a successful injection a reported failure. A success is also reported
  where `pthread_create` refused.
- `stray` of `ResumesWhereItWas` and `ReportsTruth`: any SIGTRAP ends the wait for the stager
  (`pt.c:382`), although `pt.c:379` says "Only the stager's terminal INT3 is a valid
  synchronization point".
- `unheeded` of `PayloadRunsWholeImage`: a relocation of an unsupported type is logged
  and skipped (`elfldr.c:373`), the copy of the arguments is not looked at
  (`injector.c:422`).
- `CutShort` of `ReloadKeeps`: a colour such as `"#12345 "` is accepted and saved, and too
  short once the reader of the file has trimmed it (`config.cpp:306`).
- `broken` of `SettingsSurvive`: a change whose save failed is answered ok
  (`web_server.cpp:1315`).

Where code and documents disagree otherwise: `config.hpp:34-35` gives 12..36 as the range of
the font size and 24..60 as that of the bar height, and both parsers accept 10..48 and
20..80 (`InRange` has the code's). The README of the repository shows sections
`[metric_fps]` and `[metric_ssd]`; the parser and `config_save()` use `[fps]` and `[ssd]`, and
a section of the documented form is a name nobody knows, which counts as `fps`
(`config.cpp:65`). A document that omits the
overlay's own `"enabled"` in front of the metrics is given the first metric's. The frame
rate of a sample file is shown however old the file is.

## Proofs

All proofs are checked by TLAPS to the last leaf, and each theorem is about its
module's whole specification. They assume what the modules name:
`MetricCountAssumption`, `SceneAssumption`, `ConfigAssumption`, `RemoveFoundAssumption`, `BoundAssumption`,
`TokenAssumption`, `MaxTokensAssumption`, `DefaultsAssumption`, `ContentAssumption`
(sizes are positive, special values are distinct, configurations are repaired),
`IntAssumption`, `AbsentAssumption`, `DefaultAssumption`, `TextAssumption`
(an `int` is wide enough for every number's limits; a field that is missing is no word
and no number; the defaults are values that both parsers accept; texts are texts), `SamplerAssumption` (the windows
lie within a period, a period within the bound of the clock), `ArenaAssumption` and
`LengthAssumption` (addresses are positive; a slot fits into a mapping, which the code
does not compare but its constants satisfy), `DetourAssumption`, `CodeAssumption` (functions
are whole instructions, a function on the grid is as long as the patch, an address is
eight bytes), `FunctionAssumption` (functions are apart; a branch is named by the
condition it branches on, and only a patch jumps through an address; no function branches
into the instructions another one begins with, which no relocation could repair; no four
jumps follow each other, as many as `BehindJumps` looks through), `MemoryAssumption`
(memory that `mmap()` returns was free: no function is in it, nor what a function branches
to or ends at), `NamesAssumption` (hooks are no addresses), `FdAssumption`,
`LoopAssumption`, `BufferAssumption`, `SegmentAssumption`. TLC evaluates each of them on
the instances of the runs.

- `OverlayRuntimeTheorems`: `TypeCorrect`, `NoGhosts`, `UnloadClean`, `BuildsEnd`, `Fresh`.
  `NoGhostCells` is not inductive: that `DestroyHud` removes exactly what the root
  holds needs the root to be that of the attached scene at every place of the loop
  (`RootInv`, which is also what `BuildsEnd` rests on), a build to start with no cell
  left (`EmptyInv`), and pass 2 never to meet a metric twice (`PlacedInv`). That follows
  from `order[]` being a permutation, which a half-assigned `g_config` need not have:
  `CopyInv` says that it is `new_cfg` on the parts copied, hence a configuration again
  once all are. `UnloadInv` keeps the ready file and the server flag down after the exit:
  only a worker that has raised the flag can have been asked to unload.
  `Fresh` rests on `DrawInv`: at every slot of both passes it gives the
  widths, the two counts and the cells in `hud_ctx` as functions of `g_config`, up to
  `Render(g_config)` at the end, as long as no assignment is under way and none ended
  during the build.
- `ConfigOrderTheorems`: `OrderTypeCorrect`, `OrderAlwaysPermutation`, `RepairIsDead`,
  `OrderAlwaysRequested`. `FillInv`: the slots
  below `idx` hold exactly `seen`, without repetition; `AppendInv`: the metrics below `m`
  are all seen; together they leave no slot open at the end (`DoneInv`). `RequestInv` adds the order:
  while names are taken, what was placed is what was mentioned, each where its first
  mention puts it; after that, what was not mentioned follows by number (`Sorted`).
- `ControlPageTheorems`: `PageTypeCorrect`, `UntouchedAlwaysStays`, `ReloadAlwaysKeeps`,
  `PageKeepsOrder`. In `PageInv`, what an open page holds fresh is
  `Current`: sent back, it changes nothing that is drawn, for a number because printing
  and parsing a printed number round to the same digits, for the switches because the
  search of the document finds what was printed, for a colour because the text sent is
  the one kept, for an order because a permutation is parsed to itself (`OrderKept`, by the
  steps of `ConfigOrder`). `NumberFile` and `OrderFile` say the same of the file and what
  runs; for a colour it is so unless the reader of the file cuts it short, which
  `ReloadKeeps` names.
- `ConfigStoreTheorems`: `StoreTypeCorrect`, `OneCopyAlwaysIntact`,
  `RunningAlwaysDurable`, `SettingsAlwaysSurvive`, `DefaultsOnlyWhenNeeded`. A copy that is
  neither broken nor being written cannot lose what it holds (`Settled`); the copies this
  save is through with hold its argument (`DoneHolds`), as does the target between write and
  sync (`Writing`). The properties are inductive together with these; what a start reads is
  a file it could open, and every file before that one is missing or in `unread`
  (`StartReads`).
- `TelemetryTheorems`: `SamplerTypeCorrect`, `LoadAlwaysMeasured`, `RatesExplained`,
  `RateOfWindow`. The load is made of sums over cores, which the folds of the community
  modules define recursively; what the proof needs of them (a sum exists, is bounded by
  what bounds its elements, and the sum of the differences is the difference of the
  sums) is proved by induction over sets of numbers. In `LoadInv`, the bank that is
  kept for the next call holds the last sample that was taken, of every core
  (`LastSample`). `Readings` ties what the sampler
  keeps between two calls to the window it stands for: the counter is never further
  from the kept reading than the flips since, and exactly as far in a clean window; the
  kept time is that of the window by the clock in use. `LastWindow` ties the rate to
  the last window closed.
- `DetourTheorems`: `ArenaRefines` (initial states and steps of the arena map to those of
  `SlotAllocator`), `DetourIsArena` (so do those of `Detour`), `DetourKeepsPromise`,
  `DetourNeverRefused`, `HooksAlwaysKept`, `FramesAlwaysRunOriginal`. The slots are apart because mappings are (`Apart`), each slot lies in the
  used part of one (`InUse`), and a new one begins where that part ends; this is
  also why `record_unique()` finds nothing to refuse. The offsets of the relocator are
  sums too: instructions and copies are in order (`Ordered`), what is stolen exists and
  covers the patch (`StolenFacts`), a copy stays in its slot (`CopyWithinSlot`), and the
  copy of a patch is again a jump through the same hook's address (`CopyOfPatch`).
  `HookInv` is inductive: a slot is one hook's for good and holds that hook's copy only
  (`Places`, `Copied`); each hook on a function knows by `expected` the one it was put
  over, so that from the head all of them are reached (`Chained`); a hook that saw
  something else than it expected, or whose copy was rewritten, is recorded
  (`Watched`); until all that are due have run, the thread is at a patched head, in a
  hook or at the copy of a patch, and those left are ahead of it (`RunsInTurn`).
  `FramesRunOriginal` speaks of the next instruction only. The invariant `CourseInv` adds
  where a thread can be at all while nothing is `spoilt` (`Path`): in the unhooked function or at its head
  (`InPlace`), in a hook (`InHook`), at the copy of an instruction (`InCopy`), at the
  jump that a copied call comes back to (`BehindCall`), or at the jump a copied condition
  takes (`Taken`), each with the place of the unhooked function it stands for. Each of
  them leads to one of them again, instruction kind by kind (`PlaceLeads`, `HookLeads`,
  `CopyLeads`, `PatchCopyLeads` for the copy of the patch another hook had put there), so
  that a step keeps the thread on its path (`ThreadPath`) and the path is on course
  (`PathIsOnCourse`). What is installed meanwhile disturbs none of these places
  (`PathKept`): a copy that a hook committed, and the code it was made of, no longer
  change (`Intact`), and no committed hook is on a function that branches into what was
  stolen (`Marked`).
- `WebServerTheorems`: `ServerTypeCorrect`, `OwnDescriptorsOnly`, `NothingEverLeaks`,
  `BodiesAreWhole`. `Owns` gives the owner of the number each thread is about to use, as
  long as nobody has asked for an unload; `Listening` and `Connected` say where a
  listening socket and a connection can be; `Stopping` carries that through an unload:
  the number a thread has read before it closes is still the one known, or nothing is
  known and the socket is closed already. `BodyInv`: what is dispatched was cut or is
  complete.
- `LoaderTheorems`: `LoaderTypeCorrect`, `AlwaysResumes`, `AlwaysLetsGo`,
  `CredentialsComeBack`, `ImageAlwaysWhole`, `ReportAlwaysTrue`. `Frames` gives the frame
  of the target at each step of a remote call; `Synced` says that a lost call leads to
  error messages and the way out only, so that no stager is started on a frame that
  is not the thread's own; `Memory` collects, place by place, what has been mapped,
  copied and protected, up to what the stager needs (`Started`); `Holding` and
  `Credentials` tie tracing and the authority id to the place; `Outcome` ties the
  report to the stager's end.

Only model-checked: the liveness properties. Fairness and ENABLED are outside the
prover's reach.

## Not modelled

- The Mono bridge: calls without state of its own. Logging and notifications: output.
  Symbol hashes: a pure hash. Build scripts.
- `hde64.cpp`, `table64.h`: a third-party table-driven decoder.
- `DetourFunction()`, `PatchInJump()`, `elfldr_spawn()`, `elfldr_exec()`, `elfldr_read()` and
  the rest of `elfldr.c` and `pt.c` that nothing calls.
- Of the hook path (`overlay*.cpp`), which the Makefile does not link either, all but the
  installation of `OnRender_Hook` and its call of the original: widgets, layout and
  its own sampling.
- The layout and preview of the HTML page, the geometry and colours of the HUD, and the
  metrics that are read and printed without any state (temperatures, clocks, memory,
  fan, power, address).
- The capabilities the loader sets once and never restores.

`PROJECT.json` says of each hazard without a property why it has none. Three more are not
modelled at all: a managed string kept where the collector does not look
(`main.cpp:886`), a second run of the loader, and the age of the sample file. That a close
on the other thread may not wake a waiting `accept()` (`web_server.cpp:1414`) is in the
model; nothing is claimed of a worker that waits there.

## What is left

1. A refinement of `OverlayRuntime` in which a metric's two labels and the geometry
   are cells of their own.
2. The hook path's widgets, and its own copy of the samplers, against the ones in
   `Telemetry`.
