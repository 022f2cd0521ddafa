# dos_re in TLA+

dos_re runs DOS programs under an interpreter, records and replays them
deterministically, and uses the replays to check recovered implementations
against the original code. This directory models the parts of it in which the
order of steps matters, or in which two descriptions of one thing must agree,
checks them with TLC on small instances, and proves the central facts with
TLAPS for every size.

1. [Inventory](#1-inventory)
2. [Modules and the code](#2-modules-and-the-code)
3. [Runs](#3-runs)
4. [Fairness](#4-fairness)
5. [Proofs](#5-proofs)
6. [What the code does otherwise](#6-what-the-code-does-otherwise)
7. [Plan](#7-plan)
8. [Not modelled](#8-not-modelled)

## 1. Inventory

All paths are under `dos_re/` unless they start with `tools/` or `docs/`.

| Component | Files | State | Operations | Interacts with |
|---|---|---|---|---|
| Artifact writer lock | `replay.py` | the lock file: owner pid, token | `_locked_mutation`, `_reclaim_stale_lock` | other processes, through the file system |
| Replay artifact store | `replay.py` | `replay.json`, base and boundary directories, staging directories, journal; a manifest per handle | `create`, `open`, `register_profile`, `cache`, `annotate`, `set_timeline_coordinates`, `record_validation`, recovery | lock; recorder, verification |
| Interval verification | `replay.py` | position of two drivers, cursor, evidence in the artifact | `verify_interval`, `verify_checkpointed`, `bisect_divergence` | store; drivers |
| Input replay | `replay_input.py` | cursor, last mouse sample | `apply_to_runtimes`, `seek` | recording; runtime |
| Key dispatcher | `keyboard.py` | event deque, keys down with their age, pending releases | `post_down`, `post_up`, `pump`, `pump_events` | window; the game's INT 09h |
| Real-mode viewer | `player.py` | frame number, mode, recorder, playback, pointer, pacing | `run_view`, `advance_frame`, `advance_replay_frame` | all of the above |
| Interrupt injection | `interrupts.py` | none of its own (stack, flags, `call_depth` of the CPU) | `deliver_interrupt`, `deliver_scancode` | CPU, DOS |
| 8086 and 80386 | `cpu.py`, `cpu386.py`, `x86.py` | registers, `instruction_count`, hooks, pending IRQ | `step`, `run` | memory, hooks, devices |
| Planner and binding | `execution.py`, `regions.py`, `features.py`, `materialized_plan.py`, `identity.py`, `verification_contract.py` | catalogue, plan; active region; pending feature changes | `plan_execution`, `bind_plan_implementations`, `enter`/`advance`/`reset`, `request`/`apply_pending` | atlas, runtimes |
| PM interrupt fabric | `pic.py`, `dos4gw.py`, `sblaster.py` | IRR/ISR/IMR, timer due count, keyboard queue, DMA channels, block due time | `pending_irq`, `acknowledge`, `eoi`, `service`, DSP commands | 80386, game |
| PM viewer | `pm_backend.py`, `pm_replay_input.py`, `pm_replay_evidence.py`, `pm_snapshot.py`, `pm_verification.py`, `pm_composition.py` | frame clock, buffered input, sound ring | `run_viewer`, `_SoundDeviceSink` | fabric, audio thread |
| Hook verification | `verification.py`, `hooks.py`, `observable.py`, `frame_verify.py`, `step_probe.py` | oracle clone, counters, passthrough sets | `verify`, continuation search | CPU |
| DOS and BIOS | `dos.py`, `textmode.py` | file handles, allocations, type-ahead, device latches | `interrupt`, `port_read`, `port_write` | CPU |
| Memory | `memory.py`, `framebuffer.py`, `palette_effects.py` | bytes, EGA planes and latches | read, write | CPU |
| Snapshots | `snapshot*.py`, `dosbox_savestate.py` | files | capture, restore, clone | runtime |
| Runtime-code variants | `runtime_code.py`, `asm.py` | slots and variants | identify, require | memory |
| Atlas | `atlas.py` | attributable records, indexes | merge, query | planner |
| Export, detachment | `export.py`, `independence.py`, `detachment_guard.py` | release tree, guard | export, verify | plan |
| Construction | `runtime*.py`, `boot*.py`, `mz.py`, `le.py` | none | load | memory |
| State mirrors | `state_view.py`, `testing.py` | none | read, write fields | memory |
| Host output | `audio_sink.py`, `opl3_fast.py`, `display*.py`, `overlay_menu.py`, `crash.py` | window, devices | present | viewer |
| Lifting | `lift/` | graphs, contracts, installed tables | decode, analyse, emit, install, dispatch | planner, CPU |
| Tools, examples, tests | `tools/`, `examples/`, `tests/`, `graveyard/` | | command lines | all |

What is hard in them, and what being correct means:

* **Lock and store.** Several processes, each of which may die or raise
  between any two system calls, and handles that outlive other processes'
  mutations. Correct: bodies exclude each other, a dead owner's lock goes
  away, whatever is listed can be restored, an interrupted publication is
  finished or leaves nothing, and an acknowledged update stays.
* **Verification.** Many separately locked mutations per call, interrupted
  anywhere, resumed from cached states left by other calls. Correct: a verdict
  is true of the two implementations, a diverged state is never cached, and
  evidence is not written before what it rests on.
* **Keys and viewer.** Posts from a window thread race the pump; input is
  recorded in one order of steps and replayed in another. Correct: no tap is
  lost, the table settles to what the player holds, and a playback takes the
  machine through the states of the recording.
* **PM fabric.** Timers, keyboard and sound raise interrupts the CPU polls
  every 16 instructions; one orphaned in-service bit blocks all others.
* **Planner and binding.** One owner per target, nothing forbidden in the
  closure of a detached plan, and an adapter that fails half way through.
* **Hook verification.** Clones made field by field, and nesting.
* **Interpreters and lifter.** One instruction is described five times: by the
  interpreter, the decoder, the table of effects, and two emitters. Correct:
  the descriptions agree.
* **Snapshots.** Four ways to save a machine, each field by field. Correct:
  the machine made again goes on as the one that was saved.

The hazards, each at its line, are in `PROJECT.json`.

## 2. Modules and the code

```
ReplayContent --+--> ReplayCatalog              abstract: a durable catalogue
                |        ^ implemented by
                +--> ReplayStore ------------> INSTANCE ArtifactLock
ReplayVerify            (calls the catalogue)
KeyDispatcher --------> ViewerSession          (INSTANCE; its pump is the dispatcher's)
SoundBlaster ---------> PMInterrupts           (INSTANCE; the card is a field of the machine)
ExecutionPlanner -----> PlanRuntime
FunctionScan ---------> LiftedRun -> LiftedQuestions   (programs for TLC)
InstructionSet --+----> InstructionLift --> CpulessLift --> Promotion
                 +----> FlatInstructions -> FlatLift
MCComponents            one part per behaviour: EXTENDS ReplayStore, PlanRuntime,
                        FeatureControl, ViewerSession, HookVerify; INSTANCEs of the others
```

`MC*` modules give a specification its instance for TLC; `*Proofs` modules
EXTEND the specification and hold the theorems. Definitions headed "faulty variants"
(`StaleIfReadable`, `ReadyAtOnce`, ...) are plausible slips of the code. No
specification uses them: each shows that one property notices its slip, and
`PROJECT.json` says which, as it says the lines of every definition.

### Replay artifacts

**ArtifactLock** (`replay.py:1647-1712`, `2386-2420`). One step is one system
call: create with `O_EXCL`, read the owner, unlink, create again, write the
owner, run the body, compare the token, unlink. `lock` is the file, `lpc`
where each process stands. A process is a pid that lives once; pids are not
reused. `Concurrent = FALSE` restricts the environment to one live process at
a time.

**ReplayContent, ReplayCatalog.** What an artifact holds (profiles,
boundaries, annotations, coordinates) as one record of sets, and the abstract
promise: entries appear in one step (`Commit`), callers are told of them
afterwards (`Acknowledge`), and nothing leaves.

**ReplayStore** (`replay.py:920-1007`, `1066-1120`, `1250-1456`, `1582-1607`,
`1651-1775`). `man` is `replay.json`, `base`/`final`/`temp` the directories,
each `none`, `partial`, `torn` (has its `state.json`, not every page) or
`whole`; `mem` is each handle's `_manifest`. A call is `op` with its `stage`:
lock, reload, recovery of journaled publications, sweep of leftovers, and the
body. `cache` is `CacheStage`, `CachePrepare`, `CacheJournal`, `CachePublish`,
`CacheIndex`. `Raise` and `Die` can follow any of them. `replay.json` is
written to a temporary file and renamed, so `Write` is atomic. Pages and
states are reduced to being there.

**ReplayVerify** (`replay.py:1793-2310`). The two implementations are `agree`,
at which points of the timeline their projections are equal, and `quiet`,
which transitions have equal effects, chosen in `Init` in every way:
deterministic drivers are assumed, as the code does. `at` is the state each
driver has been brought to, and a cached boundary remembers which state was
captured for it, so that a wrong order of positioning and capture shows.
`verify_interval`, `verify_checkpointed` and `bisect_divergence` share the
steps they share in the code; `seen` is each verifier's handle, which may be
old. Opening the artifact is `OpenRead`, before the lock, and `Open`, under it:
the recovery deletes directories (`kept`) that the manifest read before does
not list, and then writes that manifest back, over whatever was recorded or
noted in between (`replay.py:988`, `1755`). So evidence may disappear, and a
boundary an old handle lists may be gone, which makes a restore raise. The
history variable `recorded` is all evidence ever written, `overwritten` that
such a write-back has occurred. A call that changes the artifact is one step,
so an open that reads in the middle of another's publication is left to
`ReplayStore`. `run_interval` (`replay.py:1778`), which caches where it starts
without comparing, is not modelled: `CachedAgreed` is about what verifications
cache.

### Input and viewers

**KeyDispatcher** (`keyboard.py`). The three variants of `pump`, one deque
operation a step, with `PostDown`/`PostUp` between any two. The game's table
and the keys it has polled stand for INT 09h and the game's own poll.

**ViewerSession** (`player.py`, `replay_input.py`, `interrupts.py:58-99`,
`cpu.py:538-600`). The loop of `run_view`, in the order of `loop`: head, host
events, tick, pump, pointer, frame, and the playback's `apply` and frame. The
pump's steps are those of `KeyDispatcher`. The machine is deterministic: its
state is its instruction count, the interrupts it has taken, and each input
with the place where it got it, which is what a playback must reproduce.
`saved.truth` remembers the machine at each frame of a recording.
`NoPointer`, `IrqAt`, `ReadAt` and `StopAt` stand for the game.

**PMViewer** (`pm_backend.py:374-688`, `pm_replay_input.py`,
`pm_replay_evidence.py:111-181`). The protected-mode viewer: input held back to
the frame tick while it records, the stall flag under which a key goes through
at once, two presents a frame, F11 in the middle of one. The history variable
`exact` says that a recording met none of the cases section 6 lists;
`FramesAlike` replays the others from their base and from any kept frame.

### Protected-mode interrupts

**SoundBlaster** (`sblaster.py`). DSP commands, the 8237 channel, blocks and
the interrupt line as operators on a card; `due` is relative to the card's
clock, samples are left out, their addresses are not.

**PMInterrupts** (`dos4gw.py`, `pic.py`, `cpu386.py:432-514`,
`pm_snapshot.py`). `live` is a machine: mask, request and service registers,
vectors, the stack of handlers, controller, timer and card. One action per
thing a program, a handler, the user or the clock does; each ends, as in the
code, with the poll every `Decimation` instructions. `twin` is a machine
restored from a snapshot of `live`, which from then on takes every step `live`
takes; `kicked` says that its card raised the interrupt as it was restored.

### Plans, features and verification of hooks

**ExecutionPlanner, PlanRuntime** (`execution.py`, `regions.py`). The planner as
an operator from catalogues and coverage to a plan, a refusal or a failed
policy; then the plan bound adapter by adapter, any of which may raise, bound
again, and run, with regions on sessions of their own. `awaiting` are the
activations a binding has still to make, `handler` and `entered` say for each
target what was installed there and which region takes over; behind a region's
exits, at targets of the region that are not its entries, the program around it
goes on (`Surrounding`). `WellAsked` says what descriptors' constructors check.

**FeatureControl** (`features.py`). Requests recorded in a channel and applied
at safe boundaries, by a live controller and by one in replay. Changes carry
the number of their request, so that queues are sets of them: the order of a
queue is that of the numbers, and what applying it leaves is the last value of
each feature.

**HookVerify** (`verification.py`, `hooks.py`, `pm_verification.py`) runs a
hook on the live machine and the original on its clone; `frames` is the host's
stack, any frame of which an exception may leave, `hookTable` the CPU's
hooks, `active` the guard, `tx` the transaction, `told` what telemetry counts
of each verdict. **FrameVerify** (`frame_verify.py`) runs two programs from
boundary to boundary.

### Services, devices, memory and snapshots

| Module | Code | State |
|---|---|---|
| `DosMemory` | `dos.py`, INT 21h 48h-4Ah | the table of blocks; `held` is what the program believes it has |
| `DosFiles` | `dos.py`, INT 21h 3Ch-42h | handles, their buffers, overlay, save directory |
| `DosConsole` | `dos.py`, `interrupts.py` | the BIOS buffer and the second byte of an extended key |
| `MouseDriver` | `dos.py`, `dos4gw.py` | the two implementations of INT 33h, side by side |
| `PaletteEvidence` | `dos.py`, `palette_effects.py` | the DAC, the beam, the journal, and the plan classified from it |
| `DevicePorts` | `dos.py` | EGA/VGA indexes, attribute flip-flop, timer, speaker, AdLib |
| `MachineMemory` | `memory.py`, `asm.py` | bytes, planes and latches, as operators |
| `FlatMemory` | `cpu386.py:75-1435`, `dos4gw.py:77-224` | the same of the 80386, with bulk string operations |
| `PMHost` | `dos4gw.py`, `pm_snapshot.py` | DPMI and DOS services of protected mode |
| `Snapshots` | `snapshot*.py`, `runtime_core.py` | a machine as groups of fields, and the ways to carry each |

### Instructions and the lifter

**InstructionSet** (`cpu.py`) says of each form of each opcode which bytes,
accesses, helpers, registers and flags it takes and how control leaves;
**InstructionLift** (`lift/decode.py`, `lift/effects.py`, `lift/emit.py`) and
**CpulessLift** (`lift/cpuless.py`, `lift/emit_cpuless.py`) say the same from
their own ladders and tables, and `Agree` compares. **FlatInstructions** and
**FlatLift** are the 32-bit pair (`cpu386.py`, `lift/decode32.py`,
`lift/emit32.py`). **X86Arithmetic** and **X87Stack** hold the closed forms the
code computes with beside what they must compute.
**Promotion** (`lift/emit_cpuless.py:51-2475`, `lift/cpuless.py`) is the gate that
lets a function run without a CPU, beside what its instructions do.
**FunctionScan** (`lift/cfg.py`) finds a function, its blocks and the reasons to
refuse it; **LiftedRun** (`lift/emit.py`, `lift/runtime.py`, `lift/install.py`,
`hooks.py`) runs a program some of whose functions were lifted beside the same
program interpreted; **LiftedQuestions** holds the programs TLC gives it.

## 3. Runs

| Run | Question | Bounds, and why they are enough |
|---|---|---|
| `lock_keys` | May several processes write at once, hang, or be locked out by a dead one? Are keys lost, stuck or late? (One or the other in each behaviour.) | 3 processes, all may die: an owner, a reclaimer and a third that meets the fresh lock; 2 keys, 4 posts: press, release, press again, and one of another key between |
| `lock_race` | Exclusion without exception (`replay.py:1653`): **violated** | 3 processes, one dies |
| `store_crash` | Is the artifact intact after a death or a raise at any step, and is it the abstract catalogue? | 3 successive processes (a writer, one that dies in recovery, one that recovers), 2 points so that one is indexed while the other is staged, 2 coordinate tables that differ |
| `store_overlap` | Does a mutation start clean, and does every call return, with 2 live processes whose `open` overlaps everything? | 1 profile, 1 point: enough for a directory an old manifest forgot |
| `store_stale_open` | Does an acknowledged update stay when `open` overlaps? **violated** | and 1 annotation, an update that can be erased |
| `verify_one` | Are verdicts true, for every pair of implementations, and do calls end? | timeline of 5 points, spans 2 and 3 (one divides it, one leaves a short segment), one call of any kind, any start |
| `verify_two` | Do interrupted and concurrent calls leave false evidence or cached states? | 2 verifiers, 2 calls, 3 points, 1 open that may overlap all of it and write back; effects always differ, so that a call that compares them diverges where another does not |
| `viewer_irq` | Does a playback reproduce its recording with a device interrupt between frames? **violated** | an IRQ at count 3, so that a frame ends with its entry |
| `pm` | Is an interrupt orphaned, a block played twice or skipped, a key never read? Does a restored machine go on alike? | any 2 things a program or user does while a stream plays (1 with the timer on), 2 nested handlers, blocks of 2 in a buffer of 3 so that they wrap |
| `pm_resume` | ... without exception (`pm_snapshot.py:16`): **violated** | the same |
| `lift_time` | Does a lifted function read the time the interpreted one reads? **violated** | four instructions |
| `components` | The sixteen questions below, one component in each behaviour | per part, in `MCComponents` |

`components` chooses in `Init` which part runs; only its variables move, and
the others' stay in an initial state. Parts
that are operators are applied to a sample the first step draws, and their
properties, `[][...]_sample`, are looked at in that step; a sample is every
value of a small domain, not a random one.

| Property | Part | Question |
|---|---|---|
| `HandlesKept`, `ImplementsCatalog` | store | two live processes that mutate in turn: is an idle handle, however old, ever wrong, and is each step one of the catalogue's? |
| `PlanFollowed`, `ReleasesPackage` | plan | does what was planned run, and nothing else, whatever raised? 768 questions: a program of three functions, seven implementations, one thing out of the ordinary at a time |
| `FeaturesReplayed` | features | does the replay change at the boundaries the recording did, and meet it again after an apply that raised in either? |
| `ReplayFaithful`, `RecordingKept`, `KeysFollow` | viewer | do recordings replay, are they kept, do keys follow? 3 sessions of 2 frames (record, play and hand over, play), one pointer to move to |
| `FramesAlike` | pmviewer, frames | do the protected-mode viewer's recordings replay (3 frames); is the frame verifier's verdict true? |
| `LiftedAlike` | lifted | is a partly lifted program the interpreted one, and one that is all lifted never interpreted? Programs of up to nine instructions with any one replaced, every subset of their functions lifted |
| `ServicesKept` | blocks, files, console, mouse | memory, files, keys and mouse as a program expects them |
| `VerifierHonest` | hooks | no false alarm, no difference missed, and nothing left behind |
| `SnapshotsKept` | snapshots, pmhost | every program of three or four calls, saved after any of them |
| `DevicesExact` | ports, palette | devices left in the middle of anything; four writes, waits, counts of two lines and two silences in any order |
| `MemoryAlike` | memory, flatmem | block transfers against their loops, words against their bytes, the ROM against all stores; 16 and 12 bytes, 2 planes |
| `InstructionsAgree` | opcodes, flat, promotion, x87, arithmetic | all opcodes behind five prefixes, 16 and 32 bit; functions of two instructions in a frame; words of four bits |

What the properties say is written above each of them. Each property holds
for reasons that span several steps or several descriptions, and each has a
variant of the code that breaks it.

Symmetry is used in `store_crash`, `store_stale_open` and `verify_two` only,
where no liveness is checked (`ImplementsCatalog` is a safety property: the catalogue has no
fairness). `components`, `lift_time` and `viewer_irq` do not check for deadlock,
since a session, a program or a sample may end; all others do.

## 4. Fairness

* `ArtifactLock`, `ReplayStore`: weak, per process, on the steps inside a
  call. The code has no loop that waits for another process, and a live
  process is scheduled. Nothing obliges a process to start a call or to live.
* `ReplayVerify`: weak, per verifier, on its next step or its raise while it
  verifies; nothing obliges an open to get on.
* `KeyDispatcher`: weak on the steps of a pump, strong on starting an
  ordinary `pump()`. The viewer's loop pumps each frame; where it calls the
  other variants it comes back to the ordinary one. Strong, since between two
  of them other calls may disable it.
* `PMInterrupts`: `WF_vars(WallTick)`, since wall time passes, and infinitely
  many of the steps `GoOn` by which a run loop goes on. One of those is always
  possible, so that is their weak fairness, written without `ENABLED`. Nothing
  obliges a program to open its mask: `EventuallyServed` makes an exception of
  lines it shuts.
* `LiftedRun`: weak on `Next`; no liveness property is checked of it.
* All other modules: none; only safety is checked.

## 5. Proofs

Checked by TLAPS, for every value of the constants:

| Theorem | Says |
|---|---|
| `ArtifactLockProofs!TypeCorrect` | `TypeOK` of the lock |
| `ArtifactLockProofs!OwnFile` | until somebody dies, who is in its body finds its own lock |
| `ArtifactLockProofs!Exclusive` | until somebody dies, bodies exclude each other |
| `ArtifactLockProofs!Sequential` | processes that live one after the other are never in bodies together, whoever dies |
| `ReplayStoreProofs!TypeCorrect` | `TypeOK` of the store |
| `ReplayStoreProofs!StartsClean` | `Exclusive => RecoveredClean`, always |
| `ReplayStoreProofs!Restorables` | `Undisturbed => IndexedRestorable`, always |
| `ReplayStoreProofs!Recovers` | `Undisturbed => JournalRecovers`, always |
| `ReplayStoreProofs!Acknowledged` | `Undisturbed => AcknowledgedDurable`, always |
| `ReplayStoreProofs!HandlesHold` | `HandlesKept`: `Undisturbed => HandlesRestorable`, always |
| `ReplayStoreProofs!CatalogKept` | undisturbed behaviours implement `ReplayCatalog` |
| `ReplayStoreProofs!SequentialCatalog` | so do all behaviours of processes that live one after the other |
| `ReplayVerifyProofs!CachesAgree` | `CachedAgreed` |
| `ReplayVerifyProofs!EvidenceRests` | `EvidenceFollows` |
| `ReplayVerifyProofs!VerdictsExact` | `CheckpointedExact` |
| `ReplayVerifyProofs!BisectionsExact` | `BisectedTransition` |
| `ReplayVerifyProofs!BisectionHolds` | `BisectionInvariant` |
| `KeyDispatcherProofs!TypeCorrect` | `KeysTypeOK` of the dispatcher |
| `KeyDispatcherProofs!TapsReachTheGame` | no key goes up before the game has polled it down |
| `KeyDispatcherProofs!TableFollowsUser` | at rest the table is what the player holds |
| `ViewerSessionProofs!RecordingsKept` | `RecordingKept`, if recordings begin in different seconds |
| `ViewerSessionProofs!KeysReachTheGame` | `KeysFollow` |
| `ViewerSessionProofs!PlaybackFaithful` | `ReplayFaithful`, if no device interrupts between frames |
| `PMInterruptsProofs!ServiceOwed` | `InServiceOwed` |
| `PMInterruptsProofs!InOrderAlways` | `PlayedInOrder` |
| `PMInterruptsProofs!Resumes` | `ResumedAlike` |
| `DosProofs!MemoryHolds` | `DosMemory!MemoryKept`, if no block is shrunk to nothing |
| `DosProofs!HandlesApart` | handles share no buffer and stay low, opens without a save directory are pristine |
| `DosProofs!FilesHold` | `DosFiles!FilesKept`, for distinct save names and without shared creates |
| `DosProofs!KeysHold` | `DosConsole!TypedIsRead`, whichever keys the program's handler hands on to the BIOS's |
| `DosProofs!MouseHolds` | `MouseDriver!MouseAlike` |
| `ExecutionProofs!PlanInvariant` | the inductive invariant of the next two |
| `ExecutionProofs!PlansAreFollowed` | `PlanFollowed`, for any catalogue, coverage and configuration |
| `ExecutionProofs!ReleasesArePackaged` | `ReleasesPackage`, likewise |
| `ExecutionProofs!FeaturesAreReplayed` | `FeaturesReplayed`, for any features, boundaries, values and failures |
| `ExecutionProofs!VerdictsHold` | `VerifierHonest`, for any code, handlers and settings |
| `ExecutionProofs!JumpsHold` | `JumpsExact`, of words of 8, 16 and 32 bits: conditional jumps compare |
| `ExecutionProofs!SumsHold` | `SumsExact`, of the same: carries, overflows, INC, DEC, NEG |
| `ExecutionProofs!ProductsHold` | `ProductsExact`, of words of 8 and 16 bits |
| `ExecutionProofs!DivisionsHold` | `DivisionsExact`, of words of 8, 16 and 32 bits |
| `ExecutionProofs!DecimalsHold` | `DecimalsExact`, of all packed decimals |

*Lock.* Exclusion is not inductive: a process that goes on to unlink a lock it
takes for stale would break it. The invariant adds that, while nobody has died,
no process stands before such an unlink, and whoever is past the creation of
its file owns the file; one lock has one owner, which gives exclusion. For
processes that live one after the other `OneAtATime` is enough: all others are
unborn or dead.

*Store.* The lock's invariant is carried over to the lock inside the store
(`LockInvStep`: a step of the store is a step of the lock or none), so bodies
are apart while `Exclusive` holds, that is with one live process at a time or
until the first death. `CleanInv` follows a call through recovery: what the
journal step has gone through, which children the sweep has listed and removed.
`SoundInv` says what is on disk (`DiskSound`: what is indexed is complete, and
the one journaled publication is complete under one of its two names), what the
recovering handle adds to it (`Recovered`), what each stage of a body has put
there (`Published`), and that what callers were told is there (`Durable`). It
needs `Undisturbed`: `open()` reads the manifest it will write before it has
the lock, so with it overlapping another process's body, the invariant is
false, as `store_stale_open` shows; and after a death two bodies may overlap,
as `lock_race` shows. The same two facts are what the theorems' hypotheses
name. `Undisturbed` is a state predicate that, once false, stays false
(`UndisturbedBack`), so the theorems speak of every prefix up to the first
disturbance. The refinement goes step by step: entries on disk are `Durable`,
a write of the manifest is one `Commit` of the entry it adds or changes nothing
the catalogue sees, and a successful return is one `Acknowledge`. For idle
handles (`HandlesHold`) `SoundInv` says too little, since it follows only who
is mutating. `Held` adds of everybody else that each entry their handle lists
is indexed, or is the journaled one, and that its directory is complete; as
`replay.json` only grows and the journaled entry goes into it, others' steps
keep that.

*Verification.* Each conjunct of `Inv` is about one verifier and holds
whatever the others do (`StoreStep`). The artifact itself does not only grow,
since an open may put an old manifest in its place (`OpenKept`); so the
invariant speaks of every manifest somebody holds (`SeenSound`): cached states
in it are those of their points and agreed there, and what it notes was once
written. What was ever written does grow, is true, and has its record.
`Local` says for each `pc` where the two drivers stand, what the comparison
just made says of `agree` and `quiet`, and which interval is left. A segment's
verdict for a whole span is the first disagreement in it, found by descent on
its length; bisection keeps "agrees at `lo`, differs at `hi`".

*Dispatcher.* `TablesAgree`: the dispatcher's record of keys is the game's
table, and every key that counts as held has been polled, the moment between
ageing and the frame excepted. From it `TapPolled`. For `RestingTable` the
queue has to be described: the last event queued for a key tells whether it is
wanted, and with none queued `down \ release` does. A post adds a last event, a
drained event moves from the queue into `down` and `release`, and a release
takes the key from both.

*Viewer.* `RecInv` describes the recorder: wherever the session is between two
frames, its machine is that of the last point of the recording, no input lies
behind that point, and all points before it are marked; so the mark of the
end finds the coordinate it expects and `finish` refuses nothing. For the keys,
each step of a session is shown to be a step of its dispatcher or none of it
(`DispatcherSteps`), which carries the dispatcher's invariants over; `TableInv`
adds that the machine's table is the dispatcher's, and `QueueRests` does the
rest. For playbacks the invariant has a witness: the machine and the pointer
after each event (`w` and `q` in `Replays`). `Follows` says how an event makes
them from those before, and `Framed` how a frame leads from the last event of
an ordinal to the next point. `RecReplays` says that the recording under way
can be played so; a press, a sample and a frame each add to it (`EventReplays`,
`FrameReplays`), and saving hands it over (`SavedOnce`). `Playing` says where in
it the playback is. What the proof turns on is `RunKeeps`: a run of so many
steps ends as it was when it first had its last count, so one that is stopped
at that count ends the same way. That is the replay's use of the instruction
count as a coordinate, and with interrupts, which count nothing, it is false.
That the recursive functions `Ran` and `RanTo` choose exist is by well-founded
induction with a property that is a set (`Inductive`).

*Interrupts.* `Plays(c)` is about a card: it is typed, the command it is fed has
the arguments it should, and the blocks it remembers go round the ring, with
the channel standing where the last one ends; one lemma for each operation of
the card. `Runs(m)` is about a machine: its card plays, only the innermost
handler can owe an end of interrupt, and the service register is that line or
empty. It gives `InServiceOwed` and, the blocks being two neighbours on the
ring, `PlayedInOrder`. `ResumedAlike` needs a relation that is kept by steps
taken by both machines. `Alike` itself is not: a restored card has another
due time and remembers no blocks. `Twins(m, n)` says the machines are equal but
for these, that `due` is the same wherever it can still matter (a block
overdue, or further over than any block reaches back, is the same to every
later comparison), and that the wall clock anchors them alike. That a block
reaches back only so far uses that `Length` is finite: `LongestLength` gets the
bound by well-founded induction on numbers, with a property that is a formula.

*DOS services.* The table of blocks is not known to be disjoint from what the
program holds being so: `TableInv` orders the entries (each ends before the
next begins, below the limit), `HeldInv` says that the program holds just
these. A gap is then what lies between the end of one entry and the start of
the next (`Cursor`: the largest end below a segment), the search finds one that
fits if there is one, and every free paragraph lies in one, so that a refusal
is true and nothing is lost. `AnswerInv` keeps the last refusal beside the
table it was made from. A program that does shrink a block to nothing is
excluded, since the code hands the block out twice then (section 6). Of files,
`HandlesInv` gives each handle a buffer of its own, and fewer handles than
there have been at once; the lowest of `n + 1` candidates that is not among
the `n` handles exists by counting. `SavedInv` describes the overlay: a buffer in it
belongs to the writable handle of that path or, once closed, is what was
saved. It needs that two paths are not saved under one name and that a program
does not create what it is creating; otherwise `ReopenedAsSaved` is false. Of
the keyboard, `ConsoleInv` says that the BIOS's shift and caps lock are those of
the keys, so that a word is shifted as it was typed; what was read, the one
half-read key and the buffer are then the words typed, in order, a word a second
time only behind itself and only if the handler of its press went on to the
BIOS's. It needs that Letter and Extended are apart. Of the mouse, `MouseInv` says that both drivers
hold the same whole numbers; each of the eleven functions answers from these,
and of the pointer that is read only the clamp is said, since what is stored
may lie outside the box.

*Plans.* The first part is about the planner. `Bindings` takes the first of the
candidates by `Rank`: that there is one rests on the least number of a set
(`LeastOf`, by well-foundedness). What is taken is not `Rejected` on the
program's carrier (`BoundIsAdmissible`, `SelectedCanBeTaken`), a region that was
not refused has all of its targets and an adapter (`RegionIsWhole`), and two
roots with two carriers would have been refused, so that the carrier is that of
any provider at a root (`OneCarrier`). The closure of the services is computed
in as many rounds as there are services; that it is closed then
(`ServicesClosed`) is a counting argument: each round that is not the last adds
one of finitely many. The second part is `PlanInv`: `BoundInv` (a runtime is
bound only with a granted plan, and is barred exactly if its policy has no
fallback), `InstalledInv` (whatever was installed, entered, or still waits is
the plan's, so that a binding that failed and was made again leaves no handler
of another) and `RanInv`. The last needs the step from "every activation was
made" to "what is dispatched is what was planned" (`DispatchedAsPlanned`), with
a case for each of: installed, generated on the carrier, the frontier of a
barred interpreter, the interpreter.

*Features.* Recorded run and replay are not compared with one another but each
with the recording, since either may have raised where the other did not.
`Heading`: what a machine has, with what still waits applied to it, is what
the requests so far ask for. An apply that raises keeps this, because it keeps
the queue, and the change with the largest number wins whether or not those
before it were applied once already (`BoundaryLeads`). `Obeys`: after the last
boundary at which a feature may change, if it did not raise, the machine has of
it what was asked for before that boundary. `SettledLast` finds that boundary,
which is the same in both runs.

*Hooks.* `HonestInv` is about the host's stack and the transaction together.
`GuardInv`: outside a verified call there are only frames that were entered
past the guard; within one, or within a call that was not asked for, there is
exactly one frame that set the guard, with frames entered from it above and
plain ones below. So a frame that ends clears the guard only if it set it, and
a verdict finds no frame of the verified hook left. `TxInv`: the transaction's
start is the machine of the call (`entry`), which gives `ReproBefore`.
`HookTableInv`: while the handler runs only passthrough hooks differ from the
installed table, and their old entries are what the transaction saved; each way
out of the handler puts these back. `ToldInv` counts: an exception adds to
the tallies what the frames it leaves report in a `finally`, none of which is
`verified` (`UnwoundTold`, by the cardinality of an empty set). `OracleInv`
puts the oracle on the original program's way (`OnTheWay`): after n steps it is
the n-th machine of `Original`, and none of those before it, the start
excepted, stood where the handler ended. When it arrives and the comparison
finds nothing (`SameMachine`), that machine is the witness `VerifiedReached`
asks for. That
the recursive function `Original` chooses exists is shown as for `Ran`
(`OriginalRuns`). The oracle must have no hooks (`PlainOracle`); with strict
stops, or kept hooks, the theorem promises the other three parts only, as the
property does.

*Arithmetic.* `X86Arithmetic` states what its closed forms compute, at any size;
the run samples words of four bits, the theorems are about the sizes the
interpreters have, for which the powers of two are numbers the provers compute
(`Powers`). `Adds` and `Subtracts` say of a result and its flags what the true
sum or difference did (`SumRight`, `DifferenceRight`); the jumps and INC, DEC and
NEG follow. A product's high half is what `Halves` makes of a quotient that may
be negative, and a signed division is one of magnitudes whose signs are put
back (`CutOff`); both rest on `Quotient`, that a quotient and a remainder make up
the dividend. Decimals are digits (`Digits`), with a carry for each.

Assumptions are those of the modules, and each run of the module evaluates
them: `LockConstants`, `MachineConstants` and `ProgramConstants` give bounds
and the program's inputs their types (the dispatcher needs none);
`StoreConstants` also says that the value for a missing manifest is no
manifest; `VerifyConstants` that a timeline has an end and spans are not zero.
`PlanAssumption` says that what the planner is asked went through the
constructors of its descriptors, that the interpreted program says it needs the
interpreter, and that catalogues are finite; `FeatureAssumption` that a
behavioral feature has a replay channel; `HooksAssumption` that a configuration
is of one of the three verifiers and its table has an entry for each address.
What the proofs of
`DosMemory`, `DosFiles`, `DosConsole`, `MouseDriver` and `ViewerSession` need is a hypothesis
of the theorem (`MemoryConstants`, `FilesConstants`, `ConsoleConstants`,
`MouseConstants`, `SessionConstants`), which `components` satisfies, since only
some of what these modules promise needs it. No theorem assumes fairness.

Model-checked only, and why:

* Liveness under fairness (`MutationEnds`, `StaleLockReclaimed`, `CallReturns`,
  `VerificationEnds`, `TableSettles`, `EventuallyServed`): out of the prover's
  reach, as is `ENABLED`.
* `RecoveredClean` of live processes after a death: false then, as bodies
  overlap; `store_overlap` has no deaths.
* `PMInterrupts!TypeOK` of the twin while `kicked`: its card has gone its own
  way, and nothing is claimed of it. Nor does anything bound `budget` from
  `TimedBudget`; no run checks it.
* `LiftedAlike`, `FramesAlike`: each compares a program run in one way with the
  same program run in another, to its end, by a fold over it, where the two do
  not meet on the way. The proof would be by induction over that fold, which is data.
* `SnapshotsKept`, `MemoryAlike`, `InstructionsAgree` but for most of its
  arithmetic, and the ports of `DevicesExact`: they compare tables and ladders
  on samples. A proof would only enumerate these again; and what is recursive
  in them (block transfers, the gate's fixpoints) would again need induction
  over data.
* `ShiftsExact`, of words of four bits: the loop over the bits is recursive in
  the count, and a power of two with a variable exponent is a term about which
  the provers know nothing but its type. For the same reason `ProductsHold`
  leaves out 32 bits: they compute powers up to 2^32, not 2^64.
* `ServicesKept` as such: its four parts are proved of their modules, but
  `MCComponents` reaches a RECURSIVE operator (`Promotion`), so that no theorem
  can name it.
* The plan made of a palette's journal (`DevicesExact`): it filters sequences
  (`SelectSeq`), which the installed provers do not unfold.

## 6. What the code does otherwise

The five violation runs, each against a sentence of the code or its documents:

* `lock_race`: two reclaimers of one dead lock; the second unlinks the first
  one's new lock (`replay.py:1709`).
* `store_stale_open`: `open()` reads before it locks and writes back what it
  read (`replay.py:988`). In `ReplayVerify` the same takes a validation record
  away between its writing and that of the annotation that rests on it.
* `viewer_irq`: entering an interrupt counts no instruction, so the coordinate
  of a frame does not tell the states around it apart (`player.py:567`).
* `pm_resume`: a card that has played and has nothing pending is kick-started
  as it is restored (`sblaster.py:447`).
* `lift_time`: a block's instructions are counted at its end, so a read of the
  time in the middle of it sees the count it began with (`lift/emit.py:1001`).

Met while modelling, without a run of their own. The modules follow the code;
where a property excludes a case because of it, its comment says so.

Replay and viewers:

* A writer that dies between creating the lock and writing into it leaves a
  lock that is unreadable and refused for ever (`replay.py:1667`). The
  creation and the write are two steps of `ArtifactLock`, and
  `StaleLockReclaimed` speaks of readable locks.
* A feature's change that raises while it is applied leaves the whole queue,
  and those before it applied (`features.py:108`). Failures are not recorded:
  until the next boundary that is safe for them, the replay may be ahead, also
  in what is authoritative, where a change behind one that only affects
  presentation was not reached. `FeaturesReplayed` has them alike from then on.
* `bisect_divergence` finds a transition from agreement to divergence, not
  necessarily the first (`replay.py:2203`, `docs/hooks_and_verification.md:100`).
* Cached candidate states are trusted after a validation that compared two
  end points (`replay.py:1229`).
* A press while the release is pending cancels it, so that two quick taps
  reach the game as one (`keyboard.py:48`).
* While recording, a pointer move that F11 follows in the same batch of
  events reaches neither the game nor the recording (`player.py:1309`).
* A second recording in one second cannot be finished and is lost
  (`player.py:89`); in protected mode, with `--record-replay NAME`, any second
  one is, since it uses the first one's directory.
* The protected-mode viewer does not record: what the console receives as
  characters, keys that arrive in a stalled frame together with buffered ones
  (the game gets them in another order), and where in a frame F11 was pressed;
  keys buffered when a recording stops are delivered in the next. `PMViewer`
  marks such recordings as not `exact`.
* `PMFunctionObserver` (read, not modelled): a function that was left since the
  last probe stays on the shadow stack while its caller pushes the arguments of
  the next call, which is then recorded as a transfer from the one that was
  left (`replay.py:536` calls transfers directly observed); a jump to a
  function's own entry with a balanced stack counts as another call, since the
  return address is still on top; `detach` clears `self._stack`, which does not
  exist (`pm_replay_evidence.py:336`).

Machines:

* A program whose INT 9 handler goes on to the BIOS's, which `interrupts.py:77`
  calls the common pattern, has each keystroke queued twice and caps lock switched
  twice: it is noted before the handler runs and again by the BIOS's handler
  (`interrupts.py:98`, `dos.py:1765`). In `DosConsole` the program's handler goes
  on, or does not, anew for each key (`chains`); `KeysReadAsTyped` lets the word
  of such a press be read twice on end, and no other, and takes a caps lock that
  was noted twice for one that was not switched.
* A step of the 80386 that raises is counted by the divider of the poll
  (`cpu386.py:500`), and one nested in another ticks it twice.
* Reading a DMA address uses a field the channel does not have
  (`sblaster.py:182`).
* A file created without a save directory cannot be restored from a snapshot
  on disk (`snapshot_headless.py:231`), and handles that share a buffer through
  the overlay no longer share it. A clone leaves out the VGA's latches, the
  timer's channel 0, keyboard, mouse, port policy, interrupt controller and
  sound card. The port log keeps its first 4096 entries, not its last. A clone
  of a protected-mode machine opens for writing again what was being written,
  and truncates it (`pm_snapshot.py:145`).
* INT 10h sets `display_start` to zero and not the registers it was set from.
  A DOS block of zero paragraphs can be handed out twice; a seek to a negative
  offset is taken.
* The block copy for authored code is called "behavior-equivalent as long as
  the 16-bit source/destination offsets and 20-bit physical addresses do not
  wrap" (`asm.py:167`). It moves a slice: where the destination lies within the
  source's range the loop of REP MOVSB would repeat what it has just written;
  and it writes into the ROM, which the loop cannot (`asm.py:182`).
  `HelpersCopyAlike` leaves these two cases out, and a range that ends behind
  the last address, whose slice goes on into the bytes kept for the planes.
* "CPU stores there must be silently discarded", it is said of the ROM
  (`memory.py:38`); a word stored at EFFFFh writes its second byte into it
  (`memory.py:449`). One at FFFFFh is dropped with its second byte, which
  belongs to address 0; one just below the EGA's aperture puts its second
  byte into the memory behind the planes; and one at offset FFFFh goes on into
  the next segment. `RomKept` and `WordsAlike` name these edges.
* The 80386's bulk moves of words within the aperture go byte by byte, which in
  write mode 1, and where the ranges overlap by less than an element, is not
  what the loop of single moves does; a copy onto itself leaves other latches
  than the loop; a slice behind the end of memory makes it longer, where the
  loop raises (`cpu386.py:1343`, `dos4gw.py:114`).

* A palette write that the program timed by code has no line, and is to be
  "honestly unresolved" (`palette_effects.py:42`). The plan says so only of one
  that follows another write: one straight after a wait or a count gets the
  line that was reached there (`palette_effects.py:113`), and one that goes on
  with the next index is joined to the burst before, however long ago that was
  (`dos.py:908`). Waits with no write between them are one run of reads
  (`dos.py:697`); from the fourth on, or together with a count, it is a count
  to the classification (`palette_effects.py:86`), and the frames cannot be
  told apart. `PaletteEvidence` does all of this. Its histories say where the
  beam was, and `PlanShowsBeam` speaks of frames that the journal delimits
  (`Clear`) and whose late writes look late (`Told`).

Lifter:

* `int 21h; ret 4` is promoted with a `ret_pop` of zero; the depth after ENTER
  and LEAVE is wrong in frames made above something pushed; every contract takes
  SP and SS as inputs.
* `mov si, ds` is declared to use DX; LES, LDS and the segment override of string
  operations are not declared; effects of FF /2, /3, /6 and 8F leave out the
  stack; AF behind logic operations is declared written and left alone.
* Of several segment prefixes the interpreter and the emitter take the last,
  the effects the first; of two different REP prefixes the interpreter takes the last,
  the emitter the first. The decoder takes LOCK for a prefix, the interpreter
  refuses it; 66h the other way round. Opcode 82h is emitted, but the effects do
  not list it. Behind 66h, RET and near jumps are emitted as 32-bit ones.
* `HookVerifier` runs the hooks nested in a verified one unverified
  (`verification.py:275`), though a verifier that "always verifies nested"
  hooks is documented (`verification.py:192`).

## 7. Plan

Done: the modules above, and the proofs of all safety properties of
`lock_keys`, `store_crash`, `store_overlap`, `verify_one`, `verify_two` and `pm`
(each for all values of the constants, where the property holds for all).

Of `components`, the store, the viewer, plans, features, the verification of
hooks and the four DOS services are proved. Not done: the parts of `PMViewer`,
`FrameVerify` and `PMHost` that do not fold over sequences.

## 8. Not modelled

* Host output (sound synthesis, windows, menus), crash reports and command
  lines: no state the rest depends on.
* Loaders, decompression and readers of other programs' formats: one pass over
  one input.
* The text the lifter emits; its censuses, intermediate representations and
  reports. What the text does is modelled.
* State mirrors: offsets. The atlas: merging of records, pure data.
* Identification of runtime-code variants, copying of a release, the import
  guard.
* Inside the modelled parts: the delta encoding of boundary files, function
  visits, wall-clock pacing, the ring between the sound threads, the 512 entries
  after which the palette journal forgets its oldest, snapshot profiles, digests,
  and the options that only change presentation; directory searches and EXEC;
  values of whole programs. Drivers and games are taken as deterministic, which
  is what `replay.py` takes them to be.
