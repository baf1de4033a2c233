# bmboot: models and proofs

bmboot lets Linux on one core of a Zynq UltraScale+ (the *manager*) run
bare-metal programs (*payloads*) on the other cores (*executor domains*). On
each executor core a *monitor* stays resident at exception level 3; it validates
a payload, enters it at EL1, serves its system calls (SMC) and takes the core
back when the manager sends an inter-processor interrupt. The two sides share one
block of memory per domain, the `IpcBlock`, and no lock.

Paths below are relative to the repository.

## 1. Inventory

| Component | State | Operations | Interacts through |
|---|---|---|---|
| Domain control, `src/manager/domain.cpp` | `domain_general_state` (a cache, per process), arguments of the call in progress | `open`, `startup`, `terminatePayload`, `ensureReadyToLoadPayload`, `loadAndStartPayload`, `loadElfPayload`, `startDummyPayload`, `getState`, `getchar`, `dumpCore` | IPC block, payload memory, reset and IPI registers |
| IPC block, `src/bmboot_internal.hpp` | command, `cmd_seq`, request; state, `cmd_ack`, `cmd_resp`; fault data; stdout ring | none of its own | read and written by both sides |
| Monitor, `src/executor/monitor/monitor.cpp` | program counter | start-up, command loop, `validatePayload`, `enterEL1Payload` | IPC block, payload memory |
| SMC handlers, `smc_handlers.cpp` | IPC block | started / crashed notifications, `writeToStdout`, three GIC calls | called by the payload |
| EL3 vectors, `vectors_el3.cpp` | none | FIQ = kill; everything else = crash of the monitor | IPI registers, GIC |
| Interrupt controller, `interrupt_controller.cpp` | `interrupt_routed_to_el1`, GIC registers shared by the cores | configure, enable, disable, teardown, set-up | SMC handlers, FIQ |
| Core reset and IPI, `zynqmp_manager.cpp` | registers shared by all cores | `isCoreInReset`, `bootCore`, `sendIpiMessage` | domain control |
| Payload runtime, EL1 vectors | user handlers, timer period and handler, FPU context stack | SMC wrappers, periodic timer, `usleep`, IRQ dispatch | SMC, timer registers |
| Console, `domain_helpers.cpp` | one thread and one interruption flag per domain, line buffer | `startConsoleThread`, `runConsole`, `runConsoleUntilInterrupted` | `getchar`, SIGINT |
| Tools, `bmctl.cpp`, `console.cpp` | none beyond the process | boot, run, start, status, terminate, core | domain control, console; each other through memory and registers |
| Core dump, `coredump_linux.cpp` | static segments in `dumpCore` | `writeCoreDump` | IPC block, payload memory, file |
| ELF loader, CRC | none | pure functions | domain control |

What is hard here: two cores that read and write the same words without a lock;
a manager that gives up after a time-out while the monitor goes on; a manager
process that ends at any point and a new one that knows only what the memory and
the registers hold; a kill that can hit the monitor anywhere; counters that wrap;
a ring buffer with three parties. `PROJECT.json` lists each such place under
`hazards`.

What makes each component correct:

* command protocol: at most one command outstanding, answers belong to the
  command they are taken for, `monitor_ready` means what clients think it means;
* start: what executes is what was validated, and success or failure reported
  for a call is about the image of that call;
* kill: it works on every payload, and nothing it killed comes back;
* stdout: a queue, in order, nothing twice, nothing blocked;
* interrupts: a killed payload leaves nothing behind that disturbs the monitor or
  the next payload, and the kill can always be delivered;
* floating point: interrupts do not change anybody's registers, and the array of
  saved contexts is large enough;
* several processes and cores: a core starts from its own monitor however many
  processes boot it, foreign cores are left alone, a kill hits its own core;
* crash reports: what is shown or dumped is of this crash and of this domain, and
  the dump has its parts where its headers say;
* console: it ends when told to and only then, and prints all it has read;
* periodic timer and sleep: no drift, no lost tick, no sleep short by a tick.

## 2. Modules

| Module | Role |
|---|---|
| `Domain` | one domain: manager process, IPC block, core with monitor and payload, kill interrupt |
| `DomainLife` | what a client sees of it: the life cycle behind `DomainState` |
| `DomainProofs` | inductive invariant and theorems about `Domain` |
| `StdoutRing` | the ring buffer with `writeToStdout`, `getchar` and the flush |
| `StdoutFifo` | what the ring promises: a bounded queue |
| `Console` | composes the ring with the console thread, SIGINT and the application |
| `Interrupts` | GIC, interrupt configuration, nested handlers and the kill, on one core, with a second core at the shared registers |
| `FpuContext` | lazy saving of floating-point registers under nested interrupts |
| `Tools` | processes of `bmctl` and `console` on several cores, without a lock |
| `CrashDump` | crash reports over weakly ordered memory, and the core dump |
| `Timer` | the periodic interrupt of the payload runtime, `sleep`, `usleep` |
| `StdoutRingProofs`, `ConsoleProofs`, `InterruptsProofs`, `FpuContextProofs`, `ToolsProofs`, `CrashDumpProofs`, `TimerProofs` | inductive invariants and theorems about the module each is named after |
| `MCDomain`, `MCConsole`, `MCInterrupts`, `MCFpu`, `MCTools`, `MCCrashDump`, `MCTimer` | instances for TLC |

### Domain

The variables are grouped as in the code: `cmd`, `cmdSeq`, `req`
(`manager_to_executor`), `state`, `cmdAck`, `cmdResp` (`executor_to_manager`),
the reset bit, the pending and enable bits of the IPI, the cookie and the payload
memory; the core's program counter `mpc`, the result of the validation and what
EL1 executes; the manager's program counter `pc`, its `domain_general_state`, the
arguments, poll count and result of the call in progress. Three history variables
serve the properties: `confirmed`, `raced`, `killing`.

A call of the manager is a sequence of actions, one per access to a word that the
other side may write. `startPayloadAt`, for instance, is `StartCheckState`,
`StartCheckAck`, `StartWriteCommand`, `StartBumpSeq`, then a loop of
`StartPollAck` and `StartPollState`; `startup` is `StartupWriteCode`,
`StartupClearIpc`, `bootCore`, `StartupSetGeneralState` and the polls of
`awaitMonitorStartup`. The four arguments and the command word are written in one
action: the monitor looks at them only after the sequence number changes.
`Die` and `Open` end and restart the process between any two actions (`bmctl`
is a process per call). The monitor's loop is cut in the same way, at the read of
the sequence number (`MonitorPoll`), that of the command (`MonitorDispatch`) and at
each of its stores, so that a kill that clears the command may come after the
monitor has read it. `FIQInterrupt` can strike wherever FIQ is unmasked. The payload is an
arbitrary program: it may confirm, report a crash and go on, crash and loop, make
the monitor crash with an SMC it does not know, or do nothing.

The data is abstract: an image is a name with the checksum, magic and ABI version
that `validatePayload` reads; `entry` is in the payload memory, the debugger's
`0xbaadf00d`, or outside memory; a size is zero (ELF) or not.

Assumptions, each visible in the module: stores of one side become visible in
program order (the code has a barrier where two words of the protocol matter;
`CrashDump` does without this assumption);
an IPI may arrive arbitrarily late; failures of files, `/dev/mem` and `mmap` are
one result `io_error`, possible where the code can return them; mapping the reset
register in `open` and the IPI registers in `terminatePayload` succeeds; the
`default` branch for an unknown response (`unknown_error`) and that for an unknown
domain index are unreachable; the monitor binary fits its memory; the payload does
not touch the IPC block or the interrupt id of the kill IPI.

`DomainLife` is the abstract specification: two variables, the state and whether
a restart of the monitor is due. `FollowsLifeCycle` maps `restart` to "the kill
is pending, or the core is between reset and `monitor_ready`". It says
for instance that `monitor_ready` never follows `running_payload` without a kill,
and that a crashed monitor stays crashed.

### StdoutRing and StdoutFifo

`writeToStdout` is `WriteCall`, then per byte `WriteTest`, `WriteStore`,
`WritePublish`; it runs at EL3 with interrupts masked, so a kill never cuts it.
`getchar` is `GetcharTest`, `GetcharByte`, `GetcharFetch`, `GetcharAdvance`: the
increment of `stdout_rdpos` is a read and a write. The flush of `startPayloadAt`
is `FlushRead`, `FlushWrite`. It may overlap a `getchar`: nothing keeps a console
thread out of it while another thread starts a payload, and both write
`stdout_rdpos`. What comes of that, the flush undone or the reader past the writer, is
in the model. The history variables `overlap` and `torn` say that it is happening
and that it has happened, up to a flush that has no `getchar` and no write beside it;
`fresh` counts the bytes published and not read since the flush looked. The
refinement maps the queue of `StdoutFifo` to the bytes between the two positions and
is about every stretch of an execution in which the ring is not torn; `OwnOutputOnly`
says that exactly the bytes counted by `fresh` can be read then. The message printed
when a position is out of range is left out: `TypeOK`, which holds torn or not, shows
that the case does not arise.

### Console

`Console` EXTENDS `StdoutRing`, whose actions it uses as they are, and adds the
thread (`LoopTest`; `CallGetchar`, whose last step is also `Consume`), its creation, `runConsoleUntilInterrupted`
up to and after the join, and the handler of SIGINT, which may strike between any
two of these steps and again after the call. `console_interrupted` and
`console_threads` are the variables `flag` and `thread`: a thread that has ended
is still joinable. The main thread starts payloads whether a console thread runs or
not (`StartPayload`), though not within its own call of
`runConsoleUntilInterrupted`. Lines are built and printed as in `runConsole`; what is
printed is only counted. Time stamps are left out. Payloads write text without
NUL characters (`TextAssumption`).

### Interrupts

The distributor is five functions of the interrupt id (group, priority, enabled,
pending, active), the CPU interface the set `apr` of priorities being served.
`Signalled` is the GICv2 rule for what reaches the core and is marked external.
`teardownEl1Interrupts` and the three GIC calls are one action each, as they run with
interrupts masked. `setupInterrupts` is two: `enableCpuInterrupts` unmasks IRQ and FIQ
before the kill is configured, and an interrupt that is signalled from there on, in
the monitor's program, is the kill (`FIQInterrupt`) or the end of the monitor
(`FIQUnexpected`, `MonitorIRQ`). `IRQInterrupt` ends where the
user handler starts with IRQs unmasked, `IRQReturn` is the rest. `handler` may
hold an empty function. Payloads follow one documented rule,
`setupInterruptHandling` before `enableInterruptHandling`; which ids they use is
the constant `PayloadIds`.

The groups the interrupts are in when the monitor boots are arbitrary: the firmware
of the platform sets them, and the monitor only that of the kill. A group register
holds 32 interrupts of all cores. `OtherCoreReads` and
`OtherCoreWrites` are `setGroup` on another core, which writes back the bits of
this core as they were; registers of ids below 32 are private to a core. So an
interrupt may find itself in group 0 and arrive as an FIQ, which crashes the
monitor (`FIQUnexpected`), and the kill in group 1, if the other core's copy is from
before the set-up (history variable `overtaken`, section 6). Left out: the target field and trigger types,
software-generated interrupts (which the system call ignores), and requests whose
priority the system call ignores.

### FpuContext

CPACR_EL1.FPEN, `FPUStatus`, `FPUContextBase` (as an index), the array with the
memory just below it, and the registers as one value. Handlers nest by priority.
A crash calls `saveFpuState`, which may trap itself. A kill and the start of the
next payload is `InitEL1`. The history variable `live` holds what main and each
handler wrote last. The EL3 build of the same vectors is not modelled: its
handlers never nest and FIQ never returns.

### Tools

Any number of processes, each with a command line (a tool and a core), run
`IDomain::open`, look at the state, and go through `startup`, a payload start, the
console and `terminatePayload` as their tool does. `open` is two reads (reset
register, cookie), `bootCore` a read, the reset vector and a write of the register
that all cores share; a process may be killed anywhere (`Die`). Where `Domain` has
an action per word of the protocol, `Tools` has one per command, and the plans
have at most one process per core that sends commands. Cores start in reset (with
or without the cookie of an earlier boot), running something else, or running a
monitor or payload of an earlier process.

### CrashDump

Each domain has a set of stores that are not visible yet, which drain in any order:
`reportCrash` has its barrier after the last store and so orders none of them.
Registers, fault data and memory carry the number of the execution they come from.
The manager looks at the state and then reads the report, or goes through
`writeCoreDump` write by write, where sizes and offsets are those of the ELF
structures. Any write may fail, and the executor may be killed and restarted
meanwhile by another process. The monitor may crash at any point, in its loop, under
a payload or when one is halted; such a crash gets a number of its own. `segs` is the static array of `dumpCore`.

### Timer

Time passes in half ticks, so that a call may fall early or late in a tick. The
timer's interrupt comes between any two steps of the main program, which sets up,
starts and stops the timer or sleeps; its handler may stop or start the timer. A
timer that is started without a set-up ends the payload (`UnhandledIrq`): the vector
finds no handler. A payload may be killed anywhere (`Restart`): the teardown disables
the interrupt, the next image has fresh data, and the timer itself runs on.
Products wrap at `Word`. `started`, `grid` and `careless` are history: the timer
is running for the payload, was left alone since its start, had its handler
replaced while it ran.

## 3. Runs

| Run | Shows |
|---|---|
| `domain` | `TypeOK`, `OneOutstanding`, `ReadyMeansIdle`, `PayloadIntact`, `KillHolds`, `StartOkMeansConfirmed`, `VerdictIsMine`, `FollowsLifeCycle` (refinement); about a million states |
| `domain_live` | `KillTakesEffect`, `CommandAnswered`, `CallsReturn` under fairness |
| `stdout` | `TypeOK`, `OwnOutputOnly`, `NothingSwallowed`, `ImplementsFifo` (refinement), `ConsoleDrains`, `ConsoleStops`, `ReturnsOnlyInterrupted` |
| `interrupts` | `TypeOK`, `NoIRQAtEL3`, `NoStaleActive`, `NestingBounded`, `KillDeliverable`, `UrgentServed` under fairness |
| `fpu` | `TypeOK`, `FpPreserved`, `SavesBelowEnd` |
| `tools` | `TypeOK`, `BootedIsPrepared`, `OpenSeesMonitor`, `RunLeavesIdle`, `ForeignUntouched`, `KillsOwnCore`; about two million states |
| `crashdump` | `ShownIsOfCrash`, `HeadersMatchFile`, `ReportArrives` |
| `timer` | `NoDrift`, `ReplacedWhenStopped`, `SleepsFromTheTick`, `CatchesUp` |
| `core_back_in_reset`, `dump_of_domain`, `shared_group`, `fpu_saves_in_array` | counterexamples to what a comment or the documentation says, section 6 |

Bounds. `SeqMod = 3` is the least modulus at which "one behind" and "one ahead"
differ, so that `OneOutstanding` says something, and every value wraps; the
liveness run uses 2. Two polls per loop let a call see no change, a change and a
time-out. The images are two good ones (so that one can be taken for the other)
and one of each bad kind; a request with another image's checksum and an ELF
request with a bad entry complete the outcomes. The theorems below hold without
any of these bounds.

`Size = 3` gives a ring that is empty, half full and full; a write of two bytes is
shorter than, as long as and longer than the free space, and positions wrap at
different times;
`MaxLine = 2` lets a line end by a newline, by its length and by the end of the
console. The interrupt instance has the timer (30), one shared peripheral (53) in
the group register of the kill (62), and two priorities: enough for nesting, for
equal priorities and for an interrupt left active below another. Three priorities
and three frames make the array of `FpuContext` fill up in more than one way.

`MCTools` has two cores and three processes: every tool on one core next to a
process that boots the same core and one that runs a payload on the other; and both
cores used by a tool while one of them is booted twice. Four executions per domain
let a report be the first, follow one, be followed by one, and by a crash of the
monitor. With five ticks for
three microseconds periods and sleeps are no whole number of ticks; words of 32
make the longer products wrap; fourteen half ticks hold several periods.

Deadlock is checked in every run but the two of `Tools`, whose processes end and
whose cores then may have nothing to do.

## 4. `raced`

`startPayloadAt` reads the state first and `cmd_ack` second. If a start command
of an earlier call (timed out, or of a process that died) is still unanswered,
the first check can see the old `monitor_ready`, and `loadAndStartPayload` then
overwrites the payload memory while the monitor picks up the old command. The
second check sees a difference only if the monitor has not answered in between.
A kill does not change this: `terminatePayload` clears the command before it sends the
interrupt, and may return on the same old `monitor_ready`, but the monitor may have
read the command and not stored the new state yet, and the interrupt may be late.
The model records that a call found `monitor_ready` with a start command
unanswered, or read by the monitor and cleared since, in `raced`; `PayloadIntact`, `StartOkMeansConfirmed` and `VerdictIsMine`
are about executions where this has not happened, and the other properties do
without the condition. Comparing `cmd_ack` with
`cmd_seq` before the state, and before the load, would make `raced` impossible.

## 5. Fairness

`WF(ManagerStep)`: Linux eventually runs the manager, whose waits are all sleeps
with a count. `WF(MonitorStep)`: the core executes instructions.
`WF(FIQInterrupt)`: a pending, enabled and unmasked interrupt is taken. Nothing is
assumed of clients, of deaths of the process, of crashes or of the payload.
`KillTakesEffect` and `CommandAnswered` exclude clients that send kills for ever,
each before the reboot caused by the last one is over. In `Console` the SMC
runs to its end, threads are scheduled, and a flush once begun ends; nothing is
assumed of the payload's calls nor of SIGINT. In `Interrupts` a signalled
interrupt is taken and handlers return, which is the payload's part; `UrgentServed`
needs all three conjuncts. In `CrashDump` stores become visible and exception
handlers and the boot code run to their end. In `Timer` time passes, the
interrupt is taken and its handler returns, and a sleeping program looks at the
clock; this last is strong fairness, as the interrupt may come any number of times
in between.

## 6. Disagreements between code and text

Shown by a run:

* `bootCore` writes back the reset register as it was read: two processes that
  boot two cores can put a running core back in reset, which the comment above it
  says must not happen (`core_back_in_reset`).
* The segments of a core dump are a static constant, initialised by the first dump
  of the process and used for every domain (`dump_of_domain`).
* Two cores change one group register without a lock; a peripheral interrupt that a
  payload has configured goes to EL3 instead of EL1 and crashes the monitor
  (`shared_group`).
* Floating-point registers are saved "to the array"; if the first access of a
  payload is made by an interrupt handler, the base moves below the array and the
  next save goes there (`fpu_saves_in_array`). `FpPreserved` still holds then,
  because nobody owned the registers that were lost.

Met while modelling. The first seven are behaviours the models have, or leave out by
an assumption named above:

* `payload_crashed_during_startup` is documented as "crashed before confirming";
  the code samples every 10 ms and also returns it for a payload that confirmed
  and crashed between two samples.
* `terminatePayload` says that no command should be pending; after
  `startDummyPayload` one always is. Overwriting it is necessary: without it (the
  mutant of `KillHolds`) the reboot revives it.
* `writeToStdout` is documented to return the bytes actually written; it counts
  the dropped ones.
* `startPayloadAt` is to "flush any residual content in the stdout buffer"
  (`domain.cpp:612`); a console thread inside `getchar` undoes that, and one that is
  past its test moves the read position past the write position, after which the
  whole ring, old bytes included, is read again.
* Interrupts targeting the monitor "always" preempt the payload
  (`bmbook/interrupts.tex:116`). The system call accepts the id of the kill
  interrupt, which the payload may then disable. And if the firmware leaves the kill
  in group 1, another core that read the group register before this monitor's set-up
  and writes it after puts it back there: the kill is then an IRQ, which the payload
  masks or takes for a crash of its own, up to the next set-up. `KillDeliverable`
  holds but for these two cases.
* "The philosophy is to never sleep shorter than requested" (`sleep.cpp:31`): a sleep
  that begins late in a tick of the counter is short by the part of the tick that had
  passed, and for arguments whose product with the frequency exceeds 64 bits the sleep
  is short without bound. `SleepsFromTheTick` says what does hold.
* A console whose thread was told to stop and that is then run again returns at
  once, without a SIGINT: `startConsoleThread` takes a thread that has ended for one
  that runs.
* Starting an interrupt without its set-up "will fail" by the documentation; the
  system call enables it in group 0, and it crashes the monitor when it comes.
* `startPeriodicInterrupt` on a running timer whose handler stops it leaves the
  timer running with its interrupt disabled.
* A line of exactly 160 characters is followed by an empty one, and a NUL
  ends the printed part of a line.
* `saveFpuState` stores FPSR and FPCR as 64-bit registers, where the structure that
  the core dump copies has 32-bit ones.
* `isCoreInReset` takes a register it cannot map for a running core, which its own
  comment calls wrong; a spurious interrupt (id 1023) crashes the payload or the
  monitor.

## 7. Proofs

Every invariant, action property and refinement that a passing run checks is also a
theorem, for every value of the constants that the `ASSUME`s allow. Type correctness
is proved for all eight models (`TypeCorrect`, `RingTypeCorrect`, `GicTypeCorrect`,
`FpuTypeCorrect`, `ToolsTypeCorrect`, `DumpTypeCorrect`, `TimerTypeCorrect`; that of
`Console` is the ring's, plus `ThreadInv`).

| Module | Theorem | Property | For all |
|---|---|---|---|
| `DomainProofs` | `AtMostOneCommand` | `OneOutstanding` | `SeqMod > 1`, numbers of polls, images with any headers, loads |
| | `ReadyIsIdle` | `ReadyMeansIdle` | |
| | `KillIsFinal` | `KillHolds` | |
| | `ExecutesValidatedImage` | `PayloadIntact` | |
| | `RejectionIsOwn` | `VerdictIsMine` | |
| | `SuccessIsConfirmed` | `StartOkMeansConfirmed` | |
| | `DomainImplementsLife` | `FollowsLifeCycle` | |
| `StdoutRingProofs` | `FlushSeparatesPayloads` | `OwnOutputOnly` | `Size > 1`, any writes |
| | `RingImplementsFifo` | `ImplementsFifo` | |
| `ConsoleProofs` | `ConsoleImplementsRing` | the `Spec` of `StdoutRing` | as above, and any line length |
| | `ConsoleReadsFifo` | `ImplementsFifo` | |
| | `ConsolePrintsAll` | `NothingSwallowed` | |
| | `ConsoleRunsUntilInterrupted` | `ReturnsOnlyInterrupted` | |
| `InterruptsProofs` | `MonitorUndisturbed` | `NoIRQAtEL3` | sets of ids, finite sets of priorities |
| | `NothingLeftActive` | `NoStaleActive` | |
| | `NestingIsBounded` | `NestingBounded` | |
| | `KillAlwaysDeliverable` | `KillDeliverable` | the same, with `Ipi \notin PayloadIds` |
| `FpuContextProofs` | `FpNeverLost` | `FpPreserved` | finite sets of priorities, one array entry for each |
| | `ArrayNeverOverrun` | `SavesBelowEnd` | |
| `ToolsProofs` | `BootIsPrepared` | `BootedIsPrepared` | sets of processes, plans, subsets of the three cores |
| | `OpenIsRight` | `OpenSeesMonitor` | |
| | `ForeignIsSafe` | `ForeignUntouched` | |
| | `KillsOnRequest` | `KillsOwnCore` | |
| | `RunEndsIdle` | `RunLeavesIdle` | |
| `CrashDumpProofs` | `SettledReportIsShown` | `ShownIsOfCrash` | sets of domains, memory sizes, numbers of executions |
| | `DumpLayout` | `HeadersMatchFile` | |
| `TimerProofs` | `TimerKeepsGrid` | `NoDrift` | frequencies, word sizes, periods of at least a tick, sleeps |
| | `ReplacementIsSafe` | `ReplacedWhenStopped` | |
| | `SleepReachesItsTick` | `SleepsFromTheTick` | |

Few of these properties are inductive. Each proof has an invariant in named
parts, one lemma per part with one step per action, and a temporal step that combines
them. Facts about the operators (positions and distances in the ring, rounding
division, what a store does to a word, the sizes of notes) are lemmas of their own.

### Domain

1. `GeneralStateInv`: the cached general state is right about the core. Needed
   because it alone keeps `startup` from clearing the IPC block of a running
   monitor.
2. `HandshakeInv`: the monitor is inside a command only while `cmd_seq` differs
   from `cmd_ack`, and the manager is between the second check and the increment
   only while they are equal. So each increment is by the side whose turn it is,
   which gives `OneOutstanding` for every modulus; and a state of `monitor_ready`
   goes with a monitor at rest, which gives `ReadyMeansIdle`.
3. `KillInv`: from the moment the IPI is sent, either the command word is `noop`
   or no command is outstanding. Every reboot therefore finds nothing to start.
4. `ImageInv` and `CallInv`, under `~raced` (which a step never makes true again,
   `RacedStays`): from the check to the increment the core has nothing to start;
   from then on the block, the memory and the answer are those of the call.
5. `LifeInv` relates the state in the IPC block to where the core stands; with it
   every step that changes what a client sees is one of `DomainLife` (`LifeStep`).

### StdoutRing and Console

`WriterInv` and `OverlapInv` hold always: past its test the writer has its byte, and
`overlap` is right about who is inside `getchar`. `PositionInv` holds while the ring is
not torn: the writer has room, the reader's byte stays where it is, the position that
an undisturbed flush has read lies between the two others, and `fresh` is the distance
from it, or from the reader, to the writer. A flush that is alone establishes
`PositionInv` anew, which is why no more than `torn` need be remembered. `Queue` gives the bytes between two positions
without recursion; `QueueAppend`, `QueueTail`, `QueueStore` and `QueueSuffix` say what
a publish, a read, a store beyond the end and a flush do to it, and each step of a ring
that is not torn is then one step of the queue or none. `Console` takes no step on the ring that
is not the ring's, so these results carry over. `ThreadInv` says that what was read
and not printed is the line of the thread;
`CallerInv` that a thread that has ended was told to.

### Interrupts

`ConfigInv`: what a payload has set up has a payload's priority, and only such
priorities are served. `RoutingInv`: all that is enabled is in
`interrupt_routed_to_el1`, so that the teardown finds it, or is the kill.
`NestingInv`: as many priorities are being served as there are handlers. `KillInv`:
the kill's configuration stays, its group as long as no copy of the register from
before the set-up is about with the kill in group 1 (`overtaken`); every later copy
shows it in group 0. That payloads keep off its id is a hypothesis of
`KillAlwaysDeliverable` only: the system call would let them (section 6). That
`Prios` is finite, which the hardware makes true, is part of `PrioAssumption`.

### FpuContext

The owner of the registers is not a variable of the code. `OwnerInv` recovers it:
the rank of a level counts the levels up to it that have had the unit; the base
is the rank of the current level less one, the registers are those of the last level
counted, and the value of any other is in the array below its rank. With `NestInv`
(priorities strictly rise, so there are at most as many handlers as priorities) this
gives both theorems. The rank is an existential in the invariant, with a witness
for each action, as no induction over the stack is available.

### Tools

`ControlInv`: what a process knows where it stands. `BootInv` has the two properties
and four parts: foreign cores are untouched (`ForeignInv`), a process that takes a core
for one in reset or one of bmboot's is right that nothing else runs there (`OwnInv`),
what it has written before it releases the core is there (`WrittenInv`; others can only
write the same), and every core that writing back a snapshot of the reset register
releases has been prepared or is foreign (`SnapInv`). `AskedInv`: an IPI is pending only where it was asked for. `RunInv`: from
the kill of `bmctl run` on, its core has no command to obey; this needs that no other
process sends commands to it, which `PlanAssumption` says of the plans. What happens to
commands that overlap is the subject of `Domain`.

### CrashDump

`ReportInv` speaks of a word as last stored, visible or not (`Val`), so that a store
that drains changes nothing: from the exception on the last stores are of this
crash. `SettledInv`: a settled report belongs to an executor that stands still with
nothing pending. `FileInv` gives the position in the file at each stage.

### Timer

`NoDrift` is inductive with the types. `ReplaceInv`: a timer that can fire has been
started. `SleepInv` keeps the end that `usleep` computed; the rest is rounding.

### Only model-checked

* Liveness, which is out of the prover's reach: `KillTakesEffect`, `CommandAnswered`,
  `CallsReturn`, `ConsoleDrains`, `ConsoleStops`, `UrgentServed`, `ReportArrives`,
  `CatchesUp`.
* The counterexamples of section 6, by their nature.

`Store` of `CrashDump` spells out the override of a function, which the prover can
expand where it cannot the operator of the TLC module.

## 8. Plan

The models are complete as far as section 9 allows, and their safety properties are
proved. What a later revision may add:

1. the same theorems with weaker assumptions: `RunEndsIdle` for plans in which several
   processes command a core, under the condition that they do not overlap;
2. under what condition the four statements of section 6 that runs refute do hold
   (a process that dumps one domain only, cores booted one after the other, a first
   floating-point access in the main program, no other core at the group register);
3. the safety part of the liveness arguments: that each step counts down what the
   waits count.

## 9. Not modelled

* The contents of the boot code (MMU, caches, stacks) and linker scripts: no state
  that a property is about. Cache maintenance is assumed to do its work.
* CRC-32 (vendored, table driven) and the ELF parser (a submodule that is not in the
  tree): `Domain` uses their outcome.
* Configuration file, command-line parsing, string and `mmap` helpers: text and
  system calls, whose failures are outcomes of the calls that use them.
* Formatting of messages, time stamps, the cycle counter, the getters of the payload
  runtime, `dumpDebugInfo`: they change nothing.
* Order of the byte and the write position of the stdout ring in memory: stores are
  in program order there.
* Demo payloads, benchmarks, tests: users of the interface.

## 10. Running

    tlc -workers 2 -config MCDomain.cfg MCDomain
    tlc -workers 2 -config MCDomainLive.cfg MCDomain
    tlc -workers 2 -config MCConsole.cfg MCConsole
    tlc -workers 2 -config MCInterrupts.cfg MCInterrupts
    tlc -workers 2 -config MCFpu.cfg MCFpu
    tlc -workers 2 -config MCTools.cfg MCTools
    tlc -workers 2 -config MCCrashDump.cfg MCCrashDump
    tlc -workers 2 -config MCTimer.cfg MCTimer
    for m in Domain StdoutRing Console Interrupts FpuContext Tools CrashDump Timer; do
        tlapm ${m}Proofs.tla
    done
