# A specification of mico32

TLA+ models of the mico32 instruction set simulator (`src/src/`, C++), the TLC
configurations that check them on small instances, and theorems about them
checked by TLAPS. The simulator runs LatticeMico32 code instruction by
instruction, for a test bench with a GDB stub (`cpumico32`) or for a
uClinux system with peripherals (`lnxmico32`).

The guest program is never fixed: a model contains every program that keeps
the few rules stated for it, and the properties are about what the simulator
does to all of them.

## 1. The system and its parts

| Component | State | Operations | What is hard | What makes it correct |
|---|---|---|---|---|
| Exceptions, interrupts, privilege (`lm32_cpu.cpp`, `lm32_cpu_inst.cpp`) | `int_flags`, IE, PSW with its E and B copies, IM, IP, EBA, DEBA, DC.RE, pc, ea, ba, `wakeup_time` | `execute_instruction()`, `process_exceptions()`, `interrupt()`, `internal_reset_cpu()`, eret, bret, wcsr | many flags pending at once, one dispatched per instruction; `EXTINT` computed at polls only; saves and restores field by field in several copies | user code is never privileged, contexts come back whole, interrupts are enabled when taken and are served |
| Caches (`lm32_cache.cpp`) | lines per way and set, `next_way_update`, `icc_`/`dcc_invalidate` | `lm32_cache_access`, `lm32_cache_invalidate`, reconfiguration | invalidation is deferred to the next read of either kind; a way's turn outlives it; masked region limits | a FIFO cache per set, empty from the moment the program asks |
| Timer (`lnxtimer.cpp`) | period, snapshot, status, control, `int_pending`, `start_time` | register writes, `lm32_timer_tick()` | polled late, wrapping arithmetic, an interrupt that is a pulse, a handler of two writes | deadlines do not creep, no interrupt is lost, every timeout is served |
| UARTs (`lnxuart.cpp`, `drivers/lm32_uart_driver.c`) | LSR, IER, IIR, `start_time`, the terminate matcher | `lm32_uart_tick()`, reads and writes | timing from polls, one receive register, stale IIR, overlapping false starts of the terminate string | characters last on the line, are read at most once, and none waits unread for ever; exactly the string terminates |
| Run loop (`lm32_run_program`) | `int_flags`, break reason, cycle count | run forever, one instruction, tick mode | several stop conditions at once, in order of a list | a step is answered; what a stop hides is all the guest sees of a debugger |
| GDB stub (`lm32_gdb.cpp`) | BPn, WPn, DC fields through the CPU; the connection, the packet collected so far | Z/z, m/M/X, g/G/p/P, c/s, D/k | shares registers and memory accesses with the guest; packets arrive byte by byte from a host that may go away | what the host is told is so; commands take effect once, in order; the session ends with its host |
| MMU translation (`lm32_tlb.cpp`) | ITLB, DTLB entries, TLBVADDR, TLBBADVADDR | lookup, update, flush, invalidate | pages that share an index; a miss flagged after the access, handled instructions later; entries that outlive their mapping | instructions take effect at most once, in the frames the page table names, and missed ones complete unless lost to another exception |
| Memory access (`lm32_read_mem`, `lm32_write_mem`) | internal memory, callbacks | read, write of each width | order of translation, cache, range check, watchpoint | reads return the last write; faults have no other effect |
| Instructions (`lm32_cpu_inst.cpp`) | registers, the scoreboard `rt[]` | one method per opcode, `calc_stall()` | overflow, shifts, division; every method looks up its operands itself | results are those of two's complement arithmetic; no instruction overtakes its operands |
| System save and restore (`lnxmico32.cpp`) | a file of memory pages and registers, the marks `mem_wr[]` | `save_system_state`, `load_system_state` | marks start from nothing in every process; order of restoring; physical versus virtual addresses | a restored system goes on as the saved one |
| ELF loader (`lm32_cpu_elf.cpp`) | memory | load | word assembly at odd sizes | the segments' bytes are in memory |
| Test bench (`cpumico32.cpp`) | options, an interrupt source | callbacks, dumps | none but its callback | see exceptions |
| Configuration (`lm32_get_config.cpp`), disassembler, C interface, Python front end | none that lasts | parsing, formatting, wrapping | none | not verified here |

How they interact. A run loop calls `execute_instruction()`, which first polls
the interrupt callback if its wakeup time has come. The callback of `lnxmico32`,
`ext_interrupt()`, ticks the timer and the UARTs, which see time only through
it, and returns the interrupt lines they pulse; the CPU latches them in IP.
Loads and stores reach a peripheral's registers through the memory callback, in
the middle of an instruction. The stub calls the run loop, and between two runs
the CPU's memory access, register and debug register methods. Everything is in
one thread (the keyboard and the socket are read by polling): the interleavings
are those of polls, instructions, host commands and coinciding exceptions,
never of two instructions. Hence the grain of the models: one action is one
whole `execute_instruction()`, one poll, or one host command, with all calls it
makes. The split of an instruction from its poll in the timer and UART modules
is sound because these run one after the other in the code.

`PROJECT.json` lists the components, what is hard about each at its line
(`hazards`) and, definition by definition, the lines modelled (`map`).

## 2. Modules

| Module | Models | Proofs | TLC instance |
|---|---|---|---|
| `LM32Exceptions` | exceptions, interrupts, privilege | `LM32Exceptions_proofs` | `MCExceptions` |
| `CacheFifo` | abstract: what a cache promises | | |
| `LM32Cache` | the caches, a refinement of `CacheFifo` | `LM32Cache_proofs` | `MCCache` |
| `DeadlineTimer` | abstract: deadlines on a line of real time | | |
| `LnxTimer` | the timer, its poll and its handler, a refinement of `DeadlineTimer` | `LnxTimer_proofs` | `MCTimer` |
| `LnxUart` | a UART, its poll, both kinds of driver | `LnxUart_proofs` | `MCUart` |
| `DebugSession` | the stub's commands composed with the run loop | `GdbStub_proofs` | `MCDebug` |
| `RemoteMemory` | abstract: what a debugging session promises its host | | |
| `GdbPackets` | the stub's connection byte by byte, a refinement of `RemoteMemory` | `GdbStub_proofs` | `MCPackets` |
| `VirtualMemory` | abstract: translation by page table | | |
| `LM32Tlb` | the two buffers, misses, faults and the kernel's handlers, a refinement of `VirtualMemory` | `LM32Tlb_proofs` | `MCTlb` |
| `LM32Words` | the arithmetic of words | | |
| `LM32Instructions` | every instruction's operands, result, timing and branch | `LM32Instructions_proofs` | `MCInstructions` |
| `SuspendableMachine` | abstract: a machine that is suspended and resumed | | |
| `SystemState` | processes that load and save the system, a refinement of `SuspendableMachine` | `SystemState_proofs` | `MCSystem` |

A definition that no other uses, such as `LookupUntagged` before `Lookup`, is a
plausible mistake in the one that follows it: `PROJECT.json` (`mutants`) names the
property that each of them breaks.

### LM32Exceptions

`cpu` holds the part of `lm32_state` concerned; the three copies of the mode bits
are the sets `now`, `exc` and `brk` of bits set. An instruction is built up as
the code runs: `PolledStates` (the callback), `Dispatched` (the most urgent
flag and `interrupt()`), `HwBreak` and `Fetch`, then one action for each kind
of instruction: `Plain`, `Jump`, `Load`, `Store`, `Scall`, `Break`, `Reserved`,
`DivideByZero`, `Refused` (eret, bret or wcsr in user mode), `Eret`, `Bret`,
`Wcsr`, `WriteEA`, `WriteBA`. From outside come `ResetPin`, `SetHwDebug` and
`Terminate`. Whether an access faults is a choice among the exceptions in
`Faults`; an instruction's cost, one of `Cycles`. `entered` and `forged` are
history variables: what was last dispatched, and which return registers hold a
value the kernel did not put there.

The rules for the guest (`Complete`, `KernelStays`, and the guards of `Eret`,
`Bret`, `WriteEA`, `WriteBA`, `CsrWritesAny`), without which no hardware could keep the
properties: the kernel gives user code its control only by a return from an exception; it returns
only through a register that an exception entry or itself loaded; it loads
a user address only once the saved bits say user mode; it launches user code
with interrupts and both TLBs on; vector tables lie in kernel memory.
`KernelTraps = FALSE` adds that the kernel's own code raises no exception.
User code has no rules.

### LM32Cache and CacheFifo

`m[c][w][s]` is the line in way w of set s. One read (`ReadUncached`, `ReadHit`,
`ReadMiss`) is the part of `lm32_read_mem()` that performs both deferred
invalidations and then looks up; `WriteCacheControl`, `Reset` and `SetConfiguration`
complete the operations. `CacheFifo` has one queue per set and clears it at
once. The refinement mapping reads the queue off the ways, the one whose turn it
is first, and shows a cache still to be invalidated as empty.

### LnxTimer and DeadlineTimer

`Tick` is `ext_interrupt()` with `lm32_timer_tick()`, which follows the code's
cases `Idle`, `CountDown`, `TimeoutOnce`, `TimeoutReload` in modular
arithmetic. The rest is what the guest's instructions do between polls, and its
handler, which clears IP first and the timer's TO second. `DeadlineTimer` knows
no poll, no wrapping and no registers: `left` is the distance to the deadline
and goes negative. The mapping is `left = snapshot - cycle` while running.
`TimerAssumption` restricts the periods to those that a polled int32_t countdown can
keep; nothing in the code checks this, which is listed as a hazard.

### LnxUart

`Tick(c)` is one poll with the key `c` waiting, if any: transmit timing, receive,
the terminate string, IIR. The guest is either the polling driver of
`drivers/lm32_uart_driver.c` (`SeeReady`, `OutByte`, `InByte`) or an interrupt handler
that trusts IIR (`TakeInterrupt`, `Serve`, `Acknowledge`). `heard`, `frame` and
`event` are history.

### DebugSession

One action is one command that the stub answers without an error (`SetHwBp`,
`ClearHwBp`, `SetHwWp`, `ClearHwWp`, `ReadMem`, `WriteMem`, `SetRegs`, `Resume`,
`Detach`), or one iteration of `lm32_run_program()` with, if a break condition
ends the run, what `lm32gdb_run_cpu()` does after it. `Status` is the list of break
conditions in the code's order, `Cleared` the flags the stub clears.
Exceptions lead to a handler anywhere in `Code`. `left` is history: the break- and
watchpoints that the last stop was not about, because the list names its reason before it
looks at them (`Hidden`), and those the host's own accesses have hit since. `breaks` and `watches` are the
host's ledger: how often an address was set and answered OK, less how often it
was cleared and answered OK.

It models the build of `cpumico32` (in an `LM32_FAST_COMPILE` build the loop has
no break conditions at all) and a guest that leaves the debug registers to the
host. External interrupts, resets and register values are left out.

### GdbPackets and RemoteMemory

`Read` is one `lm32gdb_read()` and what `lm32gdb_process_gdb()`, or inside a
memory write `lm32gdb_write_mem()` (`Datum`), does with the byte. A packet opens at
SOP (`StartPacket`), is collected (`Collect`) and cut at an end
character, a full buffer, or the delimiter of a memory write (`Ends`); then
`Process` is the dispatch of `lm32gdb_proc_gdb_cmd()`. The data of a write bypasses the buffer;
`job` holds what remains of it, and half a value. `ReadFails` is a `read()` that
returns an error, once the host has gone (`Lose`): inside a write it stores what
the byte variable happens to hold (`Junk`). A byte is two digits and a checksum
two bytes that nobody looks at, as in the code. The host is a GDB that
waits for an answer before it asks again (`Ask`, `Hear`).
`RemoteMemory` has no packets: commands are asked, applied and answered once, and
a session that closes under a write leaves at most the range asked for undefined.
The names are none of `DebugSession`'s (`Request`, `Returned`, `PacketInit`,
`PacketNext`, `PacketSpec`), because `GdbStub_proofs` is about both sides of the
stub and extends both modules.

### LM32Tlb and VirtualMemory

User code is at one instruction `insn` (`Begin`), tried again until it completes: `FetchMiss`,
`AccessMiss` and `Complete` are one `execute_instruction()` each, and latch the page in
TLBVADDR and TLBBADVADDR at a miss as `tlb_lookup()` does. They come with any `others`: a
debug exception of the same instruction, an interrupt of the next poll. `Interrupt`
takes the most urgent flag and only that one, as `process_exceptions()` and `interrupt()`
do. A miss that is passed over stays flagged and is entered from inside the handler of the
other exception; the step back is then taken from there, and the user instruction is lost.
`Reset` may come at any time; it clears tables and registers but no flag, so a miss that was
pending is entered from the reset's handler with page 0 in TLBBADVADDR. `ea` and `ba` say
whose code a return through these registers resumes. A load whose own result is its address
(`again`) writes 0 before it misses and goes elsewhere when it is tried again.

The kernel is any that keeps the rules of its section: it changes a mapping
(`SetMapping`) and owes the invalidation of what that outdates (`todo`), in the right
table, before it returns (`Return`); a handler refills the page TLBBADVADDR names
(`WriteTlbvaddr`, `WriteTlbpaddr`), or gives the instruction up; other work is done at a
user's system call, or after a reset. The first instruction of a handler, which a flag still
pending overtakes, leaves the MMU alone, and a handler raises nothing itself. An interrupt
that comes by itself while the kernel runs is part of its stay there. `tlb` itself
changes as `tlb_vaddr_update()` and `tlb_paddr_update()` change it, index by index.
`VirtualMemory` has a page table and no buffers. It promises that an instruction
takes effect at most once, where the table says; not that it takes effect at all when another
exception coincides (`Lose`, `disturbed`), nor where a load goes that overwrites its
address (`Stray`).

### LM32Words and LM32Instructions

A word is a number below `2^WordBits`, so wrapping, sign extension and C's truncating division
are what they are; where C++ leaves a result undefined (a shift by 32 or more,
INT_MIN / -1) the model takes any result hosts give, or stops (`Trap`). `Decode`
is `execute_instruction()` up to the call of the method, the actions after it
(`Compute`, `Jump`, `Register`, `Call`, `Read`, `Write`, `ReadCsr`, `WriteCsr`,
`Raise`, and `Reserved` and `DivideByZero`, which raise) the methods. `due` is the
scoreboard relative to the cycle count, `owed` the truth it should tell. A division writes its
result before it asks how long to wait for its operands, so its
actions read the registers after the write, as the code does.

### SystemState and SuspendableMachine

`Start` is `main()` up to the run: the images, the setup page, and if asked and
possible the save file, whose processor state comes first. `Compute`, `AccessDevice`,
`Store`, `SetTranslation` and `WriteCC` are instructions, with their poll when it is due; a
store marks its page. `Terminate` is the poll that ends the run by the request in
place of the wakeup time; `Save`, `SavePage` and `Close` are
`save_system_state()`, page by page; `Leave` and `Kill` end the process without it.
What the guest and the devices compute is a choice out of `Context`. Memory that nothing was loaded
to holds anything, as after `malloc()`. `defined` and `kept` are history: pages
that mean something, and what the file stood for before it was truncated. The
mapping reads the live machine off the process while it runs or saves, and the
snapshot off the file laid over the images.

## 3. Runs

| Run | Question | Result | States |
|---|---|---|---|
| `exceptions` | every order of bus errors, watchpoints, TLB misses and faults, breaks, traps, resets and interrupts: isolation, and interrupts only when enabled | holds | 373 794 |
| `exceptions_wakeup` | polls apart: is an interrupt still served? | holds | 186 000 |
| `cache` | FIFO per set, under deferred invalidation | holds | 34 000 |
| `timer` | deadlines, pulses, service | holds | 30 000 |
| `uart` | line timing, reading, termination, service | holds | 77 000 |
| `debug` | a session of any commands over any program | holds | 387 072 |
| `packets` | the same session's bytes: served once, in order, until the host has gone | holds | 369 066 |
| `instructions` | every instruction on every pair of operands after every other | holds | 742 005 |
| `mmu` | translation through the buffers while the kernel remaps, other exceptions coincide and resets come | holds | 797 174 |
| `system` | processes that load and save, one after the other | holds | 36 089 |
| `debug_found` | can every watchpoint be cleared again? | **no** | |
| `packets_registers` | do register commands set what they say? | **no** | |

What each property is about is said at its definition.

### Findings

1. `debug_found`, `lm32_gdb.cpp:838`. The fields C1 to C3 of DC are compared with
   a value shifted to C0, although the comment at 788 promises a search of all
   four. A watchpoint in WP1 to WP3 is never found again, and stays armed.
2. `packets_registers`, `lm32_gdb.cpp:346`. P sets its last register to its first, so
   the loop of `lm32gdb_set_regs()` writes none and OK is answered; in G an inner
   variable hides the outer one, and all registers get one value.

### Behaviour the models keep

These are not errors against a statement of the repository's alone, or depend on the guest;
the properties that hold, hold with them.

- EXTINT is computed at a poll and stays flagged (`lm32_cpu.cpp:998`). With polls
  apart, a program that has just disabled interrupts is still interrupted once:
  hence `Granularity = 0` in `ExtIntOnlyWhenEnabled`.
- Of two exceptions pending at once the second is entered at the first instruction
  of the first one's handler and overwrites ea (`lm32_cpu.cpp:1018`). Modes survive this, which
  `UserCodeUnprivileged` shows; the first return address does not.
- Nothing sets OE (`lnxuart.cpp:269`): an overrun is not reported.
- After a stop only the flag of its reason is cleared (`lm32_gdb.cpp:914-938`), although the
  comment at 874-876 says that the flags of break- and watchpoints are cleared "before the CPU can
  act upon" them, "obviating the need for handlers in the code being debugged". A watchpoint
  hit together with a breakpoint stays, both stay at a lock instruction, and
  the host's own reads can raise a watchpoint. The guest's debug handler takes
  the most urgent of them when it is resumed, unless a fetch error is more urgent still: then the
  old watchpoint ends the new run at once. `GuestTakesOnlyLeft` says that these are all.
- A user instruction whose miss coincides with a debug exception or an interrupt is lost: the more
  urgent one is entered first, with the address behind the instruction, and the miss
  steps back from the other's handler (`lm32_cpu.cpp:921-924`).
- A reset keeps the flags (`lm32_cpu.cpp:845-900`): a miss that was pending is entered after it,
  with 0 in TLBVADDR and TLBBADVADDR, and a kernel that trusts these refills page 0.
- A load whose read misses writes 0 to its destination all the same
  (`lm32_cpu_inst.cpp:1120`). If that is also its base register it is tried
  again at another address, and the page that was refilled need not be the one it wants.
- A recv() of 0 from a TCP connection is not an error (`lm32_gdb.cpp:137`): with a
  host gone this way the session does not end. `packets` is about a pseudo-terminal.
- Saving is not faithful with translation on, with a counter offset by wcsr CC,
  for pages written through an alias of RAM, or if the process is killed while it
  saves. The model has all four (`Translation`, `CcAdjusts`, `Windows`,
  `KilledIn`); `system` excludes them, and `ResumesAsSaved` fails when any of them is let in.

### Bounds, and why they are enough

- Exceptions: one interrupt line (lines differ only in their mask bit), the twelve
  slots at base 0 and a second word after each, two words of kernel code, two
  of user code. Two adjacent user words are the least for which stepping back,
  and walking off the end, differ from staying. An instruction costs 1 cycle,
  so the wakeup run's `Granularity = 2` puts one instruction between two polls;
  more only delay. `Faults` are all exceptions memory can raise. Hardware
  breakpoints (`HwBp`) and `KernelTraps` are off in TLC, because the nesting they
  add does not finish in minutes; the theorems have every combination.
- Cache: two sets, a direct-mapped and a two-way cache; three lines compete for
  one set, so the second way is filled, its turn comes round, and a line is evicted and
  refilled. The region is unaligned at both ends and the addresses are those
  at its edges.
- Timer: 4 bit registers, so wrapping happens in a few ticks; a poll is 3 or 4
  cycles after the last; the periods are the shortest there may be, the longest,
  and one that divides by no gap.
- UART: a frame of 4 cycles, longer than the gap of 2 or 3; a terminate string
  with a repeated letter, of which half can be matched and lost.
- Debug: two registers of each sort. The second is the first that is not C0,
  which is what finding 1 is about; registers run out within three commands.
  One address is executed and watched, one is bad. The ledger needs no bound:
  the registers bound it.
- Packets: two addresses, writes of up to two bytes, so that one ends between two
  values; data that is plain, an end character or an escape; a buffer of six
  characters, which an unknown command fills and overflows.
- MMU: two pages that share the only index, so that a refill evicts the other page's
  entry in its table; two frames, so that a stale entry shows. With other exceptions a
  breakpoint, which goes through ba, and an interrupt, which goes through ea;
  watchpoints differ from the first, bus errors from the second, by their number only.
- Instructions: two registers, which are also ra and ea, so destinations are
  operands; words of 3 bits with immediates of 2 and bytes of 1, all values.
  The results, the branches and the scoreboard are checked on all of them; latencies are the code's own.
- System: one page of the image, one of the setup, one of neither; a poll every
  other instruction. The number of processes is not bounded.

`CHECK_DEADLOCK` is on in every run; a system that has stopped stutters in an
action of its own (`Idle`, `Stopped`, `Over`, `Returned`, `Killed`).

### Fairness

The code has one thread that runs until told to stop, so weak fairness of
"some instruction or poll" is what a run loop gives:
`WF(Execute \/ Terminate)` in `LM32Exceptions`, `WF(Execute)` in `DebugSession`
(the host's commands have none), `WF(Attempt \/ Dispatch)` in `LM32Tlb`, `WF(Read \/ ReadFails)` in `GdbPackets`, and `WF` of `Tick`, of `Instruction` and of
`TakeInterrupt` in the peripherals. A pending interrupt in a program that
enables interrupts is dispatched before its next instruction, which is the
last of these. `SF` of the handler's own steps says that a
handler, once entered, gets to its end although polls come in between: it is
an assumption about the guest, not about the simulator; so is weak fairness of
`KernelStep` in the handlers of `LM32Tlb` other than a system call's and a reset's, that they run to their return, and `WF(Hear)`, that a host takes
the answer it waits for. `LM32Instructions` and `SystemState` need none. No fairness is given
to keys, to commands or to any single instruction of the program.

## 4. Proofs

The theorems hold for every value of the constants that the named assumptions
admit (`ConfigAssumption`, `LayoutAssumption`, `CacheAssumption`,
`TimerAssumption`, `UartAssumption`, `SessionAssumption`, `PageAssumption`,
`SystemAssumption`, `RegAssumption`, `WordAssumption`, `PacketAssumption`, and `NoneAssumption`, that None is not
a value of another kind); TLC evaluates these in the runs.

**Exceptions.** `UserCodeUnprivileged` is not inductive: a state whose ea points
to user code while the E bits say kernel satisfies it and breaks it one eret
later. The invariant that is inductive,
`PrivilegeInv == TypeOK /\ ContextsPaired /\ BasesProgrammed(cpu)`, pairs each
trusted return register with its saved bits, says that each copy of the mode
bits is whole, keeps the kernel off the word after user code (where a TLB
miss's step back would land in it), and that EBA and DEBA hold a base the
kernel programmed, so that a vector is kernel memory. `LM32Exceptions_proofs`
follows an instruction: poll, dispatch, fetch, each of the fourteen actions.
From it come `TypeCorrect`, `PairedContexts`, `UserUnprivileged` and
`UserWhole`. `UserCannotControl` is an action property that needs only what an
instruction may touch when nothing was entered. `PolledInterrupts` proves that
under `Granularity = 0` interrupts are taken only when enabled: with every
instruction a poll, the flag is never stale. With polls apart it does not hold.

**Cache.** `CacheTypeCorrect` and `NoLineTwice` (property `OneCopy`): with the
invariant that of two ways the one whose turn it is holds the older line, which
an invalidation that leaves the turns alone must keep. With both,
`CachesAreFifo`: every step of the caches is one of `CacheFifo` or a stutter; a fill
drops the line whose turn it is, which is the oldest exactly because of that invariant.

**Timer.** `TimerTypeCorrect` (a running countdown is neither zero nor negative
between polls, from the assumption on periods), `NoPulseLost`, and
`TimerKeepsDeadlines`: `LnxTimer!Spec` implies `DeadlineTimer!Spec` under the
mapping above, for every register width, poll distance and admissible period.
Each concrete step is shown to be an abstract one; the overrun compensation is what
makes a reload add exactly one period.

**Debug session.** `SessionTypeCorrect`, `ArmedIsAgreed`, `TakesOnlyLeft` and
`FaultStaysPending`, for any number of registers and any addresses. The
inductive invariant is `SessionInv == TypeOK /\ ArmedAsAgreed`: that the ledger
never goes negative is a matter of types, and follows from its being the
number of registers that hold an address. The lemmas are about how setting or freeing one register
changes such a count. `TakesOnlyLeft` adds `LeftInv`: through stops, commands and resumes, no
break- or watchpoint is flagged that the stop's reason did not hide or the host's access
did not raise. It rests on the order of the break conditions going together with what the stub
clears (`OnlyHiddenRemains`).

**UART.** `UartTypes`, `NothingReadTwice`, `EndsOnExitOnly` and `LineHasItsTime`.
`UartInv` adds to the properties themselves: what IIR says while a handler trusts
it (`CausesHold`), that a frame's age is the poll's difference to its start
(`FrameInv`), and that `term_idx` is the longest prefix of the terminate string that
the characters heard end with (`LongestMatch`). The last is why a matcher that
only falls back to 0 or 1 is exact: `UartAssumption` says that the first
character of the string does not occur in it again.

**MMU.** The theorems need nothing more than the rules of the kernel: other exceptions may
coincide, a reset may come at any time, a load may overwrite its address. `TlbTypes` and
`BuffersAgree`: outside the handlers, an entry says what the page table says; in a
handler, every entry that does not is one the kernel owes an invalidation.
`HandlerKnowsCulprit` rests on `CulpritInv`, which says what the two registers explain in each of
the states between a miss and its handler: the miss flagged and nothing entered yet; another
handler entered first, and the instruction gone; a reset, and the page gone too. With
these, each step of a processor is one of `VirtualMemory` or a stutter:
`TlbImplementsMemory`. A handler that gives an instruction up gives up one that is not
permitted (`GivesUpForbidden`), and one that is lost was disturbed (`InterruptLoses`).

**System state.** `SystemTypes` holds with every option. `SaveOmitsNothing` rests on
`CoverInv`: a defined page is in an image or marked, and what the file has is marked
after it was loaded. `RunsAreOneMachine` adds that the snapshot kept aside is what the
file stood for, and that a page the save has not reached yet is in the images or still
to come; then loading, running, saving and dying map to the machine's own steps.

**Packets.** The connection is in step when it is known, at every byte, which place of
the host's packet the stub has reached. `PacketInv` says which of five things goes
on: nothing is asked for (`Unasked`), the packet is on its way behind bytes the stub
ignores (`Waiting`), the buffer and the line together are the packet
(`Collecting`), what lm32gdb_write_mem() has written and what it is still to read are
the data, down to the half of a value and the character after an escape (`Writing`), or
the answer is under way (`Answered`). `Carries` makes this hold for a line that was cut:
what arrives is then a beginning of the packet. Where the characters of each value
lie in a packet is `Layout`, by which the folds of `FlattenSeq` are known; the induction over
the values that this takes is made with a set in place of a predicate (`Induction`, from
the least element of a set of numbers). After the line is lost inside a write, all that is known,
and all that is needed, is that the write stays within the range it was given.
`PacketTypes` and `PacketsInStep` follow, and `ServesOnlyAsAsked`: every step is one of
`RemoteMemory` or a stutter (`Remote!Safe`, the abstract specification without its fairness).

**Instructions.** `ScoreboardIsExact` (`due` equals `owed` for every register),
`NothingReadEarly` from it, and `BranchesAsCompared` by the arithmetic of
two's complement, for every word width. `TypeCorrect` and `ResultsCorrect` do the same for
the results of all instructions. They are built from the ground:
`2^n` is known only as the number of subsets of n positions (`Power`); from it follow
how powers multiply, and how division by them moves bits (`BitsBelow`, `BitsAbove`). A
number below `2^n` has a set of bits, each set is that of one number (`BitsExist`,
`BitsUnique`), so the bitwise operators are total on words and do what they say bit by
bit. The rest goes by classes of instruction: sums and products agree with the integers'
modulo `2^WordBits`; C's quotient and remainder have the sizes and signs that division towards
zero asks for, and fit in a word except where `Overflows` says so; the
disjunction by which sr sets the bits that a logical shift has cleared adds no carry
(`OrIsSum`), so that sr divides and rounds down; sign extension keeps the number an
immediate, a byte or a halfword stands for.

**Only model-checked.** All liveness properties (`InterruptServed`,
`TimeoutServed`, `CharacterServed`, `StepAnswered`, `Completes`, `SessionEnds`, and the fairness
in `ServesAsAsked`), which the prover does not reach; and the violations
(`WatchesFound`, `RegistersAsSet`), which are counterexamples. Every invariant and every other
action property of a run is a theorem.

## 5. Not modelled

- TCP connections and the set-up of the pseudo-terminal; the text of replies other
  than memory, and checksums, which the stub does not verify.
- Tick mode, cycle limits, user break addresses and the options that add or
  remove break conditions of the run loop: the loop is modelled as the stub calls it.
- The bytes of memory: widths, byte order, alignment, and the wrap at its end.
- Cost in cycles, but for the scoreboard: wait states only delay.
- The ELF loader: it runs once, sequentially, before the program.
- `cpumico32`'s dumps and its callbacks, but for the interrupt callback, which is
  the case `Granularity = 0`.
- Text processing: configuration, command line, disassembler; the wrappers for
  C and Python.

## 6. Plan

Done, in order: what isolates programs (`LM32Exceptions`), what peripherals and
caches promise (`LM32Cache`, `LnxTimer`, `LnxUart`), the debugger (`DebugSession`,
`GdbPackets`), translation (`LM32Tlb`), instructions (`LM32Instructions`), the
system's life (`SystemState`); and of each of them, the theorems of section 4. What would add
most next:

1. Tick mode and cycle limits of the run loop, and a reset inside
   `execute_instruction()` (`lm32_cpu.cpp:890`), composed with `DebugSession`.
2. The bytes of `lm32_read_mem()` and the loader's word assembly, as operators
   against reference definitions.
3. `LM32Tlb` with the saved mode bits and the interrupt enables of `LM32Exceptions`:
   handlers of the kernel that enable interrupts or translation themselves.

## 7. Running it

    tlc -config MCExceptions.cfg MCExceptions
    tlapm LM32Exceptions_proofs.tla

The configuration's name begins with its MC module; `PROJECT.json` lists every
run. The longest takes about three minutes with two workers.
