# A verification project for DSD-CORDIC

The repository builds a Nios II system with one custom peripheral, `f_of_x`,
which sums

    f(x) = 0.5 * x + x^2 * cos((x - 128) / 128)

over a stream of 32-bit floats, and a C program that drives it. This directory
holds TLA+ models of that system, the TLC configurations that check them and
theorems about them that TLAPS proves. All paths are relative to the
repository.

## 1. The system

| component | source | state | operations |
|---|---|---|---|
| slave and control | `src/hardware/custom/top.sv` | two shift registers of enables (`clk_enables`, `acc_clk_enables`), the restart flag `state`, `writereg`, `readreg`, `delay_read` | one clock edge with any values of `reset_n`, `read`, `write`, `address`, `writedata` |
| datapath | `src/hardware/custom/term.sv` | the pipelines of three lanes, two free-running delay lines | one clock edge |
| cosine | `src/hardware/custom/cordic/RTL/*.sv` | the angle register, five registers of a vector and an angle | one clock edge; sixteen combinational engines in six blocks |
| accumulator | `src/hardware/custom/fp_acc/fp_acc_0002.vhd` (generated) | operand and flag on their way in, the running sum, the sum on its way out | one clock edge with enable and reset |
| operators | `src/hardware/custom/fp_mult`, `fp_add` (generated) | pipelines of 4 and 5 registers | one clock edge with enable and reset |
| bus | `src/hardware/f_of_x_hw.tcl`, `src/hardware/first_nios2_system.qsys` | the command presented, the read under way | write, restart, read with one wait state and a latency of 23 |
| program | `src/hardware/software/hello_world/hello_world.c` | vectors, counters, results | `trigSum`, `runTest`, `main`, `dmaISR` |
| DMA controller, data cache | not in the repository | words to transfer, words not written back | beats, write-backs, an interrupt |
| test benches | `src/hardware/custom/tb.v`, `tb2.v`, `term_tb.v`, `cordic/tb/*` | the input presented, the time waited | present, wait, display |
| JTAG UART driver | `hello_world_bsp/drivers/src/altera_avalon_jtag_uart_*.c` | two rings with two indices each, `irq_enable`, the host's time-out | `write`, `read`, `close`, `ioctl`, the interrupt handler, an alarm |
| system clock and alarms | `HAL/src/alt_tick.c`, `alt_alarm_start.c`, `drivers/src/altera_avalon_timer_sc.c` | the tick counter, a circular list, the time and roll-over mark of every alarm | start, stop, tick with callbacks |
| interrupts | `HAL/src/alt_irq_handler.c`, `alt_iic*.c`, `HAL/inc/sys/alt_irq.h`, `alt_sys_init.c` | global and individual enables, the table of handlers | nested sections, registration, entry, dispatch; start-up |
| files | `HAL/src/alt_open.c`, `alt_close.c`, `alt_ioctl.c`, ... | lists of devices and file systems, the descriptor table and its high-water mark | registration, redirection, every system call on files |
| caches | `HAL/src/alt_dcache_flush*.c`, `alt_icache_flush*.c`, `alt_load.c`, `alt_uncached_*.c` | none of their own: the processor's caches, the memory | flushes, loading, uncached blocks |
| time | `HAL/src/alt_settod.c`, `alt_gettod.c`, `drivers/src/altera_avalon_timer_ts.c` | the time at reset, the timestamp timer | set, get, start, stamp |
| profiler | `HAL/src/alt_gmon.c`, `alt_mcount.S` | lists of functions and arcs, a flag | count a call, add an arc, start the sampler |

`HAL/` and `drivers/` are under `src/hardware/software/hello_world_bsp/`. It is
the vendor's board support package, in the repository and linked into the program.

How they interact. The CPU (program) and the DMA controller give commands over
the bus to `top`, one per clock edge. A write at address 0 sends a word through
`term` (15 edges) and `fp_acc` (7 edges) into `readreg`; a write at address 1
restarts the sum: it clears `readreg` and arms a flag that makes the accumulator
load the next term instead of adding it. A read is answered with `readreg` after
a fixed number of edges, with no handshake. There is no back-pressure and no
valid bit anywhere: that the right word is in the right register on the right
edge is a matter of counting.

The program prints through the file calls, which reach the UART driver's ring; an
interrupt handler empties it. The timer's interrupt runs `alt_tick`, which calls the
driver's alarm once a second to see whether the host is there. The DMA's interrupt
runs `dmaISR`, which prints too. All of this is one thread and three interrupts; what
protects shared state is the order of accesses, or a section with interrupts off.

What is hard, and hard to test:

* *Counting edges.* The literals 15 and 7 in `top.sv`, 3 and 7 in `term.sv`, 6 in
  `cosine.sv` and 23 in `f_of_x_hw.tcl`, and the latencies of three generated
  cores, must agree.
* *Bubbles.* When no word is written the generated cores stop, the rotation
  registers are cleared, and the delay lines go on: the lanes fall apart and must
  be in step again for the next word.
* *Order.* A restart, or a reset, meets terms of the old sum still in flight.
* *Two masters.* The program, an interrupt handler and the DMA share one sum.
* *Stale memory.* The DMA reads the memory behind a data cache nobody flushes.
* *Interrupts.* A ring without a lock, alarms started and stopped inside a tick,
  handlers withdrawn while their interrupt is pending, a function counted by the
  program and by a handler at once.
* *Waiting.* Interrupts are switched on and off by both sides; a switch in the wrong
  order leaves a ring that nobody empties. A host may vanish for ever.
* *Round corners.* Tick counters that roll over, products wider than a word, regions
  that start within a cache line, descriptors at the end of the table.
* *Widths.* A rotation in 24-bit fixed point with a truncated table, and a packer
  that knows two exponents.

What each component has to guarantee: `term`, that a result belongs to one input,
the one written 15 edges before; `top`, that a read returns exactly the terms
written before it, that no term is lost or counted twice, and that restarts take
effect; `cosine`, that it converges for every angle, without overflow, whatever
the pipeline is fed before and after; the program, that it never restarts or reads
in a way that makes the answer depend on timing; the UART driver, that characters pass
once each and in order, and that calls end; alarms, that they fire at their time and
not after they are stopped; interrupts, that a request finds its handler and is
served; files, that handles stay with their device and locks exclude; caches, that
everyone reads what was stored last; the clock, that time set is time got. The full list, at its lines, is
under "hazards" in `PROJECT.json`.

## 2. The modules

| module | models | role |
|---|---|---|
| `Registers` | `dspba_library.vhd`, delay lines | chains of registers |
| `Term` | `term.sv`, registers of `cosine.sv` | datapath over tokens |
| `FpAcc` | `fp_acc_0002.vhd` | accumulator over sequences of terms |
| `Top` | `top.sv` | composes `Term` and `FpAcc`; `ClockEdge` is one rising edge |
| `FofX` | `Top` with the bus and its masters | the core specification |
| `SumServer` | what a program may assume of the peripheral, and it of the program | abstract specification |
| `FofXInv`, `FofXProofs` | | inductive invariant, proofs |
| `Engine` | `engine.sv`, `unpacker.sv`, `sdiv.sv`, `packer.sv` | bit-accurate operators |
| `Cordic` | the rotation, one engine a step | numerical properties |
| `Cosine` | `cosine.sv` with its registers | pipeline properties, joins `Engine` and `Term` |
| `CosineProofs` | | proofs about `Cordic` and `Cosine` |
| `CosineBench` | `cosine_tb.v`, `monte_carlo_tb.sv` | the benches' waiting times |
| `HelloWorld` | `hello_world.c` over `SumServer`, `alt_dma_txchan_open`, `alt_dma_txchan_send` | program, DMA and interrupt |
| `HelloWorldProofs` | | inductive invariant, proofs |
| `System` | `hello_world.c` over the registers | composes `FofX` and `HelloWorld` |
| `SystemProofs` | | proof that `SumServer`, put in between, may be replaced |
| `JtagUart` | the UART driver, its core and the host | rings shared with a handler |
| `CharPipe` | one direction of it | abstract specification |
| `JtagUartInv`, `JtagUartProofs` | | inductive invariant, proofs |
| `Alarm` | clock and alarms, `alt_llist.h` | each call one step; abstract specification of `Board`'s alarms |
| `Irq` | enables, table, dispatcher | operators `Board` is built from |
| `Board` | start-up, calls in single accesses, three interrupts | composes `Alarm` and `Irq` |
| `BoardProofs` | | proofs about `Alarm` and `Board` |
| `AltFd` | devices, file systems, descriptors, system calls | |
| `Handles` | what the file calls promise | abstract specification |
| `AltFdProofs` | | proofs |
| `Cache` | caches, flushes, `alt_load`, uncached blocks | |
| `Clock` | time of day, timestamps | |
| `Profile` | `mcount`, `__mcount_record` | |
| `ServicesProofs` | | proofs about `Cache`, `Clock` and `Profile` |
| `*MC` | | values for TLC |

`Top` EXTENDS `Term` and `FpAcc`, `FofX` EXTENDS `Top`: the hardware is one
clock domain, so composition is conjunction of edges. `HelloWorld` is composed
with the abstract `SumServer` and not with the registers; `FofX` implements
`SumServer`, and the assumption `FofX` makes about restarts is what
`HelloWorld!KeepsContract` checks of the program. Each side so relies on a contract
that the other keeps only if it may rely on it too. `System` closes the circle: it
has the program and the DMA on the registers, with no server and no contract in between,
and that they meet there as they meet at `SumServer` is a property (`BusKept`,
`OnServer`) and a theorem.

`CosineMC` EXTENDS `Cosine` and `Cordic` in the same way as `ServicesMC` its three
modules: a behaviour is one of the pipeline or one of the rotation.

`Board` EXTENDS `Alarm` and `Irq`; that its interleaving of single accesses still is
`Alarm`, where a call is one step, is the property `Board!Implements`. `ServicesMC`
instantiates `Cache`, `Clock` and `Profile` side by side: they share nothing, and a
behaviour is one of them (`part`).

Definitions called `FAULTY` stand next to the definition they distort. No
specification uses them; they are what a run must be able to tell from the code.

### 2.1 The hardware: state and actions

A word is a *token*: the input it was computed from (`X`, or `Zero` for 0.0), or
`Garbage` where words of different inputs meet. `term.sv` computes f of its
token, lane by lane; a sum is the sequence of its non-zero terms. So "the result is
f of that input" is the statement that the token is that input. The bits are the
subject of `Engine`, `Cordic` and `Cosine`. `fp_mult` and `fp_add` compute what
their names say; their arithmetic is taken as given.

Variables carry the names of the registers. Operators `ClkEnablesEdge`,
`AccClkEnablesEdge`, `StateEdge`, `WriteregEdge`, `ReadregEdge`, `DelayReadEdge` are
the `always` blocks of `top.sv`; `clk_en`, `acc_en`, `n`, `acc_in`, `readdata` are its
wires. Two details of the source are kept: bit 0 of each shift register is
assigned after the reset branch and so is *not* reset, and `areset` of the
generated cores is asynchronous while every other reset is synchronous
(`DelayOut`). Registers power up low, as the FPGA's do.

`FofX` adds the masters: `Idle`, `Write`, `Restart`, `ReadStart`, `ReadAccept`,
`Reset`, each of them one edge. The bus carries one command per edge; while the CPU
waits for a read the DMA master may go on writing. History variables (`sent`,
`totals`, `total`, `expect`) record the commands and nothing reads them but the
properties.

### 2.2 The cosine

`Engine` computes with integers modulo 2^24 and gives every wire the bits of the
source, for positive inputs below 256, the range stated in `unpacker.sv:4`. `Cordic`
takes one step per engine. `Cosine` has the registers, takes any input, `clk_en` and
`reset` on each edge, and carries beside the bits the token `Term` would carry:
`InStep` says that where `Term` has a token the hardware has the rotation of that
input, which makes `Term`'s abstraction of `cosine.sv` sound.

### 2.3 The program

An action of `HelloWorld` is one command to the peripheral, or the code between two
of them. It uses the server's transitions without their guards (`Clear`, `Accept`),
so a program that restarts too early makes the step all the same, and
`KeepsContract` fails. The DMA controller and its driver, absent from the
repository, are external: words written one by one, then the callback. The data
cache is external too: when `generateVector` returns, the last 128 words at most
(512 bytes, direct-mapped, `system.h:75`) are not in memory; each may be written back
at any later time. The channel may not be found, and the driver may refuse the
transfer. `Main`, `Transfer` and `Handler` put each half of a command, the program's and
the server's, together.

In `System` the program's half is the same and the other half is an edge of the registers
(`Give`, `Take`). The program takes the word that its IORD samples, whatever it
is. A read is three parts, its wait state, its acceptance and the sampling `ReadLatency`
edges later; between commands any number of edges may pass (`Elapse`). There is no reset
in `System`: it would restart the program too.

### 2.4 The UART

An action of `JtagUart` is one access to what the caller and the interrupt handler
share; `pc` and `isr` say where each of them is, the other variables have the names of
the fields and locals. The handler runs to its end once entered (`Runs`), the host
takes, types and polls at any time or never again. Characters are numbered, so order,
loss and repetition can be seen. The core (FIFOs, the bit AC, when it interrupts) is
external, modelled from how the driver reads and writes its registers.

### 2.5 Alarms and interrupts

`Alarm` has the list with both pointers, so that what a callback does to the entries
that the walk holds shows. `Board` turns every call into a sequence of single accesses
(`rest`) and lets the devices' requests in between any two. Contexts that
`alt_irq_disable_all` returns form one stack (`saved`). The other handlers do what
handlers may do to the table: withdraw themselves or each other.

### 2.6 Files

A call of `AltFd` is one step: the HAL is built for one thread, its semaphores are
empty and no handler uses files. `Answer` is the driver's callback: it succeeds or
fails. A return value of -1 with `errno` set is written as the negated error.

### 2.7 Caches, clock, profiler

A word of `Cache` is *fresh* where it holds what was stored last. `handed` remembers
what the program has flushed and not stored to since, and for whom; `given` the words
whose last store a flush without write-back has given up. Loads, stores,
fetches and replacement are the processor's (external); both caches are direct-mapped
and the data cache writes back, as `system.h` says.
`Clock` splits `settimeofday` at the reading of the ticks, and `alt_timestamp` at the
snapshot and between the halves; ticks and counts go on meanwhile. `Profile` splits
`mcount` where an interrupt between two accesses can be noticed; a list is a sequence
with its head last, so a walk that has read the head sees the rest as it was.

## 3. What the runs check

| run | instance | properties |
|---|---|---|
| `fofx` | least latencies, 2 terms, at most 3 writes per restart | `IInv`, `ReadReturnsSum`, `LanesMeet`, `NeverGated`, `RestartDrained`, `Implements`, `Settles` |
| `cosine` | 3 inputs, any bubbles and resets; all inputs k/1024 up to 255 and corner cases | `InStep`, `ResultIsCosine`, `Converges`, `NoOverflow`, `Accurate` |
| `hello` | vectors of 1, 3 and 6 words, 10 rounds, 2 words in the cache | `ResultsRight`, `TransferRight`, `KeepsContract` |
| `system` | the latencies of the code; vectors of 1 and 3 words, 2 rounds, one word in the cache | `PrintsRight`, `BusKept`, `OnServer`, `Finishes` |
| `uart` | a ring of one character, FIFOs of one, calls of three | `IInv`, `WriteArmed`, `ReadArmed`, `WaitsOnlyWhenFull`, `Transmits`, `Receives`, `CountIsExact`, `WritesReturn`, `ReadsReturn` |
| `board` | two alarms, a counter of three, three interrupts | `IInv`, `Punctual`, `StoppedIsSilent`, `Implements`, `HandlersAlone`, `RightHandler`, `Served` |
| `files` | five descriptors, three devices and a file system | `IInv`, `Implements` |
| `services` | two lines in caches of one; three ticks a second; four calls | `Coherent`, `TimesRight`, `ProfileRight` |
| `monte_carlo_tb`, `uart_eio`, `alt_fd_lock`, `settod` | | expected violations, section 6 |

What they show. `fofx`: whatever the order of commands and bubbles, a read returns the
terms written before it, no term is lost or counted twice, and the peripheral keeps
the contract on which `hello` builds. `cosine`: the bits are a cosine, and
the pipeline pairs them with the right input. `hello`: the program keeps its side, and
its results are the sums. `system`: the two together, edge by edge, drive the bus as the
hardware needs it and print all results, the right ones. `uart`: the rings need no lock, no wake-up is lost, calls
answer exactly what they passed on, and return. `board`: alarms are punctual over a
roll-over whatever callbacks do, interrupts find their handler during start-up and
withdrawal, every request is served. `files`: the table survives any sequence of calls
with failing drivers. `services`: caches stay in step whatever lines share a place, and a
flush without write-back costs no store but those of the lines at stake,
the clock's answers do not depend on when its interrupt comes, and no entry of the
profile is lost.

Bounds, and why they are enough.

* *Latencies.* The pipelines have no control of their own, so what can go wrong
  depends on which lane is longer than which, and on windows of enables ending on
  the right edge. The least latencies keep every inequality of the code: each chain
  exists, the lanes branch and meet, the flag travels behind the accumulator's
  input. The proofs are for all latencies that satisfy the assumptions `TermConstants`,
  `LanesBalanced`, `CyclesMatch` and `BusConstants`, and `LatenciesOfCode` in `FofXMC`
  states of the code's literals that they do. The run `system` has these literals.
* *MaxWrites* bounds the terms of one sum. With the least latencies, 3 terms with any
  gaps between them span more than the whole pipeline (8 edges) and let a term wait
  for, follow, or overlap another, with a read or restart between any two. Two
  different tokens are enough to notice a swap. Neither bound is in the proofs, where `MaxWrites` is any number.
* *Inputs of the rotation* in `cosine` are the 261121 words of the program's third test, which
  contains the other two, and the corners of the unpacker. `Converges` and
  `NoOverflow` are proved for all inputs.
* *Vectors of `hello`*: a vector of one word, which is only the leading 0, one that
  fits between, and one longer than the cache. The rounds are the code's ten.
* *`system`*: a vector of the 0 alone, whose sum is empty, and one of which the cache holds
  a word back; the second round is the first that meets an old sum. `MaxWrites` is the
  longest vector. More of each only repeats this, and is in the proofs.
* *UART.* With a ring of one character every write of three finds it full, waits, and
  wraps round; a FIFO of one is full after one. A time-out of two seconds is the least
  that can be reached and re-armed. The safety properties are proved for all sizes.
  The instance's callers block and leave interrupts on (`Modes`, `Masks`): non-blocking
  callers, and callers inside a handler, are in the model and in the proofs.
* *Board.* A counter of three ticks has an alarm before, at and after the roll-over,
  and one whose interval is a whole turn but one. Two alarms are enough for the walk
  to stand on one and hold the other; a third could only be met in between, and the
  proof is for any number. Two requests of DMA and UART let one come while the other
  is served.
* *Files.* Two descriptors above the standard streams allow a device to be opened
  twice and the table to be full; standard error is a file here, so that its
  redirection may fail.
* *Cache.* Two lines of two words that share the one place of each cache: a region may start
  within a line, end at the same offset of a line (where the line more is its last) or
  behind it (where it is the line behind), share a line with other data, and be longer
  than the cache. The proof is for all sizes. *Clock.* A tick is two microseconds of six in
  a second, and the word of 16 is passed by the microseconds of 8 ticks; settimeofday
  is called before that (`MaxSetTick`), and the run `settod` shows what it does after.
  *Profile.* Four calls let the program and a handler each add and then count an arc.

Fairness. `FofX` assumes `WF_vars(Next)`: the clock does not stop. `Settles` needs no
more, since a write takes part in an edge like any other command: with at
most `MaxWrites` writes per sum, either the bus is idle long enough or the sum is
restarted, and both drain. `HelloWorld` assumes that the processor runs (`Main`), that
an enabled transfer proceeds (`Transfer`) and that interrupts are taken (`Handler`): the
interrupt is never masked while `main` spins. `System` assumes as much of what is done to the
registers: that a command at hand is given, a read under way gets its edges
(`Take`), and the program computes. It is one assumption about the three together,
for at any time at most one of program, DMA and handler has something to do.
`JtagUart` assumes that
an entered handler runs on and a pending interrupt is taken; and strongly, of the
caller and of the alarm, that they get on though the handler interrupts them again and
again: the caller runs between interrupts, and the timer's request stays pending
while another handler runs. Nothing is assumed of the host, so `WritesReturn` is about
a host that has gone as well. `Board` assumes that program, dispatcher and handlers go
on, and strongly that a pending interrupt is taken if interrupts are enabled again and
again: requests are levels that the devices hold
(a device that takes one back is called faulty, `alt_instruction_exception_entry.c:145-148`), and every
section that masks them ends. The other specifications have safety properties only
and no fairness.

Deadlock is checked in every run but those of `cosine` (a finished rotation stops)
and of `services` and `settod` (their counters are bounded, and at the bound a part
may have nothing to do).

## 4. What is proved

With TLAPS, for every value of the constants that satisfies the assumptions.

`FofX` (modules `FofXInv`, `FofXProofs`), assuming `WordConstants`,
`TermConstants`, `LanesBalanced`, `AccConstants`, `CyclesMatch`, `BusConstants`:

* `TypeCorrect`: `TypeOK` is an invariant.
* `Invariance`: `IInv` is an invariant.
* `ReadsRight`, `LanesInStep`, `EnablesSuffice`, `RestartSafe`: the safety properties of
  the run; `ReadregExact` and `FlagInTime`: `ReadregLags` and `FlagBeforeTerms`, which
  say where the sum and the restart flag are.
* `Refinement`: `Spec => SumServer!Spec`.

None of the properties is inductive. They speak of the end of the pipeline, and the next
edge takes its content from registers of which they say nothing. `IInv`
therefore says of *every* register what it holds in terms of the last `ReadLatency`
commands: `sent[k]`, the term written k edges ago, is in the registers k edges down
the pipeline (`LaneInv`, `MeetInv`, `OperandInv`); `totals[k]`, the running total k edges
ago, is what the accumulator and its output registers hold (`AccumulatorInv`,
`OutInv`). An edge shifts both, so each conjunct at k follows from itself at k - 1.
Three parts are not shifts. `Leftover`: after a restart the accumulator
holds an old sum, which is harmless because a flag is certain to reach it before a
term does. `EnablesInv`: a reset lets an enable through (bit 0 is not reset) so that
one enable may be in flight without the other. `Quiet`: when the program may
restart, nothing but the zeros a reset leaves is in flight.

`Cordic` (module `CosineProofs`), assuming `InputsInRange`:

* `Convergence`: after i engines the remaining angle is at most `residual[i + 1]`, and
  133 units of 2^-22 in the end, for all inputs below 256.
* `Bounded`: the coordinates stay below `growth[i + 1] < 2^23`.
* `ExactTurns`: what leaves the engines is, but for 15.4 units, a point of the unit
  circle; `PackerClipsLittle`: what the packer takes for 1.0 is above it by 15 units at most.
* `EnginesRotate`: after every engine the vector is the cosine and the sine of the angle turned
  so far; `CosineAccurate`: `Accurate`, the word that leaves the packer is the cosine of the
  input; `PipelineAccurate`: so is the word that leaves the pipeline of `Cosine`.

The argument for the first two is one inequality per engine: `residual[i] - angle[i] <=
residual[i + 1]` and `angle[i] <= residual[i + 1]` (the table has no gap), and
`growth[i] + (growth[i] >> i) + 1 <= growth[i + 1]`. The inductive invariant adds
that the first vector lies on the axis (`Bounds`).

`ExactTurns` says what the engines compute, without a cosine. Beside the engines goes an
exact computation (`Turn`): integers over a common denominator, turned in the same directions,
with nothing cut off. The angles of the table that it turns by make up the input's angle but
for 133 units, because no sum wraps (`EngineBounded` shows an engine to be its
`unwrapped` self). A turn multiplies the square of the length by 1 + 4^-k (`TurnSquare`),
so sixteen of them and `LIMIT` come to a length between 1 - 2^-22 and 1 (`OnCircle`), whichever
way they went. And where the exact vector is, the engines' is nearby: an error of m becomes at
most m + m / 2^k, and the shift cuts off less than one unit (`TurnRounds`, the table
`rounding`).

`CosineAccurate` says which cosine it is. There are no reals in the proof: the Taylor
polynomials of cosine and sine, of degree 10 and 11, are written with integers
(`CosP`, `SinP`, over the common denominator `unity`), and the vector is compared with
them. The chain has four links:

1. An engine turns the polynomials as it turns the vector (`SeriesTurn`): CosP(u) -
   SinP(u) / 2^k is `gain` times CosP(u + angles[k]) but for `drift` sixteenths of a unit, for
   any u in `reach`. The binomial theorem makes it linear in the powers of u, and each of the
   sixteen engines is then one linear problem for the solver. This is where an entry of the
   table that is not the arc whose tangent is 2^-k would show. With what the shifts cut off
   (`EngineTurns`) it adds up to `error`, 32.5 units in the end, and `TurnInv` is inductive.
2. The angle turned is the input's but for 133 units, the reference's angle is it but for 65
   (`AngleNear`), and the polynomial changes by 199 units at most in between (`CosFlat`).
3. The reference, whose every stage rounds to 15 bits, is the polynomial but for 142 units
   (`Stage` for one stage of Horner's form, `RefIsCos` for all).
4. The packer keeps coordinates from 0.5 up to 1.0 exactly, and the reference stays
   away from 0.5 (`RefLarge`).

33.5 + 199 + 142 is less than the 384 units that `Accurate` allows, three units of a
reference in 15-bit fixed point that shares nothing with the engines. The numbers behind
`unity` have hundreds of bits. They are never multiplied out but are applied, one
factor after the other, to a variable (`Coef0` ... `Coef10`).

`Cosine` (module `CosineProofs`), assuming `InputsInRange` and `ClearedConstant`:

* `AlwaysInStep`: `InStep`; `CosineOut`: `ResultIsCosine`.
* `BoundedInPipeline`: the bounds of `Convergence` and `Bounded` hold in every register of the
  pipeline; `RotationIsEngines`: the rotation of `Cordic` is the one of `CosineOut`.

Each register holds its block of engines applied to the register before, so all that is
needed is that blocks put together are a block: `Engines(b, c, Engines(a, b, v))` is
`Engines(a, c, v)`. `Engines` is a recursive function, and facts about it need induction, for
which the library's theorems cannot be used (section 5). Instead the least number that
violates the fact is taken, which exists because finite sets are well-founded
(`LeastNatural`), and shown to violate nothing.

`HelloWorld` (module `HelloWorldProofs`), assuming `ProgramConstants`:

* `Invariance`: `IInv`; `SumsRight`: `ResultsRight`; `ReadsNothing`: `ReadsZero`; `TransferSound`:
  `TransferRight`; `ContractKept`: `KeepsContract`.

For vectors of any sizes, any number of rounds, and a cache smaller than the last vector.
`IInv` says of every place in the program what the peripheral has added up: `Partial(t, i - 2)`
before the word i of test t is written, the whole sum when it is read, nothing after a
restart (`TestInv`, `MainInv`). While the DMA runs and its handler reads, `main` is in its
endless loop and asks for nothing (`DmaInv`), and what is in the sum are the words
the memory held as they were fetched: each of them right, or stale if it is one of the last
`CacheWords` (`MemoryInv`, `Transferred`). `ContractKept` needs that and that `settled` and
`latest` allow the restart or the read that the program is about to make.

`System` (module `SystemProofs`), assuming what `FofX` assumes, `ProgramConstants` and
`SystemConstants` (the words of the program are the words of the bus, and no vector is longer
than `MaxWrites`):

* `SystemInvariance`: `SystemInv`; `KeepsBus`: `BusKept`; `ServerReplaced`: `OnServer`;
  `EndToEnd`: `PrintsRight`, from the words written on the bus to the sums printed.

That the program drives the bus as `FofX` expects is proved from the answers it gets, and
that the answers are right from how the bus is driven. The circle is broken by taking one
step at a time: the joint invariant `SystemInv` is `IInv` of `FofX`, the invariant of
`HelloWorldProofs`, and their `Link`, which says that a read waits only where the program is
at an IORD, and how many terms it has written. From it every step of `System`
is a step of `FofX` (the restart finds `settled`, a write finds room), by which
the registers' invariant is kept and the word sampled is the sum; and so it is a step of
`HelloWorld` over `SumServer`, by which the program's is kept. `ServerEdges` says of each
command's edge what it does to the server that the registers implement.

`JtagUart` (modules `JtagUartInv`, `JtagUartProofs`), assuming `UartConstants`:

* `Invariance`, `TypeCorrect`; `NoLostWakeUp`: `WriteArmed`; `NoLostCharacter`: `ReadArmed`;
  `WaitsFull`: `WaitsOnlyWhenFull`; `CountExact`: `CountIsExact`.
* `TransmitsInOrder`, `ReceivesInOrder`: each direction implements `CharPipe`.

`IInv` says which character is in every place between the two indices of a ring (by
its distance from the reader's index), and, for a caller between its reading of the
indices and its moving its own, that what it found is still so: the handler only makes
more room for a writer (`RoomInv`) and more characters for a reader (`FoundInv`). What a
writer has copied but not yet published is outside the reader's part (`CopiedInv`).
The refinements need that the characters under way are those in the ring and the
FIFO, whose numbers are known from their lengths.

`Alarm` (module `BoardProofs`), assuming `AlarmConstants` and that no callback stops the
alarm that the walk visits next (`~StopNext`):

* `ClockInvariant`, `AlwaysPunctual`, `AlwaysSilent`.

The list is described without recursion: a set that contains the head and is closed
under `next` contains every registered alarm (`ListOK`), and what the walk has yet to
meet is what every closed set from its place contains (`From`, `Left`). `TimesOK` ties
the word in `time` and the roll-over mark to the moment an alarm is due, counted with
the roll-overs; the one tick at which marks are cleared, in the middle of the walk, is
why it speaks of `Left`.

`Board` (module `BoardProofs`), assuming `AlarmConstants`, `IrqConstants` and `BoardConstants`:

* `BoardInvariance`: `BInv`; `SectionsLeft`: between two calls no context is left to be
  restored; `NeverInterrupted`: `HandlersAlone`; `RightlyServed`: `RightHandler`.
* `AlarmsRefined`: `Board` implements `Alarm`; `ClockOnBoard`: so what is proved of
  `Alarm` holds of the running system, as long as `~StopNext`.

A call is put together by concatenation and interrupted between its accesses. `BInv`
says that the program has done n steps of some sequence w of whole calls (`Calling`), and
what is left, `rest`, is the remainder. How deep the program is in sections after each step
is a function d of the places in w (`Depths`), and the contexts saved, less those of an
interrupt and of `alt_tick`, are d[n] (`RestInv`): so sections are left as often as entered, on the
early return of `alt_alarm_start` as well. Inside a section nothing comes between two steps
(`Alone`), which keeps what a step has read until the next uses it: the tick
that was read is the tick when the alarm is filled in (`StartInv`), and the table and the
mask change together (`WriteInv`), so an enabled interrupt has a handler but for the one write in
between (`TableInv`). `HandlersAlone` is the innermost context under `alt_tick` being that of
an interrupted program, which has interrupts off: restoring it turns nothing on.

`AltFd` (module `AltFdProofs`), assuming `FdConstants`:

* `TableInvariant`: `IInv`; `KeepsPromises`: `AltFd` implements `Handles`.

Exclusiveness is not what `alt_fd_lock` was meant to give (section 6). What is left
rests on `LockLowest`, the strengthening that makes the invariant inductive: the only
descriptor a lock overlooks is the highest, so a locked descriptor is the lowest of its
device, the overlooked one finds it when it asks for a lock itself, and a later open
finds it too.

`Cache` (module `ServicesProofs`), assuming `CacheConstants`:

* `KeepsInStep`: `Coherent`.

`Coherent` holds for regions that start and end anywhere. It excepts `given`: the words that
had not reached the memory when `alt_dcache_flush_no_writeback` was called on a region that
puts their line at stake (`AtStake`), until they are stored to again. Those are the lines with a
word of the region, and, for a region that starts within a line, the line behind a word at
the same offset. `AtStake` is stated in words of the region, not by the loop of the code:
that the loop drops no other line is proved (`LinesAtStake`), and needs no assumption.

`Coherent` speaks of what is read; the invariant adds why: but for `given`, whatever line the
data cache holds has the last words (`Copies`), the memory has them unless that line is dirty
(`Kept`), no line of an uncached block is in the data cache (`Apart`), which holds
because blocks are whole lines (`WholeLines`), and what was handed over has reached the
memory (`Reached`). Two lemmas carry the arithmetic: the lines flushed for a region have
all its words (`LinesCover`), and they are at stake (`LinesAtStake`).

`Clock` (module `ServicesProofs`), assuming `TimesConstants` and `Fits`:

* `TimesKept`: `TimesRight`.

`TimesConstants` says that a second is a whole number of ticks and that times are
normalised. `Fits` says that the microseconds of the ticks at which the time is set fit in a
word; without it the theorem is false, which is what the run `settod` shows. In the
invariant the time at reset and the ticks since make up the time that was set and the ticks
since that (`WallInv`): `settimeofday` subtracts, reduces and borrows so that this number is
kept (`Seconds`, `Normalised`), however many ticks come between its reading of the ticks and
its storing. For the timestamp, the snapshot is the counter's value at one instant, and the
halves that are read are parts of it (`StampInv`).

`Profile` (module `ServicesProofs`), with no assumption on the functions and callers:

* `SamplerOwed`: `SamplerStarts`; `ProfileComplete`: `ProfileRight`.

For the sampler, whoever has cleared the flag is about to ask for a start or to write the
answer back (`Waiting`), and an answer that clears the flag for good means that the
sampler runs (`SamplerInv`). For the counts, `CountInv` says what the locals of a context in `mcount` stand for
(`Place`): an entry that was found is the function's, an arc that was found is the caller's,
and between the reading of a list's head and its writing the list is as it was, because the
section keeps the handler out (`SectionOK`). Each step then changes one list by one
arc, and the sums over all lists by what `calls` and `lost` are charged with. The sums are the community
modules' folds; what they are for sets of any size (`TotalSplits`: the sum is that of one
element and of the rest) is proved by the least set that violates it, as for `Cosine`.

## 5. What is only model-checked

* Liveness: `Settles`, `Finishes`, `WritesReturn`, `ReadsReturn`, `Served`. Fairness and
  ENABLED are out of the prover's reach.
* `LineRight`, `EioMeansAbsent`, `LockIsAlone` and `WallClock`, which the code violates
  (section 6). What `TimesRight` says once `Fits` is false is this last violation.
* The alarms where a callback stops the next one (`StopNext`): the theorems assume it away
  because the code does not survive it (section 6).

The theorems of the library on induction take an operator as a parameter, which the
installed provers cannot instantiate. That finite sets are well-founded can be cited without
one, and where the project needs induction, over engines and over sets that are summed, it
is done through the smallest counterexample.

## 6. Where code and words disagree

Each of these is a run that is expected to fail, and a finding in `PROJECT.json`:

* `monte_carlo_tb`: the bench waits 5 edges for a result that takes 6 (5 are in the
  vector's registers, one in the angle's). Its output pairs angles and
  cosines of different inputs; the bench `cosine_tb.v` waits 8 and is right.
* `uart_eio`: a blocking `write` answers -EIO, "Host not connected", although the
  driver holds the host for present.
* `alt_fd_lock`: a lock is granted beside another open descriptor of the device, if
  that is the highest (`alt_fd_lock.c:61`). In the run `/dev/null` is open as 3 and 4. The
  UART is not exposed while the standard streams are redirected to it: a lock of another
  of its descriptors meets 0 or 1 and is refused.
* `settod`: 71.6 minutes after start-up `settimeofday` computes the microseconds of the
  ticks in 32 bits, `gettimeofday` in 64: the time comes back changed
  (`alt_settod.c:84`, `alt_gettod.c:93`).

These were met while reading, and no run is about them:

* `tb.v:68` waits "6 cycles for computation to finish", in fact 10 edges, before it
  restarts; the computation takes 23, so both terms fall into the second sum.
* `unpacker_tb.v:30` (also `cosine_tb.v:35`): 0x33800000, "2^-30, smallest value we can
  represent", is 2^-24 and is unpacked to 0; the smallest input told apart from 0 is
  2^-22.
* `alt_fd_lock.c:47`: close is said to release the lock. On the standard streams,
  which are never released, it stays, and the device cannot be opened again.
* `alt_close.c:84`: a close with `O_NONBLOCK` answers EWOULDBLOCK, and has released the
  descriptor already.
* `alt_alarm_start.c:82`: for an interval of 0xffffffff the sum comes round to the present
  tick: the alarm fires at the next tick.
* `alt_tick.c:102`: a callback that stops the next alarm of the list leaves the walk on
  an entry that points to itself. With `StopNext` set, TLC shows the stopped alarm called
  again and again.
* `alt_dcache_flush_no_writeback.c:65`: the comment says that an unaligned request has "one
  more line left". Unless the region ends at or before that offset of its last line, the
  line more is the one behind the region, and stores of other data in it are dropped. Data
  that shares a line with the region loses its stores too. Both are in the model, and
  `Coherent` says which words they cost; in a flush with write-back the line more
  does no harm.
* `alt_gmon.c:167-170`: a handler that comes between the test of `pcsample_need_init` and
  its clearing starts the sampler, and the program then starts it again: a second
  buffer, and an alarm linked twice. `alt_gmon.c:139` and 229 take what `sbrk` answers as
  memory, also when it is -1.
* `alt_busy_sleep.c`: for a multiple of 65075262 us nothing is left for the last loop,
  which then counts down from 0 through all 2^32 values.
* `altera_avalon_timer_ts.c:57-58` says a timestamp after a roll-over is 0, lines 92-94
  say -1. The counter has taken its period again: it is 0, and `StampOfAnInstant` takes
  the count to start again with it. None of this driver's timestamp code is compiled in
  the present configuration, which selects no timer for it (`system.h:246`,
  `altera_avalon_timer_ts.c:48`); it is modelled as the code of a board that does.
* `alt_timestamp` called by a handler between the snapshot and the halves of the
  program's own call replaces the snapshot under it.
* `alt_alarm_start.c:50-53` warns of calls that wait in a callback. `dmaISR` calls `printf`
  in a handler: if its text did not fit into the UART's ring it would wait for an
  interrupt that cannot come. `WaitsOnlyWhenFull` says that it does not wait as long as
  it fits, which with 2048 characters it does unless `main` fills the ring first.

## 7. What is not modelled, and why

The board support package has some 15000 lines, of which some 5500 are neither comments
nor blank; half of those are generated constants, register macros, log functions that
are compiled out, and calls that only set `errno`. What keeps state is modelled.

* The arithmetic of the generated floating-point cores (some 5000 lines of generated
  VHDL): instantiated from a vendor's generator; their latencies, enables and resets
  are modelled. Rounding makes a float sum depend on its order; the models keep the
  order of the terms and not the rounding.
* Inputs that are negative or at least 256: the hardware does not support them.
* `reset_n` while it changes between clock edges; metastability.
* Several reads in flight. The slave answers reads in a pipeline but
  declares none pending, and the interconnect admits one.
* `times`, `sumVector`, `cosMcluren`, and what `printf` prints.
* The UART: `write` called by a handler while the program is in `write` (two writers of
  one ring); the exact filling of the FIFO at which the core asks for characters to
  send is a constant; calls for 0 characters, which answer -EIO, are in the model and
  in no instance.
* Alarms: starting an alarm that is registered, stopping one that was never started
  (its pointers are null), an interval of 0xffffffff. Interrupts: `alt_irq_interruptible`,
  which nothing calls.
* Files: the contents of files and of `struct stat`, several threads (the semaphores
  are empty in this build), the lists of DMA and flash devices, which use the same
  lookup.
* `alt_sbrk` and newlib's allocator: the profiler is taken to find memory, `memalign` to
  find a block or not.
* The time zone. The histogram of the profiler and its writing to a file.
* Saving and restoring registers, emulated instructions, constructors: assembler and
  tables without shared state. `_exit` is an endless loop.
* `alt_printf`, `alt_log_printf`, `alt_busy_sleep`: formatting, disabled, and time only.
* Python scripts, project files, simulation scripts, unused cores (`fp_sub`,
  `fp_add_sub`): no behaviour of the system.

## 8. Plan

Done, in this order: `Registers`, `Term`, `FpAcc`, `Top`, `FofX`, `SumServer` and their
proofs; `Engine`, `Cordic` and their proofs; `Cosine`; the benches; `HelloWorld`;
`JtagUart` with `CharPipe` and proofs; `Alarm` with proofs, `Irq`, `Board`; `AltFd` with
`Handles` and proofs; `Cache` with proofs; `Clock`; `Profile`; then the proofs of
`HelloWorld`, `Cosine`, `Board`, `Clock` and `Profile`; `System` and its proofs; the exact
rotation; the cosine. Every safety property of a passing run is now a theorem.

What could follow:

1. A reset of `System`, in which the program starts again while words of the old run are in
   the pipelines.
2. `Handles` for `AltFd` with the callbacks of drivers in steps of their own.
3. A heap for `Profile`: `alt_sbrk` and `mcount_allocate`, and what happens when memory
   runs out.
4. An `FofX` with two readers, and a `JtagUart` with two writers, to say exactly what
   each would break.
