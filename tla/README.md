# A verification project for the CS:APP labs

The repository holds one person's solutions to the labs of *Computer Systems: A
Programmer's Perspective*. Each lab is a program of its own; nothing is shared
between them. Two of them are systems in the sense that interests a model
checker, and they come first: the **tiny shell**, where a read/eval loop, three
signal handlers and any number of child processes interleave over one job list,
and the **malloc package**, where every request rewrites boundary tags and
linked lists in place and a mistake shows up many requests later. The
**pipelined Y86-64 processor**, whose stalls, bubbles and forwarding paths meet
in combinations that no test program was written for, its sequential sibling
and the cache simulator follow, then the smaller programs: the assembler, the
compiler of the control logic, the matrix transpositions, the bit puzzles with
their driver, the timers and the driver of the malloc lab.

## 1. Inventory

| Component | Source | State | Operations | What is hard |
|---|---|---|---|---|
| Job list | `shell lab/tsh.c` 558-690 | `jobs[MAXJOBS]`, `nextjid` | `addjob`, `deletejob`, `fgpid`, `getjobpid`, `getjobjid`, `maxjid`, `pid2jid` | first-match loops over an array with holes; the counter wraps |
| Read/eval loop | `tsh.c` 153-374 | signal mask, errno, locals of `eval`, `do_bgfg`, `waitfg` | a command line, `bg`, `fg`, `quit`, waiting for the foreground job | interrupted anywhere a signal is not blocked |
| Signal handlers | `tsh.c` 376-485 | their locals, nested in each other | SIGCHLD, SIGINT, SIGTSTP, SIGQUIT | pending signals merge, handlers nest, errno, a pid that is stale when used |
| Children and kernel | outside; `mystop.c`, `myint.c` as examples | running, stopped, zombie, reaped; pending signals | fork, setpgid, execve, exit, stop, continue, `waitpid` | run at any time relative to the shell |
| malloc package | `malloc lab/mm.c` | the heap: tags, links and payload in the same words; list heads | `mm_init`, `mm_malloc`, `mm_free`, `mm_realloc` | four cases of coalescing, splitting, growing in place, moving; failure half way |
| Simulated memory | `malloc lab/memlib.c` | `mem_brk` | `mem_sbrk`, `mem_reset_brk` | the end of memory |
| malloc driver: a trace | `malloc lab/mdriver.c` | blocks and sizes of a trace, list of payload ranges | replay of a trace with checks after each request | long sequences of legal requests |
| malloc driver: the judge | `mdriver.c` | traces, phases, errors, high-water mark | libc and mm over the traces; scores | does it report exactly what breaks the contract? |
| malloc driver: timing | `fcyc.c`, `clock.c`, `ftimer.c`, `fsecs.c` | counter halves, K best samples | measure a function in three ways | counters that wrap; samples in any order; when to stop |
| Cache simulator | `cache lab/csim.c` | lines (valid, tag, time), counters | one memory access | LRU by time stamps; lines that are never initialised |
| Transposition | `cache lab/trans.c`, `test-trans.c`, `tracegen.c` | two matrices, eight locals, the cache they go through | three blocked loops; validation; score | a quarter of a block is parked in the wrong place |
| Y86-64 instruction set | `architecture lab/sim/misc/isa.c` | registers, memory, condition codes, pc | `step_state` | order of checks and writes when an instruction fails |
| Sequential processor | `sim/seq/ssim.c`, `seq-full.hcl` | the same, one cycle at a time | one cycle | agrees with `step_state`? |
| Pipelined processor | `sim/pipe/psim.c`, `pipe-full.hcl` | five pipeline registers besides | one cycle: stall, bubble, forward | data and control hazards that meet in one cycle; exceptions are precise? |
| Simulators with `-t` | `run_tty_sim`, `sim_run`, `sim_run_pipe` | counts, limits, the reference state | run, run `step_state`, compare | a run cut short: what has been stored, what has not? |
| Assembler and loader | `sim/misc/yas.c`, `yas-grammar.lex`, `isa.c` | two passes over lines, symbol table, code bytes | labels, operands, `load_mem` | labels before their line; lines over each other; leftover bytes |
| HCL compiler | `sim/misc/hcl.y`, `node.c` | nodes in memory, symbol table | parse bottom up, check, print C | lists of nodes that share a field |
| Bit puzzles and `btest` | `data lab/datalab-handout` | options, totals, an alarm | pure functions on words; tests with timeouts | overflow; a SIGALRM that comes late |
| Attack lab, bomb lab | disassemblies and answers | - | - | no program source |

How they interact. In the shell, the handlers and the main flow share `jobs`,
`nextjid`, `errno` and the signal mask; the kernel calls the handlers, and the
shell calls the kernel (`fork`, `kill`, `waitpid`, `sigsuspend`,
`sigprocmask`). In the malloc lab, the driver calls the package, which calls
`mem_sbrk`; driver and package share the heap, since the driver fills the blocks
it holds and reads them back. The other labs are pipelines of files.

What makes each correct:

- *Job list*: a map from process to state, whatever holes a session leaves; one
  operation on one process leaves the others alone.
- *Shell*: no ghost job and no lost child; at most one foreground job; a stop is
  shown; keys reach the foreground job and no other; the wait for a foreground
  job ends; the states move only along the arrows drawn at the head of `tsh.c`.
- *malloc*: blocks tile the heap, the free lists hold exactly the free blocks,
  the allocated blocks are exactly those the program holds, contents survive,
  and a failed request changes nothing.
- *Cache*: hits, misses and evictions are those of a least-recently-used cache.
- *Processors*: what retires is what `step_state` executes, and a run that ends has
  stored what its instructions stored and nothing else.
- *Assembler*: what is loaded at the place of a line is what the line says.
- *HCL compiler*: the function it prints returns what the definition says.
- *Transposition*: B is A transposed at the end, nothing finished is undone, and
  misses stay within what full points allow.
- *Bit puzzles*: `bits.c` agrees with `tests.c`, and `btest` says so.
- *Driver and timers*: a verdict is reported exactly when deserved; a time is the
  time that passed.

## 2. Modules

```
JobControl           what the shell promises about jobs (abstract)
   ^ implemented by
Tsh  ---- extends --- JobList ------ JobListClient   (the list by itself)
 |                       |                 |
MCTsh, MCTshLive      JobListProofs    ProgramsProofs
TshClaims, TshProofs

Mm                   the malloc package and memlib, as operators on a heap
 ^
MmDriver             the driver that runs a trace against it --- MmProofs

Mdriver              the driver's verdict on any malloc package
Timing               fcyc, clock and ftimer, with which it measures

Lru                  a least recently used cache (abstract)
 ^ implemented by
Csim                 the cache simulator --- CacheProofs
Trans                trans.c, validated and scored as test-trans does --- CacheProofs

Isa                  words, condition codes, registers, memory access --- IsaFacts
 ^       ^       ^
Y86     Pipe    Seq  the instruction set; the two processors
 ^       ^       ^   (Seq maps itself to Y86) --- SeqProofs
 | PipeIsa       |   the mapping of Pipe to Y86 --- MCPipe
 |    |          |
IsaCheck         |   what both simulators do with -t: step_state up to the limit
 |    |          |
 |  PipeTty      |   run_tty_sim of psim --- MCPipeTty, PipeProofs
 \------------ SeqTty  run_tty_sim of ssim --- MCSeqTty, SeqProofs
Y86Programs          the programs of MCPipe, MCSeqTty and MCPipeTty

Yas                  the assembler and load_mem
Hcl                  hcl2c
Bits, Btest          the puzzles with their reference functions; btest

MCPrograms           JobListClient, Btest, Yas, Trans, Hcl, Timing, Mdriver, Csim: one instance each
ProgramsProofs       theorems about JobListClient, Btest, Mdriver, Timing and Yas
```

### 2.1 The shell

`JobList` is the array with its helpers as operators: `addjob(js, nj, pid, st)`
gives the new array and the new `nextjid`. A job is a record of `pid`, `jid`
and `state`; the command line of a job is left out because nothing but output
reads it. `JobListClient` drives it alone, with more processes than slots, by
any sequence of calls in which a process is added once while it lives.

`Tsh` models the program.

| Model | Code |
|---|---|
| `jobs`, `nextjid` | the globals of the same name |
| `pc`, `loc` | where the main flow is in `eval`, `do_bgfg` or `waitfg`, and its locals |
| `mask`, `saved` | the blocked signals; the mask `sigsuspend` will put back |
| `stack`, `frame` | handlers that have started, innermost first, and the locals of each; a handler's own signal is blocked while it runs, so there is one frame per signal |
| `errno` | EINTR or any other value (0, ESRCH, ...), which is all the code tells apart outside the SIGCHLD handler; ECHILD is set and restored inside one step |
| `pending` | signals the kernel holds; a set, because pending signals of a kind merge |
| `proc`, `held` | each child as the kernel sees it; stopped children with an undelivered SIGINT |

The grain of a step is given by what can interleave. Code that runs with every
signal blocked is one step, since no handler can see its middle and children do
not touch the shell's memory. Code that runs unblocked is cut at each access to
shared state: `do_bgfg` has a step for the state change, for each read of
`j->pid`, for the `kill`; `waitfg` has one for its test and one for
`sigsuspend`; the SIGCHLD handler has one for `waitpid` and one for the update
of the list, between which the other handlers may run. `sigsuspend` replaces the
mask and sleeps in one step, and returns, with EINTR, when the outermost handler
does. Between `fork` and `execve` a child is first in the shell's process group,
then in its own with the shell's handlers still installed, then runs its
program; a key that comes early is treated in each of these as the kernel would.

The printed text, the parsing of the command line, and the messages for
commands that fail are left out. `quit`, end of file and a failing `fork` are
the action `Exit`; a failing `execve` is a child that ends.

`JobControl` says the same without signals, masks or an array: a process is
absent, new, in FG, BG or ST, or runs without being a job when the list was
full, and moves along the arrows of `tsh.c:28-35`. `Tsh` maps its job list and
kernel state to it by `status` (in `Tsh`), and `JC!Spec` is checked as a
property. `TshClaims` holds what comments of `tsh.c` say and the code does not
do.

### 2.2 The malloc package

`Mm` keeps the heap as the code does: words addressed by byte offset, in which
headers, footers, list links and payload lie side by side, the array of list
heads, and the break. `PUT`, `HDRP`, `FTRP`, `NEXT_BLKP`, `PREV_BLKP` and the
rest are the macros. The routines are operators from a heap to a heap (and a
pointer): nothing here runs concurrently, so a request is one step. That links
and payload share words matters: a block that is freed and still on a list, or
grown over its neighbour's links, damages the same words it would damage in the
program. Memory a compiler would leave undefined is not read by the code, and
is zero here.

`mm_realloc` has its three ways: shrink in place (the tail is freed and merged),
grow into a free next block, or allocate, copy and free. It moves with the
rounded size, as the code does (`mm_malloc(asize)` rounds it again).

`MmDriver` is `eval_mm_valid`: a trace is any sequence of requests in which
block numbers are first allocated in order (renumbering the blocks of a trace
file changes nothing). Every answer goes through `add_range`'s checks; the
block is filled with its number; `mm_realloc`'s result is checked for the
contents it must keep; a request that fails ends the trace; `NextTrace` starts
again with an empty heap.

### 2.3 The cache simulator

`Csim` keeps `cache.set[i].line[j]` with valid bit, tag and time of last use,
the timer (`useTimer`) and the three counters. A step is one line of the trace. The loops
over the lines of a set become what they find: `Holding` (the lines that
`FindLine` refreshes), `Blank` (first one is filled), `Victim` (the first of the
oldest). A modification uses the set twice with one time. `d_addr` cuts an
address to the width of `unsigned int`, and `Leftovers` is what malloc's memory
may hold in the lines that `main` does not initialise. `Lru` has none of this:
it holds blocks, and knows of two blocks of a set which was used after the
other. `ImplementsLRU` says that each step of `Csim` is, if the blocks held are
those whose tag is in a valid line of their set (`Held`) and the times of last
use say which is newer (`UsedAfter`), the use in `Lru` of the very block that
the trace names; `LRU!Spec` alone would not notice a hit on one block that is
treated as a hit on another.

### 2.4 The Y86-64 processors

`Isa` is the part of `isa.c` that all simulators share. `Y86` is `step_state`,
one action for each kind of instruction, and `Pipe` is the pipelined processor:
`psim.c` with the control logic of `pipe-full.hcl`, the solution of the lab's
part C with `iaddq`.

The state of `Pipe` is what lasts from one cycle to the next: memory, register
file, condition codes and the *current* halves of the five pipeline registers
(`F`, `D`, `E`, `M`, `W`). The *next* halves and all signals are functions of
it, and have the names they have in the code: `do_mem_stage` is what memory
passes on (a record `w`), `set_cc(w)` looks at it, `do_id_stage(x, w)` forwards from
both, as the order of the calls in `sim_step_pipe` has it. `sim_step_pipe`, the
only action, writes back, stores and loads, stalls or empties each register by
`Update`. It is one cycle from the end of the stages of one call to the end of
the stages of the next; `psim` stops at the first status that is not AOK, which
is the guard `Stat = "AOK"`.

`PipeIsa` relates the two. An instruction counts as executed when it enters the
memory stage: no older instruction can cancel it from then on, and the
condition codes it has set are those of `cc`. The state of the instruction set
is the processor's with the instructions in memory and write-back completed;
its pc is that of the oldest instruction not yet there, or the address that will be
fetched; its status is the oldest failure. Each cycle is then one step of `Y86`
or none.

Abstractions. A unit of address is one word or one instruction, so that the 8
of the code is 1 and misaligned access does not exist; code and data are apart,
so a program neither reads nor changes itself; beyond the program there is
`halt`, as there is zero in memory. The register fields are those that the
assembler writes, so `step_state`'s checks of register numbers and of
instructions that are cut off by the end of memory (and `psim.c:1403`, which
refuses five bytes more) do not arise. The GUI and the log are left out.

`Seq` is `ssim.c` with `seq-full.hcl`. `ssim` stores what a cycle has computed at
the beginning of the next one, so its state is the architectural one and a
`latch` of what `update_state` is going to write. `sim_step` is one cycle; what
it computes is the operator `Computed`. The instruction set's state is the
processor's with the latch written (`ReachedReg`, `UpdatedMem`, `latch.cc_in`).

`SeqTty` and `PipeTty` are `run_tty_sim` of the two simulators, which meet
`step_state` there: with `-l` as `limit`, `sim_run` or `sim_run_pipe` until the limit
or a status other than AOK, then `step_state` from the same initial state as often,
then the comparison (`match`) of registers, memory and condition codes. The second
half is the same text in `ssim.c` and `psim.c`, and is the module `IsaCheck`. `psim`
passes down for how many instructions the limit has room (`ahead_mem`,
`ahead_ex`): the last ones may not store or set condition codes if enough others
are ahead of them.

### 2.5 The assembler, the compiler of the control logic

`Yas` is both passes of `yas.c` over a sequence of lines, a line being the tokens
that the scanner delivers: `tokens` collects up to twelve, `error_mode` and
`hit_error` say how an error goes on, `bytepos` and `symbol_table` are built in
the first pass, `code` in the second. Characters and number formats are the
scanner's and are left out; a token of no kind is `Invalid`. The `.yo` file that
comes out is what `load_mem` reads into `memory`. `LoadedAsWritten` says in terms
of the source alone (`Place`, `LabelOf`, `Meaning`) what `step_state` has to find:
the instruction that a line names with the operands it takes, whatever tokens follow
them, which yas does not read either. Numbers are those that fit in 32 bits
(`LinesAssumption`): eight bytes of an operand are then its four low ones and its sign.

`Hcl` builds the node structures of `node.c` as the parser's productions call for
them, bottom up, in an array of nodes with the fields `arg1`, `arg2` and `next`,
and checks and evaluates them as `gen_expr` walks them. The C text that is
printed is represented by the value it has. Beside each node the parser's stack
holds what the source says it means, and `ReturnsWhatItSays` compares the two.
It is the one module with recursive operators.

### 2.6 Bit puzzles, transpositions, timers, driver

`Bits` has an `int` as the set of its one bits, all 32 of them, so that `&`, `|`,
`~` and shifts are set operations and addition is defined by its carries; floats
are sign, exponent and fraction. `Btest` is `btest.c`: options one at a time,
then each puzzle, its values (`gen_vals`, `TEST_RANGE` scaled down), the alarm
(`SIGALRM`, `siglongjmp`), the tests, the score. An alarm that comes when its
frame is no more ends in "gone".

`Trans` lists, pass by pass of the innermost loop, the loads and stores of
`trans.c` in order and runs them through B and a direct-mapped cache of 32 blocks
of 32 bytes, with the matrices where the linker has put them. It is at full size
(32 x 32, 64 x 64, 61 x 67), not scaled down, because the scores depend on it.

`Timing` is `fcyc.c` with `clock.c` (a counter read in halves, the tick
compensation), `add_sample` and `has_converged`, and `ftimer.c` by interval timer
and by time of day. `Mdriver` is `main` of `mdriver.c` over phases and traces,
with a malloc package that may return anything (`Addresses`), or fail; `broken`
and `enclosed` record what the package has really done. A trace resizes and frees
only what it holds, and asks for bytes (`TraceAssumption`), as every trace file of
the repository does.

The eight programs of `MCPrograms` share no state. A behaviour runs one of them,
named by the variable `program`; all others stay at one first state each.


## 3. Runs

| Run | Module, configuration | Instance | Question |
|---|---|---|---|
| `shell_safety` | MCTsh, TshSafety | 2 processes, 2 slots, both keys | no ghost jobs, no lost children, one foreground job, stops shown, keys spare background jobs |
| `shell_refines` | MCTsh, TshRefines | 3 processes, 2 slots, no keys | does the shell implement `JobControl`, also with a full list? |
| `shell_liveness` | MCTshLive, TshLiveness | 2 processes without keys, or 1 with ctrl-z | is every zombie reaped; does the foreground wait end; does a key that finds the shell waiting reach its job? |
| `mm_trace` | MmDriver, MmTrace | 64 bytes of blocks, 3 block numbers, 3 sizes | is the heap consistent after every request of every trace? |
| `pipe_isa` | MCPipe, PipeIsa | all programs of 4 out of 18 instructions | does the pipelined processor execute the instruction set? |
| `ssim_tty` | MCSeqTty, SeqTty | all programs of 3 out of 18 instructions, limits 2, 4 and 22 | does ssim pass its own `-t` check, is it one latch behind when cut short, and does it execute the instruction set? |
| `psim_tty` | MCPipeTty, PipeTty | the same | does psim pass its own `-t` check, whatever stores the limit suppresses? |
| `programs` | MCPrograms, Programs | one instance of each of eight programs | see below |
| `shell_errno` | MCTsh, TshErrno | 2 processes, no keys | *violated*: the handler takes an old errno for an error |
| `shell_full_list` | MCTsh, TshFullList | 2 processes, 1 slot | *violated*: a NULL job is used when the list is full |
| `shell_lost_wakeup` | MCTsh, TshLostWakeup | 1 process | *violated*: `fg` sleeps on after its job has gone |
| `pipe_absolute` | MCPipe, PipeAbsolute | programs of 2 out of 3 instructions | *violated*: an address without a register gets something added |

What `programs` asks, program by program:

| Program | Properties | Question |
|---|---|---|
| job list | `PidsUnique`, `OthersUndisturbed` | is the array a map from processes to states, whatever was added and deleted before? (4 processes, 3 slots) |
| `btest` | `WrongExactlyWhenMissed`, `FullMarks` | does `bits.c` agree with `tests.c` but for the inputs named, and does a session say so? |
| `yas` | `LoadedAsWritten` | is what is loaded what each line says? (all files of up to 3 out of 26 lines) |
| `trans.c` | `Transposes`, `RightStaysRight`, `FullPoints` | is the result right and undisturbed, and are the misses within the limits? |
| `hcl2c` | `ReturnsWhatItSays` | does the function it prints return what the definition says? |
| timers | `MeasuresElapsedTime`, `KeepsKBest` | is a time what passed; are the K best samples kept, in whatever order? |
| `mdriver` | `VerdictExact`, `HighWaterMark` | does it report exactly the packages that break their contract, and score the most that was ever allocated? |
| `csim` | `LinesDistinct`, `CountsMatchContents`, `ImplementsLRU` | does it count and evict like an LRU cache? (2 sets of 3 lines, 5 addresses, traces of 5 lines) |

### Bounds, and why they are enough

- *Processes and slots.* Two children are the fewest for merged SIGCHLDs, for a
  background job next to a foreground one, and for a handler that reports one
  child while another changes. Three over two slots add the full list and a
  child that is not a job. Process identifiers are reused once reaped, so a
  session is unbounded; it is not cut after so many forks. Processes are
  symmetric in the safety and refinement runs, and symmetry is off in the
  liveness runs. The job list by itself has four processes over three slots, so
  that holes, a full array and `nextjid`'s wrap meet.
- *`MaxJid`* bounds the job IDs that a new job may take: `nextjid` would grow
  forever below MAXJOBS in sessions that keep a job alive. It is a guard of
  `Fork`, not a change of `addjob`.
- *Keys.* The keyboard may press a key again as soon as the last one has been
  delivered. The liveness run has two kinds of sessions (`MCTshLive`): two jobs
  and no key, and one job with ctrl-z. What a session leaves out is what a user
  need not do, and on which no fairness depends: no fair step is disabled. The
  question about keys is about one job.
- *Heap.* 64 bytes hold four blocks of the smallest size (16), enough for a free
  block between two allocated ones with a further one beyond, hence all four
  cases of `coalesce`; 4, 12 and 24 bytes need blocks of 16, 24 and 32 bytes, so
  that a remainder of 8 (which cannot be a block) and of 16 (which is just one)
  both occur, blocks grow in place, move, and memory runs out. Six lists
  instead of 32 make the last one the catch-all and keep three of them in use.
- *Cache.* Four blocks compete for a set of three lines, a fifth goes to the
  other set, and two addresses lie inside their block; one address has bits above
  the word width (5 bits here), which are cut off without making two blocks one
  (`NoAliases`). Five lines of trace fill a set, change its order and evict; each
  step is compared with the abstract cache, so later traces repeat these steps
  from the states already reached. Old data in the uninitialised lines has a tag
  that the trace uses and the latest possible time.
- *Programs.* One instruction sets the stack pointer, four follow in any of
  18^4 ways. The combinations that are hard need no more: a load, its use, and a
  branch or `ret` around them; a cancelled path with a failing instruction in it;
  `popq %rsp` followed by a `ret`; a failing store followed by one that sets
  condition codes. Jumps go forward and backward, so loops of any length occur.
  Two registers, one of them the stack pointer, make every pair of instructions
  a possible dependence; words of four bits overflow soon; three words of data make
  most stack accesses legal and the first one over the edge illegal. The 18 name
  a register in each memory reference: what happens otherwise is `pipe_absolute`.
  `ssim_tty` and `psim_tty` have three instructions after the prelude for the sake of time; the limits
  cut a program before its end, in its last cycles (pipeline full, draining) or
  not at all. Loops that outlast 22 cycles are cut by that limit.
- *Assembler.* Three lines are enough for a label used before and after it is
  defined, a line over another, `.pos` backwards and `.align` between; the 26
  lines have each operand format, each kind of error, and an over-long line.
- *Control logic.* Definitions nest to the depth at which each list field is
  used by another construct: a set of case lists, a case of sets. Symbol tables
  are full at two.
- *Timers.* Counter halves wrap at 4, seconds at 4; starting times are just
  before and after a wrap; three durations, K = 2 and four samples give every
  order of samples and both ways to stop. The tolerance is a quarter, since
  times are small.
- *Driver.* 24 bytes of heap and the addresses 0, 8, 16 (good), 20 (misaligned),
  24 (outside) allow each violation of the contract; block number 257 shares its
  fill byte with 1; two traces show that an error of the first stays.
- *Bit puzzles.* Words are not scaled. `TEST_RANGE` is 9 instead of 500000, and
  the arguments for `-1`, `-2`, `-3` are boundary words (`MCArg1`): the ends of the
  numbers and of the digits, and floats on both sides of every edge that the puzzles
  test, exponents 149, 150, 157 and 158 among them, where `floatFloat2Int` shifts to
  the right, not at all, to the left, and out of the word, with and without fraction
  and sign. The inputs between are not tried, but proved (section 5). One random
  value and one timeout per session are explored.
- *Deadlock* is checked in every run but the processors' (`pipe_isa`,
  `pipe_absolute`, `ssim_tty`, `psim_tty`), which stop at a failure or `halt`, and `programs`, whose programs end. The shell may stop only in
  `exit` or a crash, which are explicit in `Stopped`; `mm_trace` never does.

### Fairness

Only `shell_liveness` and `shell_lost_wakeup` use it. `FairSpec`
asks that the main flow, when it could take its next step again and again,
takes it (`SF(MainStep)`): keys and children interrupt it, but are slower than
instructions. A signal that is pending and unblocked again and again is
delivered, and a handler that could run again and again runs, signal by signal;
strong fairness, because another handler may interrupt it each time before its
next instruction. A child gets to its `execve`. Nothing obliges a user to type a
command or press a key, or a job to end: no property depends on it. That the
pipeline never runs empty (`SomethingUnderWay`) needs none, since it is said of
each single step.

## 4. What the runs showed of the code

The passing runs hold of the code as it is. Each of the following is a run that
ends in a behaviour of the program which contradicts a comment of it:

- `shell_errno`: after its loop `sigchld_handler` exits the shell unless errno
  is ECHILD or EINTR (`tsh.c:417`). When other children are alive `waitpid`
  returns 0 and sets nothing, so the handler judges what it happened to
  inherit. A shell whose first job stops exits. After the first foreground wait
  errno is EINTR from `sigsuspend`, which hides the mistake most of the time.
- `shell_full_list`: with the list full, a background job is printed through
  the NULL that `getjobpid` returns (`tsh.c:200-201`).
- `shell_lost_wakeup`: `fg` waits with no signal blocked, so that the SIGCHLD may
  come between the test and `sigsuspend` (`tsh.c:368-369`); if it comes earlier
  still, `waitfg(0)` compares 0 with 0 for ever. `eval` blocks signals around the
  same loop and is right, which `ForegroundReturns` confirms.
- `pipe_absolute`: a memory reference without a register (`mrmovq data,%rax`)
  has RNONE as its source, and `d_valB` (`pipe-full.hcl:228-235`) forwards to it
  from any instruction ahead whose destination is RNONE too. With two such loads
  in a row the second reads from the sum of both addresses. The repository's
  own `psim -t` reports the difference from `step_state` for that program;
  none of its test programs has one.

The models show more, which contradicts no comment, or which a passing run
states exactly as it is:

- A key typed between `fork` and the child's `setpgid` and `execve` is dropped
  (`kill` fails with ESRCH, which `Kill` accepts, or the child has the shell's
  handler). `KeyReachesForeground` is therefore about a running program.
- `do_bgfg` records the new state before it sends SIGCONT (`tsh.c:353-354`): a
  stop that is reported in between leaves a running job listed as stopped until
  its next change.
- When `pushq`, `call` or `popq` fails, `step_state` has moved `%rsp` and the
  processors have not (they stop before they write back). `Completed` in `PipeIsa`
  says so; `psim -t` reports a difference for such a program (`prog10.yo`, which
  its makefile does not test). `CheckVerdict` states the verdict with this case
  (`StackFault`) in it.
- With `-l`, `psim` counts cycles: `gen_Stat` shows no bubble (`pipe-full.hcl`,
  `psim.c:762`), so `icount` grows in each, although `psim.c:748` speaks of
  instructions. A run that ends by its limit therefore has executed fewer.
- `bits.c` is wrong for inputs that `gen_vals` does not reach (`Missed`):
  `floatScale2` keeps the fraction when the exponent becomes 255,
  `floatFloat2Int` at exponent 158, and `floatPower2` takes every x from -149 to
  -1 for too small. `FullMarks` shows that a session without options passes all
  the same.
- `btest` cancels no alarm: one that comes between two tests, or after the last
  of a function that was fast, jumps into a frame that has returned
  (`pc = "gone"`).
- `yas` leaves `.pos -8` in place as address `0xff8` while a label there is -8;
  ignores tokens behind a complete line; takes a line's 13th token as an
  error of the next; does not check the size of its table of 1000 symbols.
  `LoadedAsWritten` leaves out, by its premises, files whose places are
  negative.
- `hcl2c` links the elements of a set and the arms of a case by the same
  field: a case list inside a set is cut or joined to its neighbours
  (`nested`). The types of a set's elements are never checked, and an empty case list is
  a NULL node on which a parent crashes, after an error has been counted.
- `mdriver` does not notice a payload that contains an older one with room on
  both sides (`enclosed`, `mdriver.c:409`).
- The scores of `trans.c` hold for the layout of the linker. The submission's
  misses for 61 x 67 are 1992 of 2000 allowed; with A at another offset within
  a cache block the limits would not all be kept.
- `fcyc` calibrates its compensation late, so that the first samples may be
  compensated by another cost than the last (`MeasuresElapsedTime` holds each
  against the cost then known). The interval timer has no handler: a function
  that takes longer than it is set to ends the driver (`killed`).

## 5. Proofs

TLC checks small instances; the theorems hold for every value of the constants:
any set of processes and number of slots, any heap size and trace, any geometry
of the cache, any program for the processors.

- `JobListProofs`: facts about each helper of the job list. The searching loops
  give the first slot that fits (`FirstSlotFacts`, `GetjobpidFacts`); `addjob`
  and `deletejob` change at most one slot and keep types (`AddjobFacts`,
  `DeletejobFacts`) and uniqueness (`AddjobUnique`); `maxjid` is bounded by what
  the array holds.
- `ProgramsProofs.TypeCorrect` and `.PidsStayUnique`: any session.
- `ProgramsProofs.OthersStayUndisturbed` (`OthersUndisturbed`): a call writes one
  slot, which was free or held the process that the call is about (`OnlyOne`). A
  process in another slot is still found there, because no process is listed
  twice; so nobody else's state changes, and `addjob` leaves its child out only
  when no slot is free.
- `TshProofs.TypeCorrect`: `TypeOK` is inductive with `LocalsOK`, which says
  that after `fork` the local `pid` is a child, and that inside `do_bgfg` `j` is
  a slot.
- `TshProofs.NoChildIsLost`: while a child has a change to report a SIGCHLD is
  pending or its handler is in its loop. This needs only the types: every step
  that makes a child waitable sets the signal pending, and the handler leaves
  its loop only when no child is waitable.
- `TshProofs.NoGhostJobs` (`ReapedNotListed`): not inductive by itself. A reaped
  child would stay listed if `addjob` ran after its `deletejob`, so the
  invariant must say that no SIGCHLD handler is running, or can start, between
  `fork` and `addjob` (`ForkWindow`: SIGCHLD is in the mask, no SIGCHLD frame is
  active), and for that, that masks are restored in the order in which handlers
  nest (`Nested`: each frame on the stack holds the mask its interrupted flow
  had, and its own signal is blocked above it). `RInv` is the conjunction; the
  proof goes action by action.
- `TshProofs.OneForegroundEver`: the foreground job is always one that `eval` or
  `fg` is concerned with (`FInv`): the slot in `do_bgfg`'s local `j`, or the
  process that `waitfg` waits for. So none is left when `waitfg` returns, since
  `fgpid` is then another (`FgpidFacts`), and none exists when a command sets
  one. Handlers only take jobs out of the foreground.
- `TshProofs.KeysSpareBackground`: `KInv` says the same of each slot as the
  property says of `getjobpid`'s. A handler chooses a job in the foreground;
  only the main flow puts jobs in the background, and it does not run while a
  handler does (`MainAlone`, from `Nested`).
- `TshProofs.StopsAlwaysShown`: the property by slots (`StoppedShown`), with what
  makes it inductive: until `kill` the local pid of `bg` and `fg` is that of
  their slot, as long as the slot is in use (`ContinuesSlot`), so that SIGCONT goes
  to the very process whose state they overwrote; and a child is not stopped
  before it is listed (`NewNotStopped`).
- `TshProofs.EveryChildIsListed`: if there are at least as many slots as
  processes. `addjob` finds a free slot because a full array would map the slots
  one to one into the other processes (`RoomForChild`, a pigeonhole argument on
  `ReapedNotListed`), and `deletejob` takes out only a process that is reaped
  (`EndedIsReaped`).

- `TshProofs.Implements` (`ImplementsJobControl`): each step of the shell, of a handler or
  of a child is a step of `JobControl` or leaves what it sees alone. The invariant
  `CInv` joins `RInv` and `FInv` with three facts: a listed job is in one of three
  states, `bg` and `fg` ask for BG and FG, and what the handler is going to delete
  is reaped. One lemma for each action that writes the list names the arrow that it
  follows; that there is no other foreground job when `eval` or `fg` make one is
  `OneForeground` at work.

- `CacheProofs.LinesStayDistinct`: `LinesDistinct` for every geometry and trace,
  if no left-over line looks valid (`BlankLeftovers`). Between the two uses of a
  modification the time has already been given to a line, so the lemmas speak of
  a set that is being `Using` a tag: whoever carries the present time holds that
  tag. `VictimIsOldest` shows that `EvictLine` takes a least recently used line.
- `CacheProofs.CountsAlwaysMatch` (`CountsMatchContents`): an access leaves the valid
  lines as they are, or fills one more, or refills one (`Serves`), and counts
  accordingly; the types need that set number, tag and offset make up the address
  (`Addressing`). Hypotheses: `BlankLeftovers`, and `TraceFits`: a trace is shorter than
  the timer's range.
- `CacheProofs.Implements` (`ImplementsLRU`): an access finds the line of the block it
  names, since a tag in a set belongs to one block (`OneBlock`, from `NoAliases`) and
  every valid line is a block of the trace (`Known`); a full set is one with all its lines valid
  (`FullSet`); the victim is the block used after no other (`KeptByLru`); what
  the lines then hold is what `Lru` holds (`ContentsAfter`). The invariant is
  `LInv`. Hypotheses: `BlankLeftovers` and `NoAliases`, which says that the cut to
  `unsigned int` merges no two blocks of the trace.
- `CacheProofs.TransTransposes` and `CacheProofs.TransRightStaysRight` (`Transposes`,
  `RightStaysRight`): the invariant `TransInv` says what B holds after each pass, as a
  closed form (`Expected`): with blocks, an element is there once the number of its
  row among the rows of all blocks is passed; for 64 x 64 it is missing, parked
  or right, by how many of the twelve passes over its block are done (`Stands`).
  That a pass takes B from one form to the next (`PassStep`) is derived from its
  loads and stores: `Performed` is a chain of machines (`PerformedIs`), loads
  fill the registers and leave B, stores to different cells do not meet
  (`Loads`, `Stores`, `CopyPass`, `BlockPass`), the cells of different elements
  are different (`CellsOf`), and the numbers of the passes are those of the rows of the
  blocks (`Place32`, `Place64`, `Place67`). For 64 x 64 the second kind of pass finds what it
  moves just where the first has parked it (`MiddleStep`). Both theorems then
  read off the form: it is the transposed matrix after the last pass
  (`ExpectedEnd`), and what is right in it stays (`ExpectedStays`). A B that was not
  touched is not taken for transposed, because A's first element is not junk and
  a matrix has an element.
- `ProgramsProofs.VerdictStaysExact` (`VerdictExact`): for any package and any traces.
  As long as a trace is valid, the tables and the range list hold what the trace
  holds: one range for each block, no two at one address (`Tracks`; `TracksRemoved` and
  `TracksAdded` for `remove_range` and `add_range`). So the checks of an answer
  compare it with just the blocks it must be apart from, and an end of the new
  range lies in an old one exactly if they overlap and it does not go around the
  old one (`OverlapTells`). `Counted` makes each trace correct or an error, once.
- `ProgramsProofs.HighWaterMarkStaysExact` (`HighWaterMark`): the bytes allocated are a
  sum over the requests that hold a block now (`Live`). `MapThenSumSet` is a recursive
  function on the subsets of a set; that it exists and that any element may be
  taken out of the sum (`WeighsExist`, `WeighsAny`) is proved with smallest
  counterexamples. A request takes one other out of `Live`, or none (`LiveNext`), and
  what `total_size` gains is what the sum does (`SizeSumNext`). `Utilized` is inductive
  with the invariant of `VerdictStaysExact`, which says that requests name blocks
  that are held.
- `ProgramsProofs.KBestStayKept` (`KeepsKBest`): the samples so far have a rank each,
  equal ones by the order in which they came (`RankOrders`); `values` holds those of
  rank 1 to k in that order (`Best`, `BestSorted`). One more sample moves those it is
  smaller than up by one rank (`RankMore`), and that is what `add_sample` does to the
  values behind the place where it puts it in (`Added`).
- `ProgramsProofs.ElapsedTimeStaysMeasured` (`MeasuresElapsedTime`): while a measurement
  runs, the reading is what the clock showed before the runs since (`ReadingKept`). Two
  readings with a borrow from the high to the low half differ by the time
  between them, whichever half has wrapped (`CounterDifference`). `TimeRun` is a
  recursive function of the runs; that it is their sum (`TotalFacts`) is proved
  with least counterexamples. Hypothesis: one call takes less than the counter's
  2^64 cycles. `TimingIInv` is the invariant of both.
- `ProgramsProofs.AssembledAsWritten` (`LoadedAsWritten`): for every set of lines and
  every file in which no line lies below address 0. `Place` is a recursive function of the file; that it exists
  and that more lines leave it alone (`PlacesExist`, `PlacePrefix`) is proved with least
  counterexamples. `YasInv` says, as long as there is no error: in the first pass
  `bytepos` is the place behind the lines so far, and the first entry of a name in
  the table is the place of the first line it labels (`AddedSymbol`), which a second
  label of that name does not change. In the second pass each line so far with bytes
  has an entry at its place that tells what the line means, and only entries of later
  lines follow it (`SecondPrints`). While loading, memory holds for an address what
  the last entry so far over it says (`LoadStep`). For each group of instructions a
  lemma follows the operands through `Encoded` from any bytes that the instruction
  before left in `code` (`InstructionGood`), negative numbers included (`WordIs`), and
  `LineReads` takes them apart again as `step_state` does (`FetchedIs`).

- `ProgramsProofs.WrongStaysExact` (`WrongExactlyWhenMissed`): one lemma for each puzzle
  says that `bits.c` and `tests.c` agree on every word, or on every float but those of
  `Missed`, where they differ (`BitsAgree`; `FloatScale2Right`, `FloatFloat2IntRight`,
  `FloatPower2Right`). Addition is taken bit by bit, with a carry below each bit
  (`PlusOneIs`, `DifferenceSign` for the overflow in `isLessOrEqual`); the binary search of
  `howManyBits` halves the bits left (`Halving`), and the value of a word is a sum of
  powers of 2 over its bits (`ValueIs`). `BtestTypes` says that `argval` and `random`
  are words, and what `gen_vals` makes of them are words again (`Generated`).
- `ProgramsProofs.MarksStayFull` (`FullMarks`): the windows around 0, the smallest
  normal float, 1 and infinity contain nothing that is missed as long as they are no wider
  than a fraction (`FloatValsHarmless`), which is `RangeAssumption`; so no puzzle fails in
  a session without options. `BtestCounts` says that the maximum is the sum of the ratings
  so far (`RatingSum`), that points are as many while there was no timeout, and that
  errors count the timeouts.

- `MmProofs` proves every invariant of the run `mm_trace` and its action property,
  for every trace, heap size and number of free lists. None is inductive by itself:
  the property that no block is handed out twice depends on the lists holding only
  free blocks, that on the tags, and all of them on payloads being written only
  where they lie. The invariant `IInv` says that there are blocks `B` of sizes `S`,
  those of `A` allocated, such that
  - the blocks fill the heap from the prologue to the epilogue (`Tiles`), and the
    words of memory hold their tags (`Shape`);
  - every block outside `A` is in the list of its size, and links and list heads
    lead to such blocks only and agree both ways (`Linked`). Lists that turn would
    satisfy this too, so each block has a rank that grows along its list;
  - no two free blocks are neighbours (`NoPair`);
  - `A` is what the program holds, each block is large enough and holds what was
    written into it, and the driver's ranges are those of these blocks (`Holds`).

  The first three make a heap `Settled`. The routines in between leave it less than
  that, and the lemmas say how much less: `Heaped` names the listed blocks apart
  from the free ones, `Loose` has one free block that is not listed yet and may have free
  neighbours, which is what `coalesce` is called for. What a routine does to tags is
  one lemma about replacing the blocks between two addresses by others (`Retiled`), of
  which splitting (`SplitInTwo`), merging (`Retagged`) and growing the heap (`Extended`)
  are cases; what it does to lists is `InsertLinked` and `RemoveLinked`. `Coalesced`,
  `Placed`, `Grown`, `Found`, `Malloced`, `Freed` and `Reallocated` follow in the
  order in which the routines call each other, and each says that the words of other
  allocated blocks are kept (`Kept`). `ChainExact` and `BlockSetIs` show that the walks of
  the invariants, which take `MaxBlocks` steps, find every block: more blocks than that
  do not fit in the heap, and a walk that went on would have to repeat one (`TooMany`).

  `ContentsStayIntact` and `FailuresStayHarmless` assume that no request is for 0
  bytes. `mm_realloc(p, 0)` frees `p` and returns NULL (`mm.c:361`), the driver
  takes that for a failure and ends the trace with `p` in its tables: there the
  heap does change, and the block is not the program's any more. The other theorems
  hold for such traces too. Words are natural numbers, see section 6.

- `IsaFacts`: words stay words. `Wrap` and the ALU give words (`WrapType`,
  `AluType`), condition codes, register files and memories keep their types, and
  what is fetched is an instruction.
- `PipeProofs.TypeCorrect` and `SeqProofs.TypeCorrect`: both processors keep words
  and register names in range, for every program, word size and data memory.
- `PipeProofs.NoConflictEver`: stall and bubble of one register never meet. The
  load/use condition excludes the other conditions for D: what is in E is a load
  and so no jump, and the `ret` term is switched off by it. The proof is for every
  program, whatever the data.
- `PipeProofs.WorkAlwaysUnderWay`: every cycle leaves an instruction in one of
  the four registers, so no stall outlives its cause. The invariant `PInv` says what
  a bubble is: where the status is BUB the instruction is a `nop`, and no status
  is PIP; then a stall or bubble condition names an instruction that is itself
  under way and moves on.
- `PipeProofs.Implements`: `ImplementsISA` of `Pipe`. The invariant `OInv` adds to `PInv`
  what each pipeline register holds as long as the instructions ahead of it are
  sound (`InDecode`, `InExecute`, `InOrder`): the instruction at its address, in program
  order, with the operands that the registers will hold when it gets to memory
  (`Operands`, which is what forwarding is for). The hypothesis `SourcesNamed`
  keeps out programs with a memory reference without a register, for which the
  refinement fails: that is the finding `pipe_absolute`.
- `SeqProofs.Implements`: `ImplementsISA` of `Seq`. The invariant is `TypeOK` with
  the program among `Programs`. A cycle is split into what it stores and what it
  computes (`ComputedParts`); for each group of instructions (moves, memory,
  arithmetic, jumps, stack) the latch of the cycle, written back, is the state
  that the action of `Y86` asks for, and a failing one is the failing step.
- `SeqProofs.LatchStaysBehind` and `SeqProofs.SsimVerdict`: what `-t` compares after a
  run of ssim, under any limit. A cycle of ssim and a call of `step_state`
  are the same function of the state, `After` (`StepIsAfter`, `IsaIsAfter`, with one
  lemma for each group of instructions). The invariant `CheckInv` says that there is a
  sequence of states that begins with the initial one and ends where ssim is, each
  `After` the one before it and all but the last AOK, in which `step_state` is at
  place `step`. So `step_state`, let run to the same limit, meets ssim there. `Latched` says that a
  status other than AOK is what the last instruction made of the stored state,
  which tells when `%rsp` differs; by `WrapMoves` it then really does, and the
  comparison fails.
- `PipeProofs.PsimVerdict` (`CheckVerdict` of `PipeTty`): the same of psim, in fewer
  steps than cycles. By `Implements` each cycle is a step of the instruction set or
  none, and such a step is `After` (`ExecutesRefines`, `IsaNextIsAfter`), so the
  cycles lead from the initial state to the one that the pipeline stands for
  (`Here`) by a sequence no longer than `icount`, which `step_state` has room to follow
  (`Reach`, `ReachFollows`, `ReachMeets`). That holds while no store is suppressed. The
  limit suppresses one only in the last two cycles with nothing failing in
  write-back by then (`Cut`, `StoresSuppressed`), and then the run ends at the limit
  and not by itself. `LastInv` says what a failure leaves behind: no store, and
  the registers that the failing instruction found, which differ from those of
  `step_state` exactly if it was a `call`, `pushq` or `popq`.

The assumptions are those the modules state about constants: `NoPid` is no
process, the numbers are natural, keys are among INT and TSTP,
tokens are what the scanner delivers and its numbers fit in 32 bits, the windows of `gen_vals` are
at most 2^23 wide (500000 in `btest.c`) and the values that options and `random_val` give are words, the number of free lists is even and the heap holds them and a block, block numbers fit
in a byte, matrices have rows and columns (test-trans refuses others), the timers' constants are natural numbers, a word has at least two bits, RNONE is no register, programs are made of
instructions.

Only model-checked: everything under fairness (`EventuallyReaped`,
`ForegroundReturns`, `KeyReachesForeground`), since liveness is out of the
prover's reach; of `programs`, the count of misses at three given sizes
(`FullPoints`), and what depends on recursive
operators (`ReturnsWhatItSays` of `Hcl`). `EveryChildListed` is a
statement about a list with room for all and is false of a full one.

## 6. Not modelled

- The handlers call `printf`, which is not async-signal-safe: standard I/O is
  outside the model.
- `parseline`, `builtin_cmd`'s text and messages; `csapp.c`, `sdriver.pl`.
- `mm_check`, which is called by nothing and changes nothing. Its aims are the
  properties `HeapWellFormed` and `FreeListsExact`.
- Requests near 2^32 bytes, where the rounding of a request wraps around
  (`mm.c:323`): the words of the model's heap are not bounded in that way.
- The end of the cache simulator's 32-bit timer, and address shifts by 32 or more.
- The last bytes of the Y86 memory, where `psim.c:1403` asks for more bytes than
  an instruction has, and programs that modify their code.
- In `psim`, the cycle that loads the empty registers before the first fetch; it counts
  in `icount` (`psim.c:760`), so a limit of the model is the argument of `-l` less one.
- Ticks between the two readings, of ticks and of the counter, that `clock.c` makes one
  after the other (`clock.c:258`, `265`).
- The error that `mdriver` counts when a request of libc fails: the program ends there.
- Scanners and parsers that flex and bison have generated (`lex.yy.c`,
  `yas-grammar.c`, `hcl.tab.c`); their input languages are modelled by tokens and
  productions.
- The graphical interfaces, the listings, the trace files' format.
- Test generators (`sim/ptest`, `sim/y86-code`), which are Perl and programs for
  the processor; `ssim_tty`, `psim_tty` and `pipe_isa` enumerate programs instead.
- `dlc`, `driver.pl`, `driverhdrs`, `Driverlib`: a compiler in binary form and
  submission to a server.
- The attack and bomb labs: answers and disassemblies without program source.

## 7. Plan

Done, in this order: the shell (`JobList`, `JobControl`, `Tsh`), malloc (`Mm`,
`MmDriver`), the cache (`Csim`, `Lru`), the pipeline (`Isa`, `Y86`, `Pipe`,
`PipeIsa`), the sequential processor and the simulators' own check (`Seq`, `SeqTty`,
`PipeTty`),
the smaller programs (`Bits`, `Btest`, `Yas`, `Trans`, `Hcl`, `Timing`,
`Mdriver`), and the proofs of section 5.

Left: byte addresses for the processors, with the end of memory; words of bounded
width in `Mm`.
