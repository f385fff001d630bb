# A verification project for NTU-Courses

The repository collects course projects. The programs in it are independent;
this project models the ones with their own concurrent, reactive or scheduled
core, one family of TLA+ modules per program. Model checking is done with TLC
on small instances, the main invariants are proved with TLAPS for all values
of the constants.

## 1. Inventory

| Component | State | Operations and interaction | What is hard | What makes it correct |
|---|---|---|---|---|
| Data cache, `CA/project2/code/dcache_top.v`, SRAMs, `Data_Memory.v` | controller state, four bus registers, tag and data SRAM; memory FSM, count, array | one request per cycle from EX_MEM, stall back to the pipeline; enable/write/address/data to the memory, one-cycle ack back | two controllers in lock step, combinational buses, write-back before fill, a read block that is woken by too little, reset at any edge | behaves as a flat memory with stalls; no store lost; every load answered; every stall ends |
| Pipelined CPU, `CA/project2/code/CPU.v` and units | PC, four pipeline registers, register file | forwarding, load-use stall, branch in ID, flush, stall from the cache | hazards between instructions at distance 1, 2 and 3, stall and flush in one cycle | retires what a sequential machine would |
| Test bench flush, `TestBench.v` | cycle counter | copies SRAM lines to memory at cycle 150, prints | strikes in any cache state | printed memory is the program's |
| csiebox server pool, `SP/MP4/src/csiebox_server.c` | `client[]` sessions, `que`, `request_mutex`, `got_request`, thread pool | main thread accepts, logs in and enqueues; workers pop and serve | level-triggered select re-enqueues, LIFO pop, lock held while serving, queue of fixed size, stale descriptors | no request left lying, changes made under their sender's account, no open connection forgotten |
| csiebox sync protocol, `SP/MP4/src/client_function.c`, `server_function.c`, `csiebox_client.c` | file trees on both sides, socket stream, file locks | login, download, initial sync, inotify events -> META/FILE/SYMLINK/HARDLINK/RM requests and answers | flock both sides, lost answers, length-prefixed stream out of step, events during the scan | server tree converges to client tree |
| csiebox port registry, `SP/MP4/src/port_register.c`, `hash.c` | reserves with port and state, hash table of users | book a port, probe with bind, periodic clean-up | re-booking, chained hash deletion, clean-up during iteration | one live reserve per user, no port given twice |
| csiebox daemon control, `SP/MP5/src` | pid file, FIFO, signal handler | SIGUSR1 counts clients through a FIFO, SIGTERM-like shutdown | signal between any two statements of the main loop | reported count is the number of sessions |
| csiebox single-threaded variant, `SP/MP3/src` | as MP4 without the pool | select loop, meta/file sync, download by tree walk | one client blocks all | as the sync protocol |
| Weighted round-robin scheduler, `OS/pj2/Part2/sched_weighted_rr.c` | run queue list, per-task time slice and weight | enqueue, dequeue, yield, pick, tick, change of class | tick against yield and requeue, time slice refill, wake-up of a higher class | every runnable task runs within the sum of the other slices |
| Random-ratio variant, `OS/pj2/Bonus/sched_rrr.c` | as above, random slice multiplier | as above | multiplier grows and overflows, slice 0 | as above |
| Scheduler test program, `OS/pj2/Part1/sched_test.c` | shared buffer, position, two or more threads | threads write their letter into the buffer | FIFO policy | each thread's letters are contiguous under FIFO |
| Page-cache read-ahead, `OS/pj3` | page cache, ra state | modified Linux `filemap.c`, `readahead.c` | kernel locking | vendored with small edits |
| CoVim server, `CN/CoVim/plugin/CoVimServer.py` | users, shared buffer, cursors | name negotiation, buffer diffs broadcast to all peers | diffs against stale buffers, simultaneous edits | all editors converge |
| Single-cycle and first pipelined CPU, `CA/hw4`, `CA/project1` | register file, PC | one instruction per cycle | none | ISA |
| DSA exercises `DSA/*` | in-memory structures | batch algorithms | data structures' invariants | output of the exercise |
| DSP exercises `DSP/dsp_hw1`, `DSP/dsp_hw3` | HMM parameters, lattices | Baum-Welch, Viterbi | floating point | likelihood never decreases |
| Android app `HCI/Pike`, MMAI, NASA scripts, HTK and SRILM trees | UI and scripts | I/O | none of our kind | not applicable |


## 2. Plan

Done, in this order:

1. the data cache with its memory (`CachedMemory`), because everything the
   pipelined CPU computes goes through it, and the test bench's flush;
2. the server's thread pool (`CsieboxPool`);
3. the weighted round-robin class under the scheduler core (`WeightedRR`);
4. the port register (`PortRegister`);
5. the pipelined CPU (`PipelinedCPU`), refined against a machine that executes
   one instruction after the other (`SequentialCPU`);
6. the csiebox sync protocol, message by message, with the file lock
   (`SyncTree`);
7. the processor with its cache (`CachedCPU`).

Compositions: `CachedMemory` = `DataMemory` + `DCacheTop` under one clock;
`FlushedMemory` adds the test bench to it, with history variables for what
the program has stored and for how long it has been held back;
`CachedCPU` puts the cache in the place of the pipeline's memory;
`WeightedRRTurns` adds a history
variable to `WeightedRR`; `MCPortRegister` gives `PortRegister` its users;
`SyncTree` is client, server, connection, inotify queue and user together.
Abstract specifications: `FlatMemory`, implemented by `CachedMemory` under the
refinement mapping `Flat`; `SequentialCPU`, implemented by `PipelinedCPU`;
`PortDirectory`, implemented by `PortRegister` under the mapping to the ports
servers hold and the ports clients are told; `PipelinedCPU`, implemented by
`CachedCPU` in the behaviours in which loads are answered. The last chains with
the second: processor, cache and memory together are the sequential machine.

What could come next: hard links and nested directories in `SyncTree`; daemon
and status of MP5 (signals against the main loop, pid file, FIFO); the load
balancing iterators of the weighted class; the random-ratio scheduler; the
CoVim server. Every invariant and action property of the passing runs is
proved (`OneReaderPerConnection` until a first client ends, which in its run
never happens); so are safety counterparts of most liveness properties
(section 7). A stronger promise to
clients that leave, or to two programs that hang, would need a change of the
code first.

## 3. Modules and how they correspond to the code

Operators named `...Mutant` stand before the operator they are a slip of. They
are the kind of mistake a maintainer could make there, no specification uses
them, and `PROJECT.json` ("mutants") says which property notices each.
`PROJECT.json` ("map") gives the source lines of every definition.

### Data cache (CA/project2)

| Module | Models |
|---|---|
| `CacheGeometry` | tags, indexes, offsets, words, requests |
| `DataMemory` | `Data_Memory.v`: the four-state controller, its wait counter (4 bits, `% 16`), the one-cycle ack |
| `DCacheTop` | `dcache_top.v`, the two SRAMs, the EX_MEM register |
| `CachedMemory` | both wired together; `Clock`, `Reset`; properties |
| `FlatMemory` | abstract specification of the MEM stage's memory: stores take effect, loads see their word or are left at zero |
| `FlushedMemory` | what `TestBench.v` prints at cycle 150 |
| `CachedMemoryProofs` | proofs |
| `CachedCPU` | the pipeline, the cache and the memory under one clock |
| `MCCachedCPU` | words, ALU, addresses and programs for TLC |
| `CachedCPUProofs` | proofs |

Wires are operators of the same name (`hit`, `p1_stall_o`, `mem_addr_o`, ...),
registers are variables. Non-blocking assignments read the values before the
edge, so one edge of the system is one action, `Clock`, which conjoins
`CacheEdge` and `MemoryEdge`; inside, each branch of the `case` is an operator
(`IdleStep` ... `WriteBackStep`). `Reset` clears what the code's `~rst_i`
branches clear and nothing else: SRAMs, memory array and request survive, and
it may come at any edge. A request is any member of `Requests`, renewed when
`p1_stall_o` is down. Data words and tags are values from small sets; a line is
a function from offsets to words. The flush and the printing are one block of
one edge, so `Printed` is an operator on the state before it, and a property of
`Printed` in every state is a property of a flush at any cycle. `stored` is
bookkeeping: the last value stored at each word, recorded when the store leaves
MEM, so that what is printed is compared with what the program did and not with
what the cache holds. `waited` counts the edges of the present stall, or of the last
one.

`p1_data`, the answer to a load, is a variable although the code means a wire.
The block that sets it (lines 126 to 129) reads `hit` and is not woken by it.
After an edge the wires settle in an order the language leaves open, so
`SelectWord` lets the block see the settled wires, or only the miss before, and
does not run it when nothing it listens to changes (`Quiet`).

In `CachedCPU` the request is what EX_MEM holds (`p1 = Request`), MEM_WB takes
`p1_data_o` as it is, and the remaining registers move by the operators of
`PipelinedCPU`, instantiated with `Seen`, the memory as the program sees it,
for its memory. `Place` splits an address into tag, index and offset.

### Pipelined CPU (CA/project2)

| Module | Models |
|---|---|
| `InstructionSet` | decoded instructions, `Control.v`, branch targets; which programs are `Safe` |
| `PipelinedCPU` | `CPU.v` and its units: PC, four pipeline registers, register file |
| `SequentialCPU` | abstract specification: one instruction per step |
| `MCPipelinedCPU` | instructions and the ALU on words of two bits |
| `PipelinedCPUProofs` | proofs |

A step is one cycle: the falling edge writes the register file (`WriteBack`),
then the rising edge moves everything else, from the values between the two
(`Written`). `Advance` conjoins one operator per pipeline register; `Stalled`
is a cycle in which the cache holds the pipeline back, which it may do in any
cycle of a load or store. `at` is bookkeeping: the address of the instruction
in each stage, so that "which instruction is this" can be asked. A bubble has
the address `None`. `ToRetire` reads off it how many edges the next instruction
is away from leaving MEM.

The code runs as written only programs that keep certain distances between
instructions, because the forwarding unit takes the older of two results and
the branch compares in ID what is not yet forwarded there. `Safe` states these
distances; the refinement holds, and is proved, for programs that keep them.
The memory of `PipelinedCPU` answers every load. What the cache makes of it is
the subject of `CachedCPU`.

### Sync protocol (SP/MP4)

`SyncTree` has a tree per side and a place per program (`at`). The exchange
(meta data, hash, blocks, answers) is written once for a side `s` that sends or
receives, since `client_function.c` and `server_function.c` hold the same code
twice; the actions named after the functions are its instances, and what
differs is explicit (`SpinsOnLock`: only the server locks; `Idle`: where a
receiver returns to). A message is sent and received as a whole: `recv` waits
for all of it. Each read of a block is a step, so the user may rewrite or
remove the file between any two. A name that vanishes between `open` and the
end of the reads is still read through its descriptor (`orphan`).

`Locking` is the set of builds: with the loop on `flock` (MP4) and without
(MP2, MP5, which have the same functions otherwise).

`SyncTreeInv` says, for every place the client is at, where the server is, what
is between them and what is known of the name in hand (`DownPhase`,
`DownloadPhase`, `UploadPhase`); `SyncTreeProofs` proves it. `ClientCan` and
`ServerCan` say without ENABLED when a program has a step, so that "the two hang
only in these ways" is a state predicate that can be proved.

### Server and thread pool (SP/MP4)

`CsieboxPool` keeps a program counter per thread. The steps are cut where
another thread can come in between: between the test of `server->client[i]` and
its use, between the release of `request_mutex` and `pthread_cond_signal`,
between `logout` and `close`. `que`, `mutex` and `waiting` are the variables of
the same name in the code; `client[f]` is the session at
`server->client[f]`; `sock[f]` is the kernel's descriptor table; `readSet` is
`read_set`, before and after `select`. `killed` records a null pointer followed
or a SIGPIPE: both end the process. `HandleRequest(t)` is shared by workers and
the main thread (which serves the login itself), as in the code.

Clients follow `csiebox_client.c`: connect, log in, answer the download's
questions, then one change at a time. The exchange of a change is its request
and its outcome, one of `ChangeKinds`, because what matters to the pool is how
long a worker keeps the mutex and whether the client hears of it again:

- `"sync"` is answered at once;
- `"modified"` leads to `"spin"`: `while (!flock(...)) sleep(3)` goes on while it
  gets the lock (`server_function.c:104`), and the worker stays there with
  `request_mutex` held. `spin` has no successor;
- `"unanswerable"` returns without an answer: meta data of mode 0 (line 41), a
  link that exists (lines 260 to 264), a copy that cannot be opened. The client
  waits for ever (`"unanswered"`);
- `"unopened"` leads to `SyncFile`: the server has asked for the contents and
  takes the client's next request for file data, to which nobody replies.

All but the first follow `server->client[conn_fd]`, and so does `"sync"` in most
exchanges: with no session there (a descriptor that was given again, a client
that was refused) the server may end with SIGSEGV. A message that is received in
part leaves its `"rest"` in the connection, and what follows is read with it.

The main thread follows `server->client[i]` at lines 200, 209, 220 and 221 after
the tests at 198 and 218, each time reading it anew: `ScanTest`, `ScanArgument`,
`RebuildSet` and `RebuildMaxFd` are steps of their own, and each ends the
process if a worker has logged the client out meanwhile.

`MCCsieboxPool` declares the symmetry of `pool_churn`. `CsieboxPoolProofs` proves
the locking and the waking, the types, what can stop the server, and what
becomes of sessions and connections, all of it for clients that leave. `WorkerCan`
and `MainCan` say without ENABLED when a thread has a step, `Stopped` that none
has.

### Weighted round robin (OS/pj2)

In `WeightedRR`, `queue` is the list `rq->weighted_rr.queue`, `nrRunning` its count, `curr`
`rq->curr` (a list of the kernel is a sequence; `Unlinked` is `list_del`, by the
task's `Place`), `resched` the flag `TIF_NEED_RESCHED`; `slice` and `weight` are
`task_time_slice` and `weighted_time_slice`. Everything that touches them holds
`rq->lock`, so an operation of the core is one action, made of the class's
operations (`Enqueued`, `Dequeued`, `Requeued`, `PickNext`, `CheckPreempt`) in
the order the core calls them. The two other classes appear as the sets of
their runnable tasks: they win over the weighted class and may ask for a
reschedule whenever their code may. `WeightedRRTurns` adds `had`, a history
variable: who has finished a turn since each task took its place. `WeightedRRProofs` is about ranks and
slices, `WeightedRRQueueProofs` about the list and the turns.

### Port register (SP/MP4)

In `PortRegister`, `reserve` is `port_reserve`, `chain[b]` the list at
`record_hash.node[b]`. `Book` is `handle_request` with `book_port`.
`StartClean`, `CleanRecord`, `NextChain`, `StartCheck` and `CheckPort` are the
clean-up, bucket by bucket along the nodes that are on the chain when the loop
comes by, then port by port; one `bind` per step, since servers bind and end in
between. `PortDirectory` is the promise: a table of the ports servers have been
handed (`Held`) and one of the ports clients are told (`Told`), a booking that
gives a port nobody holds, and a clean-up that forgets users only together with
one whose port nobody holds. Names are records of
their last four characters, which is all `get_hash_code` keeps in 32 bits, and
the rest. The servers (`Ask`, `Bind`, `End`) follow `connect.c`; `Others` is
any other program on the machine that takes or frees a port.

## 4. Runs

| Run | Question | Bounds, and why they are enough |
|---|---|---|
| `cpu_pipeline` | Does the pipeline compute what one instruction after the other computes, and retire with one bubble at most between instructions? | All 59049 codes of five instructions out of nine that are `Safe`: five is one per stage, so each kind meets each other kind at every distance the pipeline can see; code wraps around, so programs do not end. Words of two bits, three registers |
| `one_line_cache` | Are stores kept and loads answered with their word or a zero, do stalls end, how long does one last, is the bus held, does a flush at any cycle print every store? | Two tags on one index: every second address misses and evicts. Two words per line tell a word write from a line write. Latency 6 as in the code. Indexes do not interact except through the bus; `CacheIsTransparent` covers any geometry. |
| `read_miss` | Does a load that missed find its word? No | Processor, cache and memory. Four words in two lines that compete for one line of the cache; all safe programs of four out of no operation, one `addi`, one store and one load. The order of events is the one that suits the read block best, so the code has no way out |
| `pool_churn` | Locking, waking, counting while clients come and go; whose account, who is forgotten, who is cut off; what can stop the server | Three clients that may all leave or be refused, two descriptors: a third connection meets a full table or a reused descriptor; queue of two, so a stale entry and a duplicate fit; two workers. Changes that are answered, that spin and that leave the server asking for file data (those that are not answered are in `pool_busy`). Workers are alike, and so are the clients, since all may do the same: their permutations are a symmetry, and the run checks invariants only |
| `pool_busy` | Answers and exclusive reading, with clients that stay and go on changing their trees | Two clients, two workers, queue of two: both clients queued, or one with a duplicate. Changes that are answered, that spin and that are not answered, so that the escape of `RequestsServed` is reached and needed; no symmetry, since it has a liveness property |
| `pool_quiet` | Is every request served if trees may fall quiet? No | Two clients, every change answered: the only thing in the way is the duplicate; queue of three |
| `weighted_round` | Queue, slices, preemption, order of turns, how far a wait has got, no starvation | Three tasks: running, head and tail. Quanta 0 (a slice that is over at its first tick) and 2 (one that survives a tick). Three calls that change policy, priority, nice value or quantum, enough to boost a task, change it meanwhile and take the boost back |
| `weighted_boost` | Does a lent priority leave the policy alone? No | as above |
| `port_book` | One port per server, right answers, the promise of `PortDirectory`, ports recovered | Two users in one chain of a two-bucket table (deleting its first and its second node differ), two servers, two ports that others may take too |
| `port_lost` | Is a running server found? No | as above |
| `sync_tree` | Is a change of the user ever lost, and in which ways can the two programs hang? | A file, a directory and a link; files of one and of two blocks (a last block that is short, and the read that ends the loop); three edits, enough to remove a file while it is sent, make it again and change it; one kill, at any step; with and without the lock |
| `sync_changes` | Does a file that is only modified arrive? No | the same names, a server that starts empty, one edit |

`CHECK_DEADLOCK FALSE` is set where the system may stop: the pool when all its
clients have left or a signal has ended the process, the scheduler runs, where
`oops` ends the kernel, and the sync runs, where a side may wait for the other
for ever and the user has a bounded number of edits.

## 5. Fairness

- Cache: `WF(Clock)`; the clock is an oscillator. Resets are not promised and
  not excluded, so `StallEnds` says a stall ends unless resets keep coming.
- Pool: weak fairness of every thread, because the kernel runs them. Strong
  fairness for taking the mutex (`Lock`, `AddRequest`): contenders come and go,
  in particular through spurious wake-ups, and a futex does not starve a
  waiter for ever in practice. Clients answer what they are asked (they have
  nothing else to do). `BusySpec` adds that a client finds a change now and
  then; `QuietSpec` does not, and that is the difference between `pool_busy`
  and `pool_quiet`.
- Processor with its cache: none; only safety is stated of it.
- Pipeline: `SF(Advance)`. A cycle is a stall or not, and `StallEnds` of the
  cache promises that a stall ends. In the model `Advance` is enabled in every
  state, so weak fairness would say the same; strong fairness says what is
  meant, that a stall which ends again and again lets the pipeline move.
- Sync: weak fairness of the client and of the server. Both are loops the
  kernel runs; `Connect` is among the client's actions, so a killed client is
  started again by someone. The user and the kill are not fair.
- Scheduler: a pending reschedule happens (return to user mode checks it), and
  a task of the class that runs again and again is charged a tick now and then.
  `EveryTaskRuns` assumes that time and again no higher class has a runnable
  task: those classes come first by design.
- Port register: its own steps are weakly fair, it is a loop. A silent five
  seconds that keeps coming is taken (`SF(StartClean)`), and `PortsComeBack`
  is stated under the assumption that there are such times.

## 6. What is proved

All theorems hold for every value of the constants that satisfies the named
assumptions. Each follows the same argument: an inductive invariant, its
initial and step lemma, then one temporal step.

| Theorem | Assumptions | Argument |
|---|---|---|
| `CacheInvariant`, `CacheTypes` | `ZeroAssumption`; `LatencyAssumption` (count is 4 bits: 1..14) | `IndInv`, itself a conjunction of the invariants the runs check: the phase of the two controllers, what an ack means, what a fill carries. None is inductive alone: `CleanLinesAgree` needs `FillIsRequestedLine`, which needs `AckMeansDone`, which needs the phase. One lemma per state of the cache controller, one for reset |
| `CleanLinesStay`, `VictimIsSaved`, `TheLineAskedForComes` | same | parts of `IndInv` |
| `CacheIsTransparent` | same | refinement: a write hit is a store (`WriteHitStores`), any other edge leaves `Contents` alone (`OtherEdgesKeepContents`), an unstalled read is right or zero (`AnswerIsRight`). Needs `WordOrZero`: what the read block last left in `p1_data` is the word of the present request, or a zero that outlasts the miss only if the line of the cache is the one the memory sent last |
| `StallsHaveLength` | same | `StallSchedule`: the edges waited and the edges left, as the phase of the two controllers tells them, make up the cost of the miss, a transfer or two and three edges (`Latency + 6`, `2 * Latency + 9`). One edge takes one off (`StallStep`). It needs where the counter of `Data_Memory` stands in every state (`CountInPhase`): a reset in the middle of a transfer clears it |
| `BusIsHeld` | same | by `IndInv` a working, unacknowledged memory means READMISS or WRITEBACK, where the cache keeps its wires |
| `FlushPrintsStores`, `FlushWatches` | same | `FlushInv`: a word once stored is what cache and memory together show, by the lemmas of the refinement, and its cache entry stays valid (`ValidStays`), so the entries that are flushed without being valid name no stored word |
| `ComputerInvariant` | those of the cache; `ComputerAssumption` (the pipeline's, and: every address is a word of the cache, no two the same) | `ComputerInv`: `IndInv` of the cache, the request is what EX_MEM holds, the pipeline registers have their types (addresses are words), and what reads memory goes to a register and does not write memory. Programs need not be safe |
| `ComputerIsThePipeline` | same, and `[]ReadMissIsReadHit` | refinement, with the cache and the memory mapped to the memory the program sees: an edge with a stall is `Stalled`, since it changes no word (`EdgeStores`); any other is `Advance`: a store changes one word (`StoreIsSeen`, which needs that two addresses are never one word) and a load sees its own (`LoadSees`). The hypothesis is about the fault of `read_miss` alone: a behaviour in which no load is left at zero |
| `PipelineInvariant` | `InstructionAssumption`, `ProgramsAssumption`, every program `Safe` | `PipeInv` is inductive as it stands: each stage holds what its address names (`StagesHold`), neighbours are consecutive (`InOrder`), operands and results are the sequential machine's (`OperandsRead`, `ResultsRight`). One lemma per part and stage |
| `PipelineIsSequential` | same | refinement: the instruction that leaves MEM is the step of the sequential machine; a bubble or a stall is a stutter. Needs every part of `PipeInv` |
| `InstructionsKeepLeaving` | same | `NoTwoBubbles`: a bubble comes from a load-use stall or a flush, and neither follows the other, because a bubble that decodes asks for nothing (`BubbleDecodes`). With `PipeInv` it is inductive |
| `PoolInvariant`, `NoRequestSleeps`, `RequestsAreSerial` | `PoolAssumption` | `PoolInv`: places of the threads, the mutex is held exactly in the critical section, no lost wake-up. Needed because who may sleep depends on who holds the mutex |
| `WaitingIsExact` | same, `Workers` finite | the counter against the cardinality of the sleepers, on top of `PoolInv` |
| `PoolTypes` | `PoolAssumption` | `TypeInv`: the loops of the main thread run with `i` inside the table, and `accept` finds a lowest free descriptor |
| `StopsAreKnown` | same; clients may leave, changes of every kind | `WatchInv`: a login nobody has taken is one the main thread is in `recv` for, so sessions are made while it is there and it builds `read_set` anew afterwards; the loop that does has every session it has passed in the set. With `PoolInv`: if no thread can move, none is in `recv` and none in the flock loop, then the mutex is free, all workers sleep, the queue is empty, and select is asked about every session |
| `AccountsAreRight`, `NobodyIsForgotten` | same | `AccountInv`, per descriptor: a client past its login has its own session there or none (`Sound`), and a connection without a session is one whose login the main thread still has to take, or one a worker is about to close (`Known`). Needed beside it: a client in the backlog has sent nothing, and one that was refused or left without an answer sends nothing more (`Honest`). Every step is of one of five kinds (`Steps`), and of a handler it is enough to know what it may change (`Effect`, lemma `HandleEffect`): whom it talks to, where the thread goes, and that a session is made of a login only. Rests on `WatchInv` (a login is taken by the main thread) and `OnePlaceEach` (no client has two connections) |
| `CutOffsAreLate` | same | `MainEnds`: the descriptor the main thread is in `recv` with is the one `accept` gave it, whose connection nobody else can have closed while its client is there. The other half is `AloneInv` below |
| `ReadersAreAlone` | same | `NobodyGone => AloneInv`: until somebody has ended, queued and served descriptors have a connection that stays, the one the main thread logs in is in no queue entry, and who reads holds the mutex, which keeps the workers of duplicates apart. Afterwards it is false: see section 8 |
| `NoInversion` | `WeightedAssumption` | `SchedInv`: types with `NeverOutranked`; one case per operation of the core |
| `SlicesAreReady` | same | `SliceInv`: every enqueue and requeue refills, every tick that empties requeues |
| `ListIsExact`, `TheHeadRuns` | same | `OrderInv`: types, the list is injective and its set is `Queued`, and the head runs. What adding and unlinking do to a list (`Linking`, `Unlinking`) is read off `SubSeq` and concatenation, position by position, without induction |
| `TurnsGoRound` | same | `TurnInv`: who has finished a turn since p took its place stands behind p. Every step moves one task at most (`ListStep`: it leaves or stands at the tail, the others keep their order), and who does not go back stays ahead (`BehindStays`). The running task is the head by `OrderInv`, so it stands behind nobody. Needs that a task of the class has its policy (`PolicyFits`): the tick looks at the policy |
| `WaitsAreCounted` | same | who stands ahead of p leaves or stays ahead (`AheadShrinks`), who joins stands behind it, and p itself moves only if it says so (`MoverGivesUp`, `GiverMoves`); the head that runs loses a tick and is refilled only when it goes to the tail (`SliceGoesDown`). Rests on `SchedInv`, `OrderInv`, `SliceInv` and `PolicyFits` together |
| `NoPortTwice` | `RegisterAssumption`, `Prompt` | `RegisterInv`: a held port is reserved; nobody is between answer and bind while the clean-up runs; a port is held once |
| `NobodySentAstray` | `RegisterAssumption`, `DistinctCodes` (names that differ in their last four characters) | `AnswerInv`: codes in a chain are unique, and the record of a user with a current server, if there is one, tells its port. The lemmas say what `put_into_hash` and `del_from_hash` do to what a chain tells; deleting the first node loses records but makes none |
| `RegisterIsDirectory` | both | refinement: `Book` is `Give`, `End` is `LetGo`, `CleanRecord` is `Forget` of the users whose records go, every other step a stutter. `DirectoryInv` adds to the two invariants that every record is on its chain (`Homes`) and that what the clean-up has still to visit was there when it came by and has had no other port since (`WalkInv`) |
| `SyncInvariant`, `NoChangeLost` | `SyncAssumption` (finitely many names, contents that fit their kind: only the last block of a file is short) | `SyncInv`. That a change is pending is not inductive: when an exchange ends, the head of the queue goes, so the two copies must agree by then or the name must come `Later`. Hence the phases, the blocks copied so far (`Copied`: the copy is a prefix, and the last block, short or empty, completes it), and `Followed`: after a removal the name is absent or has another event, so a removal that is carried out late destroys nothing for good. During the download the client `Has` what the server has shown it, unless it was removed unseen. One lemma per action and phase |
| `HangsAreKnown` | same | `HangInv` beside `SyncInv`: the connection that ends still has its end in it (`EndInSight`), and a client that is to go on has something to go on with (`MoreToCome`). Then every pair of places is one where a message is there, or the client has a name in hand, or the state is one of the four hangs, or all is at rest |

`Prompt` says that a server binds its port sooner than five seconds after the
answer. It is needed: with `Prompt = FALSE` TLC finds a port recycled between
the answer and the bind and given to a second server.

## 7. What is only model-checked

- Liveness: `StallEnds`, `Retires`, `RequestsServed`, `EveryTaskRuns`,
  `PortsComeBack`, `Settles`. TLAPS has no support for fairness. For four of
  them a theorem says what is behind the promise, and TLC that the promise
  follows on its instance: a stall has so many edges (`MissesCostTheSame` for
  `StallEnds`), the next instruction is so many edges away (`RetiresSoon` for
  `Retires`), the wait of a task is counted down (`WaitShrinks` for
  `EveryTaskRuns`), and client and server can always go on but for the four
  hangs (`NoOtherHang` for `Settles`). For `RequestsServed`, `NoOtherStop` says
  what can stop the server as a whole; that a single request is reached is
  left to TLC, and so is that a port comes back. `RequestsServed` has an escape,
  `Jammed`: once an exchange has spun or was never answered nothing is promised,
  because the code keeps nothing. `sync_changes` shows the spin by itself.
- That processor, cache and memory are the sequential machine is two theorems,
  `ComputerIsThePipeline` and `PipelineIsSequential`; putting `Seen` and
  `Loaded` for `memory` and `mem_wb` in the second is left to the reader,
  because tlapm does not use a theorem through an INSTANCE. `ImplementsPipeline`
  has a proof and no run of its own.
- `WorkerCan`, `MainCan`, `ClientCan` and `ServerCan`, by which the theorems on
  stops and hangs say when a program has a step, are read off the guards of the
  actions; TLAPS has no support for ENABLED.

Induction over data and RECURSIVE operators are outside the prover's reach;
the modules declare no RECURSIVE operator.

## 8. Disagreements between the code and what it says of itself

| Run | What happens |
|---|---|
| `read_miss` | the block that sets `p1_data` is not woken by `hit` (`dcache_top.v:126`): a line with a copy of what is at address 0 is stored to, then address 0 is loaded; fetched and replaced line are equal, `r_hit_data` does not change, and the load reads the zero of its miss |
| `pool_quiet` | Is every request served if trees may fall quiet? No | Two clients, every change answered: the only thing in the way is the duplicate; queue of three |
| `weighted_boost` | a weighted task whose priority was lent by an rt_mutex returns to the fair class, its policy unchanged |
| `port_lost` | `del_from_hash` on the first node of a chain drops the nodes behind it; their users get "server no start" |
| `sync_changes` | `flock` returns 0 when it takes the lock and the server loops while it does: the first file that changes stops the server |

Seen by reading or by variations of the runs, and not kept as runs:

- When two instructions in a row write the operand of a third, the second test
  of `ForwardingUnit.v` overrides the first (its exclusion, lines 34 and 39, is
  commented out) and the third computes with the older value, where
  `project1/README.md:377` has the unit forward the newer. `Safe` excludes such
  programs.
- The flush does not look at the valid bit (`TestBench.v:95` and `:102`):
  entries never filled carry tag 0, and memory the program set and did not
  touch is printed as zeros. `StoresArePrinted` is about words it did store.
- `csiebox_server.c` tests `server->client[i]` at lines 198 and 218 and follows
  it at 200, 209, 220 and 221 without a lock; a logout by a worker in between
  leaves the main thread a null pointer. It is a step of `CsieboxPool`, so no
  property claims its absence.
- The weighted class has neither `prio_changed` nor `get_rr_interval`
  (`sched.c:2092` and `:7209` call both): `oops` in `WeightedRR`.
- `csiebox_client.c:90` speaks of synchronising the client's changes at start;
  the download of line 339 comes first and writes the server's copies, a torn
  one included, over the client's.
- Removed and re-created names, changed links and a kill in the middle of a
  download leave the two programs waiting for each other: `Vanished`,
  `LinkRefused` and `Dead` in `SyncTree`, which `Settles` names as the only
  ways besides the lock.
- `report.tex` of MP4 says the first element of the queue is handled;
  `csiebox_server.c:82` pops the last. The "Server busy" refusal of the
  assignment is commented out (lines 45-59).
- Two user names with the same last four characters share a record: with such
  users `AnswerIsOwn` fails, a client is sent to another user's server.
- With clients that leave, a stale duplicate in the queue can name a reused
  descriptor: the worker that pops it reads beside the main thread, which logs
  the new client in (`OneReaderPerConnection` fails), or closes a connection
  whose client is there. `RightAccount`, `NobodyForgotten` and `CutOffLate` say
  what holds all the same.

## 9. Bounds and what is left out

- Cache: addresses are aligned and inside the memory; the reset is one pulse at
  an edge. The CPU is any sequence of requests. `p1_data` has no initial value in
  the code and is zero in the model; nobody reads it before the block has run.
- Processor with its cache: as for its two parts; no reset after the first edge.
- Flush: the choice of cycle 150 (any edge may be it) and the text printed.
- Pipeline: instructions are decoded records, code addresses wrap around at
  `CodeSize`, the start signal stays up, a reset comes only before the first
  edge, and the words an instruction names are inside the data memory.
- Pool: an exchange of a change is its request and its outcome, a download asks
  at most one question, a client connects once, `QueueBound` stands in for the
  1024 entries (an entry more waits, where the code writes past the array);
  configuration files and `csiebox_server_destroy` are left out. A refused
  client's descriptor is never closed by the server, and the model keeps it
  occupied too.
- Scheduler: one runqueue; execution time accounting, `sched_reset_on_fork`, the
  throttling of real-time tasks and moving tasks between processors are left out; `MaxCalls` bounds the calls
  that change policy, priority, nice value or quantum.
- Port register: failing `malloc`, and a peer that connects and stays silent.
- Sync: one client on one connection, and the server reads the end of the old
  connection before the client is back; flat names of fixed kinds. Hard links,
  nested directories, modes and times, links made or changed at run time
  (`client_send_file` would send the contents of the target), renames inside or
  into a watched directory, hidden files, the
  overflow of the inotify queue and a killed server are left out. The user does
  not edit a file while it is being downloaded. `missed` are the changes the
  client cannot see: between its listing and its watch, in a directory that was
  empty and is never watched, removals during the download; they are exempt
  from `ChangesPending` because the code promises nothing there. `lost` also
  stands for waiting for the rest of a removal, which is shorter than the file
  message it is taken for.

Not modelled, and why:

- The random-ratio scheduler differs from the weighted class in one assignment
  (the slice is multiplied by a random ratio, so 0 stays 0 and a used up slice
  drifts below 0); the list and the core's calls are the same, and the proofs of
  `ListIsExact` and `TheHeadRuns` look at no slice.
- MP5's daemon, MP3's single thread and MP2 are earlier or later states of the
  csiebox program; the sync functions they share with MP4 are `SyncTree`.
- CoVim relies on Twisted and on an editor's buffer for the order of edits;
  nothing under src/ fixes it.
- The page cache of pj3, HTK and SRILM are vendored. They, the two copies of
  the kernel's `sched.c` and the copies of the csiebox sources in three
  directories are most of the repository's lines, which is why the mapped share
  stays small: a module per copy would say nothing new, and the scheduler core
  is mapped where the weighted class is called from it.
- The rest are exercises and scripts without concurrent or reactive state; the
  reasons are in `PROJECT.json`.
