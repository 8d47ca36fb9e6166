# Verification of the LLM-agent xv6

TLA+ models, TLC runs and TLAPS proofs for the repository's kernel (an
xv6-riscv with a CFS-like scheduler, a jailed LLM agent, a response cache and a
human confirmation gate), its shell, and the part of the host bridge `agent.py`
that takes part in the kernel's protocols. Paths below are relative to
`src/xv6-riscv/` unless they start with `agent.py`.

## The system

| Component | State | Operations | Interacts with |
|---|---|---|---|
| Confirm-escape gate, `kernel/confirm.c`, `syscall.c` | one pending slot (pid, result), `confirm_lock` | `confirm_request`, `confirm_tick`, `confirm_resolve` | scheduler, clock, console wire, prompt threads of `agent.py` |
| Agent queues, `kernel/agentcmd.c` | `agent_q` (head, tail), `agentq` (r, w, count) | `agent_dispatch` in the interrupt, `agent_drain` in any trapping process, `agentq_get` in agentd | console, traps, agentd |
| Agent routing, `kernel/agentcmd.c` | pending prompt, deny list | ASK, LLM_RESP, CACHE_GET, CACHE_SET, plain commands, `set_deny`, `dispatch` | cache, gate, queues, host |
| Response cache, `kernel/cache.c` | 16 RAM slots, `/cache.bin` | `cache_set`, `cache_get_exact`, `cache_get_semantic` | file system, clock |
| Scheduler, `kernel/proc.c`, `trap.c` | process states, `vruntime`, priorities, `p->lock`, `cfs_min_vruntime` | scan and dispatch, tick, yield, sleep, wakeup, fork, exit, kill, setpriority | everything that sleeps |
| Traps, interrupts, spinlocks, `trap.c`, `spinlock.c`, `*.S` | `noff`, `intena`, `sie`, `stvec`, kernel stacks | `push_off`, `pop_off`, `usertrap`, `kerneltrap`, `prepare_return`, `swtch` | all of the kernel |
| Process life cycle, `kernel/proc.c`, `user/init.c` | parents, `killed`, pids, `wait_lock` | fork, exit, wait, kill, reparent, pause | scheduler |
| Console input, `kernel/console.c` | the ring (r, w, e), the mirror `agent_buf`, `cons.lock` | `consoleintr`, `consoleread` | UART interrupt, queues, shell |
| Console output and UART, `uart.c`, `printf.c` | `conswr_lock`, `tx_busy`, `pr.lock` | `consolewrite`, `uartwrite`, `uartputc_sync` by `printf` and by the echo, `uartintr` | processes that print, console input |
| Inodes, directories, path names and the jail, `kernel/fs.c`, `sysfile.c` | inode table, link counts, entries, `cwd`, `jail_root` | `iget`, `iput`, `namex`, create, open, link, unlink, mkdir, chdir, jail | log, file table |
| File contents, `fs.c`, `file.c` | bitmap, block addresses, sizes, offsets | `balloc`, `bmap`, `readi`, `writei`, `itrunc`, `fileread`, `filewrite` | log |
| Log, `log.c` | log area, header, `lh`, `outstanding`, `committing` | `begin_op`, `log_write`, `end_op`, `commit`, recovery | buffer cache |
| Buffer cache, `bio.c`, `sleeplock.c` | buffers, LRU list, sleeplocks | `bget`, `bread`, `bwrite`, `brelse` | disk driver |
| Disk driver, `virtio_disk.c` | descriptors, rings, `info` | `virtio_disk_rw`, `virtio_disk_intr` | device |
| Pipes and the file table, `pipe.c`, `file.c`, `sysfile.c` | `ftable`, descriptors, pipe pages | pipe, dup, close, read, write, fork, exit | memory, processes |
| Memory and exec, `kalloc.c`, `vm.c`, `exec.c` | free list, page tables, sizes | `kalloc` ... `uvmcopy`, sbrk, faults, exec, exit, wait | processes |
| Shell, `user/sh.c` | descriptors of its children | parse and run a line | fork, pipe, wait |
| agentd, `user/agentd.c` | a dispatch table | receive, run, print | `agent_recv`, gated calls |
| Host bridge, `agent.py` | REPL, reader, prompt and model threads, one RPC slot | send wire lines, wait for answers and markers | the serial line |

How a command travels: the UART interrupt edits a line in the console ring; a
finished `REQ|` line is rewound out of the ring and put in `agent_q`; some
process that traps, or the shell waiting in `consoleread`, drains and routes it;
a plain command is checked against the deny list and forwarded to `agentq`,
where agentd waits. If what agentd runs makes a gated call (exec, kill, mknod)
the process sleeps in `confirm_request` until a CONFIRM_RES line comes back by
the same wire, or the clock runs out.

What is hard here: several processes drain the same queue; three places give a
lock up, do something that may sleep, and take it again (`consoleread`,
`cache_set`, `handle_llm_resp`); wakeups are sent after the condition's lock is
released, and `kill` takes no lock of what its victim waits for; replies carry
too little to identify their request; the scheduler chooses with one process
lock held while it takes the others; caches, rings, tables and memory are at
their limit in ordinary use and every call must undo what it did; the machine
may stop between two disk writes. `PROJECT.json` lists these hazards, each at
its line with the properties that watch it.

## Modules

Each module states at its head what a step stands for. Components:

| Module | Models | Actions, and what is abstract |
|---|---|---|
| `Confirm` | `confirm.c`, the gate in `syscall()`, `clockintr`'s part, `_handle_confirm_req` | `Refuse`/`Register`, `PrintReq`, `Stamp`, then the loop `Answered`, `Expire`, `PrepareSleep`, `Sleep`; `Tick`, `ConfirmTick`; `Resolve`, `ResolveWake`; `HostAnswer` at any time or never |
| `ConfirmGate` | what the gate promises | `Ask`, `TurnAway`, `SayYes`, `LetThrough` |
| `AgentQueue` | both rings of `agentcmd.c` | `AgentDispatch`; per drainer `AgentDrain`, `Dequeue`, `HandleInKernel`, `Forward`, `ForwardDrop`, `ForwardWake`; `CallRecv`, `Get`, `GetWait`, `GetSleep` for agentd |
| `AgentRoute` | `agent_dispatch_now` and its handlers, the deny list | one action per lock region or blocking call of each handler; the runtime's ring may be full at any time, a lookup may find any stored entry or nothing |
| `Sched` | `scheduler`, `sched`, `yield`, `sleep`, `wakeup`, tick charging | every `p->lock` is a variable; `ScanAcquire`, `ScanTake`, `ScanSkip`, `Dispatch`, then `Yield`/`Sleep`/`Exit` and `SwitchOut` with the lock handed over |
| `Cache` | `cache.c` | `CacheSet` under `cache_lock`, then `DiskAppend`, `AppendRefused` (no file, or no room in it) or `AppendShort` (the disk fills in the middle of the record); `RamHit`, `RamMiss`, `DiskHit`, `Promote`, `SemanticHit`; `Reboot`. A file is the pieces written, each at its offset, so that a record behind a torn one is out of step with `disk_scan`. A key is its hash, a value the number of its set, the MinHash score a table |
| `Console` | `consoleintr`, `consoleread` | one action per case of the interrupt; `TakeReq`, `AgentDispatch`, `FinishReq`; `Acquire`, `TakeChar` with or without a fault of the copy, `ReleaseToDrain`, `DrainOne`, `Recheck` |
| `Uart` | console output down to the 16550's FIFO | `write()` under `conswr_lock`, with `WriteFault` when its buffer faults; `printf` under `pr.lock`; the echo by the interrupt handler under neither; bytes are marked with their writer; the device is external |
| `ProcLife` | fork, exit, wait, kill, reparent, pause, init's loop | RUNNABLE and RUNNING are one state |
| `Hart` | `push_off`/`pop_off`, traps in user and kernel, `agent_drain` before the return, `sched`, moves between harts | registers are left out |
| `Log`, `AtomicDisk` | `log.c` with a crash at every disk write and in recovery; what it promises | one disk write per step; a buffer without a pin may be recycled at any moment |
| `BufCache` | `bio.c`, `sleeplock.c` | the LRU list is a sequence; a transfer takes place while its caller sleeps |
| `VirtioDisk` | `virtio_disk.c` | the device completes in any order and reports success (for any other status the driver panics, `virtio_disk.c:316`); a caller stands for its buffer |
| `Pipe` | `pipe.c` under `file.c` and the descriptors | each byte of `pipewrite` is a step; `nread`, `nwrite` wrap |
| `Memory` | `kalloc.c`, `vm.c`, `exec.c`, and fork, sbrk, fault, exit, wait | a call is one step, an allocation may fail anywhere in it; pages are counted; `exec` checks each program header, with sums that wrap at the word |
| `Names` | the inode table, links, `namex` and the system calls over it, jail, crash, `ireclaim` | a path is chosen element by element; the work at its end is one step |
| `FileData` | `balloc`, `bmap`, `readi`, `writei`, `itrunc`, `fileread`, `filewrite`, on the image `mkfs` leaves | a step per block of a chunk; a byte is its inode and offset |
| `Bridge` | the REPL and reader threads of `agent.py`, cache RPC, tool calls and markers | lines carry no request numbers, as in the code; the model's reply is any choice |
| `Shell` | `sh.c` | the parser works on tokens; the run of a line on descriptors |

`...Proofs` modules hold the theorems. `MC...` modules hold the constants of the
runs; `MCKernel`, `MCBlocking`, `MCFiles` and `MCConsole` also put together
components that are specified over each other's promises and share no
variables: a behaviour is one of the part chosen in its first state, under that
part's fairness, and the others stay where they start. So one run asks one
question of several components without multiplying their states.

A definition marked as a mutant is no part of any specification; it is a
plausible bug of the definition that follows it, by which each property is shown
to depend on the code.

A spinlock whose critical section is one action needs no variable; it has one
where the section spans steps that others can see. `sleep(chan, lk)` is two
steps, the decision with `lk` held and becoming SLEEPING, because that gap is
where wakeups are lost.

## Runs

| Run | Shows | Bounds |
|---|---|---|
| `confirm` | `SlotMatchesWaiter`, `OneShot`, `NoLostWakeup`, `EveryCallReturns`, refinement of `ConfirmGate` | 2 agents with 2 gated calls each, 2 reply contexts, a timeout of 1 tick: a late answer meets another process's request and its own process's next one |
| `confirm_late` | violated: `ApprovalIsForThisCall` | as `confirm`, a timeout of 2 |
| `queue` | `EveryLineInOnePlace`, `StageTwoFifo`, `NoLostWakeup`, `OvertakenWhileHeld`, `QueueDrains` | 2 drainers, 2 usable slots in each ring, 4 lines: both rings wrap and overflow |
| `route` | `DeniedCommandStopped`, `CachedUnlessOverlapped`, `LineIsServed` | 2 drainers, 2 commands, 2 prompts (one too long to cache), 3 lines, edits of the deny list |
| `route_clobber` | violated: `CachedUnderItsPrompt` | 3 lines |
| `sched` | `OneCpuPerStack`, `ChosenIsRunnable`, `BoundedLead`, no deadlock | 2 interchangeable harts, 2 slots, two priorities, vruntime up to 3 units |
| `cache` | `CacheInv`, `LastSetWins`, no deadlock | 2 callers with a file each, 3 keys in 2 slots, 4 sets, records of 2 units in files of 5, 1 reboot: eviction, promotion, a full file, a torn record and one out of step behind it |
| `console` | `ConsoleInv`, `ShellInv`, `ParsesByGrammar`, `InputIsRead`, `LineEnds` | 2 readers, a ring of 3 characters, 4 arriving: the ring fills, drops and wraps. All lines of up to 4 tokens and chosen longer ones; 6 processes |
| `files` | `NamesInv`, `Confined`, `DataInv` | 2 interchangeable processes, 3 inodes, one entry name, one reference lost by a second jail (`MaxLeak`), after which nothing but new files is opened; 2 writers on a disk of 4 blocks with one direct block |
| `kernel` | `LogInv`, `BufInv`, `PipeInv`, `MemInv`, `HartInv`, refinement of `AtomicDisk` | log: 3 processes, 2 blocks, room for two operations; 2 users, 2 buffers, 3 blocks; 2 tasks, 2 files, counters that wrap at 4; 14 pages, five programs, three of them with a malformed header; 2 harts, 2 threads |
| `kernel_stack` | violated: `TrapHasWholeStack` | as the last |
| `blocking` | `ProcInv`, `DiskInv`, `UartInv`, `BridgeInv`, `InitReaps`, `RequestReturns`, `ConsoleWriteReturns`, `QuestionEnds` | 3 slots and 4 pids; 3 callers and 7 descriptors (two requests' worth); 2 writers, 1 printer and 1 echoed byte, so that all three kinds are in the FIFO at once (two printers only wait for `pr.lock`; the theorem has any number); 2 questions with a model call, and so a tool call, each (`MAX_STEPS`), the second also while lines of the first are still on their way (`LateTools`) |

What the combined invariants say, beside the type of each variable:

* `LogInv`: the log has room for every block the outstanding operations may
  still write; an operation turned away in `begin_op` is owed a wakeup.
* `BufInv`: a block has one buffer; whoever holds it sees the block's current
  contents; a sleeper on a sleeplock has a holder to wake it.
* `PipeInv`: `ref` counts descriptors; the page lives as long as one end; bytes
  come out as they went in; a sleeper has a reason to sleep.
* `MemInv`: no page is lost or given out twice; no undo meets a page it panics
  on; the guard page stands.
* `HartInv`: interrupts are off while a lock is held and afterwards as before;
  a trap taken in the kernel goes to `kernelvec`.
* `NamesInv`: references are held by someone; link counts count names; an
  unlinked inode is freed unless its last `iput` raced a new reference; names
  lead to inodes. `Confined`: the directories a jailed process holds are the one
  it was first jailed in or below it, also after a second jail and with
  directories removed around it; exempt is what lies two levels or more below it
  under a removed directory, whose parent's inum may be in use elsewhere.
* `DataInv`: a block has one owner; a file reads back what was written; no chunk
  outgrows its transaction.
* `ProcInv`: every process has a parent that can still wait; `wait` sleeps on no
  zombie; a kill that did not fall between the test and the sleep woke its victim.
* `DiskInv`: descriptors are neither lost nor shared; a call returns with its
  own transfer done; no completion is overlooked; a caller out of descriptors
  has someone to wake it.
* `UartInv`: a `write()` prints whole, and so does a `printf()`; the FIFO holds at
  most a byte of a `write()`, of a `printf()` and of the echo each; a sleeping
  writer is owed an interrupt.
* `BridgeInv`: an answer is to its question and an observation is its own tool's
  output, also after earlier calls timed out, unless lines of one of them other
  than its markers were still on their way when this call began, or a command was
  dropped.
* `CacheInv`: a key has one slot; RAM holds its latest value; the last value set
  is in RAM, about to be appended, or in a record that is whole and where
  `disk_scan` looks, unless its append was refused, cut short, or came behind one
  cut short (`lost`).
* `ConsoleInv`: the mirror equals the edited line; readers get what was typed;
  nobody sleeps on input; a `REQ|` line begun with no unread input stays hidden.
* `ShellInv`: commands inherit three descriptors only; the prompt means that
  everything not in the background has ended.

`CHECK_DEADLOCK FALSE` is used where a bounded environment falls silent (the
host has sent its lines, pids or questions are used up, the kernel panicked); the
gate, the scheduler and the cache are checked for deadlock.

### What the violated runs say

Each states a sentence of the repository and has an entry under `findings`:

1. `confirm_late`: a y typed after a request timed out approves the next gated
   call of the same pid: a reply carries the pid and nothing else.
2. `route_clobber`: two questions in flight share one pending prompt: the first
   answer is cached under the second question.
3. `kernel_stack`: from the first return to user space on, traps of a process
   start on the lowest page of its eight-page kernel stack.

### Behaviour the properties step around

Met while modelling, and kept in the models; the properties above name the
condition under which the promise holds.

* Two drainers can forward two lines in the opposite order, so an end marker can
  overtake its command (`agent.py:774`; `OvertakenWhileHeld` says that only a line
  taken while another drainer held an older one does so).
* With unread input in the ring, a `REQ|` line is cut where the ring ends
  (`console.c:215`); a line enqueued after a reader's drain and before its sleep
  waits for the next trap (`console.c:126`).
* A key evicted twice has two records on file, and the older is found
  (`cache.c:205`; hence `LastSetWins` speaks of fresh keys). An append that the
  disk cuts short leaves a torn record; every later append to that file is out of
  step and never found, and the torn one reads back mixed with its successor
  (`cache.c:243`; hence `lost` in `CacheInv`).
* The deny list is looked up once: a command past it is forwarded although it is
  denied a moment later, and the model's answers and cache hits are forwarded
  without a look (`agentcmd.c:519`).
* A RESP| line later than 4 s that arrives after the next call cleared the slot
  answers that call (`agent.py:972`); output of a tool that was given up is taken
  for the next one's, and a marker that was resent may stand before it
  (`agent.py:803`).
* A pipe reader may sleep on a pipe with bytes in it after a killed writer
  returned without its wakeup. `kill` between the test of `killed()` and the
  sleep is seen at the next wakeup only. `kill(0)` marks an unused slot.
* An `iput` that meets a new reference leaves an unlinked inode until reboot;
  `..` of a removed directory leads to a free inode and `ilock` panics; a second
  jail drops the first root's reference.
* Kernel `printf` output and echoed characters can fall between two bytes of a
  `write()`, and an echo between two of a `printf`; `init`
  starts agentd once, and exits when the process table is full at a fork.

### Fairness

`confirm` assumes that runnable processes run and the clock ticks: the timer
interrupt and the scheduler's scan give that. Nothing is assumed of the host
user. `queue` and `route` assume that agentd runs inside `agentq_get` and that a
process inside `agent_drain` or a handler goes on. That anybody begins to drain is
not assumed: `agent_drain` is called at the end of a trap from user space
(`trap.c:98`) and in `consoleread` only, and a line waits as long as every process
sleeps (`agentcmd.c:395-399`). `QueueDrains` and `LineIsServed` are about lines
somebody has begun to drain or taken up. `console` assumes that an interrupt
handler that has begun ends, that
readers read again as a shell does, and that the shell and what it starts run.
In `blocking` init runs; the device serves what it is given, its interrupts are
taken, and a woken caller gets the `vdisk_lock` it spins for (strong fairness:
the handler takes the lock again and again); the UART sends its FIFO and
interrupts; the host threads run. No fairness is assumed of a kill, a crash or a user.

## Proofs

All hold for every value of the constants that satisfies the assumption named in
the component's module. Each proof has one inductive invariant, checked by TLC
on the run's instance before it was proved, one lemma per action (or kind of
action), and the theorems as its consequences.

* **`ConfirmProofs`** (pids and the timeout are positive). `SlotCorrect`,
  `OneShotCorrect`, `WakeupCorrect`, `TypeCorrect`, and `Refinement` of
  `ConfirmGate`. The invariant adds: the lock is kept only by an agent about to
  sleep; an answer in the slot came from a reply addressed to the pending pid;
  replies in flight, the answer and past grants come from different prompts, so
  a y cannot be counted twice.
* **`SchedProofs`** (any harts, table size and charge table bounded by
  `MaxDelta`). `StackExclusion`, `PickIsSafe`, `LeadIsBounded`, `TypeCorrect`.
  The invariant says what each hart's position implies: a slot under test or
  chosen is locked by it and RUNNABLE (`ScanOK`); the process whose stack it is
  on is RUNNING or locked by it (`StackOK`); a running process's vruntime is at
  most `min_vruntime`, one tick more after the charge (`PaceOK`).
  `HartCorrect` (harts, processes and locks are different things): where a hart
  is determines how many locks it holds, whether interrupts are on and whether
  they were before (`PlaceInv`); a trap interrupts only what runs with
  interrupts on (`StacksInv`); a process is on one hart, its lock is held by that
  hart or by the one whose scheduler picked it or takes it back, and off its hart
  it has saved its own `intena` (`OwnerInv`). Of a process that never ran
  nothing is saved: it gets the scheduler's `intena`, which is off because the
  scheduler picks with interrupts off.
* **`AgentQueueProofs`** (rings of at least one usable slot, any drainers, any
  number of lines). `LinesConserved`, `FifoCorrect`, `OrderCorrect`,
  `WakeupCorrect`, `TypeCorrect`. Modular indices are replaced by the distance
  from the head (`Pos`). The invariant says, slot by slot, that stage 2 holds
  the rest of what was forwarded (`RingInv`), that stage 1 is in age order and
  younger than all that left it (`AgeInv`), that each line is in one place
  (`PlaceInv`), and that two lines are out of order only if they are a pair of
  which the younger was taken while the older was held (`OrderInv`).
* **`AgentRouteProofs`** (a finite default deny list that fits). `DenyCorrect`,
  `PendingCorrect`, `TypeCorrect`. `BarInv`: what is barred is on the list, and
  a command past the check was once found off it. `OpenInv`: as long as
  questions do not overlap, every open question is the pending one, and the key
  copied for a response is its own.
* **`CacheProofs`** (at least one slot, any callers, keys, files and record size).
  `CacheCorrect`, `LookupCorrect`. `CacheInv` is not inductive: it takes
  `RoomInv` (while a slot is free nothing was evicted in this boot), `CallerInv`
  (what a caller carries between lock regions) and `FreshInv` (records of a
  fresh key are of its last set and whole, or that value is lost).
* **`BlockingProofs`**.
  * `ProcCorrect` (any table size). The parts are: where a process can be in each
    state, a fork under way has a slot of its own, a parent is a live process and
    the one it was (`ParentInv`), a waiter has a child and none that exited
    (`WaitInv`), and a killed sleeper was killed in the gap (`KillInv`).
  * `BridgeCorrect` (Python's `None` is no question and no line). Unless it is
    stale, the call the host waits in is the only one anywhere, on its
    way down, its reply on its way up or in the slot (`OneCallInv`); between two
    calls there are only markers sent a second time (`QuietInv`); and what a tool
    call has captured or will, `capture_buf` followed by what is printed, queued
    and sent, has its command as the only output, with nothing but earlier markers
    before it (`ToolInv`). Forwarding, executing and reading leave that sequence as
    it is. A call is stale if lines of an earlier one were still on their way when
    it began, it timed out, or a command was dropped; the next call may be in order
    again, because all three parts hold as soon as nothing is on its way
    (`ClearStep`, `RunStep`).
  * `PipeCorrect` (finitely many processes, a ring of at least one byte,
    counters that wrap at a larger multiple of the ring). Where a process is
    in a call determines what it has in hand (`PlaceInv`); a file about to be
    closed came out of a descriptor that is free now or was never in one
    (`ShutInv`), which is what makes `f->ref` the number of descriptors; each
    end of a page is held by one file (`EndInv`); whoever is inside a call has
    that end open (`UseInv`), so no page is freed under a reader or a writer;
    at most one process has the pipe's lock and one that goes to sleep has its
    reason still (`PipeLockInv`); and the ring holds the bytes in flight at
    the places their numbers give (`RingInv`).
* **`FileProofs`** (an operation logs fewer than `MAXOPBLOCKS`, which fit the
  log; at least one buffer). The log: `RoomCorrect`, `SleeperCorrect`,
  `LogCorrect`, and `Refinement` of `AtomicDisk`: `Durable`, what a restart
  would find, changes at the write of the header only. This needs, for each step
  of commit and recovery, what both headers hold (`StageInv`), how far the
  copying has come (`CopyInv`), and that a buffer which is not pinned is a copy
  of its home (`BufferInv`). The buffer cache: `BufCorrect`: `refcnt` is the
  number of users (`RefInv`), so the victim of `bget` has none; the owner of a
  sleeplock is past `acquiresleep` on it (`LockInv`); a valid buffer is the
  block's last contents and so is the disk unless it is being written (`ContentInv`).
  The contents of files (`uint` holds every file size and every chunk;
  `MAXOPBLOCKS` is at least the four blocks `filewrite` subtracts): `DataCorrect`.
  Block numbers stand at the places of an inode and of its indirect block, and a
  block of the bitmap at exactly one (`Owned`): an allocation fills one empty place
  and moves nothing, so does the copy into a block that is no indirect one.
  `writei`'s check of `off + n` is exact although the sum may wrap (`NotRefused`).
  Every byte below the size, and every one the chunk under way has copied, is where
  `bmap` looks for it (`BytesInv`). A transaction has logged at most two blocks per
  block of the chunk besides the indirect one (`ChunkLogInv`), where a first
  block that is shared with earlier bytes costs one because it was mapped already:
  this is what makes the two blocks of slop enough for a write that is not aligned.
  Inodes and names (finitely many processes and names, ".." not one of them):
  `NamesCorrect`. What a process points at is fixed by where it is in a call
  (`CallOf`), so `ref` is the number of pointers at every step and not only
  between calls: a step changes one process's pointers, and `iref` follows
  them (`RefsStep`). In the middle of calls `nlink` is the number of names,
  subdirectories and calls of `sys_link` that have counted a name they have
  not made yet (`LinkInv`); an inode lost in a removed directory (`strays`)
  may have more. ".." of a directory is where its name is until it is removed
  (`UpInv`), and what a directory outside the tree names is lost already
  (`DetachedInv`): this is why `iput` and `ireclaim` may free a directory
  without looking at its entries. An inode without links has a reference in
  every state, unless the last `iput` dropped it after the inum was taken
  again (`SlipInv`). The bounds of the module are for TLC and hold only with
  `Bounded`, which the proof leaves open: `Explored` starts no new call once an
  inode is lost; `JailsAgain` and `OpensAndLinks` limit what comes with a second
  jail, of which there may be any number without them.
* **`DeviceProofs`**.
  * `DiskCorrect` (at least three descriptors): where a caller is in
    `virtio_disk_rw` determines what it has (`RequestInv`); what the device has
    or has given back is the head of a request (`HeadInv`); and
    `DescriptorsConserved` in two, who has which descriptors (`Owned`) and where
    the requests are (`Placed`). A chain is the same set as long as its members'
    `next` fields are.
  * `UartCorrect` (messages are not empty, a process is not a printer, the echo
    is neither): who is inside a message has the lock of its kind (`HolderInv`);
    the device has at most one byte of a `write()`, one of a `printf()` and one of
    the echo, which polls like a `printf` but holds no lock (`FifoInv`), so a byte
    in it is the last one written of its kind and goes on with the one last sent
    (`OrderInv`); a busy transmitter still interrupts (`OwedInv`).
  * `ConsoleCorrect` (the mirror is at least as long as the ring and has room for
    `REQ|` and a character; a host line fits the ring). The k-th character given
    to the readers is the k-th one taken or at its place in the ring (`KeptInv`),
    which a stored character never overwrites because indices less than the ring
    apart have different remainders (`Slots`). The line being typed has no end in
    it and leaves room for one, and there is none during a dispatch or between
    two lines (`RingInv`), so `^U` rewinds to `w`; a `REQ|` line that began with
    an empty ring has it to itself (`ReqInv`), so it ends before the ring does.

Only model-checked: every liveness property (fairness and ENABLED are out of the
prover's reach); `Shell`, whose parser is recursive; `Memory`, whose conservation
of pages is a sum over tables (induction over data); and `Confined`, which is
about paths of any length up to the root (induction over data too).

## Not modelled

The registers saved by the trap and switch assembly, formatting, page contents,
device nodes and `stat`, boot, mkfs, single tools of agentd, the prompt building
and LLM clients of `agent.py`, utilities and test programs. The widths of
`ticks` and `vruntime` are not modelled: at one tick per 100 ms they do not wrap
in a run of the system.

## Plan

Next come models: starvation freedom of the user class with the real weights;
device nodes; agentd's tools as far as they share files.
