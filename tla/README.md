# TLA+ models of the SMX kernel

This directory holds TLA+ models of the multitasking kernel of SecureSMX
(`src/XSMX`), of its portals (`src/SSMX`) and of its heap (`src/EHEAP`), the configurations with which TLC checks them, and theorems about
them that the TLA+ proof system has checked. File names without a directory are
those of `src/XSMX`; `src/BSP`, `src/CFG`, `src/SA` and `src/XMW` hold drivers,
build files and middleware around it.

## The system

smx runs on one Cortex-M processor. There are three levels of code:

* **ISRs** run at interrupt level, nest, and may come between any two
  instructions at which interrupts are enabled. Of the kernel they may only call
  `smx_LSRInvokeF()` and a few pipe functions.
* **LSRs** (link service routines) are the deferred part of ISRs. They wait in a
  cyclic queue, run one after the other inside the PendSV handler, and may call
  most services but never wait. A task cannot run while an LSR waits, unless LSRs
  are off.
* **Tasks** have priorities; the first task of the highest non-empty level of the
  ready queue runs.

Every service is a *system service routine* (SSR): `smx_SSREnter()` raises
`smx_srnest`, the body works on the kernel's queues with interrupts enabled, and
`smx_SSRExit()` either returns or triggers the PendSV handler, called PSVH() in
the source. PSVH() runs all LSRs, then decides from `smx_sched`, `smx_rqtop` and
`smx_ct` whether to go on with the current task, suspend it or stop it, switches,
runs the LSRs invoked meanwhile (a *flyback*), and returns. So an SSR is never
interrupted by another SSR, but what a task's SSR decided may be changed by the
SSRs of LSRs before PSVH() acts upon it, and even after it did.

### Inventory

| Component | State it keeps | Operations | Interacts with | What is hard |
| --- | --- | --- | --- | --- |
| LSR service: `xlsr.c`, ISR entry/exit in `xarmm.c`, `smx_SchedRunLSRs()` | the ring `smx_lqi..smx_lqx`, `smx_lqin`, `smx_lqout`, `smx_lqctr`, `smx_clsr`, `smx_srnest`, PENDSVSET | invoke, on, off, create, delete, ISR enter and exit | everybody | ISRs between any two steps; whoever lowers `smx_srnest` must look at `smx_lqctr` |
| Scheduler: `xsched.c`, `xarmm_iar.s` | `smx_ct`, `smx_ctnew`, `smx_sched`, `smx_rqtop`, `smx_lockctr`, saved contexts, shared stacks | the legs and flybacks of PSVH(), SSR exit | queues, LSR service, task services | LSRs that stop, suspend, resume or restart a task that is being switched |
| Task services: `xtask.c` | the task control block: state, pri, prinorm, rv, sp, flags | create, start, stop, suspend, resume, sleep, bump, lock, delete, set | queues, timeouts, scheduler, mutexes (priorities) | calls by LSRs on the current task; calls on tasks that wait or hold something |
| Queues: `xsmx.c` | links of tasks, ready queue levels, `smx_rqtop`, promotion of owners | enqueue, dequeue, requeue in FIFO or priority order | every service | `smx_rqtop` kept incrementally; priorities that change while tasks wait; mutual recursion along owners |
| Timeouts and time: `xtime.c` | `smx_etime`, `smx_timeout[]`, `tmo_min`, `tmo_indx`, runtime counters | tick, set, expire, roll over, delays | tasks, timers, LSRs | timeout against signal; roll-over; runtime limits |
| Semaphores: `xsem.c` | mode, count, lim, task queue | create, signal, test, test-stop, clear, delete, peek | queues, timeouts, scheduler | tokens handed to a task that has not run yet; threshold off by one |
| Mutexes: `xmtx.c` | owner, nesting count, ceiling, task queue, mutex-owned list | get, get-stop, release, free, clear, delete, fast get/release | queues (promotion), heaps, deletion of tasks | inheritance along chains; demotion recomputed locally; ownership after timeouts |
| Messages and exchanges: `xmsg.c` | message and task queues, owner, reply | send, receive, broadcast, release, make | queues, priorities, block pools | message priority promotes the receiver; a queue of messages or of tasks, never both |
| Pipes: `xpipe.c` | ring of packets, task queue of getters or putters | get, put, resume, clear | ISRs, tasks | ISR and task share the ring; waiting tasks resumed when the pipe changes |
| Event groups, event queues: `xeg.c`, `xeq.c` | flags, masks, differential counts | set, reset, test, count, signal | queues, timeouts | several tasks matched by one event, in one scan |
| Timers: `xtmr.c` | differential queue, period, width | start, stop, expire, set | tick, LSRs | queue changed while it is walked |
| Blocks, protected blocks and messages: `xblk.c`, `xpblk.c`, `xpmsg.c` | free lists, owners | get, release, make | tasks, MPU | owner that is deleted |
| Heaps: `xheap.c`, `src/EHEAP/eheap.c` | chunks, bins, donor and top chunk, pointers of the scan and the sort | malloc, free, realloc, recover, extend, seed; sort and scan by the heap manager | mutex (fast); the idle task between the calls of others | pointers kept from step to step; search and recovery must agree; SSR exit with interrupts enabled, see `SmxLsr` |
| Portals: `src/SSMX/*port*.c` | portal structures of client and server, the header of a message, two semaphores | open, close, send, receive, the server loop | messages, semaphores, priorities | late answers after a timeout; handles that mean something else meanwhile |
| Power down: `xsys.c` | `smx_etime`, timers, timeouts | power down, tick recovery | timers, timeouts | ticks replayed in order |
| Partition and MPU support, error manager, handle table, event buffer, profiling, base library, ports of other interfaces, BSP, demos | | | | see "Not modelled" |

### What makes each component correct

* LSR service: accepted invocations run exactly once and in order, none is
  overwritten or left behind, all run in the end.
* Scheduler: the task that runs is the first of the highest level unless the
  scheduler is locked or already told to decide again; a task that was not told
  to stop keeps its context; one that was told to stop does not go on.
* Queues and timeouts: a task is in one queue at most, ready tasks are at the level
  of their priority, `smx_rqtop` is the highest non-empty level, a task that is
  ready has no active timeout, waiting tasks are sorted.
* Semaphores: no task waits for what is there; tokens of a resource are neither
  duplicated nor lost.
* Mutexes: lists, owner and count agree; an owner has at least the priority of
  those it keeps waiting and returns to its own when it owns nothing.
* Timeouts and timers: a wait ends by its timeout only when it is due, the oldest
  first, and before and after the rollover of the clock; every timer runs as if it
  were the only one, through ticks and recovered ticks alike.
* Messages: a message is in one place and its exchange knows of it; the most urgent
  is received first; a server is as urgent as what waits for it.
* Pipes: a packet is got once and in order, and no task waits that could go on.
* Event groups and queues: no event is missed, no signal is miscounted.
* Heaps: chunks, links, sizes and bins agree after any sequence of calls; no call takes
  room from another block; the manager resumes its scan and its sort at what is still there;
  a search ends.
* Portals: the answer a client takes is the one to its request; client and server do
  not wait for each other; a portal that is closed leaves no message behind.

The hazards, each at its line, are listed in `PROJECT.json` with the properties
that would catch them.

## Modules

| Module | Contents |
| --- | --- |
| `SmxLsrFifo` | what the LSR service promises: a bounded first-in first-out queue and at most one LSR running |
| `SmxLsr` | the LSR service: the ring, ISRs, SSR entry and exit, PSVH() as far as LSRs go |
| `SmxLsrProofs` | theorems about `SmxLsr` and their proofs |
| `SmxSequences` | a sequence without a member |
| `SmxQueues` | the kernel's data and the routines of `xsmx.c` that move tasks, as operators |
| `SmxKernel` | scheduler and task services; extends `SmxQueues` |
| `SmxKernelProofs` | theorems about `SmxKernel` and `SmxQueues` and their proofs |
| `SmxSem` | semaphores on top of `SmxKernel` |
| `SmxSemProofs` | theorems about `SmxSem` and their proofs |
| `SmxMutex` | mutexes on top of `SmxKernel` |
| `SmxMutexProofs` | theorems about `SmxMutex` and their proofs |
| `SmxWord` | the width of a time |
| `SmxTimeoutSpec`, `SmxTimerSpec` | what timeouts and timers promise |
| `SmxTimeout` | `smx_timeout[]`, its minimum, the tick and timeout LSRs, the rollover |
| `SmxLemmas` | lemmas for the proofs: the least and the greatest of a set of numbers; what removing, inserting and appending do to a sequence without repetitions, and to its order |
| `SmxTimer` | the differential queue of timers, as operators on a record |
| `SmxTime` | timers and timeouts driven by the tick, the timer SSRs, tick recovery |
| `SmxTimeProofs` | theorems about `SmxTimeout` and `SmxTime` and their proofs |
| `SmxTask` | what the modules below know of tasks |
| `SmxMsg` | messages and exchanges |
| `SmxPipe` | pipes, with ISRs at one end |
| `SmxEventGroup`, `SmxEventQueue` | event groups and event queues |
| `SmxObjsProofs` | theorems about `SmxMsg`, `SmxPipe`, `SmxEventGroup`, `SmxEventQueue` and `SmxFPortal` and their proofs |
| `SmxChunks` | chunks and bins of a heap, as operators on a record |
| `SmxHeap` | the calls of eheap and the heap manager |
| `SmxPortal` | the tasks of a portal |
| `SmxTPortal`, `SmxFPortal` | tunnel portals and free message portals |
| `SmxPortalProofs` | theorems about `SmxTPortal` and their proofs |
| `MCSmxLsr`, `MCSmxKernel`, `MCSmxSem`, `MCSmxMutex`, `MCSmxTime`, `MCSmxObjs`, `MCSmxPipe` | instances for TLC |

`SmxLsrFifo`, `SmxTimeoutSpec` and `SmxTimerSpec` are abstract specifications;
`ImplementsFifo`, `TimeoutsImplement` and `TimersImplement` say that the detailed
ones implement them.

Definitions whose name ends in `_Something` and whose comment says *Mutant* are
faulty variants of the definition that follows. No specification uses them; they
show that each property notices the mistake.

### SmxLsr

The variables are the globals of the same names: the cells `lq`, `lqin`, `lqout`,
`lqctr`, `clsr`, `srnest`; `pend` is PENDSVSET, `isr` the depth of active ISRs,
`hpc` and `tpc` say where PSVH() and the task are. The grain is what an interrupt
can separate: a section between `sb_INT_DISABLE()` and `sb_INT_ENABLE()` is one
action. That is why `smx_SchedRunLSRs()` is `TakeLsr` (the decrement of
`smx_lqctr`) and `StartLsr` (the read of the cell), and why `smx_SSRExitIF()` is
`FastExitTest`, `FastResume` and `FastExitDone`. An SSR's body counts as one step
(`tpc = "ssr"`) during which ISRs come and go. `EhPre` says whether a heap has a
mutex, the only case in which `smx_SSRExitIF()` is left by task level code outside
of an SSR. `MaxLoad` is an assumption about the application: it leaves at most that
many invocations waiting; `MaxLoad >= SIZE_LQ` means no assumption.

The abstract `SmxLsrFifo` is instantiated with the refinement mapping `Waiting`
(the unread cells from `lqout` on) and `Running` (`clsr`, or the cell about to be
read).

### SmxQueues and SmxKernel

An SSR calls several queue routines in turn, each of which reads what the last one
wrote. They are operators that map the kernel's data, the record `k`, to new data,
and an action composes them in the order of the source. A queue is a sequence of
tasks in place of links: `Queued(k, t)` is `task->fl != NULL`. `k.sp[t]` is
`task->sp != NULL`. `k.begun` is a history variable: the tasks that were started
and neither stopped nor restarted since. It is what `ContextKept` and `StopHonoured`
are about.

`pc` says where the processor is: in the current task, in PSVH() before its
decision (`"psv"`), in the LSR flyback of `smx_SchedRunTasks()` (`"fly"`), in the
tail of PSVH(). SSRs of the task are enabled in `"run"`, SSRs of LSRs in `"psv"` and
`"fly"`, any number of them, since an ISR may have invoked any number of LSRs.
`Leave` is `smx_SSRExit()`: a task whose SSR leaves `smx_sched` alone goes on or
enters PSVH(), for an ISR may have invoked an LSR while it ran. `SwitchTo` is the end
of the leg and `get_top_task`; `FlyTop`, `FlyResume` and `FlyStart` are the three
ways out of the flyback.

A timeout is either active or not (`"SET"`, `"INF"`); an active one may expire
whenever PSVH() runs LSRs. This allows for every order of timeouts and includes
waits without limit (timeouts never reached).

Task creation and deletion, runtime limits, hooks, ready queue repair, and the pool
of shared stacks (a stack is always available) are left out, and the parameter that
`smx_TaskStartPar()` hands to a task.

### SmxSem and SmxMutex

Both add their object's state to that of `SmxKernel` and reuse its actions. `SmxSem`
has `count`, and two variables that do not exist in the code: `call`, the test whose
result the task has yet to learn, and `held`, the tokens of resource semaphores a
task knows it has. The result of a test is either returned at once or left in
`ct->rv` by `smx_SSRExit()` for PSVH() to return; between the two, LSRs run. Tokens
are signalled back by the tasks that hold them only (an assumption about the application).

`SmxMutex` has the nesting counts and the mutex-owned lists; the owner is in `k`
because `xsmx.c` changes its priority. `OnrPriAdj` unrolls the mutual recursion of
`smx_MutexOnrPriAdj()` and `smx_ReQTask()`, whose depth is at most the number of
mutexes as long as tasks lock them in the order of `Rank`. smx detects no deadlocks
and the recursion would not end on a cycle of owners, so this order is an assumption
about the application. Restarts of owners with another priority are left out.
`DQTask` lowers the owner only when the task that leaves is the first in the queue of the
mutex (`FirstAt`): the code asks what the task's back link points to (`xsmx.c:238`, `274`).

### SmxTimeout, SmxTimer and SmxTime

A time is a word of `Word = 2 * Half` values; `Half` stands for 0x80000000 and `INF`,
the largest word, for `SMX_TMO_INF`. `SmxTimeout` has one word per task, and the two
globals that remember the earliest. `Tick` is the tick LSR, which counts `smx_etime` and
invokes the timeout LSR when `smx_tmo_min` is reached; `pend` counts its invocations that
wait, and `TimeoutLSR` is one run of it: it times out the task `smx_tmo_indx` names, if
that task's timeout is due, and looks for the next one. `EtimeRollover` is the idle task's
test and subtraction. `TimeoutAssumption` says that no sum of the clock and a delay
reaches `INF`, which the conversion of a delay in the source does not check. `Lag` is how
long the idle task may be kept from running once the clock has passed `Half`.

`SmxTimer` keeps the queue as the code does, each timer with its difference to the one
ahead. Its operators (`TimerStart_F`, `TimerStop_F`, `NQTimer`, `DQTimer`, `TimerTimeout`
...) are the routines of `xtmr.c` and `xsmx.c`; `SmxTime` calls them. `SysPowerDown` is the
whole of `smx_SysPowerDown()` and `smx_TickRecovery()`: a fold of `Recover`, one round of
the recovery's loop, over as many rounds as can be needed. `smx_TimerStartAbs()` is not an
SSR until it calls one, and the tick may come between its two reads of `smx_etime`: it is
the three actions `StartAbsTest`, `StartAbsDelay` and `StartAbs`. Starting a pulse
timer anew with a period no longer than its width is left out (a guard of `TimerStart`).

### SmxTask and the modules that use it

`SmxKernel` shows how tasks are switched. The modules for messages, pipes, events and
portals need less: a call has its effect at once, and the caller, if it waits, is in a
queue. Any task that does not wait may make the next call. This is a superset of what the
scheduler does, since a preemption at the right moment lets any ready task call; LSRs make
calls as `Lsr`. Timeouts and task SSRs that end a wait (`Withdraw`, `PipeWaitEnds`,
`EventWaitEnds`, `CountEnds`) may come at any time.

* `SmxMsg`: the record `e` has the one queue of each exchange with its flags `mq` and
  `tq`, owners of messages and of exchanges, priorities of messages and tasks. A task may
  own a mutex (`molp`), which keeps the code from lowering its priority. Once the flags
  and the queue contradict each other (`~Intact`) the code follows a pointer of the wrong
  type; the behaviour ends there, and the action properties say which call led to it. `Owned`
  is `smx_MCBOnrTest()`: a task may use its own messages only, an LSR any message, also one that
  waits at an exchange or belongs to a task.
* `SmxPipe`: ISRs have one end of the pipe at most (`isr`), through the functions that are
  not SSRs, and tasks the other. A task's get is `FetchStep`, `TestStep`, `ClearStep` and a
  put ends with `FlagStep`, because an ISR may come between the accesses to `wp`, `rp`
  and `full`. A put to the front takes a step more (`BeginFront`, `FrontStep`): it reads `rp`
  (`xpipe.c:691`) before it disables interrupts (705) to store what it made of it. With `isr = "none"` the functions that are not SSRs are called by no one else.
  `kept` is the history of packets put and not got; the behaviour ends when the pipe holds
  something else.
* `SmxEventGroup`: flags are bits, a test is a mode, a mask and the flags it clears.
  `AndOrLoop` is the code's loop over an and/or mask, turn by turn (`AndOrTurn`), whose terms are told apart by bits
  that are 0 (so the mask is wider than the flags); `Holds`, which the property uses, is
  an independent definition without the loop.
* `SmxEventQueue`: `sv` holds differences as in the code; `due` is the history of what each
  task still waits for.
* `SmxTPortal`: the record `tp` has each client's structure (TPCS), the header of its
  message, the server's structure (TPSS), the exchange `sxchg` with its owner and bound
  client, and the pool of semaphore control blocks. That pool is what gives a handle another
  meaning: a client that closes deletes its two semaphores, and the next one to open
  gets the same blocks. The header's words `csem` and `ssem` are reused by `cmpsz` and by the
  shell (`Command`, `Shell`), as the two structures TPMH and TOMH of `portl.h` overlap. `cmd`
  is written and read in steps of its own; any service call may be preempted.
  `sound`, `stage` and `direct` are history.
* `SmxFPortal`: each message has an owner, a reply exchange and the client structure (FPCS)
  it belongs to. An exchange that was deleted may be created again for another client while
  messages of the first one are still on their way to it. `calm` is history.
* `SmxHeap`: a call holds the heap's mutex from beginning to end, so each is one step; the
  interleaving is that of whole calls, of which `HeapBinSort` and `HeapScan` are the small
  steps of the heap manager (`smx_HeapManager()`), which keep their place in `csbin`, `ccp`,
  `ltp` and `hsp` in between. The record `hv` is the heap variable of the same name. Free
  lists are sequences in place of links. `eh_Malloc()` with and without an alignment above 8
  are one operator, `FitSearch`: without, `Dist` is 0. The spare space of a chunk is `ssp`, the address in
  its last word, and `Junk` when the block's data have replaced it; the behaviour
  ends there, as it does when a search does not end (`hung`). The loop of the search is
  unrolled once: a second recovery would find the chunk that the first one left.
  `blocks` and `grew` are history.

## Runs

| Run | Shows | Bounds |
| --- | --- | --- |
| `Lsr` | ring, order, no stranded LSR, progress | 3 cells, load at most 2, 2 LSRs, ISRs nested twice, heap mutexes in use |
| `LsrOverwrite` | *violation* of `NoUnreadOverwritten` | 2 cells, load not limited |
| `LsrStranded` | *violation* of `NoStrandedLsr` | heap mutexes in use |
| `Kernel` | queues with `smx_rqtop` and timeouts (`QueuesConsistent`), contexts, preemption | 2 tasks and idle, 3 levels, lock nesting 2 |
| `KernelStop` | *violation* of `StopHonoured` | as `Kernel`, stops and starts only |
| `Sem` | signals, tokens, order, timeouts, preemption | 2 tasks and idle, a semaphore of each mode, 4 levels |
| `SemToken` | *violation* of `TokensConserved` | as `Sem` |
| `Mutex` | ownership, inheritance, demotion | 3 tasks and idle, mutexes with and without a ceiling, nesting 2 and 1 |
| `MutexPri` | *violation* of `NoInversionNested` | as `Mutex` |
| `Time` | timeouts and timers implement what they promise, rollover, tick recovery, progress | words of 10 values, 2 timers, 3 tasks, delays up to 3, 1 or 2 ticks lost |
| `Objs` | messages, pipes, event groups, event queues, tunnel portals, free message portals, heaps | 3 tasks, 2 messages, pipe of 2 cells, 3 flags, counts up to 4, 2 clients, heaps of 13 to 23 units with 2 bins; see below |
| `PipeIsr` | *violation* of `NoConflictWithIsrGet` | a pipe of 2 cells, one task, ISRs that get |

No run switches deadlock checking off: in every reachable state something can
happen. (In `Objs`, clients of a tunnel portal that have made the calls the bound grants
let the others go on, and a behaviour rests when nobody can; `AnswersMatch` says that
client and server do not wait for each other.)

Why the bounds are enough for the questions asked:

* `Lsr`: the three cells hold zero, one or two entries at every offset, with the wrap
  before, between and after them; a load of two is the least at which order matters. Two nested ISRs
  are needed because only the outermost one looks at `smx_lqctr`. The counter is
  compared with the number of cells only, so a longer ring has no further case; the
  proofs below cover all lengths and depths.
* `Kernel`: every decision of PSVH() compares the current task with the top task;
  two tasks and the idle task can be on the same level or on different ones in either
  order, and each may be the current one, the object of an SSR or a bystander. Bump
  and start take every priority. A deeper lock count behaves like 2.
* `Sem`: a behaviour uses one semaphore (`used`), because semaphores share nothing
  but the kernel's data. Two tasks can wait together, be sorted, and be resumed by one
  signal each or, at a gate, together. `Bumps` restricts `smx_TaskBump()` to one call
  that reorders the waiting tasks (a timeout raises the task's priority again); its other
  uses are checked by `Kernel`. `MaxCount`
  stands for the 255 at which an event count stops. A threshold of 2 is the least that
  differs from an event semaphore.
* `Mutex`: three tasks and two mutexes give a chain of two owners: the lowest task
  owns `m2`, the middle one owns `m1` and waits for `m2`,
  and the highest one waits at its end. `Bumps` lowers the highest task and raises the
  lowest, and a timeout raises the lowest one too: tasks must be moved in the queues they
  wait in, and their owners with them.
* `Sem` and `Mutex` use a VIEW. `begun`, and whether a task is RUN or READY, are read by
  no property of these runs, and by no action that would go another way for it; the same
  holds in `Mutex` for `rv` and `sp` (no task starts locked there, so that resuming and
  starting differ in these fields only). Actions map states that agree on the rest to
  states that agree on the rest.
* `Time`: a behaviour makes the calls of one kind, `used`: of timers, of
  `smx_TimerStartAbs()`, or with timeouts; timers and timeouts share only the tick and the
  power-down. With `Half = 5` the clock rolls over every few ticks, so that timeouts are set before
  and compared after. Two timers are in the queue in either order, or expire at one tick; three
  tasks are needed for a minimum that is stale while two other timeouts are active. Two
  ticks lost at once are enough for an expiry in the middle of the recovery that puts its timer
  back into the part that is still to be recovered.
* `Objs`: a behaviour uses one kind of object (`used`). *Messages*: two tasks and two messages,
  at either a normal and a broadcast exchange or at two pass exchanges, one with a server
  (`active`), two priorities: two messages or two tasks wait, in either order. *Pipe*: two cells
  are the least at which neither empty nor full is the only state, with both positions of the
  pointers; three tasks may wait. *Group*: tests in every mode, alone and with overlapping masks
  and clears, on three flags. *Queue*: three tasks, so that one leaves from the middle. *Tunnel*:
  one client makes any 5 calls (open, send, receive, close) with requests of up to two
  blocks, server functions that fail, and a portal that is deleted and created; 5 is
  enough to open, be timed out, open again and send, or close in between. Or two clients
  make 3 calls between them, with different priorities, sends of one block, and a portal that stays.
  The two parts were also run by themselves, one client with any number of calls (276,000
  states) and two with 4 calls between them (714,000), with the same result. *Free*: two clients, two messages, two
  exchanges, with no other bound. *Heap*: one of four heaps (`Setups`), with two sizes of
  blocks each and 2 or 3 blocks at a time. A unit is 8 bytes, to which eheap rounds every size. There is a bin of one
  size (24 bytes, in the small bin array) and one of all larger chunks, in which order matters. The first heap has a donor
  chunk of 6 units, recovery, alignment at 64 bytes (more than a chunk, so that all cases of
  `merge_space()` occur), a seed of three blocks, and both kinds of extension; the second one larger blocks
  and seeds, so that three chunks in a bin are sorted; in the third one the donor chunk is
  too small to be used; the fourth one has little else, and an alignment of 16 bytes. A call in any order may follow any other, with no bound on their number.
  Tasks `a` and `b`, and the two messages, are interchangeable
  (SYMMETRY).

### Fairness

`Lsr` and `Time` check liveness. `Lsr` assumes, in `FairSpec`:

* `WF(ISREnter)`: interrupts keep coming. The tick interrupt does.
* `SF(isr = d /\ ISRExit)` for each depth `d`: an ISR returns, though others may
  interrupt it again and again.
* `SF(PsvProgress)`, `SF(TaskProgress)`: interrupts do not take all of the processor's
  time, so PSVH() and the task take steps if they can again and again. Without this
  no system with interrupts makes progress.
* `SF(LSRsOn)`: code that calls `smx_LSRsOff()` calls `smx_LSRsOn()`, as every caller
  in `src/XSMX` does.

`LsrsRun` depends on the first of these: an LSR stranded by `smx_SSRExitIF()` runs at
the next interrupt.

`Time` assumes `WF(RunTimeoutLSR)`: an LSR that has been invoked runs. That is what
`LsrsRun` shows of the LSR service. `TimeoutsServed` says that a timeout that is due is
dealt with in the end, although `smx_tmo_min` may be out of date when it comes.

## Where the code and its description disagree

* **`LsrOverwrite`**. `smx_SchedRunLSRs()` decrements `smx_lqctr` and enables
  interrupts (`xsched.c:106-108`) before it reads `*smx_lqout` (111). If all cells are
  in use, an ISR in between finds room, and `smx_lqin = smx_lqout`: it overwrites the
  entry that is about to be read. The refused invocation goes unreported and one LSR
  runs twice. `RingHolds` proves that it cannot happen while fewer than `SMX_SIZE_LQ`
  invocations wait.
* **`LsrStranded`**. `smx_SSRExitIF()` lowers `smx_srnest` with interrupts enabled
  and does not look at `smx_lqctr` again (`xsched.c:545-546`). An LSR invoked just
  before waits until the next interrupt or SSR. `StrandedOnlyBySSRExitIF` shows, and
  its theorem proves, that this is the only such window.
* **`KernelStop`**. An LSR in the resume flyback that restarts or stops the current
  task sets `smx_sched = SMX_CT_STOP`; if the task is still the top one, `xsched.c:296`
  clears `smx_sched` and the task goes on where it was.
* **`SemToken`**. `smx_TaskResume()` of a ready task clears its return value
  (`xtask.c:632-638`), although its comment says that it does nothing then. If the
  task is ready because it was given a token, its test returns false and the token is
  lost. Until the task runs, any task or LSR may do this.
* **`MutexPri`**. When a task enters the queue of a mutex or leaves it as the first, the owner's
  priority is recomputed from that mutex alone (`xsmx.c:283-293`, `908-912`), so an
  owner of several mutexes may fall below the ceiling or the first waiter of another
  one. `NoInversion` shows that owners of a single mutex are safe, along chains too.

* **`PipeIsr`**. A put stores `wp` and then compares it with `rp` (`xpipe.c:701`, `714`;
  `314-316` in `smx_PipePut8()`). If an ISR gets the packet in between, the pointers of an
  empty pipe are equal and `full` is set: its stale cells are got again. The comments at
  `xpipe.c:373` and `683` say that the order avoids this.

Other disagreements are exceptions that a passing property names. Take the exception out and
TLC shows the case.

* `OnlyTheseLosePackets`: a get of a full pipe stores `rp` and then clears `full` (`xpipe.c:604-606`);
  an ISR that fills the pipe in between loses its packets. `smx_PipePut8M()` and `smx_PipeGet8M()`
  take equal pointers for an empty pipe. A put to the front (`xpipe.c:691`, `706-710`) that has read `rp`
  when an ISR gets packets moves `rp` back to before these, and they are got again.
* `OnlyResumeDropsWaiter`: `smx_PipeResume_F()` takes the first waiting task out of the queue
  (`xpipe.c:796`) and returns if its call cannot be completed; the comment says that it leaves
  the task in the queue (783-784).
* `OnlyTheseBreakExchanges`: `smx_MsgBump()` of the only message of an exchange clears
  `mq` (through `smx_DQMsg()`) and nothing sets it again; `smx_MsgRelAll()` frees a message its
  owner has broadcast and leaves it in the queue. `xmsg.c:961` says that the exchange remains the owner of
  a broadcast message; it stays its sender's, which is why `smx_MsgRelAll()` finds it. And since
  `smx_MCBOnrTest()` lets an LSR send any message (`xsmx.c:613`), an LSR may broadcast one that waits
  at another exchange: it is moved to the queue of the broadcast exchange (`xmsg.c:615-645`), but goes on belonging to the
  one it has left (`Astray`), so that no task can send or release it.
* `OnlyTheseFallBehind`: the comment of `smx_MsgReceive_F()` says that it assigns the message's
  priority to `prinorm` (`xmsg.c:951-952`); it does only when `pri` changes as well (1009-1013).
* `HangsOnlyAtEnds`: after a successful `eh_Recover()` the search starts over (`eheap.c:1138-1144`), and finds
  nothing if what was recovered is the top or the donor chunk: the search wants room for the
  control block of the remainder there (1093, 1132), the recovery does not (1528-1548). Nor does it
  know whether the donor chunk may be used at all. Then the two repeat for ever, with the heap's mutex held. Note 5 on
  the donor chunk says that `eh_Recover()` must skip what `eh_Malloc()` skips,
  or an infinite loop will result.
* `OnlyRegrownBlocksLoseRoom`: `eh_Realloc()` in place (`eheap.c:1417-1444`) leaves `EH_SSP` and the old address of the
  spare space alone when the block grows into it. Freeing the next chunk, or finding an aligned one there, then moves that
  chunk's start to the old address, inside the block; or, if the block's data have replaced the
  address, to wherever they point.
* `SortResumes`: `merge_space()` enlarges a free chunk within its bin and neither moves it nor marks the bin for
  sorting, so an unmarked bin may be out of order (`grew`).
* `OnlyStartAbsOverruns`: `smx_TimerStartAbs()` reads `smx_etime` twice (`xtmr.c:269-271`). What wraps is
  the delay until the timer's first expiry, and what `smx_TimerReset()` starts it with later (`nxtdly`).
* `OnlyRestartsShiftPulse`: `smx_TimerReset()` and `smx_TimerSetPulse()` in the HI phase leave the
  lengths of the next phases exchanged or out of date.
* `AnswersMatch` is about clients that opened the portal when nothing was left of earlier use
  (`sound`). Without that: the server times out, and the client's next request leaves a signal in
  `ssem`; the client reopens the portal, and the server serves OPEN twice and signals `csem` twice, so
  that the next `mp_TPortalSend()` returns true before the server has begun. `tportlc.c` clears
  `csem` on reopening for that reason (114-118) but not `ssem`, and does not clear `csem` when it is
  new, although its block may be one the server still has the handle of. A portal
  that is open already is opened again, though the comment says that `mp_TPortalOpen()`
  aborts; if this fails, `open` stays true and the late answer to OPEN is taken for
  that of the next request.
* `ServedIsPromoted` is about a client whose message the server waited for (`direct`), with one
  other client waiting. When a queued message is received, `smx_MsgReceive_F()` sets `xchg->bct`,
  the client to promote, to `smx_ct` (`xmsg.c:988`, "client"), which is the server; a bound send
  sets it to the sender before that is served. A second bound message queued before the server's
  first receive makes `smx_MsgPriorityPromotion()` use an owner that is NULL (`xmsg.c:847`);
  the model takes no such step.
* `CloseReleasesAll` is about a portal that has its messages when it is closed (`calm`).
  `mp_FPortalClose()` says that it releases all messages owned by the portal and waits for each
  (`fportlc.c:36-38`). But a message it had to wait for is handed over by the sender, which does not
  set `pch->pmsg`, so that `smx_PMsgRel(&pch->pmsg, 0)` releases nothing and the message is counted out (71-75);
  and `pch->pmsg`, which `portl.h:107` calls the "handle if held by ct", is set by the
  server's receive as well, and cannot be released while the server owns it.

Two cases that the models leave out: `sbp_ConDbgMsgMode()` (`src/SSMX/cpcli.c:80-82`) uses the message
it waited for without asking whether it got one, and `mp_TPortalClose()` clears the
pointers through which the shells write.

## What is proved

The specification that a theorem is about is that of its module. In `Objs` the modules are put side by side, and a behaviour
uses one of them, so a theorem of each holds there too.

`SmxLsrProofs` proves, for every number of cells, set of LSRs and depth of nested
ISRs, under `LsrAssumption` (sizes are positive, `NoLsr` is no LSR):

| Theorem | Statement | Further assumption |
| --- | --- | --- |
| `TypeCorrect` | `Spec => []TypeOK`, in particular the bounds of `smx_srnest` and `smx_lqctr` | |
| `PsvIsGuarded` | `Spec => []PsvGuarded` | |
| `StrandedOnlyBySSRExitIFHolds` | `Spec => StrandedOnlyBySSRExitIF` | |
| `NoStrandedLsrWithoutHeapMutex` | `Spec => []NoStrandedLsr` | `~EhPre` |
| `RingHolds` | `Spec => [](RingConsistent /\ NoUnreadOverwritten)` | `MaxLoad < SIZE_LQ` |
| `LsrImplementsFifo` | `Spec => ImplementsFifo` | `MaxLoad < SIZE_LQ` |

`TypeOK` is not inductive: that `srnest` stays within 0..2 depends on who is where.
`Control` says so: `srnest` is positive while PSVH() is pending or runs, while a task
is in an SSR or a fast mutex function, and has room for one level more when the task
is outside. `CInv == TypeOK /\ Control` is inductive and gives the first three theorems
with one lemma per group of actions. For the ring, `Buffer` adds the load bound, the
relation between the two pointers and the counter, and that the cells between them hold
LSRs; `IInv == CInv /\ Buffer`. The refinement maps every accepted invocation to
`Accept`, `TakeLsr` to `Start`, `LsrReturn` to `Finish` and everything else to a
stutter; `CellAtDistinct` is the fact on cyclic distances it rests on.

The two violations show that neither further assumption can be dropped.

`SmxTimeProofs` proves of `SmxTimeout`, for every number of tasks, word width, set of delays, lag and number of
waiting LSRs, under `WordAssumption` and `TimeoutAssumption`:

| Theorem | Statement |
| --- | --- |
| `TimeoutInvariance` | `TimeoutInv` is an invariant |
| `RolloverTestHolds` | when the clock has reached `Half` and no LSR waits, no timeout is below `Half` |
| `TimeoutsKept` | `TimeoutsImplement`: the timeouts implement `SmxTimeoutSpec` |

`TimeoutInv` is inductive and has four parts: the types; `MinBelow`, that `smx_tmo_min` is never
later than an active timeout (it may be earlier, when the one it belonged to was cancelled);
`LsrInvoked`, that the timeout LSR is on its way when `smx_tmo_min` has passed; and `InReach`, that
no timeout is further away than the longest delay. `MinBelow` is why the task that is
timed out is the one that is overdue for the longest time; `LsrInvoked` and `InReach` together
give `RolloverTestHolds`, so the loop of `smx_EtimeRollover()` that looks for a timeout below
`Half` never finds one, and the subtraction underflows nowhere.

Of `SmxTime`, where timers, timeouts, power down and tick recovery meet, it proves, for every number of timers as well,
every set of starts and pulses, and sleeps no longer than the longest wait, under `TimeAssumption` besides:

| Theorem | Statement |
| --- | --- |
| `TimeInvariance` | `TimeSpec => []TimeInv` |
| `TimersTyped` | `TimeSpec => []TimeTypeOK` |
| `TimersRunAlone` | `TimeSpec => TimersImplement`: the queue of differences implements `SmxTimerSpec` |
| `TimeoutsKeptInTime` | `TimeSpec => TimeoutsImplement`, tick recovery included |
| `AbsOverrunsOnly` | `TimeSpec => OnlyStartAbsOverruns` |
| `PulsesKeepShape` | `TimeSpec => OnlyRestartsShiftPulse` |

`Adds(q, d, L)` says that the differences `d` along the queue `q` add up to the ticks `L` that each timer has left, in a
local form: a timer's difference is what it has left less what the one ahead of it has. No sum is taken in a proof about a routine; that the
sum of the differences, which `TimersImplement` speaks of, is `L` is shown once (`LeftIs`). `Phases` says what the
fields of a timer may be in each phase, so that no delay it is put into the queue with is 0 or less, and `Timely` that every timer
in the queue has a tick left. A timer as seen from outside is its `View`, and each routine is described by what it does to
the views (`Alone!Expire`, `Alone!Ticks` and so on are those of `SmxTimerSpec`), so that the step of the abstract specification is read off.

The loops of `smx_NQTimer()`, `smx_TimerTimeout()` and `smx_TickRecovery()` are folds over numbers, which are unrolled by one round at a time, and
what holds after every number of rounds is again proved with a least counterexample. `OneExpires`: a round of `smx_TimerTimeout()` lets
one of the timers that are due expire and leaves the others to it. `Recovering` is the invariant of the recovery: it has
reached the time `T` before `end`, and timers and timeouts are as if the ticks had come one by one until then. Its number of rounds is
bounded by `Ahead`: a round brings `T` forward, ends a wait or replaces a minimum that was stale; so the rounds that `TickRecovery` takes
are enough for the loop of the code to be over (`Recovered`).

`AbsInv` says what the delay of a `smx_TimerStartAbs()` on its way may be: within reach, or greater than the time
asked for, because the subtraction wrapped. It is what `AbsOverrunsOnly` needs, and with it nothing else puts a timer off.

`SmxKernelProofs` proves, for every number of tasks and of priorities, every set of semaphores and
mutexes and every nesting limit, under `QueuesAssumption` and `KernelAssumption`:

| Theorem | Statement |
| --- | --- |
| `KernelInvariance` | `Spec => [](KernelInv /\ Unowned(k))` |
| `KernelTyped` | `Spec => []TypeOK` |
| `QueuesAlwaysConsistent` | `Spec => []QueuesConsistent`, with `RqTopCorrect` and `NoStaleTimeout` |
| `ContextAlwaysKept` | `Spec => []ContextKept` |
| `PreemptionMissedOnlyByUnlockQuick` | `Spec => OnlyUnlockQuickMissesPreemption` |

None of the three properties is inductive. `KernelInv` adds what `smx_sched` means: the current task is
ready unless it is to be suspended or stopped (`Valid`); if it is to be stopped it has been told so,
and a task without a context that the start leg has switched to has not begun (`Held`); and nothing is
left to schedule while the task or the tail runs. Inside an SSR the data is not consistent as far as the
task goes that the SSR is about, so the lemmas speak of `Good(r, S)`: the data `r` is consistent
for the tasks of `S`. There is one lemma for each routine of `SmxQueues` (`Dequeued`, `Enqueued`,
`Requeued`, ...), which rest on the lemmas about sequences and about the greatest of a set of numbers;
one for each SSR (`ResumeLeaves`, `StartLeaves`, ...), which says that the data it leaves is valid and that
the task to run has been decided; and `SchedulerStep` for the legs and flybacks. The lemmas allow
for tasks that wait in the queues of objects, and say what an SSR does to them (`Handled`: the task it is about
leaves the queue it was in, or moves within it, and no other moves). They assume `Unowned(k)`, that no
task waits for a mutex, so that no change of a priority is handed on to an owner.

`SmxSemProofs` proves, for every number of tasks, of priorities and of semaphores, with any modes, limits
and bumps, under the assumptions of `SmxKernelProofs` and `SemAssumption` (a threshold or a resource
semaphore has a limit of 1 at least, and no limit exceeds the largest count):

| Theorem | Statement |
| --- | --- |
| `SemInvariance` | `SemSpec => []SemInv` |
| `SemTyped` | `SemSpec => []SemTypeOK` |
| `NoSignalMissed` | `SemSpec => []NoMissedSignal` |
| `WaitersStaySorted` | `SemSpec => []WaitersSorted` |
| `TokensAlwaysBounded` | `SemSpec => []TokenBound` |
| `PreemptionMissedOnlyByPassedTest` | `SemSpec => OnlyPassedTestMissesPreemption` |

`SemInv` is `KernelInv` and `Unowned(k)`, so that everything `SmxKernelProofs` says of queues, timeouts and contexts
holds with tasks waiting at semaphores as well, the four properties, and `CallsKept`: a task in the queue of a semaphore has
an open call for that one if it has any, and the task that runs has none. Without `CallsKept` the bound on tokens is not inductive: a signal
that wakes a task sets its return value, and this is a token of the semaphore that the task called for.
`TokensOut(s)` numbers the tokens that tasks hold, so that a step can be seen to take one out of the set
(`OneFewerOut`), put one in (`OneMoreOut`), or exchange the one the caller gives back for the one a waiting task is
granted (`ExchangedOut`). `WakeFirst` wakes tasks in a loop, which `Run` says step by step. That the loop does what is wanted after every
number of rounds is proved with a least counterexample (`RunExists`, `RunWakes`), for which first-order reasoning is enough.
`OtherStep` and `SemSchedulerStep` take over what the task SSRs and the scheduler do; `SignalStep`, `ClearStep`,
`SuspTestStep`, `StopTestStep` and `LsrTestStep` are about the SSRs of semaphores.

`SmxMutexProofs` proves, for every number of tasks, of priorities and of mutexes, with any ceilings, with or without
inheritance, and with any bound on nesting, under `QueuesAssumption`, `KernelAssumption`, `MutexAssumption` (the ranks of
mutexes differ, which stands for an order in which tasks lock them) and `MutexesFinite`:

| Theorem | Statement |
| --- | --- |
| `MutexInvariance` | `MutexSpec => []MutexInv` |
| `OwnershipAlwaysConsistent` | `MutexSpec => []OwnershipConsistent` |
| `MutexWaitersAlwaysSorted` | `MutexSpec => []MutexWaitersSorted` |
| `NeverInverted` | `MutexSpec => []NoInversion` |
| `PriorityAlwaysRestored` | `MutexSpec => []PriorityRestored` |

`MutexInv` is `KernelInv` without `Unowned(k)`, `Sound(k, Calm)`, `Lists` and `Nests`. `Sound(r, Q)` says of the data `r` that
the queues of mutexes are sorted (`Sorted`), that a mutex somebody waits for has an owner and that all mutexes a waiting task owns
come before the one it waits for (`Tidy`), and that the owners of the mutexes of `Q` have what these call for (`Served`). `Calm` are
the mutexes whose owner has held no other. `Tidy` is why a chain of owners ends: each mutex on it has a
greater rank than the one before. `MutexesFinite` (the control blocks of mutexes come out of a pool of fixed size) then bounds its length.

On the way along a chain the data is wrong in one place at a time, and the lemmas say so: `Unsettled(r, t, Q)`
if it is the place of task `t` in its queue that is not that of its priority, `Served(r, Q, W)` if the owners of the mutexes of `W` may
have less than the first waiting task. `Requeues` turns the first into the second, `OwnerAdjusted` goes one link
on, `ChainRuns` is the induction along the chain (with a least counterexample again), and `Settled`, `Demoted` and
`Detaches` say what `smx_ReQTask()`, the demotion in `smx_DQTask()` and `smx_DQTask()` itself make of it. `Disowned`
and `Transferred` are about a mutex that is given up and goes to the next task or to nobody, `AllReleased` about the
loop of `smx_MutexClear()`, and `Granted`, `Waits` about the two ways through `smx_MutexGet_F()`. `ResumeStays`, `SuspendStays`,
`TimeoutStays` and `BumpStays` are about the task SSRs, of owners and of waiting tasks; the scheduler's steps are those of
`SmxKernelProofs`. `MutexPri` shows that `Calm` cannot be dropped: the
demotion looks at one mutex only, and only when the first of its queue leaves (`FirstAt`), so for an owner of several nothing of this is inductive.

`SmxObjsProofs` proves of messages and exchanges, for every number of tasks, messages, exchanges of every
mode and priorities, under `MsgAssumption` (exchanges are finitely many and told apart from tasks and
messages, and only pass exchanges have servers):

| Theorem | Statement |
| --- | --- |
| `MessagesTyped` | `MsgSpec => []MsgTypeOK` |
| `MessagesInOrder` | `MsgSpec => []MostUrgentFirst` |
| `ExchangesBreakByThese` | `MsgSpec => OnlyTheseBreakExchanges` |
| `ServersFallBehindTwice` | `MsgSpec => OnlyTheseFallBehind` |

`Sound` has the types, that only exchanges with servers are owned, and `Ordered`, that every queue but those of broadcast
exchanges is sorted; that is inductive whether or not the flags of an exchange still agree with its queue. What else is true of an exchange (`Whole`: the flags `Marked`, one place for each message and task,
`Separate`, and `Owners`: whose a message in a queue can be) holds as long as `Intact` does. A message that belongs to an exchange is in its queue (`Placed`)
unless an LSR has taken it astray. `Stays` says that a step which is none of the exceptions
keeps it, and the servers as urgent as before (`StaysUp`). The lemmas about `PNQMsg`, `DQMsg`, `DQTask`, `Promote` and the ends of promotions say
what a queue contains and in which order, not at which positions, so that they can be chained as the code
chains the calls.

Of pipes it proves, for every length of a pipe and every number of tasks and packets, under
`PipeAssumption` (a pipe has a cell, and there is a packet):

| Theorem | Statement |
| --- | --- |
| `PipeInvariance` | `PipeSpec => []PipeInv` |
| `PipeTypeCorrect` | `PipeSpec => []PipeTypeOK` |
| `PacketsLostOnlyByThese` | `PipeSpec => OnlyTheseLosePackets` |
| `WaitersStayQueued` | `PipeSpec => OnlyResumeDropsWaiter` |
| `TasksAlwaysMeet` | `PipeSpec => []TasksMeet` |

`Contents`, which the property speaks of, depends on the flag `full`, and the flag is right only between calls;
so the proof speaks of `Holds(p, k)`: the packets `k` lie between the pointers, whatever the flag says.
`Exactly` adds that the flag is right, and `ContentsExact` relates the two. `StoreHolds`, `SkipHolds`
and `FrontHolds` say what a put and a get do to the cells. `PipeInv` says at each step of a call
what of this still holds (`Ring`), and with that each of the five exceptions is one case in which
a step finds a state it was not written for. `WaitersQueued` and `Meeting` relate the queue to the calls that
wait and, between tasks only, to the pointers; `OneEnd` keeps ISRs to their end. A call that found the
pipe full and wrote over it (`over`) is exempt from `Ring`, as the behaviour ends with it unless an ISR gets
enough of what was put; so is a put to the front that used an old `rp` (`stale`).

Of event queues and event groups it proves, for every number of tasks and every count, and for flags of every width and
every set of tests (with a mask that is not empty, which the code demands), under `EventQueueAssumption` and `EventGroupAssumption`:

| Theorem | Statement |
| --- | --- |
| `CountsKept` | `EventQueueSpec => []CountsExact` |
| `NoEventMissed` | `EventGroupSpec => NoMissedEvent` |

`Diffs` says of the queue, the differences and the signals each task waits for that every task waits for its difference
and what the one ahead of it waits for; this local form is inductive, and `TotalIs` shows that the sums the code
computes are then the signals waited for.

`NoEventMissed` needs to know what `andor_test()` computes: `AndOrHolds` shows that its loop finds flags
just if `Holds`, which knows of no loop. `Turn` is the invariant of the loop: after `k` turns the mask has
the bits of the original one from some position on, shifted by `k`, and `k` is the number of its terms so far. `TermIs` shows
that the term a turn finds is the next one, and `TurnsEnd` that the terms which the loop never looks at, when
no flag is left, fail. That the loop ends within one turn for each bit is part of it. `EventsSound`, that no waiting task's test holds,
is the inductive invariant: it is what makes it right to search only when a flag is new.

Of portals `SmxPortalProofs` (tunnel portals) and `SmxObjsProofs` (free message portals) prove, for every number of clients,
blocks, messages, exchanges and semaphores, under the
assumptions of `SmxPortal`, `SmxTPortal` (there are two semaphores for each client, and a request has a block) and `SmxFPortal`:

| Theorem | Statement |
| --- | --- |
| `TunnelPortalsTyped` | `TPortalSpec => []TPortalTypeOK` |
| `TunnelPortalsPromote` | `TPortalSpec => []ServedIsPromoted` |
| `TunnelPortalsAnswer` | `TPortalSpec => []AnswersMatch` |
| `FreePortalsTyped` | `FPortalSpec => []FPortalTypeOK` |
| `ClosesRelease` | `FPortalSpec => []CloseReleasesAll` |

`TPSound` is the inductive invariant of tunnel portals. `Handles`: the semaphores of a client are its own while it is
open, and the pool has two for each that is not. `Serving`: when the exchange has an owner, and whom the server
serves. `Promoted`: what has been promoted to what, for a client served `direct`ly. `Header`: what
is in the header of each client's message while the server may read it, although the words are used twice. `Matched` is about a client that is
`Current`, that is `sound` and past its OPEN: it relates where the client is to where the server is, block by
block (`Opening`, `Ready`, `Asked`, `Passed`), and `Loose` says that the server has no handle of its semaphores while it serves
another, which is what fails for a client that is not `sound`.

`FSound` is that of free message portals: a message in an exchange's queue has that exchange for its
reply or waits for the server (`FQueues`), no two open clients have the same exchange (`FOpens`), a client counts no
more messages than are to come back to it (`FNums`), and for a client that closes with all its messages (`calm`), each is in
its queue or is the one it is about to release (`FCalms`).

Only model-checked: `LsrsRun` and `TimeoutsServed` (liveness under fairness is beyond the
prover); the properties of `SmxHeap`, and with them `ObjsTypeOK`, whose other parts
are proved. Loops over sequences are folds there (the induction
theorems for these take an operator as a parameter, which the provers cannot instantiate; a loop over numbers, like those of `WakeFirst`
and `AndOrLoop`, can be reasoned about without).

## Not modelled

* Of the modelled components: runtime limits and frames, the pool of shared stacks, task creation
  and deletion, deletion of LSRs, semaphores, mutexes and pipes, message blocks, handles and
  privileges, callbacks and hooks; for portals what the heads of the modules say. A hazard of each
  is in `PROJECT.json` where there is one.
* Blocks and protected blocks: free lists without waiting; ownership matters to deleted tasks only.
* Hazards seen but not listed, because nothing here is about them: the conversion of a timeout in
  msec overflows above about 11.9 hours at 100 ticks a second (`xtime.c:171`); a message that is
  broadcast frees the one before although a task may still read it (`xmsg.c:639`); a pulse timer
  restarted with a period no longer than its width has a phase of 0 ticks or less.
* Of heaps: an extension that starts at the end chunk itself, which `eh_Extend()` accepts; sizes
  that are no multiple of 8 (`eh_BinSeed()` cuts chunks at the size it is given, not rounded); debug chunks with their fences and fill patterns, the pools of blocks of 8 and 12 bytes, regions for the MPU,
  the bin scan and repairs. Seen there and not modelled: `eh_BinSeed()` does not round its block size to 8
  bytes; an extension of less than 24 bytes leaves a top chunk smaller than its control block (the
  model's assumption on `exts` excludes it);
  `eh_Recover()` with an alignment of 8 (`an == 3`) uses a distance that was never set.
* The base library; ports of other interfaces, which
  call the services above.
* MPU handling, system calls of user mode, handle table, event buffer, profiling, error
  reporting: no state that a property above could depend on. Detected errors are guards.
* `src/BSP`, `src/CFG`, `src/SA`, `src/XMW`, `src/APP`: hardware, configuration, middleware
  and demonstrations. They are most of the lines of the repository (vendor headers, drivers, a file
  system, network and USB stacks), and no part of the kernel.

## Plan

Done: the LSR service with its proofs; scheduler, task services and queues with their proofs;
semaphores and mutexes with their proofs; timeouts, timers and tick recovery with their proofs; messages, pipes, event groups and queues with their proofs; tunnel and free
message portals with their proofs; heaps. What is left, the most important first:

1. Theorems: `HeapConsistent`.
2. Runtime limits: the tick LSR moves the current task to `smx_rtlimsem` while an SSR of it may be
   under way, on top of `SmxKernel` and `SmxSem`.
3. The pool of shared stacks in the scheduler, and task deletion with what it releases.
4. Portals: creation and deletion of free message portals, and free messages to the
   server of a tunnel portal; protected blocks.

## Running

    tlc -workers 2 -config Lsr.cfg MCSmxLsr
    tlapm SmxLsrProofs.tla
    tlapm SmxTimeProofs.tla
    tlapm SmxKernelProofs.tla
    tlapm SmxSemProofs.tla
    tlapm SmxMutexProofs.tla
    tlapm SmxObjsProofs.tla
    tlapm SmxPortalProofs.tla
    tlapm SmxLemmas.tla

`Time` and `Objs` take two to three minutes, the other runs less than one. `PROJECT.json`
lists, for every definition, the lines of the source it stands for.
