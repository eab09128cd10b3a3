# A TLA+ model of the concurrent core of jsc-android

The repository builds JavaScriptCore (WebKit 7615.1.7.1) for Android: the engine
(`src/webkit/Source/JavaScriptCore`), its base library WTF (`src/webkit/Source/WTF`), the
allocator bmalloc, ICU 71.1, and a JNI wrapper of one call. This project specifies the parts of it
whose correctness depends on interleavings: the locks and the parking lot of WTF, the API lock of
the VM, the way the mutator and the collector thread of `JSC::Heap` share a garbage collection, the
parallel marking inside it, the write barrier that keeps it right while the program runs, and the
worklist of the compiler threads, which share plans with mutators and collectors.

The build fixes what is modelled: port JSCOnly, `NDEBUG` (an `ASSERT` does nothing, a
`RELEASE_ASSERT` crashes), the DFG compiler on, FTL and WebAssembly off (`src/CMakeLists.txt`).

## The parts of the system and how they interact

    JavaScript, C API
      |  enters through                     changes cells, with the write barrier
      v                                                     |
    JSLock -- acquires and releases heap access             v
      |  m_lock              |                        marked cells <-- markers (parallel marking)
      |                      v                                            | run in the phases of
      |   Heap: conn, world state, tickets <------------------------------+
      |     |  m_threadLock  |  parks on m_worldState ----------------> ParkingLot
      v     v                                                           |   | one lock per bucket
    Lock, Condition ------------------ park and unpark -----------------+   v
    AutomaticThread (Lock, Condition)                                     WordLock

| part | state | operations | what is hard |
|---|---|---|---|
| `WTF::WordLock` | one word: two bits and the head of a queue of nodes on the waiters' stacks | lock, unlock | the queue is changed by lockers and unlockers; a node dies when its thread wakes |
| `WTF::ParkingLot` | a hash table of buckets, each with a queue and a `WordLock`; per-thread data | parkConditionally, compareAndPark, unparkOne, unparkCount, unparkAll | the table grows under threads that use it; timeouts race unparks; addresses share buckets |
| `WTF::Condition` | `m_hasWaiters`, a queue in the parking lot | wait, notifyOne, notifyAll | the flag is read and cleared without the queue lock |
| `WTF::Lock` | two bits of a byte, a queue in the parking lot | lock, tryLock, unlock, unlockFairly, safepoint, tryLockWithTimeout | barging against handoff; the parked bit against threads about to park |
| `JSC::Heap` (conductor) | the bits of `m_worldState`, phases, requests, tickets | collectAsync, collectSync, stopIfNecessary, acquire/releaseAccess, preventCollection, lastChanceToFinalize, the phases | the conn changes hands between two threads in five ways; finalization runs between collections; shutdown |
| `WTF::AutomaticThread` | a thread that comes and goes | start, poll, wait, timeout, notifyOne, tryStop, join | a timeout races a notification and a stop |
| parallel marking (`SlotVisitor`, marking constraints) | a mark stack per visitor and a shared one, counters of active and waiting markers, a bonus task | drain, donate, steal, run constraints, increments of the mutator | detecting termination; everybody waits on one condition variable |
| write barrier, `CellState` | the colour and the mark of cells, the barrier threshold, the remembered set | stores, visits, the ends of a collection | a store races a visit; the colours of earlier collections are still there |
| blocks and sweeping (`MarkedBlock`, `LocalAllocator`) | mark bits, versions, free lists | allocate, stopAllocating, sweep | stale versions |
| `JSLock` | owner, count, drop depth; heap access, stack pointer, atom strings, microtasks of the VM | lock, unlock, DropAllLocks | order of retaking; state that changes hands; microtasks run inside unlock |
| `JITWorklist` | plans by key, queues per tier, ready plans, threads and their right to run | enqueue, poll, compile, safepoint, complete, cancel, suspend, resume | collections and the end of a VM cancel plans that threads work on; threads sleep and end while plans come |
| `VMTraps`, `DeferredWorkTimer`, `Watchpoint`, bmalloc `Scavenger` | flags and tickets | set, handle, cancel, fire | signals and timers against the owner thread |
| parser, bytecode, compilers, Yarr, runtime, inspector, C API, ICU | - | - | sequential; not a matter of interleavings |

`PROJECT.json` lists every part with its status, and the hazards with their source lines.

## Modules

| module | models | kind |
|---|---|---|
| `Mutex` | what a lock promises | abstract |
| `WordLock` | `wtf/WordLock.{h,cpp}` | detailed, implements `Mutex` |
| `Parking` | what the parking lot promises: a FIFO queue per address | abstract |
| `ParkingLot` | `wtf/ParkingLot.{h,cpp}` with `wtf/Condition.h` as its client | detailed, implements `Parking` |
| `Lock` | `wtf/Lock.{h,cpp}`, `wtf/LockAlgorithm*.h` | uses `Parking`, implements `Mutex` |
| `HeapConductor` | `heap/Heap.cpp` (conn, phases, access, tickets, shutdown), `HeapInlines.h`, `CollectorPhase.*`, `GCRequest.cpp`; `wtf/AutomaticThread.cpp` as the collector thread | detailed |
| `ParallelMarking` | `heap/SlotVisitor.cpp`, `heap/MarkStack.cpp`, the marking phases of `heap/Heap.cpp`, `heap/MarkingConstraintSet.cpp`, `heap/MarkingConstraintSolver.cpp`, `wtf/ParallelHelperPool.cpp` as the heap uses it | detailed |
| `ManagedHeap` | what a collector promises the program: only garbage goes away | abstract |
| `WriteBarrier` | `heap/HeapInlines.h`, `heap/CellState.h`, the barrier and the phases of `heap/Heap.cpp`, visits of `heap/SlotVisitor.cpp`, `heap/MarkStackMergingConstraint.cpp` | detailed, implements `ManagedHeap` |
| `JSLock` | `runtime/JSLock.{h,cpp}`, `VM::drainMicrotasks` | uses `Mutex` |
| `JITWorklist` | `jit/JITWorklist.cpp`, `jit/JITWorklistThread.cpp`, `jit/JITSafepoint.cpp`, `jit/JITPlan.cpp`; `wtf/AutomaticThread.cpp` with a condition shared by threads | detailed |
| `*Proofs` | theorems about `WordLock`, `ParkingLot`, `Lock`, `HeapConductor`, `ParallelMarking`, `WriteBarrier` and `JSLock` | proofs |
| `HeapConductorInv`, `JSLockInv` | the inductive invariants of `HeapConductor` and `JSLock` | definitions for the proofs |
| `MC*` | instances for TLC | model checking |

The composition follows the code: a bucket's `WordLock` is shown to be a mutual exclusion, so
`ParkingLot` takes what runs under a bucket lock as one step; `ParkingLot` is shown to be a queue
per address, so `Lock` calls the actions `Park`, `Take` and `Wake` of `Parking`; `Lock` is shown to
be a mutual exclusion, so `JSLock` calls the actions of `Mutex` for its `m_lock`. The heap is seen
at three grains: `HeapConductor` has the protocol of the phases with marking as an outcome,
`ParallelMarking` how markers share the work on a heap that stands still, `WriteBarrier` how one
heap is marked and changed at once, with the work of the markers in one place. The program in
`WriteBarrier` is one thread, which is what `JSLock` sees to.

### Grain of the steps

A step is one atomic access to shared memory, or one critical section. A load followed by a weak
compare-and-exchange whose failure only loads again is one step, since failed rounds change
nothing; where the code does something else on failure the failure is a step of its own (the fast
paths of `lock` and `unlock`, `handleNeedFinalize` in `waitForCollector`). The memory model is
sequential consistency: most of the modelled atomics are seq_cst, or acquire and release around a
lock; the relaxed ones (`mayNeedToStop`, `safepointFast`, the load of `tryLock`, `unlockFast`) are
treated like the others.

### WordLock

`word` is the record of the two bits and the queue head; `shouldPark`, `nextInQueue`, `queueTail`
and `parkingLock` are the fields of each thread's `ThreadData`, a local of `lockSlow`; `pc` is the
place in `lockSlow` or `unlockSlow`, `cur` the word loaded last. `LockLoad`, `LockCAS`,
`LockReload`, `QueueCAS`, `Enqueue`, `EnqueueStore` and `Park` are the stretches of `lockSlow`
between two accesses to the word; `UnlockLoad` to `Notify` those of `unlockSlow`. The spin limit
is the constant `SpinLimit` (40 in the code). A thread's condition variable is external: a waiter
tests `shouldPark` and waits under `parkingLock`, the unlocker clears it and signals under that lock,
and the model lets the waiter go on once `shouldPark` is clear and the lock free.

### ParkingLot

`tables` keeps every table ever made, as the code does (it never frees the old spine); a table is
a sequence of buckets, `0` where there is none yet. Buckets are numbered in the order of their
addresses, which is what `std::sort` compares. `lockedBy` holds the bucket locks that
`lockHashtable` collects; every other critical section is one step that needs the lock free. A
thread's locals are the record `local[t]`. The client is `Condition`: the word at an address is
its `m_hasWaiters`, `wait` validates by setting it, `notifyOne`'s callback clears it under the
bucket lock, `notifyAll` clears it before. `compareAndPark` is a second client of the same word.
The roles `Parks`, `Notifies` and `Mortals` limit in an instance which threads park where and how,
notify whom, and end. The condition variable a parked thread blocks on is abstracted to the address
that the unparking thread clears under its lock.

### Lock

`isHeld` and `hasParked` are the bits of `m_byte`. The token the unlocker leaves says whether the
lock was handed over. `timeToBeFair` and the part of `mayHaveMoreThreads` that depends on other
addresses in the bucket are chosen freely. `safepoint` unlocks fairly and relocks.
`tryLockWithTimeout`, which only debugging tools call, is kept apart in `SpecWithTimeout`.

### HeapConductor

`worldState` is the set of bits of `m_worldState`. Mutator and collector thread each have a `pc`;
the phases are written once, for whichever conductor runs them. `requests`, `lastGrantedTicket`
and `lastServedTicket` are the code's. `parked` is who is parked on `m_worldState`; `after`, `ret`
and `back` are return addresses of `finishChangingPhase`, `collectInMutatorThread` and `finalize`.
`poll`, `stopForTimeout`, `notifyOne`, `StopThread` and `join` are `AutomaticThread` with the
heap's thread on it. What marking finds is its outcome: converged, again, or concurrent.
Left out because nothing that is modelled reads them: `m_phaseVersion`, `m_lastPhase`,
`m_mutatorExecutionVersion`, `m_mutatorDidRun`. `collectContinuously` is a debugging option.

### ParallelMarking

It opens up what `HeapConductor` takes as the outcome of the fixpoint phase. Visitors are the
collector's, the mutator's and one per helper; `stack[v]` is a visitor's mark stacks taken as one
set, `shared` the heap's. A critical section of `m_markingMutex` is one step: at the top of
`drainFromShared` a marker is counted, tests for termination, and steals, takes the bonus task,
leaves or waits, all in `HelperTop` or `MainTop`; `cond` is who is blocked on
`m_markingConditionVariable`, and a notified marker evaluates again (`HelperWakes`, `MainWakes`).
`visitChildren` of one cell is one step. Which cells are donated or stolen is free, how many is the
code's. `donateKnownParallel` looks at the shared stack before it locks, so its test does not
restrict the model. The heap graph is a constant: `Children`, what the root constraints append, and
what outgrowth constraints append for a marked cell. A constraint is picked and executed in two
steps (`PickNext`, `ExecuteConstraint`), so a helper can hold one while the collector goes on. The
world is running or stopped (`concurrent`); who has the conn is left to `HeapConductor`, and both
forms of the concurrent phase are possible. Left out: what the program does to the heap meanwhile,
eden collections and visit races, which are in `WriteBarrier`, and constraints that hand out
parallel tasks of their own.

### WriteBarrier

`cellState` is the colour in the header of a cell, `marked` its mark bit; both outlive a
collection. The program allocates, loads, stores (`Set`) and forgets; a store is followed by its
barrier, one step per access to a colour or a mark: `writeBarrier` tests against the threshold,
`writeBarrierSlowPath` again after the fence, `addToRememberedSet` looks at the mark, `ReWhite`,
`ReCheck` and `ReBlack` are the race of `Heap.cpp:1087-1103`, `Remember` makes the cell grey and
appends it. `mutator` and `from` are the place in the barrier and its cell. A marker takes a cell
and blackens it (`visitChildren`), reads a slot (`appendHidden`), sets the mark
(`testAndSetMarked`), makes the child grey and appends it (`appendToMarkStack`); any slot may be
skipped by a visit race (`didRace`). All stacks of markers are the set `markStack`; with `Copies`
a cell that is taken may be there once more. `executeConvergence` runs the conservative scan and
the merging of stacks, in the rounds of the constraint set. `runEndPhase` barriers the executing
CodeBlocks and frees what is not marked.

Left out: the second round of constraints and those on outgrowths (weak sets, output constraints),
for which the model has no cells; CodeBlocks in the hands of the compiler; the object layouts
behind a visit race, of which only the outcome is kept; lazy sweeping, which is done at the end of
the collection, when a cell that is not marked can no longer be reached anyway. The program stops
only between operations, because there is no safepoint inside a store.

### JSLock

`m_lock` is the set of threads that hold the `WTF::Lock`, the other `m_` variables are the fields of
the code. `heapAccess`, `stackPointerAtVMEntry` and `machineThreads` are the heap's and the VM's,
`atomStringTable` and `savedStackPointerAtVMEntry` each thread's. The two loads of
`currentThreadIsHoldingLock` are two steps where another thread may hold the lock
(`LoadHasOwnerThread`, `LoadOwnerThread`), and one where only the thread itself can have set them.
The clients nest `JSLockHolder` and `DropAllLocks` in any order that scoping allows; `held` are the
levels a thread has open since its last drop, `scopes` its open drops and the microtask it runs.
`drainMicrotasks` runs microtasks that lock, unlock, drop and enqueue in their turn. It is called in
two places: `willReleaseLock` (`BeginRelease`), which asks for `m_lockDropDepth` to be 0, also when
`grabAllLocks` gives a lock back because it is not its turn; and `DeferredWorkTimer::doWork` after
each of its tasks, which does not ask. `doWork` runs on the thread `RunLoop`, also in a run loop
nested in a `DropAllLocks`, with just the level of the lock that `timerDidFire` has taken. So a
microtask that drops the lock leaves room for `doWork` to run the next one meanwhile; `OneMicrotask`
says that this is the only way one starts while another is open, and that the open one has the lock
dropped.

Left out: the end of the VM, the tickets of `DeferredWorkTimer`, the drains that `jsc.cpp`, the test
shell, does by itself, execution that is forbidden (which clears the queue), the trap and
profiler hooks of `didAcquireLock`, `lastStackTop`, which goes the way of the stack pointer.

### JITWorklist

One worklist serves all VMs. `stage` is the stage of a plan (`none`: there is no such plan),
`codeBlock` whether the code block it is for exists; `m_plans`, `m_queues`, `m_readyPlans` and the
counters are the fields of the code. A section under `*m_lock` is one step; `m_rightToRun` of each
thread and `m_suspensionLock` are held over several, so they are variables. A compiler thread polls
(`Take`, `Wait`), times out (`StopForTimeout`), starts and finishes (`StartWork`, `FinishWork`), may
stand at a safepoint in between when it compiles for the DFG (`Safepoint`, `EndSafepoint`), and
leaves its `WorkScope` (`LeaveScope`). A mutator asks for a compilation
(`completeAllReadyPlansForVM`, then `enqueue`), completes all plans, or ends its VM
(`cancelAllPlansForVM`, `Destroy`); the VMs in `Mortals` do the last. A VM ends with heap access, or
without it (`lastUnlock`) when `JSLock::unlock` has given up access and then drops the last
reference, so its collector may have the world stopped while plans are cancelled; the
wait then neither releases access nor takes it back. A collector stops the world,
takes `m_suspensionLock` and every right to run, cancels plans with dead executables at the end of
a collection (`removeDeadPlans`: which ones is free), and lets everybody go on. A code block that
marking has not reached through a plan is gone with the collection. Left out: what a compilation
computes, `finalize` for code that has become invalid, the setters of the maxima (a debugging aid),
the null plan that would stop a thread, which nobody enqueues.

## Runs

| run | checks | result |
|---|---|---|
| `word_lock` | shape of the queue, no forgotten sleeper, node lifetime, refinement of `Mutex`, every sleeper is woken; 3 threads | pass |
| `parking_lot` | queues in place, dequeued threads still parked, flag against queue, load factor, refinement of `Parking`; 3 threads that park, one of which notifies, 2 addresses, 3 tables | pass |
| `parking_lot_live` | operations end, `notifyAll` wakes everyone who slept; 2 threads that park, one of which may end, 1 notifier | pass |
| `condition_flag` | the comment in `Condition::notifyOne` on a clear flag | violation |
| `lock` | refinement of `Mutex`, everyone who asked gets the lock once threads stop asking; 4 threads | pass |
| `lock_timeout` | `tryLockWithTimeout` acquires the lock if it returns true | violation |
| `heap_conductor` | conn, stopped world, finalization, every modelled `RELEASE_ASSERT`, honest waits, calls return, requests are served in the background; 2 collections, all scopes | pass |
| `parallel_marking` | mark stacks empty where the code asserts it, exactly the live cells marked, tasks and helpers over when the calls return, collections end, with and without mutator increments; 2 helpers, 6 cells, 2 collections | pass |
| `write_barrier` | the wavefront of marking, the assertions on remembered cells and stacks, precision of full collections, refinement of `ManagedHeap`; 3 cells, 1 marker, full and eden collections without end | pass |
| `js_lock` | holders have the lock and their levels, the VM's state follows the holder, drops are ordered, microtasks are drained and overlap only through `doWork`, `grabAllLocks` and `lock` return; 2 threads, 4 scopes each, 2 microtasks | pass |
| `jit_worklist` | every plan in one place with its counters, code blocks outlive their plans, no lost wakeup of a compiler thread, no mutator blocked for nothing, also when a VM ends without heap access; 2 threads, 2 VMs, 3 plans in two tiers | pass |
| `marker_count` | the comment in `stealSomeCellsFrom` on the number of idle threads | violation |

Every property of a passing run has a mutant: a plausible slip in the code (named `Mutant:` in the
modules) under which TLC finds the property violated. Invariants that are proved and that a run
would only repeat are not in the runs: the types of `WordLock`, `Lock`, `HeapConductor`,
`WriteBarrier` and `JSLock`, `MutualExclusion` and `QueueLockNeedsLock` of `WordLock`, `OneOwner`,
`ParkedBitKept` and `NobodyForgotten` of `Lock`, `TicketsMatchRequests` of `HeapConductor` and
`NoLockCircle` of `ParkingLot`.

### What disagrees

- `Condition.h:149` says of a clear `m_hasWaiters`: "At this exact instant, there is nobody waiting
  on this condition". `notifyAll` clears the flag before it dequeues anybody, so for a moment
  threads wait under a clear flag. It does no harm: the same `notifyAll` wakes them, which is
  `NoLostWakeup`.
- `Lock.h:80` declares `tryLockWithTimeout` as `WTF_ACQUIRES_LOCK_IF(true)`. `Lock.cpp:93` returns
  `isHeld()`, which is also true when time ran out because somebody else holds the lock.
- `MarkStack.cpp:121` speaks of "the number of idle threads"; the count it is given is raised at
  `SlotVisitor.cpp:607` and not lowered when `drainFromShared` returns, so it grows with every
  drain. Markers then steal ever smaller shares; what is marked is not affected.

Some remarks that are not disagreements. A mutator increment that takes the last shared cells and
uses them up ends without a notification (`SlotVisitor.cpp:741`), so a collector that waits in
`waitForTermination` is woken only by its deadline. With the default options increments go together
with the `SpaceTime` scheduler, which sets one; with increments under
`StochasticSpaceTimeMutatorScheduler`, whose `timeToStop` is infinite, `CollectionEnds` would fail.
The conn can bounce between the threads for ever, as the comment at `Heap.cpp:1278` admits;
`CallsReturn` excepts exactly that. And the `clearMutatorWaiting` that `waitForCollector` does "just
in case" (`Heap.cpp:1970`) is not needed for any property here. A `DropAllLocks` waits for all that
were made after it, so threads that keep dropping the lock can hold `grabAllLocks` up for ever;
`LockAndGrabReturn` excepts exactly that. A thread has one saved stack pointer for all its drops, so
a nested drop overwrites the outer one's; the model knows a stack pointer only by its stack, and
there the two agree. The loads of `currentThreadIsHoldingLock` (`JSLock.h:103`) have no fence
between them that would match the `storeStoreFence` of `lock`; `HolderHasLock` is about loads in
program order.

### Bounds

Three threads on a lock give a holder and a queue of two, or of one and a thread that arrives or
spins; `lock` has four and so both at once. `SpinLimit` 1 still has both the spinning and the
parking branch. In `ParkingLot` the load and growth factors are 1 instead of 3 and 2, so that three
threads that park make the table grow from 1 bucket to 2 and to 3; the numbers matter only through
the comparison with the number of threads. Two threads can be in a queue when it is rehashed, at one
address or at two; the two addresses share a bucket before and after the first growth and part at
the second, so queues of mixed addresses are moved whole and split. There is one notifier, so two
unparks do not meet in a queue. In `parking_lot_live` a thread that may end shrinks `numThreads`
under a table that has grown, and only one thread at a time collects the locks of all buckets: that
several never wait in a circle is the theorem `LocksInOrder`. In `HeapConductor` `MaxTickets` 2 lets
a request be granted while another is served; the proofs of its safety properties need no bound. In
`ParallelMarking` two roots make a stack that can be donated, their common child is reached by two
markers, and a chain of two outgrowths needs more than the two fixed iterations of the constraint
set; two helpers let one be woken for what the other has stolen; `MaxTimeouts` 1 lets the world run
once during marking. In `WriteBarrier` three cells are what the race of the re-whitening needs (the
cell of the store, one that leads the marker to it, and the stored one); `MaxRoots` 2 is a cell and
a value to store. `Copies` is FALSE in the run and there is one marker; that two markers may be in
one cell at once is covered by the proofs, for every number of markers and both values of `Copies`.
In `JSLock` four scopes are a holder, a drop, a holder inside it and one more of either kind, and
the second microtask is there when the first one drops the lock; one of the two threads is the run
loop. In `JITWorklist` two threads with a maximum of one for the DFG leave one thread that finds its
tier full; two of the three plans have the same key, so that a plan can be requested again while its
predecessor is cancelled and still in the hands of a thread, and the third belongs to another VM, so
that two collectors want the threads; one VM ends and comes again. The two threads that only wait
are symmetric in `parking_lot`, cells in `write_barrier`, the two plans of one key in
`jit_worklist`; runs with liveness use no symmetry. The runs of `ParallelMarking` do not either:
they stop after `MaxCollections`, and `CollectionEnds` is what excludes a standstill before.

### Fairness

- Threads inside an operation are scheduled (weak fairness of their next step). Nobody has to
  begin an operation, a wait does not have to time out, and the collector thread does not have to
  time out.
- Holders of a lock unlock it (`word_lock`, `lock`); code inside a `JSLockHolder`, a `DropAllLocks`
  or a microtask ends (`js_lock`).
- A thread in `JSLock::lock` that finds `m_lock` free again and again gets it (strong fairness of
  `BlockingLock`): `WTF::Lock` hands itself over to a waiter after at most a millisecond or so
  (`timeToBeFair`).
- A weak compare-and-exchange that is tried again and again on the value it expects succeeds at
  some point (strong fairness in `WordLock` and of `handleNeedFinalize`): hardware gives this, and
  every such loop in the code relies on it.
- Marking that is tried again and again converges (strong fairness of the outcome of the fixpoint
  phase): the code's scheduler stops the mutator for longer and longer to make it so.
- Markers run, and the mutator ends an increment it has begun. A pause does not have to end early;
  the concurrent phase has a deadline only where the mutator does increments (`overrideDefaults`
  in `runtime/Options.cpp`).

`LockReturns` assumes that threads stop asking, because a lock with barging does not promise
progress to a thread that loses every race; `OperationsReturn` is checked where one thread may
end, which never makes the table grow again; threads without bound would rehash it without end.

## Proofs

Checked by TLAPS for every set of threads, cells, slots and markers and every bound, from the
assumptions that `Null` is not a thread or a cell, the VM's table is not a thread's, CodeBlocks are
cells, limits are naturals, and scopes are the three that exist.

- `WordLockProofs`: `TypeCorrect`, `LockExcludes`, `QueueGuarded`, `Refinement`, `QueueKept`,
  `NoSleeperLost`, `NodesInScope`. Exclusion is not inductive alone: a thread's
  compare-and-exchange acts on the word it loaded earlier, so the invariant relates `cur` to the
  place where the thread is, and the two lock bits to the sets of their owners. The queue is the set
  of nodes that can be reached from its head (`Reach`, the smallest set closed under
  `nextInQueue`), and the lemmas on chains say what appending a node, taking the head off and
  moving the tail pointer do to that set. The invariant `QInv` adds that the queue is a
  chain of sleepers (also while a thread is between its links and its store of the word), that a
  node taken off belongs to one unlocker, and that every sleeper is in one of the two places. That
  the next sleeper is always somebody's business (`NobodyForgotten`) rests on `Attended`: while
  the lock is free and its queue not empty, some thread is on its way to it.
- `ParkingLotProofs`: `ParkingTypeCorrect`, `TableLargeEnough`, `LocksInOrder`. The invariant
  `LInv` has what a thread has loaded at each of its labels; that `lockHashtable` holds the locks of
  the lowest buckets of a table whose slots all have one, so that nobody changes it and the locks it
  lacks are above the ones it has; and the load factor itself, which is inductive with the count a
  thread carries: a table too small for `numThreads` has a thread inside `ensureHashtableSize` that
  has counted at least as many. In a circle of waiting collectors the one that waits for the
  greatest bucket is held up by one that waits for a greater one.
- `LockProofs`: `LockTypeCorrect`, `LockHasOneOwner`, `ParkedBitStays`, `NobodyLeftParked`,
  `LockIsMutex`. The invariant adds that parked threads are queued once and are where they
  park (`QueueConsistent`), and that a token belongs to a thread that was taken and has not run
  (`TokenConsistent`): the owner by handoff is found through its token.
- `HeapConductorProofs`, over the invariant in `HeapConductorInv`: `HeapTypeCorrect`,
  `ConnIsExclusive`, `WorldStops`, `FinalizationIsApart`, `TicketsAreRequests`, `AssertsHold`,
  `WaitsReturnInTime`. The invariant
  `IInv` has one conjunct per kind of agreement: bits and places (`BitsConsistent`), phases and
  the step of their conductor (`PhasesConsistent`), requests, scope and finalization, the locals
  that direct control, and the waiting bit. They are proved preserved one lemma each, one step
  per action, and each needs others: that finalization is apart, for instance, rests on the
  conn, the phases, and on `waitWhileNeedFinalize` coming before `stopTheMutator`.
- `ParallelMarkingProofs`: `MarkingTypeCorrect`, `NoCellLeftBehind`, `AllLiveCellsMarked`. The
  invariant has who is counted as active at each label (`Counted`), who can have cells on a stack
  there (`StackLabels`), that a marked cell is on a stack or has marked children (`Colours`), that
  nothing is on any stack where termination was found and nothing visited since (`Quiescent`), and
  that a solver which has visited nothing has run each of its constraints or will (`Solved`). At the
  end the marked cells are closed under children, roots and outgrowths, and all of them are live.
- `WriteBarrierProofs`: `TypesKept`, `WavefrontKept`, `AssertionsNeverFail`,
  `FullCollectionIsPrecise`, `WriteBarrierImplementsManagedHeap`. The wavefront says that a marked
  cell with an unmarked child is still to be visited or the child is in somebody's hands. It needs
  to know what a colour tells: a marked cell is black unless it awaits a visit, and a black cell
  that is not marked exists only in a full collection (`Colours`); which cells markers and barriers
  can have in hand (`Objects`); and what is empty in which phase (`Phases`). At the end of a
  collection nothing is in hand and all roots are marked, so the cells that are not marked are a set
  nobody refers to, which is the step `Collect` of `ManagedHeap`. `Precise` adds that what markers
  and stacks have in a full collection was not garbage when it began.
- `JSLockProofs`, over the invariant in `JSLockInv`: `JSLockTypeCorrect`, `HoldersHaveTheLock`,
  `VMIsReady`, `DropsAreOrdered`, `NoMicrotaskIsLeft`, `MicrotasksDoNotNest`. The invariant has who
  holds `m_lock` by place in the code (`Holding`), how the count agrees with the levels of each
  thread (`Counts`) and with the scopes it can be in (`Places`), what the open scopes note of counts
  and depths (`Notes`), the state of the VM at each place of the holder (`VMState`), the order of
  drops, that microtasks are only left when the lock is held or dropped (`Quiet`), and where a
  thread with an open microtask can be (`Tasks`, `Apart`). That the last unlock never starts a
  microtask inside another rests on the drop depth: whoever gets the lock while a microtask is open
  does so under a drop, whose depth is not 0; `doWork` does not look at the depth and is the one
  exception.

Only model-checked: all liveness, which needs fairness; of `ParkingLot` its refinement of `Parking`,
`QueuesInPlace`, `TakenStillParked` and `NoLostWakeup`; `JITWorklist`.

## Not modelled, and the plan

These have a protocol that could be specified like the others, in the order of what it would add:

1. `VMTraps`; the tickets of `DeferredWorkTimer`; `Atomics.wait`.
2. `Condition` with the client's `Lock`, over `Parking`; `AutomaticThread` over it, as the abstract
   thread that `HeapConductor` and `JITWorklist` use.
3. The constraint solver's parallel tasks (`addParallelTask`, `m_numThreadsThatMayProduceWork`) and
   the right to run in `ParallelMarking`; outgrowth constraints and weak references in
   `WriteBarrier`; the end of the VM in `JSLock`.
4. Block versions, allocation and lazy sweeping; watchpoints; the scavenger of bmalloc.
5. Proofs: the queues of `ParkingLot` through a rehash.

Out of reach or out of scope: the sequential transformations (parser, bytecode generator,
compilers, assembler), language semantics, ICU, inspector and tools; real-time policies, which
only choose when modelled steps happen; weak memory.
