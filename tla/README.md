# NXbox: a verification of its kernel and of what rests on it

NXbox emulates a Nintendo Switch on an Xbox. Guest programs run on a high-level
emulation of the Switch's kernel (`src/src/core/hle/kernel/`): threads on four virtual
cores, each core a host thread, and locks, condition variables, events and a scheduler
that have to be right for every interleaving of those cores, the timer and the
termination of processes. That kernel is the core of the system, everything above it
(services, GPU, audio) waits through it, and it is where tests reach least. This
directory models it in TLA+, with two of the protocols above it (requests to a service and
the frames of the display), checks the models with TLC and proves the most important results
with TLAPS.

## Inventory

`PROJECT.json` lists all parts of the repository, with a reason for each part that is not
modelled. The parts that are modelled, what they keep, and what makes them hard:

| Part | State | Operations | What is hard | Correct means |
|---|---|---|---|---|
| Light lock (`k_light_lock.cpp`) | a tag word; waiters and suspension of threads | `Lock`, `Unlock` and their slow paths, `RequestSuspend`, `Resume` | compare-and-swap against the slow path, suspension postponed while others wait | mutual exclusion, no lost waiter, exact suspension, progress |
| Guest mutexes and condition variables (`k_condition_variable.cpp`) | words in guest memory, lock infos, a tree of waiters | the four system calls, timer, termination, a closed handle | guest code changes the words while the kernel works | mutual exclusion, no lost wake-up, a monitor for the guest |
| Lock infos (`k_thread.cpp`) | priorities, base priorities, sorted trees | adding and removing waiters, `RestorePriority` | chains and cycles of waiting threads, shortcuts in the code | exact inheritance, sorted trees |
| Synchronization objects (`k_synchronization_object.cpp`) | linked lists of nodes on the stacks of threads | wait for several objects, signal, cancel, time out, terminate | a walk along a list that shrinks under it | exact lists, complete walks, no lost wake-up |
| Address arbiter (`k_address_arbiter.cpp`) | a word, a tree of waiters | three waits, three signals | comparison and insertion must be one step; counts | no lost wake-up, the word tells the truth |
| Resource limits (`k_resource_limit.cpp`) | limit, value, hint, waiters | `Reserve`, `Release`, `SetLimitValue` | waits that time out or are terminated; wrapping sums | nothing leaks, the limit holds, calls return |
| Scheduler (`k_scheduler.cpp`, `k_priority_queue.h`) | scheduled and suggested queues of each core | state, priority and affinity changes, yields, preemption | migrations between cores | exact queues, the right choice, no starvation |
| Context switch (`k_scheduler.cpp`, `physical_core.cpp`, `cpu_manager.cpp`) | a core's thread, flags, guards of contexts | interrupts, halting, the switch loop | cores that look at each other's data without a lock | one core for a thread, last registers, no lost interrupt |
| Processes, handles and references (`k_process.cpp`, `k_handle_table.cpp`, `k_auto_object.h`) | threads and their states, the table, reference counts, the worker's queue | creation, start and exit of threads, `Terminate`, `Finalize` of the table, suspension by the host | termination goes from child to child while threads are created, wait and close things | nothing that someone has a reference to is destroyed, nothing without one kept, no thread is left, termination ends |
| Sessions (`k_server_session.cpp`, `k_session.cpp`) | the list of requests, the current one, the state of the ends | request, receive, reply, closing of either end | both ends close while requests are under way | every waiting sender's request is in one place |
| Server manager (`server_manager.cpp`, `multi_wait.cpp`) | the wait list and the list to be linked, three events, deferred requests | wait, port, session and deferral events, destruction | wake-ups for a list that changes, deferral against registration | nothing signaled is slept over |
| Buffer queues (`buffer_queue_*.cpp`, `consumer_base.cpp`) | slots, the queue, copies of buffers at the consumer | the producer's transactions, acquire and release | slots are reset and freed while their frames are queued or shown | no slot is lost, the shown buffer is whole, frames in order, no sleep for ever, each with the exceptions named below |

How they interact: the kernel's parts except the context switch run under the scheduler lock,
which is why a critical section is one step wherever no one can look at it halfway. They
meet in `KThread`: a wait of any kind is ended by a signal, by the hardware timer or by
`RequestTerminate`, and the module of each wait has all three. Priorities flow from
`KThreadLocks` to the scheduler's queues, the scheduler's choice (`KScheduler`) is what
`KContextSwitch` carries out on the cores. A guest's thread that calls a service waits in a
session until the service's thread, which waits for its sessions through the kernel like any
thread, has answered, or until it is asked to terminate; a process is terminated by its last
thread, by a service on its behalf or by the emulator that shuts down. `ServerManager`
composes all of these. `HardwareComposer` composes the guest's side of a display layer with
the thread that shows it.

## Modules

A module is named after the class it models; variables and actions keep the source's
names, and `map` in `PROJECT.json` gives the lines of every definition. Operators that a
comment calls "Mutant" are plausible bugs: put in place of the definition that follows
them, they must break the property that `PROJECT.json` names.

* **KLightLock**: `Lock` and `Unlock` are the compare-and-swaps, `LockSlowPath` and
  `UnlockSlowPath` the critical sections. A thread between `Lock` and `Unlock` can be
  suspended at any instruction. `Spec` lets a termination find a thread anywhere but in
  the wait for the lock, `SpecWithCancel` there too.
* **KConditionVariable**, with the abstract **Monitor**: the system calls and the guest
  code around them. `Wait` and `Signal` store to two words; guest code may run in between,
  so these calls are several steps that keep the scheduler lock. The guest side is
  modelled from what the kernel expects of it and marked external. `Monitor` is what a
  guest program may rely on; `held` and the tree are mapped to it.
* **KThreadLocks**: the loop of `RestorePriority` is one step for each round, everything
  else is atomic. `rank` is the priority with which a thread was put in its tree.
* **KSynchronizationObject**: the lists are modelled link by link, `NotifyAvailable` node
  by node. A node that was unlinked keeps its link, as in the code.
* **KAddressArbiter**: words that wrap, from `-Half` to `Half - 1`; guest stores to them at
  any time.
* **KResourceLimit**: one resource; the light condition variable it waits on is in it.
  Sums wrap at `MaxValue` as `WrappingAdd` does at 2^63.
* **KScheduler**: the state of the scheduler is the record `sched`, on which the functions
  of the code are operators that are composed as the code calls them. Each action ends
  with `UpdateHighestPriorityThreads`, as the unlock of the scheduler does. `Owner` is the
  process of each thread, and `fresh` the threads whose yield count is still the scheduled
  count of their own process. `beat` flips with every preemption and serves fairness only.
* **KContextSwitch**: each step of a core's host thread that others can see. Which thread
  is chosen is left open, so that it holds for any scheduling.
* **KProcess**: a process and its threads. What happens under one scheduler lock, or one
  holding of a light lock in which nothing waits, is one step; `term` is where
  `KProcess::Terminate` is, by whichever of its three callers.
* **KSession** (extends `KProcess`): a session, its two ends, and a request for each thread.
  Closing the last reference to the client's end takes several steps, and so do the reply and
  the cleanup on the server's, under `m_lock`.
* **ServerManager** (extends `KSession`): a manager with one thread, and the composition with
  the process, the worker and the host. A handler may answer, close the session, defer until
  a service is registered, or terminate the process (`ISelfController::Exit`).
* **BufferQueue**: `BufferQueueCore` is the record `core`, on which the functions of the code
  are operators; every transaction of the producer is an action. `async` is an input of each
  `QueueBuffer`. `overtaken` is a history variable that no action reads: it has "frame" once a
  frame has replaced a droppable front ahead of frames of other slots, and "slot" once it did so
  ahead of an older frame of its own slot (`Crossed`).
* **HardwareComposer** (extends `BufferQueue`): the consumer of one layer, the vsync thread,
  and the opening, closing and destruction of the layer.
* **KLightLockProofs**, **KThreadLocksProofs**, **KConditionVariableProofs**,
  **KAddressArbiterProofs**, **KContextSwitchProofs**, **HardwareComposerProofs**,
  **KProcessProofs** and **ServerManagerProofs**: theorems.
* **MCKConditionVariable**, **MCKAddressArbiter**, **MCKScheduler**: symmetry and the
  values of constants for TLC. The other modules are checked as they are.

## Runs

| Run | Instance | What it shows |
|---|---|---|
| `light_lock` | 3 threads, 1 lock, a suspend type, a termination | mutual exclusion, no lost waiter, exact suspension; a lock others wait for is passed on |
| `light_lock_cancel` | 2 threads | **violated**: a cancelled wait returns from `Lock` without the lock |
| `light_lock_resume` | 2 threads, 2 suspend types | **violated**: `Resume` suspends an owner that threads wait for |
| `condvar` | 3 threads, a timeout of zero and one that may go off, signals to one and all; one thread is terminated and its handle closed | nothing left of a wait, no lost signal, mutual exclusion, no lost mutex waiter, nobody waits on one owner for ever, implements `Monitor` |
| `thread_locks` | 3 threads, 2 locks, 3 priorities | exact inheritance, sorted trees, hand-over to the highest, the loop ends |
| `sync` | 2 threads, an event, a session, waits for up to 2 objects | nothing left of a wait, complete walks, no lost wake-up, right results, terminations return |
| `arbiter` | 3 threads, a 2-bit word | nothing left of a wait, no lost wake-up, the stored word tells what became of the waiters |
| `resource` | 3 threads, an object, a limit of 1 or 2 | the limit holds, nothing leaks, no release is missed, every reservation returns |
| `scheduler` | 3 threads of 2 processes, 2 cores, 2 priorities | exact queues, right choice, no lost reschedule, no yield skipped while another thread of the process could run instead, no core idle in vain; a runnable thread of the highest priority comes to be chosen |
| `switch` | 1 thread, 2 cores, two choosers | one core, last registers, no resumption after exit, no lost interrupt, a lasting choice is executed |
| `display` | 2 slots, 4 frames, droppable or not, 2 calls that change or free slots | a queued slot has its one item; no slot is lost, the shown buffer is whole and not the guest's, frames in order, `DequeueBuffer` returns, until a frame overtakes others (see the limits) |
| `ipc` | a process of 2 threads, a service, a session, the worker, the host | exact reference counts, every request in one place, nothing missed by the manager, complete termination; it ends |

Bounds. Three threads are an owner, a waiter and one that comes in between, or two
waiters and one that wakes them; longer queues repeat these cases, and where order counts
(`thread_locks`) two locks and three priorities make chains and cycles. Two threads with
two objects each can have four nodes in one list, two of them of the same thread. A 2-bit
word has both ends of its range in reach. Three threads on two cores is the least at which
a thread has to be left waiting and a migration has a choice; two of them are of one process,
so that a yield may be skipped for the third and not for the second. One thread that two actors
move between two cores is the contention that the context guard exists for; the proofs
cover every number of threads and cores. Two threads of a process are one that waits for a
reply or creates and starts threads and one that terminates the process. Two slots are the
least with which a queued, a shown and a dequeued frame compete. With two calls that change
slots, a frame that is queued or shown loses its slot and the slot is used again before the
frame is released. Four frames are one that is shown, a droppable front, a stale frame behind
it, and the one that overtakes it (`MaxFrames`, `MaxChanges` and `MaxBuffers` bound the calls,
not the code).

Limits of what these runs show:

* `light_lock` and the light lock's theorems are about `Spec`, in which no thread is
  terminated while it waits for the lock. The code does terminate such threads, and then
  mutual exclusion fails: that is `light_lock_cancel`. The results say that this is the
  only way in which the modelled operations break it.
* `SuspensionExact` holds with one suspend type and fails with two, for the reason that
  `light_lock_resume` shows.
* `light_lock` has one lock. The model nests locks in ascending order, as scoped locks of
  one call chain are; with two of them the invariants hold too, but the liveness property
  does not: an owner of the outer lock that takes and releases the inner one for ever
  satisfies the fairness stated here. Code that does so within the outer section is not
  the lock's fault.
* `sync` has no infinite timeouts: a finite one whose timer never fires behaves the same,
  and no fairness makes it fire.
* `scheduler`: threads of a lower priority do starve, by design, so `NoStarvation` is about
  the threads that the preemption timer rotates, with no thread above them. A yield is skipped
  by the count of the thread's own process (`k_scheduler.cpp:27`), so `YieldSkippedRightly` is
  about the threads of that process: one of another process may be ready on the core with the
  same priority, and waits for the next preemption.
* `switch` has one thread, so two cores that want each other's guard do not occur in it. With
  two threads the liveness property is out of TLC's reach. `Exclusive`, `LoadsLast`,
  `ExitIsFinal` and `InterruptsArrive` are proved for every number of threads; that two such
  cores both go on is not shown.
* `resource` takes `m_lock` as a lock that excludes. Finding 1 says that it does not for a
  thread that is terminated while it waits for it.
* `condvar` has no infinite timeouts either, for the same reason as `sync`.
* `display`: a guest may queue some frames with `async` and others without. A frame that
  replaces a droppable front may then overtake older ones, and the order is lost:
  `FramesInOrder` keeps only that no frame is shown twice and that those behind the front are in
  order. If it overtakes a stale one of its own slot, the queue breaks (see below):
  `SlotsAccounted` then keeps only what it says of Queued slots, `ShownIntact` nothing, and
  `DequeueReturns` excepts a slot that stays Acquired. The properties and the proofs show that
  nothing else breaks them. `DequeueReturns` also excepts a layer that stays closed and a guest
  that dequeues all slots and queues none: `DequeueBuffer` then waits as it should.
* `ipc`: one session and one server thread, synchronous requests. That a request is answered
  as long as its service goes on was checked too, but takes longer than the other properties
  together; `RequestTracked` and `NothingMissed` are the safety part of it and are kept.
  `RegisterService` is taken only while a request is handled or deferred: at other times it
  is a service that no handler waits for. `TerminationEnds` excepts a suspension that comes
  too late, see below.

Fairness. The kernel's host threads are scheduled by the host, so a thread that can go on
with a call does.

* `KLightLock`: weak fairness of a core's switch to a runnable thread, of the steps inside
  `Lock` and `Unlock`, and of `Unlock` itself (scoped locks are released).
* `KContextSwitch`: weak fairness of each core's loop and of the host's steps; guest code
  that was asked to halt stops.
* `KThreadLocks`: weak fairness of the rounds of `RestorePriority`.
* `KResourceLimit`: strong fairness of a reservation's steps, because others take the lock
  in between; the light lock's hand-over (`ContendedLockPassedOn`) is why that is justified.
  Deadlines pass.
* `KConditionVariable`, `KSynchronizationObject`: fairness is stated on states, "a runnable
  thread in the middle of a call does not stay there for ever" (`InCall`, `Pending`), which
  is far cheaper to check than the weak fairness of each step. It adds that the guest's
  critical sections end and that a session's closing gets to its notification. That the
  walk of `NotifyAvailable` ends is assumed too (`[]<>SchedulerUnlocked`); it could hide a
  list with a cycle, but `WaitExact` excludes one in every state, and the run also passes
  with `WF_vars(NotifyAvailable)` in place of the assumption (in 7 minutes).
* `KScheduler`: the preemption timer only (`PreemptThreads` every 10 ms).
* `HardwareComposer`: the vsync thread composes again and again, and a producer that was
  notified runs. Nothing makes the guest call anything.
* `ServerManager`: weak fairness of a thread's way through the kernel and to its exit once it
  is asked to terminate, of the server's thread, and of the worker, the terminator, the
  destruction of either end and the host's shutdown once begun. Nothing makes the guest call
  anything, nor the host pause or resume.

Deadlock is checked except where all threads may wait without a timeout or have terminated
(`condvar`, `sync`, `arbiter`), where the frames are bounded (`display`), and where the
emulation may have been shut down (`ipc`).

## Findings

1. `light_lock_cancel`: when a process ends, a thread that waits for a light lock is woken
   by `CancelWait`, and `LockSlowPath` returns true whatever the result of the wait
   (`k_light_lock.cpp:81`). `Lock` returns although another thread owns the lock, and its
   callers assert `IsLockedByCurrentThread()` (`k_page_table_base.cpp:678`).
2. `light_lock_resume`: `TrySuspend` makes sure that no thread waits for the thread it
   suspends ("Ensure that we have no waiters."), but `Resume` applies what is left of the
   requested suspensions without that test (`k_thread.cpp:781`).

Two more disagreements between the code and its own lines, met while modelling. Neither has a
run of its own; the first is what the exceptions of `display` are about:

* A queue with a stale frame. `SetPreallocatedBuffer` resets a slot whose frame is queued and
  leaves the frame in the queue. If the slot is then filled again and its new frame replaces a
  droppable front, the new one is ahead of the stale one. When the composer releases it,
  `ReleaseBuffer` refuses the slot because of the stale frame ("Make sure this buffer hasn't
  been queued while acquired by the consumer.", `buffer_queue_consumer.cpp:135`), though the
  buffer was not queued while it was acquired. The slot stays Acquired, `AcquireBuffer` gives
  out no frame from then on (`buffer_queue_consumer.cpp:35`), and `DequeueBuffer` sleeps for ever
  when the other slots are used up. With three slots and five frames the stale frame may also
  come to be shown without a buffer: it was queued without one because the consumer had a copy,
  and the release of the frame that overtook it made the consumer drop the copy.
* `SetBufferCount` may shrink the count below a slot that is queued or acquired if there are
  preallocated buffers, and a count of zero below one that is acquired;
  `WaitForFreeSlotThenRelock` asserts that the slots beyond the count are
  free (`buffer_queue_producer.cpp:146`).

What else the models brought to light, without a line of the repository that says otherwise:

* `SuspendEmulation` (`kernel.cpp:1212`) suspends threads that have been asked to terminate
  already: `RequestTerminate` continues a suspended thread for good (`k_thread.cpp:1262`) only
  if it is suspended at that moment. A service's thread in `KProcess::Terminate` then waits
  for a thread that does not run, and the destructor of its manager waits for the service's
  thread. `TerminationEnds` names this exception (`SuspendedTooLate`), and holds otherwise.
* `KProcess::StartTermination` fails if the thread that terminates is itself asked to, and the
  worker would then wait for a thread that only the worker can finish. `TerminationComplete`
  shows that nobody asks that thread.
* After `ISelfController::Exit`, `KServerSession::OnClientClosed` has taken the client's
  thread away from the request that is still being handled and closed its reference
  (`k_server_session.cpp:1473`). The reply minds this. `HLERequestContext` keeps a pointer to
  the thread without a reference, and the framework itself uses it once the handler is done:
  `HandleSyncRequest` calls `WriteToOutgoingCommandBuffer` (`service.cpp:165`), which goes from
  the thread to its process (`hle_ipc.cpp:272`). `ReferencesExact` is about those who have a
  reference; this pointer is not among them, and nothing here shows that the thread is still
  there. The contents of the context are not in the model.
* `KThread::Finalize` of an owner of guest mutexes removes each waiter from its lock info,
  which clears the waiter's `m_waiting_lock_info`, and then cancels its wait. The wait queue
  of `ArbitrateLock` calls `GetLockOwner()->RemoveWaiter` without testing for null
  (`k_condition_variable.cpp:74`); the one of `WaitProcessWideKeyAtomic` tests it.
* `KSession::IsServerClosed` and `IsClientClosed` are the same test (`IsClosed`).
* `ServerManager` keeps one deferral event. With several threads, one could clear the event
  and find no deferred request while another is about to add one; only `sm` defers requests,
  and has one thread.

## Proofs

For every set of threads, locks, priorities, words, cores or slots that satisfies the named
assumptions (`ThreadsAssumption`, `LocksAssumption`: finitely many threads, locks are numbers;
`NullAssumption`, `PrioritiesAssumption`, `HighestAssumption`: of any priorities one is the
highest; `CondVarAssumption`, `SwitchAssumption`: null values are not members, each condition
variable has its mutex; `ArbiterAssumption`: finitely many threads, words of at least two
bits; `BufferQueueAssumption`: at least one slot, the default count within the slots;
`ProcessAssumption`: finitely many threads, the main thread is one of them, and the other
parties are none):

* **KLightLockProofs.** `LightLockMutualExclusion`, `LightLockNoLostWaiter`,
  `LightLockWaitersCounted`, `LightLockOnlyHolderReleases`, all for `Spec`, that is without
  cancelled waits (finding 1 is what happens with them). `SuspensionExact` is not proved,
  it does not hold for every set of suspend types (finding 2). Mutual exclusion is not
  inductive: the hand-over writes the tag before the next owner runs. `LockInv` adds where
  each thread is (`PlaceInv`: a thread whose wait is over is the one the tag names), that a
  tag without an owner is the free tag, and that the counts of waiters are exact, which
  rests on two lemmas about cardinalities.
* **KThreadLocksProofs.** `InheritanceIsExact`, `TreesStaySorted`, `HandsOverToHighest`,
  `ThreadLocksTyped`. `LocksInv` says that while `RestorePriority` is at work only the
  thread it is about can have a wrong priority (`ExactElsewhere`). With it every shortcut
  of the code (restore one thread only, stop when nothing changes, do not restore the next
  owner) is a case of the proof. `InheritsAll` shows that looking at the fronts of the
  trees is looking at all waiters.
* **KContextSwitchProofs.** `Exclusive`, `LoadsLast`, `ExitIsFinal`, `InterruptsArrive`,
  `TypeCorrect`. `Inv` says that a core has the guard of what it executes or is about to
  switch to, that registers are outside a context only under its guard, that a core whose
  thread is not the chosen one will look again, and that a terminated thread keeps its guard
  and is not chosen. `InterruptsArrive` needs a second invariant on top of it, about the one
  flag by which a core is told of a choice on its way from the chooser to the core's own loop.
* **KConditionVariableProofs.** `CondVarNoLostSignal`, `CondVarNoLostMutexWaiter`,
  `CondVarImplementsMonitor`. `Wait` and `Signal` store to two words with guest code in
  between; `Inv` says what holds between those stores (`ReleaseInv`: the thread still has the
  mutex, the condition variable's word is set and the predicate does not hold) and that each
  waiter for a mutex waits on the thread that its word names (`WaiterInv`), whoever passes a
  mutex on, times out, is terminated or has its handle closed. The refinement maps each step
  to a step of `Monitor` or to none, one lemma for each kind of abstract step.
* **KAddressArbiterProofs.** `ArbiterNoLostWakeup`, `ArbiterWordTellsWaiters`. `NoLostWakeup`
  is inductive as it stands. That the stored word tells the truth is a matter of counting:
  whom `count` leaves waiting (`LeftWaiting`), and that a word one more or one less is another
  word although the sum wraps (`WrapNear`).
* **HardwareComposerProofs.** `NoSlotLost`, `ShownFrameIntact`, `FramesShownInOrder`. None of
  the three is inductive, because slots are freed, reset and used again while frames of them
  are queued or shown, so a slot may have several items in the queue, most of them stale.
  `DisplayInv` tells them apart. Always, a slot is Queued as long as an item has its buffer
  (`ItemInv`), each frame is in one place, in order behind the front (`QueueInv`), and the guest
  has a slot without a buffer only while it is being allocated (`ProducerInv`). Until a frame
  overtakes an older one of its own slot (`CleanInv`), an item of which the slot still has the
  buffer is also the last of its slot (`LastInv`); one that was queued without its buffer,
  because the consumer has seen it, is the first of its slot, and the consumer has a copy until
  the item comes (`CopyInv`); and the shown frame's slot has no item in the queue while it is
  acquired (`ShownInv`). The three theorems have the same exceptions as the properties of
  `display`. The bounds on
  frames, buffers and calls are constants, so the result is for all of them.
* **KProcessProofs**, **ServerManagerProofs.** `ServerReferencesExact`, `ServerRequestTracked`,
  `ServerNothingMissed`, `ServerTerminationComplete`, from one inductive invariant
  (`ServerInvariant`) in two halves. `ManagerInv` is about the manager and the session's ends:
  each holder is in exactly one list unless the manager's thread has it in its hands
  (`ListInv`), what has woken the manager is linked and still signaled (`WaitInv`), and what
  that thread takes for granted of the session holds wherever it is (`EndsInv`, `HandInv`). It
  does not depend on the other half. `ProcessInv` is about the process and needs the first:
  where a thread may be in which state (`ThreadInv`), what is true at each stage of
  `KProcess::Terminate` (`TermInv`: from the closing of the table on, every other thread with
  references has terminated), that a handle is only ever added by one creator (`TableInv`),
  that a thread is in the worker's queue at most once, and before it is signaled (`TaskInv`),
  the references of a request, one for its sender and one for the session (`RequestInv`),
  and the references of every object (`RefsInv`), which are sums: each step moves one of the
  summands with the count. `KProcessProofs` has the invariants and the steps of the process,
  `ServerManagerProofs` those of the session and the manager, and the theorems. How a set of
  threads is counted (`Counting`) is carried along as a part of `ProcessInv` and is proved once,
  from the finiteness of `Threads`.

A leaf that names two back ends, `SMTT(20), Z3T(20)`, needs only one of them. `tlapm` gives the
translation to SMT five seconds whatever the leaf allows the solver, and on a busy machine a
large context may miss them once; the second back end is a second try.

Only model-checked, and why:

* the liveness properties, because TLAPS has no rules for fairness and `ENABLED` here;
* `SuspensionExact` of `KLightLock`, which does not hold for every set of suspend types
  (finding 2);
* `Accounted` and `NoMissedRelease` of `KResourceLimit`, which are about the sum over a
  function: that a fold over a set does not depend on the order is an induction with an
  operator as its parameter, which the provers here cannot instantiate;
* the invariants of `KScheduler`, whose queues are recursive functions of the threads'
  order, and of `KSynchronizationObject`, whose lists are reached link by link.

Folds and recursive functions are used, RECURSIVE operators nowhere.

## Not modelled, and the plan

Left out of the modules: validation of addresses and arguments, inaccessible memory, the
conversion of timeouts to ticks, `KThread::Finalize` with waiters, pinned threads, single
core emulation, debugger steps, slots and linear ids of handles, messages and the buffers and
handles in them, asynchronous requests and light sessions, managers with several threads,
several layers of a display, fences and times of presentation. `DetachNextBuffer`,
`AttachBuffer`, `KProcess::Exit` and the worker's task for a process are not modelled because
nothing in the repository reaches them.

The other parts of the repository, with the reasons in `PROJECT.json`: the rest of the
kernel (timer, memory), the audio core, the GPU's syncpoints and caches, the containers of
`common`, rooms and the UWP front end have state and concurrency that can be modelled, and
are planned or candidates. The recompilers (dynarmic, shaders), renderers, file formats,
cryptography, input drivers and user interfaces are translations of data or input and
output, out of TLC's reach.

Next, in this order:

1. Proofs: the queues of `KScheduler` and the lists of `KSynchronizationObject`.
2. `BoundedQueue` (`common/bounded_threadsafe_queue.h`) and the syncpoints and fences of the
   GPU.
3. The hardware timer's task list, and several sessions and threads of a server manager.
