# Specification of libdlb

libdlb is a C library of intrusive data structures (`src/src`) and of
asynchronous IO primitives (`src/io`) built on them. This directory holds TLA+
models of the library, the TLC configurations that check them on small
instances, and TLAPS proofs of what matters most for all instances.

## 1. Inventory

### The asynchronous part (`src/io`)

| part | state | operations | interacts with |
|---|---|---|---|
| `thr` | events: flag, mutex, condition variable | raise, clear, wait, wait with timeout | used by `runq` (one event per worker) and `adns` |
| `runq` | job list, quit flag, workers and their events | init, destroy, `runq_task_exec`, `runq_dispatch`, `worker_func` | hook `wakeup` into `ioq`; calls the task functions, which call everything else |
| `mailbox` | flags, expected set, mode, task | take, raise, wait, wait_all | submits its callback to a `runq` |
| `waitq` | tree of timers by deadline | wait, cancel, reschedule, `waitq_next_deadline`, `waitq_dispatch` | hook into `ioq`; submits callbacks to a `runq` |
| `ioq` (Linux) | list of modified wait objects, wakeup pipe, epoll set, per-object flags | `ioq_iterate`, `ioq_notify`, `ioq_fd_wait`, `ioq_fd_rewait`, `ioq_fd_cancel` | contains a `runq` and a `waitq`, is their hook, drives both |
| `afile`, `asock` | pending operations, a wait object, a lock | read, write, connect, accept, send, receive, cancel, close | built on `ioq_fd` and `runq` |
| `adns` | list of requests, resolver thread | ask, cancel, destroy | resolver thread woken by an event; submits to a `runq` |

The hard behaviours are all here: every primitive promises *one request, one
callback* although the request, its cancellation and its completion come from
different threads; wakeups are given after a lock was dropped and only when
they seem necessary; decisions are taken on copies; threads are created and
joined while tasks go on; system calls fail half-way.

### The data structures (`src/src`)

Linked lists, red-black trees with iterators and ranges, hash table, circular
buffer, vector, string buffer, interned strings, slab and arena allocators, big
integers. They are sequential; what is hard is long sequences of legal calls,
boundaries of sizes and capacities, and allocation failures in the middle.

### What makes each part correct

* `thr`: a raised event wakes its waiter, however raises, signals and clears overlap.
* `runq`: a submitted task starts exactly once; no worker sleeps over jobs;
  teardown ends and leaves no thread that uses freed memory.
* `mailbox`: one callback per wait, when and only when the condition holds.
* `waitq`: one callback per wait, not before the deadline unless cancelled; the
  loop never sleeps past a deadline; cancellation is not lost.
* `ioq`: one callback per wait; the list and the kernel's set agree with the
  flags; the kernel never points to an object that may be gone; the loop does
  not sleep over work.
* `afile`, `asock`: one callback per request; every request is waited for; what
  is cancelled or closed ends; descriptors are neither lost nor closed twice.
* `adns`: one callback per question, with its own answer or error; the resolver does not
  sleep over requests; destruction ends.
* data structures: each implements the set, sequence, mapping or arithmetic it
  stands for, and keeps what it holds when an allocation fails.

`PROJECT.json` lists the components, those that are not modelled too, and the
hazards line by line.

## 2. Modules

| module | models | role |
|---|---|---|
| `EventFlag` | – | what an event promises |
| `ThrEvent` | `thr.c` | mutex, condition variable and integer; implements `EventFlag` |
| `TaskPool` | – | what a run queue promises |
| `Runq` | `runq.c` | implements `TaskPool` |
| `MCRunq` | – | a `Runq` with workers, one with a hook and a `Mailbox`, side by side, for TLC |
| `FlagWait` | – | what a mailbox promises |
| `Mailbox` | `mailbox.c` | implements `FlagWait` |
| `Waitq` | `waitq.c`, and the loop of `ioq_linux.c` as far as it serves timers | |
| `WaitObject` | – | what a wait object (`struct ioq_fd`) promises to files and sockets |
| `Ioq`, `MCIoq` | `ioq_linux.c` | implements `WaitObject`; `MCIoq` adds the symmetry for TLC |
| `Afile` | `afile_posix.c` | uses `WaitObject` |
| `Asock` | `asock_posix.c` | uses `WaitObject` |
| `Adns` | `adns.c` | |
| `Lists` | `list.c`, `slist.c` | pointers against sequences |
| `Rbt` | `rbt.c`, `rbt_iter.c`, `rbt_range.c` | nodes and links against a sorted set |
| `Cbuf` | `cbuf.c`, `cbuf.h` | memory and indices against a queue |
| `Hash` | `hash.c` | chains against a mapping |
| `Slab`, `Arena` | `slab.c`, `arena.c` | allocators |
| `Strbuf`, `Istr`, `Vector` | `strbuf.c`, `istr.c`, `vector.c` | growing memory; `Istr` uses the operators of `Strbuf` |
| `Doubling` | how `strbuf.c`, `hash.c` and `vector.c` choose a size | used by `Vector`, `Strbuf`, `Hash` |
| `Bint` | `bint.c` | chunked arithmetic against the integers |
| `Components` | – | puts the independent components side by side: `Lists`, `Cbuf`, `Hash`, `Slab`, `Strbuf`, `Istr`, `Vector`, `ThrEvent`, `Afile`, `Adns` |
| `Library` | – | extends `Components` by `Rbt`, `Arena` and `Bint` and gives the constants for TLC |
| `RunqProofs`, `MailboxProofs`, `WaitqProofs`, `IoqProofs`, `AsockProofs`, `AfileProofs`, `AdnsProofs` | | TLAPS proofs, each about the module it is named after |
| `ComponentProofs` | | TLAPS proofs about `Components` |

The modules are layered as the code is. `Runq` uses an event as the flag that
`ThrEvent` is shown to implement; so does `Adns`. `Mailbox`, `Waitq`, `Ioq`,
`Asock` and `Adns` use the run queue as `TaskPool` describes it: a submitted task
is started once, later, by some thread. `Afile` and `Asock` take the actions of
`WaitObject`, which `Ioq` implements (`ImplementsWaitObject`), as steps of their
own. `Waitq` uses the notification of the loop as the flag that `Ioq` shows its
pipe to be.

`Components` and `Library` are a harness: their components do not touch each
other, so the initial state chooses one of them (`part`) and the variables of the
others stay as they are. One run then explores every component's own behaviours,
side by side and not multiplied, and each property speaks of the behaviours of its
component. The harness is in two modules because the second part (`Rbt`, `Arena`,
`Bint`) has recursive operators, which the proofs may not reach: `ComponentProofs`
extends `Components`, the run extends it to `Library`. `MCRunq` does the same with
the run queue in its two uses and the mailbox, each with the properties and the
fairness of its own module.

### Conventions

* A critical section of a mutex is one action: it contains no blocking call and
  what it protects is looked at only under that mutex. Everything a function
  does before and after a critical section is one or more actions of its own,
  with a program counter for the thread (`pc`, `raising`, `firing`, `op`, `th`,
  `loop`), so other threads may come in between.
* A linked list is a sequence, a flag mask a set, the tree of timers a set with
  an order. Callbacks are abstracted to what they may do: a consumer or user
  that is free again.
* What a caller must not do according to the headers (submit a task that is
  pending, start a second wait) is a guard. Variables marked *history* record
  what was asked for, and are used only in such guards and in properties.
* `Mutation:` definitions are the plausible bugs with which the properties are
  tested; they are used nowhere else.

### State and actions

**ThrEvent.** `state` is `e->state`; `signalling` the threads between the unlock
of `thr_event_raise` and `pthread_cond_signal`; `waiter` the position of the one
waiting thread. `Check` is the test of the loop and, if it fails, the atomic
unlock-and-sleep of `pthread_cond_wait`. Spurious wakeups and timeouts are
actions. `Deadline` is the conversion of a timeout to an absolute time;
`TimedWaitExact` proves it right for all times and timeouts.

**Runq.** `job_list`, `quit_request`, `wakeup[w]` as in the code. `raising[t]` is
the loop variable of `runq_task_exec` after the unlock, so its walk over the
workers is interleaved with everything. `boss`, `nth`, `dir` are the thread that
executes `runq_init` and `runq_destroy`, with the failure path of `runq_init`,
which joins the workers downwards. `ThrStart` is what `thr_start` can return: 0, the
positive error of `pthread_create`, or -1 as in the variant for Windows, so that the
failure path of `runq_init` is explored as well. A worker whose thread could not be
created stays `"none"`; joining it is undefined, and returns or does not. `Destroyed` are
the events that `join_worker` has destroyed so far. `Dispatch` is `runq_dispatch` with its limit
(`budget`), `HookDispatch` the unlimited one with which `ioq_iterate` answers the
hook. A task function is the interval between `RunOnePop` and `TaskReturn`, in
which the thread may submit tasks; it may last for ever.

**Mailbox.** `firing` holds the threads that left the lock with `fire = 1`;
`queued` says that the task is in the run queue. The consumer calls `take` and
`wait` only while no wait is outstanding, as `mailbox.h` demands.

**Waitq.** `op[u]` is the position of a user thread inside `waitq_timer_wait`,
`_cancel` or `_reschedule`, `server` the serving loop with its local copies of
the clock and the timeout. `rbt_iter_prev` on a node that has just been removed
(`wset_remove`) gives an answer that depends on the shape of the tree;
`RemoveWakes` is the set of answers it can give. So the hook is not always called
when the first timer is removed, other than `waitq.h` says; the loop then wakes up
too early, and `NoOversleep` shows that this is all. The limit of `waitq_dispatch` is
0 as in `ioq_iterate`.

**Ioq.** `flags`, `requested`, `ready`, `err` are the fields of an `ioq_fd`; `epoll`
is the kernel's interest set, `level` what is present at the descriptors, which
changes at any time. `th[t]` is where a user thread is inside `ioq_fd_wait` or
`ioq_notify`; the loop itself is in `th` as well when it calls these from a task.
`loop` is the position inside `ioq_iterate` with the local variables that outlive
a critical section: the fetched events and the copies made by `mod_dequeue`.
`epoll_ctl` may fail (`CtlMayFail`), and fails by itself when an ADD finds the
descriptor registered or a MOD does not.

**WaitObject, Afile.** `phase` is idle, waiting, or over with the callback to come.
`flags` is `a->flags`; `entered` counts callbacks of the wait object before their
lock, `performing` those after it, with the requests they still have to read or
write and call back, since several may run on different workers. The outcome of
`write()` is put into the fields of the read, as the code does. `Cancel` and `Request`
have no guard but that a request of the same kind is not outstanding: a file may be
cancelled when nothing is left to cancel, and given a request while it is being
cancelled.

**Asock.** Two locks, hence two groups of actions: `wait_ops` and the wait object
under `wait_lock`, `dispatch_queue` under `dispatch_lock`; in between, `pushes`,
`execs`, `queued`, `taking` and `calls` are where a completion is. Descriptors are
numbers that the kernel gives out lowest first, so that a closed one is used
again at once. `connect()` may succeed, fail or be in progress, and `errno` may be
left over from an earlier call.

**Adns.** `worker` is the position in `do_work` with the copy of the question;
`raising` and `cancelling` are threads after their unlock. A question is the
number of the call that asked it, an answer the question it answers. `failed` says
that `q->error` is set; only a lookup changes it. `ended` and `leftover` are history:
how the request was completed, and whether it had an error when it was asked.

**Rbt.** A tree is a record of root, children, parents and the two flags; mirrored
code is one operator with a side. The module contains the client that
`rbt_range.h` describes, with a cached summary in each node.

**Lists, Cbuf, Hash, Slab.** Each keeps, beside the variables of the code, the
sequence or set it should hold. A loop is a recursive function of the number of
its rounds. Any `malloc` may fail.

**Arena.** Offsets into a memory of units; headers of former blocks stay in memory
and are read as the code reads them. What is left over at the end of the memory
and was never written is a constant, `Slack`.

**Strbuf, Istr, Vector.** Operations on a string buffer are sets of outcomes, with
and without the memory they ask for; so are the rounds of `strbuf_vprintf` and of
`gc_text`, each of which may run out of memory. `Istr` records in `lost` that a
collection lost the texts.

**Bint.** A number is a sign and a sequence of components in whole chunks, with
the width of a component and the size of a chunk as constants. Two numbers are
changed by the operations; the properties apply every operation to what was
reached and compare with TLA+'s integers. Numbers that are not trimmed are operands
like others. Where an operation would walk past the end of a chain the program ends:
`CopyFits`, `SubtractFits`, `MulFits` and `DivFits` say when it does not, and are the
guards of the actions. `ChunkMac` and what is built on it report a dropped carry.

## 3. Runs

| run | result | what it shows |
|---|---|---|
| `MCRunq` | pass | `NoStrandedJob`, `TornDown`, `DestroyTerminates`, `ImplementsSafePool` with two workers, a client, failing thread creation and teardown at any time; `QueueServed`: a task that does not return holds up nobody while a worker is left. Without workers: `HookNotForgotten`, and with `HookImplementsPool` the whole pool contract, liveness included. For the mailbox: `OneCompletion`, `ArmedUnsatisfied`, `ImplementsFlagWait` |
| `RunqStart` | violation | `InitReportsFailure`, when `pthread_create` fails |
| `Waitq` | pass | `OneHolder`, `NotEarly`, `NoOversleep`, `EveryWaitEnds` |
| `WaitqCancel` | violation | `CancelNotLost`, when a cancellation meets a rescheduling |
| `IoqSingle` | pass | `KernelPointersLive`, `LoopWillWake`, `WaitEnds`, `JobsRun` and the refinement `ImplementsWaitObject`, with failing system calls, without background threads |
| `IoqWorkers` | pass | `OneCallback` and `ModListMatchesFlags` with two descriptors, workers and an event buffer that is too small |
| `IoqEmptySet` | violation | `CompletionWanted`, when a wait for the empty set is cancelled before its callback has run |
| `Asock` | pass | `SocketRequestsOnce`, `SocketWaitArmed`, `DispatcherArmed`, `DescriptorsOwned`, `ConnectedIfNoError`, `CloseEndsAll` |
| `Library` | pass | `ImplementsFlag`; `FileServed`, `FileCancelEnds`; `ResolverServes`, `ResolverEnds`; `TreeExact`, `ListsExact`, `BufferExact`, `TableExact`, `ArenaExact`, `ArithmeticExact`, `ContentsKept` |
| `BintAdd` | violation | `AddAlwaysExact`, when a carry runs through a component of all ones |
| `IstrGc` | violation | `GcNotFatal`, when memory runs out during garbage collection |
| `AfileCancel` | violation | `RequestsWillEnd`, after an `afile_cancel` that had nothing to cancel |

The properties of `Library` (most of them stated in `Components`) are conjunctions of those stated in the modules
(`FileServed` and `ResolverServes` are put together in `Afile` and `Adns`, where they
are proved):

| property | parts |
|---|---|
| `FileServed` | `FileRequestsOnce`, `FileWaitArmed`, `FileFailureTold` of `Afile` |
| `ResolverServes` | `AskedOnce`, `OwnAnswer`, `ResolverAwake` of `Adns` |
| `ResolverEnds` | `EveryAskEnds`, `DestroyJoins` of `Adns` |
| `TreeExact` | `RedBlack`, `SortedMembers`, `IteratorsExact`, `RangeExact` of `Rbt` |
| `ListsExact` | `ListsMatch`, `SlistMatches` of `Lists` |
| `BufferExact` | `HoldsQueue`, `AreasApart`, `AreasStable`, `MoveIsMaximal` of `Cbuf` |
| `TableExact` | `FindExact`, `CountExact` of `Hash` |
| `ArenaExact` | `BlocksTile`, `Joined`, `HeadersTrue` of `Arena` |
| `ArithmeticExact` | `StaysTrimmed`, `RoomEnough`, `SumExact`, `ProductExact`, `QuotientExact`, `BitsExact`, `DigitsExact` of `Bint` |
| `ContentsKept` | `StrbufHolds` of `Strbuf`, `StringsKept` of `Istr`, `VectorHolds` of `Vector`, `ObjectsAccounted` and `SlabsListed` of `Slab` |

The violations are disagreements between the code and its documentation; they
are described under `findings` in `PROJECT.json`, with the lines of both.

### Known divergences without a run of their own

Unless said otherwise these are in the models, and the properties name each as an
exception that is no wider than it has to be.

* `join_worker()` destroys a worker's event as soon as its thread has ended
  (`runq.c:66`), while a task on a worker that is joined later may still raise it.
  `TornDown` says that only such a task does.
* `mailbox_wait()` for the empty set never completes (`mailbox.c:83`), although
  `mailbox.h:77` says that it does at once. `Mailbox` waits for the empty set with
  `mailbox_wait_all()` only.
* The outcome of a write is stored as that of the read (`afile_posix.c:115-119`
  against `afile.h:106-107`): the write then reports what an earlier one left, and the
  read may report it. `FileFailureTold` speaks of writes that did not come to `write()`.
* A request made to a file while it is being cancelled gives the wait its events
  again (`afile_posix.c:150`); the cancellation then takes effect only when one of
  them comes. `FileCancelEnds` excepts this. That a cancellation with nothing to
  cancel hangs the next request is the finding of `AfileCancel`; `FileWaitArmed`
  shows that it is the only way to that (`CancelLost`).
* `asock_connect()` looks at `errno` also when `connect()` has succeeded at once
  (`asock_posix.c:371`), and reports the error of an earlier call as its own, against
  `asock.h:140-141`, "The socket will report no error if successful". The second case
  of `ConnectAtOnce` leaves the error open; `ConnectedIfNoError` is the converse and
  does not speak of it.
* A resolver request that is cancelled between `adns.c:97` and `:99` is removed
  twice; one that is cancelled and asked again during the lookup gets the old
  answer (`adns.c:90`). `raced` records both; `AskedOnce` excepts the first,
  `OwnAnswer` either.
* `q->error` is set by the lookup (`adns.c:100`) and cleared by nobody. A request whose
  lookup failed, asked again and cancelled, completes with the old error, against
  `adns.h:119-120`, "A cancelled request completes with a non-error code and a NULL
  result". `OwnAnswer` says that it completes with no answer and exactly the error
  that it had when it was asked.
* `strbuf_add_string()` does not set the failed flag, a preallocated empty buffer
  has no terminator, and a failed `strbuf_vprintf()` may leave none.
* `bint.c`, besides the carry of `BintAdd` (`CarryKept`):
  * `chunk_mac()` drops the carry out of the sum of a chunk and the incoming carry
    (`bint.c:353`), so a product of two numbers of several chunks may be wrong
    against `bint.h:116`. `ProductExact`: it is wrong just when a carry was
    dropped, and none is if a factor is trimmed and has one chunk only.
  * `bint_shift_left()` leaves an empty last chunk when the result fills its chunks,
    and `bint_mul()` may leave one, against the invariant at the head of `bint.c`.
    `StaysTrimmed` says exactly when, for the first; all other operations keep it.
  * Room is made for the bits of a number, not for its chunks, so an empty last
    chunk makes `bint_copy()`, `bint_sub()` or `bint_mul()` walk past the end of a chain.
    `RoomEnough`: of trimmed numbers none does. `bint_expt()` multiplies its own
    products, which are not trimmed, and does: the square of 2^63 is a case in the
    library as built (`BintExpt(...).fits`).
  * `bint_div()` skips the first bit of the quotient when the bit length of the
    dividend is a multiple of a chunk's, as the shifted divisor then has an empty
    chunk and compares greater (`FirstBitSkipped`); 2^127 divided by 1 is a case. And
    it adds one to the quotient whenever the signs differ, so that the remainder of
    an even division equals the divisor, against `bint.h:124-128`. `QuotientExact`
    states both, and that the remainder is smaller than the divisor otherwise.
  * `bint_compare()` tells -0 from 0, against `bint.h:96-97` (`SumExact`).

### What the program is assumed to do

Besides the guards taken from the headers (no second wait, no submission of a
pending task): a resolver request belongs to one thread; a socket is used by one thread at a time, and
it does not listen, connect or destroy with operations outstanding, because
these initialise the wait object again; nodes are in one list at a time; keys
given as `HASH_INSERT_UNIQUE` are new; memory freed was allocated; the never
written rest of an arena does not look like a free block (`Slack`).

### Bounds

* `MCRunq`: two workers are enough for one to take a job the other was woken for, for the
  joining loop to have a first and a last round in both directions, and for one
  to be stuck; two tasks let the list be empty, non-empty and refilled by a task.
* `Library`: four raising threads let several threads be between unlock and signal at once.
* `MCRunq`: three flags distinguish "any" from "all" and a partly satisfied wait.
* Two timers have a first and another one; two users race for the same timer
  while the server expires it. `MaxTime` bounds the clock; no wait begins when it
  has stopped, and a sleep whose end lies beyond it ends there. Three instants
  are the least at which a deadline can pass between the dispatching of timers
  and the computation of the next timeout.
* With one descriptor all races about one object occur; two of them with an
  event buffer of one make the list longer than one and the buffer too small.
  Symmetry (`MCIoq`) permutes descriptors and user threads; it is used where only
  invariants are checked.
* Three descriptors (`MaxDescriptor`) are the socket's, the client's and one that
  is being cancelled, or the one `accept()` returns; `socket()` also fails.
* Seven keys give trees of four levels, in which every case of both repairs
  occurs, on both sides; `TwinKey` has a second node.
* Two requests, asked twice each (`MaxAsks`), let one be behind another and one be
  asked again while its old question is looked up.
* Three items let a list have a first, a middle and a last one. Circular buffers
  of different capacities split a copy at both ends at once. The hash table
  starts with two chains (`MinSize`) and grows twice. Slabs of three objects have
  a state that is neither full nor empty.
* The arena has 31 units and blocks of up to 2^4, so that it is no power of two
  and holds blocks of several orders, with headers of 3.
* Components of two bits and chunks of two components make numbers of six bits
  chains of two chunks, three with an empty one, and `ProductExact` sets a bit to have
  factors of two chunks that carry; nine bits in `BintAdd` reach the carry beyond the shorter
  chain. The actions take a few positions, shifts and bases, from which all numbers
  of the bounds are reached; the properties try all of them, those of one number where
  the other is zero. Strings of up to five characters with a least capacity of two
  resize twice in each direction, vectors of four elements likewise.

### Fairness

Threads that are able to go on do so (weak fairness of the steps inside a
library function), because a thread that holds no lock is scheduled, and the
mutexes are held for bounded time only. `ioq_iterate` is called again and again.
Nothing is assumed about timeouts, spurious wakeups, signals, events at
descriptors, calls of user threads, or the destruction of a queue. Task functions
return only in `ReturningSpec`, in the premise of `DestroyTerminates` and in
`Ioq!FairSpec`; there strong fairness is
needed because a task that submits others is not able to return in between, and
says that it makes finitely many calls. In `Ioq` strong fairness of `RunTask(k)`
says that the run queue, a first-in first-out list, passes over none of its
tasks. `WaitEnds` has the loop's return to its wait as a premise, since
`runq_dispatch` without a limit does not guarantee it. `EveryWaitEnds`
excepts a timer that the program reschedules again and again. With workers the
liveness part of `TaskPool` is replaced by `QueueServed`, which does not need tasks
to return.

`Afile` and `Asock` assume that a cancelled wait ends and is called back
(`WaitEnds` of `Ioq`), that the run queue serves its tasks, and that callbacks
return; events need not come, so `FileCancelEnds` and `CloseEndsAll` rest on the
cancellation alone. `Adns` assumes that `getaddrinfo()` returns. `Components` states
the fairness of its components again for its own variables.

## 4. Proofs

The proofs hold for any number of workers, clients, tasks, threads, flags, timers,
wait objects, descriptors and requests, where TLC takes two or three, and for
data structures of any size with any least capacity, where TLC takes 1 to 3.
They assume the `ASSUME`s of the modules and nothing else, unless a theorem says so:

* `Runq`, `Mailbox` (`MailboxAssumption`, a hypothesis of its theorems, which `MCRunq`
  checks for its mailbox): thread names are disjoint, `NoTask` and `NoReq` are no task and
  no request. `Waitq`: timers are finitely many numbers (their addresses, which
  order timers of the same deadline), intervals are natural numbers and may be 0,
  the clock can advance, `NoTimer` is no timer. `Ioq`: the loop is no user thread,
  wait objects are no other tasks, sets that are waited for consist of events and
  not of the error, the event buffer has a place. `Asock`: descriptors are natural
  numbers.
* `IoqProofs.NonemptyWaits`: nobody waits for the empty set. The run
  `IoqEmptySet` shows how such a wait goes wrong. `LoopNotStranded` does not need it.
* `AdnsProofs.NoneDistinct`: `None`, the null pointer, is no request.
* `Components.ConstantsAssumption`: the heads of lists and the null pointer are no
  items; a circular buffer has at least one byte (`cbuf_tail` divides by its size);
  the least sizes and capacities, 32 in `hash.c` and `strbuf.c` and 8 in `vector.c`,
  are not 0, and a slab holds an object; characters are numbers;
  the code of a hash node is a number and, being computed from the key
  (`hash_func_t`), the same for equal keys. The bounds of the models (`MaxHint`, `MaxLength`,
  `MaxElems`) are any natural numbers, the bounds of `Istr` and `Adns` anything.

Every proof has the same form: the inductive invariant is a conjunction of named
parts; a lemma `...Step` shows that each action keeps it, with one step per action;
lemmas `...Frame` deal at once with all actions that leave a part alone; the
theorem puts this together. For `src/io` the parts that the properties do not state
themselves were checked by TLC before they were proved; the data structures'
invariants are close to the properties, which the run `Library` checks.

**RunqProofs.**

* `TypeCorrect`: `TypeOK` is inductive by itself. It contains that `nth` is a
  worker while the loops run, so no step leaves the array.
* `TeardownSafe`: `TornDown` is not inductive. `LifeInv` adds that before
  `runq_init` returns nothing was submitted and no worker beyond `nth` exists
  (`Startup`), that clients are outside unless the pool is up (`ClientsOut`), that
  a worker raises events only inside a task (`RaisesInTask`), and that the
  workers the joining loop has passed, in either direction, have ended (`Joined`).
  `NeverUp` says that nothing was submitted to a queue that did not come up, so that no
  destroyed event is raised there.
* `NoLostWakeup`: `NoStrandedJob` is inductive relative to `TypeOK` and `LifeInv`.
  The step that matters is `RaiseWorker`: a worker that is parked and was to be
  raised is raised now, or is still ahead of some thread.
* `HookKept`: `NoForgottenHook` with the fact that only a teardown sets the quit
  flag.
* `RunqImplementsPool`: the refinement of the safety part of `TaskPool`
  (`ImplementsSafePool`). `JobInv`
  adds that the jobs in the list are distinct, so that popping one removes it
  from the set of pending tasks (`PopJob`, `AppendJob`), and that a thread has a
  current task exactly when it is inside one.

**MailboxProofs.** `MailboxInv`: while the consumer runs, the mailbox is idle;
while it waits, the wait is armed and its condition fails, or it was decided, the
condition holds and exactly one thread or the run queue holds the callback.
`OneCallback`, `NoFlagLost` and `MailboxImplementsFlagWait` follow.

**WaitqProofs.** A timer with an outstanding wait is in exactly one place: the
waiting set, the hands of one thread, those of the server, or the run queue
(`Apart`, `Placed`). This is inductive, and `OneHolder`, which counts, follows
(`OneCallbackPerWait`). `NoEarlyCallback` needs besides that the server's time has
come (`ClockRead`) and that a timer loses its deadline only when its cancellation
was asked for (`Deadlines`). `NoOversleep` is inductive relative to these
(`NeverOversleeps`): a timer that does not call the hook is behind another one
(`AddedBehind`), for which the timeout was computed or which called it. The proof
takes `RemoveWakes` as the set of answers it is, so it holds for every shape of
the tree.

**IoqProofs.** `ObjectInv` says of every wait object that it is in one place while its
wait is outstanding (`OnePlace`); that the flag `EPOLL` is the truth about the
kernel, only a waiting object is registered, and the copies of the flags in
`dispatch_mods` still agree in the bits that it decides by (`Registered`); that an
empty set has a reason, a cancellation or a failure (`Reasoned`); and that
inside `ioq_fd_wait` an object belongs to one thread (`Entering`). With
`ModListMatchesFlags` it is inductive. `ListIsFlags`, `NoDanglingPointer` and
`OneCallbackPerWait` follow. `LoopNotStranded` has an invariant of its own
(`WakeParts`): when `intr_state` is 1 there is a byte in the pipe, a thread about
to write it, or the loop about to reset it, and a list that the loop has already
passed has a notifier. `IoqImplementsWaitObject` is the whole property
`ImplementsWaitObject`: every step of the loop or of a thread is, for each object,
a step of `WaitObject` or invisible. `Asock` and `Afile` rest on it.

**AsockProofs.** `RequestInv`: an outstanding operation is in exactly one of
`wait_ops`, the masks on their way to `dispatch_push`, `dispatch_queue` and the
masks being called; no mask on its way is without operations; of `connect` and
`accept`, which share a callback, at most one is outstanding. From it follow
`OneCallbackPerRequest`; with `TaskInv` (the dispatch task is submitted exactly
once while the queue is not empty) `CompletionsDelivered`; with `SocketInv` (an
open socket is the one the wait object was initialised for, a cancelled wait
leaves no socket) `NoDescriptorLost`, although the kernel reuses numbers at once;
with `WaitInv` `OperationsWaitedFor`; with `ConnectInv` (a connect that is on its way
to its callback without an error is connected) `NoFalseConnection`.

**AfileProofs.** `RequestInv`: a request is in `a->flags` or in exactly one `ioq_cb`,
and no two of them have the same request (`OneCallbackPerRequest`). `WaitInv`: a
callback is about to look only after a wait, and there is one at most; flags without
either are those that a needless cancellation left (`RequestsWaitedFor`). `ToldInv`: what `ioq_cb` has left in the write's error field is
still there when the write is called back: reads, and `write()` itself, store into
the read's field, and no second write can begin. `FileServes` is `FileServed`.

**AdnsProofs.** `HolderInv`: no request is in the list twice and a busy one is in the
list, or was removed by the worker that has still to clear the flag, so a
cancellation in time finds it in the list (`OneCallbackPerAsk`). `EndedInv`: a request
that is in the list, or in the worker's hands, has not been completed yet. `AnswerInv`: the
worker's copy of the question is that of its request unless a race recorded in
`raced` has happened (`AnswersBelong`). `ListRemoved` is what `list_remove` does to a
sequence without repetitions. `ResolverServesAll` is `ResolverServes`; its last part,
`ResolverAwake`, is inductive: whoever puts a request into an empty list is about
to raise the event.

**ComponentProofs.** Every data structure has an inductive invariant that ties its
memory to the sequence or set it should hold. Per operation a lemma `...Step`
shows that it keeps the invariant; `...StepInv` puts them together; `OwnStep` says
that a step of `Components` is one of the component it is about or leaves its
variables alone, and `...Always` draws the conclusion.

Loops need induction over their rounds, and the library's induction theorems
cannot be used, as they take an operator. `LeastNumber` (a set of numbers that is
not empty has a least one) replaces them: `Induction` is induction over a *set* of
numbers. From it follow, once for all loops, that the recursive function that
models a loop exists and satisfies its equation (`Iteration`; `Loop` for rounds that
depend on their number, as where one walks a list; `StagedLoop` when the type of the
state does, too), and that what every round keeps holds in the end (`LoopInvariant`,
`Rounds`). That a loop ends in the rounds it is given, because each gains at least
one, is part of its own lemma (`MoveKeeps`, `DoubledEnough`).

* `ListsCorrect`. `RingsInv`: no item is twice in a list or in two lists, and the
  links of each ring are those of its sequence (`Linked`: item `i` points to `i + 1`
  and back, the head is before the first and behind the last). `LinkInserted`,
  `LinkRemoved` and `LinkMoved` show that the assignments of
  `list_insert`, `list_remove` and `list_move` are right also where neighbours
  coincide with the head or with each other. `SlistInv`: the items of the `slist`
  are distinct, so that the pointer to the end is right after a pop.
* `BufferCorrect`. `CbufInv`: byte `i` of the queue is at `(head + i - 1)` modulo the
  capacity (`Holding`). `Wrap` and `TailArea` do the modular arithmetic; `PutHolds`
  and `TakeHolds` are one `memcpy` with its advance; `MoveInRoundKeeps`,
  `MoveOutRoundKeeps` and `MoveRoundKeeps` one round of the loops of `cbuf.c`, which
  end when the source is empty, the destination full or the limit reached. That
  these are the only ways to end is `MoveIsMaximal`.
* `TableCorrect`. `HashInv` (`HashOk`): every node that is stored is in the chain of
  its code, once and nowhere else (`TableOk`), no two have the same key, and
  the count is the number of nodes and at most the size. `SpreadKeeps` and
  `RehashedKeeps` are the two loops of `hash_capacity_hint`, `ChainWithElements` that
  of `hash_insert`, `UnlinkedRemoves` is `hash_remove`. That the size is prime is
  used nowhere; that it is at least the hint is (`NewSizeEnough`).
* `ContentsCorrect` has four invariants. `SlabInv`: free lists have no object twice,
  an object is in one exactly if the user does not have it, and `full` and `partial`
  have each slab once; cardinalities only come in when the property is concluded.
  `VectorInv`: the memory reaches as far as the length; what is left of it by
  `size_for` is described by `Resized`. `StrbufInv`: the length is inside the memory
  with room for the terminator (`BufOk`); `HintKeeps`, `AddStringAdds`,
  `AttemptKeeps` (the retries of `strbuf_vprintf`) and `ResizeCuts` say what each
  operation leaves when it succeeds and when it fails. `IstrInv`: unless a text was
  lost, the descriptors in use lie inside the text with their terminators
  (`PoolOk`); `GcDescKeeps` and `CopyTextsKeep` are the two phases of a collection,
  the latter for every pattern of failing allocations.
* `NoSignalLost`: `SleeperIsSignalled` is inductive together with `TypeOK`.
  `ThrEventImplementsFlag` is the safety part of `ImplementsFlag`: a check that finds
  the flag up is the abstract end of the wait, and signals, spurious wakeups and
  going to sleep are stuttering.
* `TimedWaitExact`: for every time of day and every timeout that is not negative the
  deadline is a valid `timespec`, exactly the timeout later. `SecondsAndRest` splits
  the timeout; that microseconds and milliseconds together are less than two
  seconds is why one carry is enough.
* `FilesServed`, `ResolverServed`: `AfileProofs` and `AdnsProofs` are instantiated, and
  their invariants used for the behaviours of `Components`.

The theorems of `ComponentProofs` are about `Components!Spec`. A behaviour of
`Library` is one of `Components`, or one of a tree, arena or big integer, of which
these properties say nothing.

Only model-checked:

* liveness, because fairness and `ENABLED` are outside the prover's reach:
  `DestroyTerminates`, `QueueServed`, `EveryWaitEnds`, `WaitEnds`, `JobsRun`,
  `FileCancelEnds`, `CloseEndsAll`, `ResolverEnds`, and the liveness part of
  `ImplementsFlag` and of `TaskPool` and `FlagWait`;
* `TreeExact`, `ArenaExact` and `ArithmeticExact`. `Rbt`, `Arena` and `Bint` recurse over
  trees, over powers of two and over the digits of numbers with recursive
  operators, for which the prover loses its SMT backend.

## 5. Plan

Done: the layers `thr`, `runq`, `mailbox`, `waitq`, `ioq`, their contracts; files,
sockets and the resolver; all data structures; proofs of every invariant of
`src/io` that a run checks, of the safety of its refinements, and of the data
structures except trees, arena and big integers.

Left:

1. `Rbt` with recursive functions instead of operators, and a proof of `RedBlack`
   and `SortedMembers` by cases of the repair.
2. `Arena` likewise: that blocks tile the memory for any size and order.

## 6. Not modelled

The Windows variants (the kernel keeps the state), the wrappers of the clock, of
network initialisation and of system errors, protothreads, byte order helpers
and `strlcpy`: they hold no state of their own, or are macros. What is sent,
received, read and written, addresses, formatted output and memory outside the
structures are abstracted. Memory exhaustion is modelled where a function handles
it; failures of the initialisation functions of `ioq` and `adns`, which only
release what was acquired before, are not.
