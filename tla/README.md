# Verification of cs444group1

TLA+ models of the programs in this repository, checked with TLC on small
instances and, where marked, proved with TLAPS for every value of the constants.
The repository holds the homework of an operating systems course: three pieces
of Linux kernel code (an I/O scheduler, a RAM disk driver, a memory allocator
with two system calls) and several small multithreaded programs.

`PROJECT.json` lists the components, the runs, a mutant for every property of a
passing run, the source lines of every definition, the findings, the hazards and
the theorems. Paths below are relative to `src/`.

## 1. Inventory

| Component | State | Operations | What is hard |
|---|---|---|---|
| SLOB page, `assignments/a4/slob.c` 77-192, 218-267, 365-447 | the memory of a page: the free list lives inside the free blocks, and a block of one unit encodes its next pointer as a negative number | `slob_page_alloc` (first fit with alignment), the insertion half of `slob_free` | splits and joins in every address order; the changing encoding; walks that end only at a page-aligned pointer |
| SLOB heap, `slob.c` 99-126, 194-216, 272-641 | three lists of partially free pages, `PageSlab`, `PageSlobFree`, `sp->units`, the counter `pages` | `kmalloc`, `kfree`, `kmem_cache_alloc`, `kmem_cache_free` with and without RCU, `slob_alloc` with the group's best-fit search, `slob_free` | `slob_lock` is dropped between search and new page and between unlinking a page and freeing it; `pages++`/`pages--` are outside the lock; RCU callbacks come late |
| SLOB system calls, `slob.c` 674-716 | none of their own; they read the lists (locked) and `pages` (not locked) | `sys_slob_units_free`, `sys_slob_units_used` | the two operands belong to different moments; unsigned arithmetic |
| SSTF scheduler, `assignments/a2/sstf-iosched.c` | the circular request list, `direction`, `sector` | add, dispatch, merge, former/latter, init, exit | an insertion loop whose two pointers run in opposite directions and over the list head; replacing an elevator that has requests |
| Producer and consumer, `assignments/a1/producer.c` | buffer, `last_item`, a mutex, a condition variable | two threads | the consumer looks at the buffer without the mutex, sleeps, and acts on what it saw |
| Dining philosophers, `recitations/philosopher.c` | a semaphore per fork, the counting semaphore `lock` | N threads | mutual exclusion, deadlock, starvation |
| RAM disk, `assignments/a3/ramdisk.c` (`sbd.c` is the version without encryption) | data, request queue, cipher, registration | request loop, transfer, load, unload | `continue` without fetching; units of sectors; failures half way through loading |
| Search/insert/delete, `recitations/concurrency3.c` | a linked list, three semaphores | searchers, inserters, deleters | the head is read before the semaphores that protect it are taken; freed nodes are allocated again |
| Sleeping barber, `recitations/concurrency4.c` | `current`, `sleeping`, mutexes, condition variables | barber and customers | shared variables that only one side locks, lost wake-ups, a mutex left locked |
| Cigarette smokers, `recitations/concurrency5.cpp` | semaphores, a table | smokers, agents, admins | `sem_timedwait` with a deadline in the past and an ignored result |
| Dining philosophers, `assignments/a2/concurrency.py` | a lock per fork | threads, shutdown | leaving without forks and releasing them anyway |
| Mersenne Twister `assignments/a1/mt19937ar.c`; patches, tests, makefiles, write-ups | - | - | third-party or not programs; read for what they claim |

Interactions. `SlobPage` is used by the heap through its contract: the heap's
module never looks at the embedded list. The system calls share `slob_lock`, the
lists and the counter with the heap. The scheduler and the RAM disk are called
by the kernel's block layer, the allocator by the whole kernel; these callers
are external and modelled by what they may do (arbitrary requests, arbitrary
order of frees, merges of adjacent requests, draining before an exit). The
programs of the first assignment and of the recitations are self-contained.

What makes each part correct:

* page: the list is exact, ordered and coalesced; walks end; first fit;
* heap: no memory is handed out twice; lists, flags and counters agree with the
  blocks; empty pages leave; `BUG_ON(!b)` is unreachable; `pages` is right;
* system calls: exact when nothing else runs, sensible otherwise;
* scheduler: no request lost, duplicated or stuck; the drain empties it;
* RAM disk: it behaves like a disk, forgets no request, and a failed
  load leaves nothing behind that can be reached;
* threads: no lost or clobbered items, an intact list, mutual exclusion, no
  deadlock, no lost wake-up, progress, an orderly end.

## 2. Modules

| Module | Models | Notes |
|---|---|---|
| `SlobUnits` | arithmetic of a page: units, `ALIGN`, first fit | shared by the four modules below |
| `SlobPageSpec` | the contract of a page | abstract specification |
| `SlobPage` (run through `MCSlobPage`) | `set_slob`, `slob_units`, `slob_next`, `slob_last`, `slob_page_alloc`, the page part of `slob_free`; each iteration of a walk is a step | implements `SlobPageSpec` |
| `Slob` | the heap with several threads; each critical section is one step, everything between two sections is a step of its own | uses the contract of a page |
| `SlobStat` (run through `MCSlob`) | the two system calls, composed with `Slob` | |
| `Sstf` | the scheduler; each iteration of the insertion loop is a step | |
| `Producer`, `ProducerProof` | the two threads; each access to shared data that the other can observe is a step | |
| `Philosopher`, `PhilosopherProof` | main and the threads; each semaphore operation is a step | |
| `RamdiskSpec` | the contract of a RAM disk: plain sectors, for every reader | abstract specification |
| `Ramdisk` | `sbd_init`, `sbd_exit`, `sbd_request`, `sbd_transfer`; a segment of a request is a step | implements `RamdiskSpec` |
| `RamdiskText` | `Ramdisk` with a record of what was written through the device | states what readers see; adds no behaviour |
| `SearchList` | `find`, `remov`, `create` and their threads; each node that a walk visits is a step | |
| `Smokers` | smokers, agents and admins; an admin's work under `admin_lock` is one step | |
| `SmokersGiven` | `Smokers` with a record of whom rounds were meant for and who was woken | adds no behaviour |
| `Barber` | barber and customers; each access to `current` and `sleeping` is a step, `current++` two | |
| `Dining` | the Python philosophers; each operation on a lock is a step | |
| `SlobPageProof`, `SlobProof`, `SstfProof`, `RamdiskProof`, `SearchListProof`, `SmokersProof` | theorems about `SlobPage`, `Slob`, `Sstf`, `Ramdisk`, `SearchList`, `Smokers` | each extends its module and has the lemmas it needs |

State corresponds to the code by name (`freelist`, `units`, `lists`, `pages`,
`queue`, `direction`, `last_item`, `forks`, `lock`). What has no counterpart:

* `pc` says where a call or thread stands; `loc` holds a thread's locals;
* `blocks` (page, heap) is the memory that callers hold, the ghost the
  allocator's own bookkeeping is compared with;
* `owned` (scheduler) is the set of requests the block layer has handed over and
  not got back;
* `still`, `ret` (system calls) record whether anything happened between the two
  operands, and what was returned;
* `outdated` (list) says that a thread went in with a head that was no longer
  the head, `freedUse` that freed memory was used, `round` (smokers) whose round
  it is, or that a smoker has gone on without items;
* `leaked` (RAM disk) says which resources earlier loads left behind, `written`
  (`RamdiskText`) what was written to which sector since the load;
* `shown` (producer) is the item that the consumer last printed as consumed;
* `owed` (`SmokersGiven`) is, for each kind of smoker, the rounds agents began for
  it less the times it was woken.

How code becomes actions:

* `slob_alloc` is `AllocHit`, or `AllocMiss` followed by `NewPageOk`/
  `NewPageFails`, `AddPage`, `CountLoad` and `CountStore`. The nested search is the pair `Best`
  (the inner loop as a function of the outer position) and `Hits`. `Best` picks
  the smallest sufficient page among those in front of the outer position,
  bounded by `ScanLimit`, and the page at that position, as the inner loop does.
* `slob_free` is `FreeLast` followed by `PutPage` and the count, or `FreeFirst`, or
  `FreeMore`; it is reached by `FreeBlock` (`kfree`, `kmem_cache_free`) or by
  `kmem_rcu_free`, the callback of an object queued by `FreeByRcu`.
* `pages++` is a load and a store (`CountLoad`, `CountStore`). On a uniprocessor
  (`SMP = FALSE`) the two are one instruction: no other thread's come between. The
  group's kernel runs in a qemu with one CPU (`a1/writeup.tex` gives no `-smp`);
  `SMP = TRUE` is a machine with more.
* The consumer's sleep and message are a step (`ConsumerPrint`) before its lock,
  and read the top of the buffer without the mutex.
* `PAGE_SIZE`, the size limits of the lists, the header and the footer are
  constants, scaled down from 4096, 256, 1024 and so on together, so that each
  list, both sides of each comparison and pages with one, two and many blocks
  occur.
* At the list head `blk_rq_pos` reads memory behind the scheduler's data; the
  model allows any position there (`Positions`).
* The driver's unit is the sector of 512 bytes; `LBS` is `logical_block_size` in
  sectors. The cipher is a bijection (`Encrypt`, `Decrypt`), so that freshly
  allocated memory decrypts to something. `crypto_cipher_setkey` (line 70) has no
  effect: `key_len` is 8 (line 35), which is no length of an AES key, and the error is
  ignored. The cipher works without key and stays a bijection, so no property
  depends on it. With `LBS > 1` a transfer goes on behind its segment: a write
  encrypts whatever memory holds there, a read overwrites it, which may bring the
  kernel down (`Overwrites`, `"oops"`). The whole of `sbd_init` is one step per
  outcome, since nobody can use the disk before it returns. After ending a
  request that is not the file system's the loop has the ended request in hand
  (`pc = "ended"`): it ends it again, or the memory was reused and anything may
  happen (`"oops"`).
* `SearchList` knows memory: `alloc` is what is allocated, a walk that visits
  another node reads anything there and sets `freedUse`. The model does not
  follow an execution any further then. `lst->tail` is never set and left out.
* In `Smokers` every `sem_timedwait` returns at once, as `ts` lies in 1970:
  `SmokerTimedWait` takes the semaphore if it can. Semaphores stop at
  `SEM_VALUE_MAX`.
* In `Dining` releasing a lock that is free raises an error; the thread ends
  (`"error"`) and keeps what it has locked.

Abstractions: contents of memory other than the free list, the values of random
numbers, time, NUMA nodes (off in the i386 build), tracing, `ksize`,
constructors and zeroing are left out. Caches with RCU are smaller than a page.

## 3. Runs

Passing runs:

| Run | Instance | Shows |
|---|---|---|
| `slob_page` | 6 units, requests of 1, 2, 3 and 6 units and with alignment 2 and 4 | `UnitsExact`, `FreeListExact` (address order, exactly the free units, maximal runs), `WalkEnds`, and that the page implements `SlobPageSpec` (`PageSpec`) |
| `slob` | 2 frames of 4 units, 2 threads, the system calls beside them | `BlocksApart`, `NoEmptyPage`, `ListsExact`, `NoBug`, `PagesCounted`, `FreeExact`, `UsedExact` |
| `philosopher` | 4 philosophers, 3 meals (the numbers of `main`) | `NeighboursApart`, `ForksExact`, `NotStuck`, `AllEat` |
| `producer` | buffer of 3, two items | `BufferExact` (exactly the cells up to `last_item` are filled), `TopThere`, `ShownThere`, `ProducerServed`, `ConsumerServed` |
| `sstf` | 3 requests, 3 sectors | `NoneLost`, `HandedOver`, `DrainEnds` |
| `ramdisk` | 2 sectors, blocks of one sector, 2 contents, 2 requests waiting, major number 0 or given | `DiskSpec`: the driver implements `RamdiskSpec`; `LeaksKnown`, `Served` |
| `search_list` | 2 inserters, 1 searcher, 2 deleters, 3 nodes, 2 values | `Intact`, `Exclusion`, `NotStuck` |
| `smokers` | 4 smokers (two share a semaphore), all agents and admins, semaphores up to 1 | `TableOne`, `RoundKept`, `AgentsGoOn` |

Each has the module's type invariant once. Why the bounds are enough: a page of
six units holds three separate free runs with allocated blocks between them and
both encodings next to each other, so each branch of the split and of the join
is taken (a free block in front, behind, both, neither; exact fit, remainder,
aligned head). Four units and two frames give lists of two pages, pages that are full after one
block, and pages that return to another list than they came from; longer lists
are the proof's.
Two threads suffice for each pair of critical sections to overlap. Three
requests let the two insertion pointers cross, and run over the head, in each order. A buffer
of three has an empty, a partial and a full state. `ULONG`, the number of values
of an unsigned long, is small so that a wrong counter would wrap.
Two sectors and two segments give requests that overlap in every way, split and
unsplit. Three nodes make a list with a head, a middle and an end, and a freed
node that is allocated again while others are in use. Semaphores of the smokers
that stop at 1 reach both ends and the lost post; `TableOne` and `RoundKept` also
hold with 2 (with `AgentsGoOn` that instance takes too long).
`philosopher`, `ramdisk` and `search_list` run without TLC's deadlock check: the
first program ends, the driver may die of a missing cipher, and the list's model
stops at undefined behaviour; `NotStuck`, `Served` look for the deadlocks.
In `slob` and `search_list` frames, nodes and threads of a kind are symmetric: no
definition distinguishes them, and no liveness property is checked there.

Some of these properties hold under a premise. Where the code leaves it, a
configuration in the last table of this section shows what happens:

* `slob` runs with `SMP = FALSE`. With `SMP = TRUE` all of its properties but
  `PagesCounted` and `UsedExact` still hold, and the theorems cover both.
* `UsedExact` says by how much `sys_slob_units_used` is off while other calls are
  half done: a page is on its list before it is counted, and still counted after
  it has left. On an otherwise empty heap the result can be negative. It says
  nothing of calls between whose two operands the heap changes: these return the
  pages of one moment less the free units of another.
* `DiskSpec` holds for `LBS = 1`, the default. It is the contract of the driver,
  which knows no readers: every read of the device yields the plain text. The test script expects the opposite of a reader of
  `/dev/sbd0`: "Try to search for 'Testing homework 3!' on /dev/sbd0. Nothing
  should appear." (`a3/test.sh`:19) and "should output garbage" (27). As `DiskSpec`
  shows, the text does appear; only a reader of the RAM itself would not find it.
* `LeaksKnown` and `Served` name what does go wrong: a failed load leaves cipher
  and queue behind, a major number given as parameter is never unregistered
  (`register_blkdev` returns 0 for it), and the loop hangs on a request that is not
  the file system's.
* `Intact` has the premise `~outdated`: the node that `remov` and `find` start
  from may have been freed.
* `RoundKept` holds until a smoker goes on without items.
* `BufferExact`, `TopThere` and `ShownThere` do not say that the item printed as
  consumed is the one that is removed: it need not be.

Runs that are expected to fail; each shows where the code disagrees with a
sentence of the repository:

| Run | Sentence | What happens |
|---|---|---|
| `slob_best_fit` | "keep track of best fit" (`slob.c`:306), "the best fitting available slot" (`a4/writeup.tex`:21) | the inner scan stops at the page where the outer loop stands; pages behind it, though a better fit, are not compared |
| `sstf_add_loop` | "iterating until correct position is found" (`sstf-iosched.c`:104) | the loop has no test for the list head; with a small value in the memory behind it, the loop never ends |
| `barber` (3 customers, 2 seats) | "No customers, barber is sleeping" (`concurrency4.c`:100), "Barber was sleeping, customer wakes him up." (138) | the signals of all customers that find a chair come between the barber's test and its wait; the barber sleeps, they sit, and the rest find the shop full, for ever |
| `dining_py` (3 philosophers) | "set their dining variable to False so the threads stop running" (`concurrency.py`:75) | a philosopher without forks releases a neighbour's left fork between that neighbour's `acquire(False)` and `release()`; the neighbour ends with an error, its right fork stays locked, and another waits for it for ever |

Further configurations of known failures, each with one property that says what a
sentence of the repository says and what the code does not do. They are no part
of the runs; `tlc -config X.cfg M` with the property's module `M` (`MCSlob` for the
first two) ends with the violation.

| Configuration | Property | Sentence | What happens |
|---|---|---|---|
| `SlobRoom.cfg` | `RoomFound` | "Not enough space: must allocate a new page" (`slob.c`:338) | a page with few and scattered free units is chosen again for every later page of the list; those with room are not tried and a new page is taken |
| `SlobSmp.cfg` (`SMP = TRUE`) | `UsedExact` | "a system call that could retrieve the actual memory usage" (`a4/writeup.tex`:14) | `pages++` and `pages--` (`slob.c`:355, 390) lose an update; the result is wrong from then on, also at rest |
| `ProducerConsumed.cfg` | `ConsumedRemoved` | "Consumed: item = %d" (`producer.c`:161) | the producer pushes an item between the message and the lock; that one is removed, unconsumed, and the printed one is consumed again |
| `SstfSorted.cfg` | `Sorted` | "insertion sort" (`a2/writeup.tex`:13) | `prev` and `next` run in opposite directions; the new request goes behind a request that is not in front of `next` |
| `SstfOrder.cfg` | `UpwardsInOrder` | "going up until it can't go up" (`a2/writeup.tex`:16) | the dispatch looks at the two ends of the unordered list and jumps over requests that wait in between |
| `RamdiskText.cfg` | `TextHidden` | "Nothing should appear" and "should output garbage" of `/dev/sbd0` (`a3/test.sh`:19, 27) | a read of the device returns what was written |
| `RamdiskBlocks.cfg` (4 sectors in blocks of 2) | `ReadsBack` | "We can tweak our hardware sector size, but the kernel talks to us in terms of small sectors, always." (`ramdisk.c`:40) | positions and lengths in small sectors are multiplied with the large size; a sector reads differently from what was written |
| `RamdiskSkip.cfg` | `SkipsOn` | "Skip non-CMD request" (`ramdisk.c`:101) | `continue` without fetching: the loop never leaves the request it has ended |
| `SearchListDelete.cfg` | `DeletesOne` | "proving that it was deleted successfully" (`a3/writeup.tex`:27) | `remov` starts from a head that is freed or allocated again by then, and does not take one node out |
| `SmokersGiven.cfg` | `WokenAsGiven` | "Agent %d giving out %s" (`concurrency5.cpp`:87) | the ignored timeout lets two rounds overlap; an admin joins items of both and wakes smokers that no agent meant |

## 4. Fairness

* `SlobPage`: weak fairness of the walk steps. A walk runs under `slob_lock` with
  interrupts off and does not block.
* `Philosopher`: weak fairness of each thread and of `main`: the scheduler runs
  each thread that can run. No order among waiters of a semaphore is assumed.
* `Producer`: weak fairness of both threads and of `main`. POSIX allows
  `pthread_cond_wait` to return without a signal; such returns are steps of the
  model, and are assumed not to go on for ever. Nothing is assumed about who gets a
  contended mutex.
* `Sstf`: weak fairness of the steps of a call and of the drain: both run to
  completion once started, with `queue_lock` held.
* `Ramdisk`: weak fairness of the request loop: the block layer calls it when
  requests wait, and it runs with the lock held.
* `Smokers`: weak fairness of each thread; nothing about the order of waiters.
* `Barber`: weak fairness of the barber and of each customer. Wake-ups without a
  signal may happen and need not.
* `Dining`: weak fairness of each thread and of `main`, strong fairness of the
  blocking `acquire`: a lock that becomes free again and again is obtained. The
  counterexample needs neither: the lock it ends with stays locked.
* `SearchList` states safety only; that nobody waits for ever in vain is
  `NotStuck`, an invariant.
* `Slob` and `SlobStat` state no liveness: whether an allocation succeeds depends
  on what callers free.

## 5. Proofs

Each theorem holds for every value of the constants that satisfies the named
assumptions of its module; TLC evaluates these assumptions in every run.

`PhilosopherProof` assumes `NAssumption` (at least two philosophers) and
`MealsAssumption`. The properties are not inductive by themselves: exclusion
needs to know what a fork's semaphore stands for, and freedom from deadlock how
many philosophers the semaphore `lock` has admitted. `IInv` therefore joins the
shape of the state with `ForksExact`, `SeatsExact` (`lock` is the number of seats
minus the philosophers at the table), `StartedExact` and `RoundsLeft`.
`TypeCorrect`, `Exclusion` and `ForksKept` follow from it. `DeadlockFree` argues
that, if nobody could move, all at the table would hold their left fork and wait
for the right one; then, going round the ring (`Climb`), everyone would be at the
table, which is one more than `lock` admits.

`ProducerProof` assumes `BufAssumption` and `ItemsAssumption`. `IInv` adds to the
checked invariants who holds the mutex at which point, and that the producer
past its test has room. From it follow `TypeCorrect`, `BufferKept`,
`PollSound` and `ShownKept`: what the consumer saw and printed without the mutex
still holds when it acts on it, because the producer only ever adds.

`SlobPageProof` is about the page, for every page size up to 32767 units and
every set of requests that fit in a page (`PageUnitsAssumption`,
`RequestsAssumption`). `FreeListExact` follows a list through memory; the proof
says the same without following it. `Run(F, s, k, n)` is a maximal run of `k`
free units at `s` whose next free unit is `n`, `Coded` says how the memory at `s`
tells `k` and `n` (a block of one unit stores only the successor, negated), and
`Listed` that every run is coded so. `IInv` joins `Listed` and `First` with
`UnitsExact`, with `Apart` (callers' blocks do not overlap) and, in the middle of a call, with
`Scanning` (the walk stands at an entry and nothing in front of it has room) or
`Walking` (it stands in front of the block being freed). The central lemma is
`Splice`: a list whose runs and memory change only between an entry and its
successor stays exact when what is in between is. `TakeListed` (with and without an
aligned head, with and without a remainder) and `GiveListed` (joined in front,
behind, both, neither) are its uses. `TypeCorrect`, `CountExact` and `ListExact`
follow. `Implements` maps each step of a walk to a stutter and its last step to
the contract's step: since the walk has passed everything in front,
the place it takes is the first fit. `WalkClimbs` is the safety half of
`WalkEnds`: an iteration moves up, and never past the end of the page.

`SlobProof` proves `BlocksApart`, `ListsExact`, `NoEmptyPage`, `NoBug` and the
type invariant of the heap for any number of frames and threads, any page size,
any set of request sizes and caches, any limits of the lists and of the scan,
UP or SMP. It assumes `PageUnitsAssumption` and `SlobAssumption`. These
invariants need each other: a page taken off its list when it is full must be
the one whose count reached zero, the count is the number of free units only as
long as blocks do not overlap, and `slob_free` finds the last block only because
the count is exact. `IInv` adds what holds between the critical sections:

* `HeldApart`: a page that a thread is bringing in or giving back is a SLOB page
  and no other thread holds it;
* `Asking`: a thread on its way to a new page serves a request of less than a
  page, so that the request fits the fresh page (`FitsFresh`, hence `NoBug`);
* `Sized`: the size that the freeing side computes is the one that was given;
* `RcuOnly`: callbacks are queued only for objects of an RCU cache, so no block
  is freed both directly and by a callback.

The argument has three layers: what a block taken or given back does to the free
units of its page (`Carved`, `Returned`, `TakeBlock`, `GiveBlock`), what pushing,
rotating and unlinking does to three lists without repeated pages (`ListPush`,
`ListRotate`, `ListDelist`), and that the search settles on a page that it has
seen and that has the units (`BestFacts`, `HitFacts`). One lemma per action puts
them together. Inside a page, `Slob` uses the contract that `SlobPageProof`
shows the page to implement.

`CountKept` proves `PagesCounted` for a uniprocessor (`~SMP`), the case in which it
holds. The counter alone is not the number of pages: threads still have to add
or subtract what they brought in or gave back, and on the way the counter may
wrap. `CountExact` says that `pages` plus the threads' debts is congruent to the number
of SLOB pages modulo `ULONG`, and that a thread about to store holds the
counter's present value. When nobody owes anything the two are equal,
`SlobAssumption` making `ULONG` larger than the number of frames.

`SstfProof` assumes `SstfAssumption`. `NoneLost` speaks of the list and the
request being inserted; `IInv` adds that the two insertion pointers are places of
the list or its head and the request is not in it yet (`AddSane`), that merged
requests still end on the disk (`OnDisk`), and that an elevator that is off or
drained is empty (`EmptyWhenOff`). With `NoneLost` that gives `AllPassedOn`: no
request is owed when the elevator goes. What removing and inserting at a
place do to a list without repeated requests (`RemoveAtOnce`, `InsertAtOnce`) is
all the order of the list has to do with it: the positions read behind the list
head stay arbitrary.

`RamdiskProof` assumes `RamdiskAssumption`. `IInv` says what a request in hand
still has in front of it at each point of the loop (`InHand`, `Through`) and that what
waits came from the block layer. `TypeCorrect` and `LeaksBounded` hold for every
block size. `Implements` has the premise `LBS = 1`, the
driver's default, as with larger blocks it is false (section 3). `Implements` maps the
data to the decrypted sectors and the request in hand to the
contract's operation: a segment is one move (`ServeMoves`), fetching begins an operation,
and the rest stutters.

`SearchListProof` assumes `SearchListAssumption`: the kinds of threads are
disjoint, `NULL` is no node and there is a value. Two parts of `IInv` are about the semaphores:
`SemsExact` (a semaphore is 1 when nobody holds it, and 0 when exactly one thread does) and
`Places`. From them follow `SemaphoresExclude` and `NobodyStuck`, whatever became
of the list: who holds `no_searcher` waits at most for `no_inserter`, who holds that
one at most for `inserter`, and who holds `inserter` waits for nothing. The third,
`Sound`, holds as long as `outdated` does not: the nodes inserted and not deleted are
the chain from the head to `NULL`, each inserter has a node of its own outside of it,
and each thread inside stands at a node of the chain, a deleter with `prev` in front
of `cur` or both at a head that does not match. `Chain` is stated as the least set
that contains the head and is closed under `nxt`, so that adding at the end (`ChainAppend`),
dropping the head (`ChainDropHead`) or a later node (`ChainDrop`) need no
induction. `ListIntact` is `Sound` read without the threads.

`SmokersProof` assumes `SmokersAssumption`. `TableOne` needs only the admins' work under
`admin_lock`. `RoundKept` needs to know where a round stands: `Station` lists the
five stations (nothing, one item out, both out, joined, being made) and says for
each who may go on and where the items are, each counted with the admin's
semaphore, the admin's hands and the table.

## 6. Model-checked only

Liveness (`WalkEnds`, `AllEat`, `ProducerServed`, `ConsumerServed`, `DrainEnds`,
`Served`, `AgentsGoOn`) is out of the prover's reach and stays with TLC. So do
`FreeExact` and `UsedExact` of the system calls: what `sys_slob_units_free` returns is
a sum over the lists, a fold, and that a fold is the sum over the pages in whatever order the
lists have them takes an induction over the list. Every other invariant of a passing
run, and both refinements, are theorems.

## 7. Not modelled

`mt19937ar.c` is a third-party generator; the models choose numbers arbitrarily.
`syscalls.h` and `syscall_32.tbl` are kernel files to which the two system calls
are added. The patches repeat the sources. Scripts and test programs exercise the
kernel from outside. Of the modelled programs are left out: `sbd_getgeo` (it
makes numbers up and changes nothing), requests on a device whose size in bytes
overflows an `int`, `print_list` and other output, the failure of
`pthread_create` in the smokers, and the barber's array of threads, whose last
element lies behind its end (`concurrency4.c`:66-76).

## 8. Plan

1. Done: all programs of the repository have a module.
2. Done: every safety invariant of the passing runs except those of the system
   calls is proved, and so are both refinements.
3. Left: the part of `UsedExact` that does not need the sum (the counter and the
   pages that calls under way have still to count); safety arguments behind further liveness properties, in the way of
   `WalkClimbs` (a measure that each step of the drain or of the request loop lowers).
