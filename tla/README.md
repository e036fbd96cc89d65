# A TLA+ verification of ParlayHash

ParlayHash (`src/include/parlay_hash`, `src/include/utils`) is a concurrent hash
map in C++ that grows while it is used. This directory has TLA+ models of its
parts, TLC configurations that check them on small instances, and proofs for
every instance that TLAPS checks. `PROJECT.json` lists the runs, the lines each
definition models, the hazards and the findings.

The repository has a proof of its own in `src/proofs`: strong linearizability of
an abstract table "without more advanced features like table growing or
epoch-based reclamation". The models here start where that one stops: growth,
the sequence locks that make a bucket atomic, the reclamation of memory, and
thread ids. Nothing is shared between the two.

## The system

| part | code | state | operations |
|---|---|---|---|
| big_atomic | `bigatomic.h` | a version and the words of a value | `load`, `ll`, `lv`, `sc` |
| lock set | `lock.h` | 2^16 flags, found by hashing an address | `try_lock` |
| epoch collector | `epoch.h` | current epoch, announcement slots, shared sweep state, per thread three lists | `with_epoch`, `New`, `Retire`, `clear` |
| thread id pool | `thread_id_pool.h` | number of ids, a stack of ids given back, a mutex | `acquire`, `relinquish` |
| bucket state | `parlay_hash.h`, `struct state` | a buffer, an overflow list, a forwarded marker | constructors, searches, path copying |
| table | `parlay_hash.h` | a chain of versions, the status of their blocks, the current version | `Find`, `Insert`, `Upsert`, `Remove`, `size`, `for_each`, `clear` |
| thread-specific storage | `thread_specific.h` | chunks of elements, a mutex | `get`, `for_each` |
| scheduler | `parlay/scheduler.h`, `work_stealing_deque.h`, `work_stealing_job.h` | a deque per worker, counters for sleeping | `pardo`, `parfor`, `shutdown` |
| stack | `hazptr_stack.h`, `acquire_retire.h` | a linked list, hazard pointers, retired lists | `push`, `pop`, `size`, `clear` |
| block allocator | `block_allocator.h` | a list of blocks per thread, a global stack of lists | `alloc`, `free`, `num_used_blocks`, `clear` |
| interface | `unordered_map.h`, `unordered_set.h` | none | wrappers |

A bucket of the table is a `big_atomic<state>`. An update loads it (`ll`),
builds a new state and stores it (`sc`). An insertion that meets a long list
links a new version, four times as large, to the current one. Every update then
first copies a block of buckets (`copy_if_needed`) and leaves forwarded markers
behind; when all blocks are done the new version becomes current. Calls that
began before go on in the old version and follow the markers. Links of overflow
lists, and entries that are not kept in the buckets, are reclaimed by the epoch
collector, whose slots are indexed by thread ids.

Thread-specific storage, the scheduler, the stack and the block allocator are
from parlaylib, which the repository contains. With `USE_PARLAY` the table runs
its loops on the scheduler. `USE_PARLAY_ALLOC` is meant to let the collector take
memory from the allocator, but does not compile (`epoch.h:329`); parlaylib's own
sequences use it. The allocator keeps its lists
of blocks in a thread-specific object and in the stack, whose scan of the hazard
pointers is a `for_each` of another one.

What is hard here: a copy of a value that races with a write; a lock shared by
unrelated buckets; a version that is stale by the time it is used, once or twice
over; a bucket updated while it is being copied; waiting for another thread's
block; memory reused while someone reads it; a sweep of the slots shared by many
threads over many calls; ABA in three structures (the stack of ids, the stack of
lists, the deques); the last job of a deque, wanted at both ends; falling asleep
while everyone else is told to stop. `PROJECT.json` has each one at
its line, with the property that would notice.

## The modules

| module | about |
|---|---|
| `LLSC` | what big_atomic promises: ll, lv and sc in one step each |
| `BigAtomic` | big_atomic and the lock set, one action per access |
| `BigAtomicProofs` | proofs about both |
| `Epoch` | the epoch collector, one action per access |
| `EpochProofs` | proofs |
| `ThreadIdPool` | the pool of thread ids, one action per access |
| `ThreadSpecific` | threads of that pool that use a ThreadSpecific |
| `ThreadIdProofs` | proofs about both |
| `BucketState` | bucket states as values |
| `BucketStateProofs` | proofs: what the operations on a state do to its entries |
| `BucketLinks` | one bucket whose lists are links that are allocated, retired and reused |
| `UnorderedMap` | what the table promises |
| `ParlayHash` | the table |
| `ParlayHashInv` | the inductive invariant of the table, and definitions for its proofs |
| `ParlayHashLemmas` | proofs: indices and blocks, what the invariant says, what steps have in common |
| `ParlayHashSteps` | proofs: every step of the table keeps its shape |
| `ParlayHashMap` | proofs: what each step does to the entries, to the map and to walks |
| `ParlayHashProofs` | proofs: the theorems about the table |
| `Scheduler` | the work-stealing scheduler under a parallel loop |
| `LifoStack` | what the stack promises: push and pop in one step each |
| `HazptrStack` | the stack and its hazard pointers, one action per access |
| `BlockAllocator` | the block allocator on top of it |
| `MC...` | instances for TLC |

Mutants, definitions that no specification uses, stand before the definition
they spoil, with a comment that begins with "Mutant".

**BigAtomic.** `version`, `val` and `locks` are the fields of the code. The
words of a value are copied one at a time in any order, so that a copy that
races with a write may be any mixture. `lval` is a history variable: the value
of the last sc that took effect. `load` is `ll` without the tag. sc may be
called with any tag that ll can have returned and any value. `expand_table`
appears as a thread that takes a lock of the same set. Accesses are sequentially
consistent: the fences of the code are taken to do their work.

**Epoch.** The code as it is compiled: `USE_STEPPING`, no `USE_UNDO`. An object
that is followed is linked, leaving, in one of the three lists of a thread, or
free; `Retire` may also be about an object that is not followed. `reach[t]`, a
history variable, is what thread `t` can have come across since it entered its
with_epoch. A slot is loaded twice, as `update_epoch_steps` does. `Clear` is
`memory_pool::clear`, at a quiescent point as its comment asks.

**ThreadIdPool.** A member of `Thread` is a place for a thread: another one may
start where one has died.

**ThreadSpecific** extends it with `get` and `for_each` by threads that have
an id. An element is the id its constructor was given. Both copies of the file
(`utils/threads` and `parlay`) are the same code. `for_each` looks at one more
chunk pointer before it ends than it needs; that is outside the array only with
2^24 times as many ids as the machine has threads.

**BucketState.** The list is a sequence. The loops of the code are recursive
functions on how many entries they have gone through.

**BucketLinks.** Links and indirect entries are objects. Of the collector it
takes what `EpochProofs` proves: a retired object is handed out again once
everyone who was inside with_epoch has left. A call builds its state from what
ll returned, stores it, and then retires what it no longer needs (`win`), or
what it has built in vain (`lose`). Both kinds of entries are checked (`direct`).
Copies are those made inside with_epoch; see finding 2 for the others.
`LinksAreLists` is what lets `ParlayHash` take lists for values.

**ParlayHash.** One action per access to a bucket, a version pointer or a block
status, with the local work around it.

- ll, lv and sc are single steps; `Refinement` below is what allows that. Since
  a tag is good until the next sc that succeeds on its bucket, it is a Boolean.
- `CopyLL` also writes the buckets of the next version, which nobody else can
  reach before the forwarded marker is stored. `CopyIsPrivate` says so.
- Waiting for a block (`Working`) is an action that is not enabled.
- `Expand` is one step, and may do nothing, since its lock may be held for an
  unrelated bucket.
- A key goes to the bucket that the low bits of its new index name (`Share`),
  as in `copy_bucket`; that this is the bucket where readers look is part of
  `RightBucket`.
- Walks visit the buckets in any order: `for_each` goes in order and `size`,
  which is the same walk, in parallel. `clear` is one walk that empties buckets.
- A retry goes on with the bucket `check_bucket_and_state` got to but with the
  version the call began with, as in the code.
- `inside` is whether the call is in with_epoch. Lists are values:
  that this is sound is shown in `BucketLinks`.
- The sizes of the versions, of their blocks and of the range of the hash are
  constants (`Size`, `BlockSize`, `HashSize`, `Grow`). The code has powers of two;
  the model asks that a version is `Grow` times as large as the one before and
  that sizes divide each other.
- A version has room for one block status per bucket, more than the code
  allocates; whether the code stays within its array is finding 3.
- `Preload` stands for insertions made before anything else, so that runs can
  begin with a table that is about to grow, or has just started to.

`ImplementsMap` maps this to `UnorderedMap`: the map is what readers can get to;
a call takes effect at its successful sc, or else where it reads the state that
it answers from.

**Scheduler.** With `PARLAY_ELASTIC_PARALLELISM`, as by default. A task is a range of the loop; a
thread's stack holds the `parfor_`s it is in. The loads, stores and
compare-and-swaps of `push_bottom`, `pop_top` and `pop_bottom` are steps. Which
deque is tried, how long the sampled iterations take, and when a worker gives up
are any. Of `wake_up_counter` it matters only whether it has moved since a
thread loaded it (`unmoved`).

**HazptrStack.** `Node` is the memory that `new` takes nodes from, so that a
deleted one comes back. A thread that has lost a race may read `p->next` while
the winner links the node into its retired list; either value may be read, and
the swap fails then. `push` and `pop` are called by the actions of
`BlockAllocator`, which end them.

**BlockAllocator.** The blocks a user has are alike, so `free` takes the least.
The branch of `alloc` for a task that another thread has taken over is left out:
here a call stays with its thread. `operator new` may throw. The buffers are
recorded in a second stack of the same kind, which only `clear` reads, at rest.

## The runs

| run | states | shows |
|---|---|---|
| `bigatomic` | 56318 | two threads on a cell of two words, and others that take its lock: types, the seqlock invariant, versions only grow, atomic LL/SC, locks are given back, calls return unless others hold locks again and again |
| `epoch` | 735381 | two threads, one object followed through all lists and used again; the epoch always moves on while objects are retired |
| `thread_ids` | 387986 | three threads that come and go: ids are unique, none is lost, no more than threads; each finds its own element, for_each misses none, no chunk is made twice |
| `bucket_links` | 217629 | two threads on a bucket: nothing that is used is retired, nothing is lost, no call reads memory that is used again, and links behave as lists |
| `hash_grow` | 63533 | find, insert and remove while four buckets in two blocks become eight; direct entries |
| `hash_grow_twice` | 66921 | three versions, indirect entries; calls return although they wait for blocks |
| `hash_walk` | 80472 | for_each, size, clear and upsert beside the others, in a table that then grows |
| `scheduler` | 119470 | three workers, four iterations: each runs once and before the loop returns, a pardo pops its own job, jobs outlive their thieves, and shutdown ends |
| `block_allocator` | 129919 | two threads, four nodes: the stack is linearizable though its nodes are reused, every block is in one place, local lists and garbage are bounded, the count of used blocks is right |

Three more runs are expected to fail, each on one property; see the findings.

The type invariants of `Epoch` and `ThreadIdPool` are proved and not run. So are
the inductive invariants, which TLC has checked on the instances of these runs. A
property of `ParlayHash` is checked where its instance matters: `RightBucket` with
several buckets, `GrowsInOrder` where the table grows twice, `CopyIsPrivate` in
both, since only a second growth meets the block statuses that the first one set
up. `ImplementsMap` is checked in all three.

**Bounds.** Two threads are enough for every race of two calls. In `thread_ids`
there are three, since ABA takes a popper and two others; in `scheduler` three,
so that a thief can be robbed. A cell is written twice, so that there are old
tags; more cells and threads are left to the proofs. A value of two words is the
smallest that can be torn. `MaxEpoch` is 4: an object leaves `current` two epochs
after it was retired and `old` two after that, so with fewer epochs none would
ever be used again and `RetireWaits` would say nothing. A buffer of one entry and
two or three keys in a bucket give every form of a state: empty, full, with a
list of one link, with more. Blocks of two make the copier of a block different
from the owner of a bucket, so that a copy can fail. Three versions let a call be
two behind. Chunks of 1, 1 and 2 elements put ids at every boundary. A loop of
four nests two pardos. Lists of two blocks in four buffers let one thread fill
its local list and push. A `Threshold` of 1 makes every pop scan (30 or more in
the code): a scan may leave two nodes, one per slot, and a pop adds a third, so
that with four nodes a retired list that is never emptied passes its bound; they
also make deletion and reuse happen. `MaxCalls` (3 or
4), `MaxVersion` and `MaxIds` bound what would run for ever, and `MaxObj` is more
than three calls can use. `MaxIds` is one more than the threads, so that an id
too many would be seen. Threads are symmetric except where they are numbers
(`Epoch`, `Scheduler`, `HazptrStack`) and in the liveness runs.

Two runs do not look at all states. `hash_walk` has a constraint (`UpsertsFirst`):
no upsert runs while the table grows or after it has grown, since there it goes
wrong (finding 1). `block_allocator` has a view: blocks are alike, so a state is
given, up to their names, by the nodes, the lengths of the lists and the place of
`mid`; and nodes are alike, so that each goes by where it occurs first. That takes
that lists are whole and every block is in one place: whether `TypeOK` and
`EachBlockOnce` hold is part of the view, so that a state in which they fail is
never taken for one in which they hold.

**Fairness.** A thread that has begun a call goes on with it (`WF` of its step):
the code has no scheduling of its own and needs that the operating system runs
every thread. Nobody has to begin a call. `epoch` also assumes what the
property is about: that threads keep retiring (`[]<>` at "advance") and do not
stay inside for ever (`[]<>` outside). In `scheduler` a worker that sleeps is not
run until it is woken; who wins a steal, and which deque is tried, is left open.

**Deadlock** is checked everywhere. Where `MaxCalls` stops the calls, a
stuttering step (`Finished`) stands for the end.

## What is proved

For all values of the constants that satisfy the named assumptions:

- `BigAtomicProofs!TypeCorrect`, `!SeqLockCorrect` and `!VersionsOnlyGrow`.
  `SeqLockInv` is inductive given `TypeOK`. Its conjuncts:
  a lock has one holder; a cell with an even version is complete; who is past
  the recheck owns the cell and its version; a reader whose version has not
  moved has copied words of the current value.
- `BigAtomicProofs!Refinement`: big_atomic implements `LLSC`. The value maps
  to `lval`, the stamp to the version rounded up. An sc takes effect with the
  store of the odd version, since from then on no old tag is good and ll waits.
- `EpochProofs!TypeCorrect`, `!EpochCorrect`, `!RetireIsSafe` and
  `!EpochMovesByOne`, the last three if with_epoch is not nested
  (`MaxDepth = 1`). `RetireWaits` is far from inductive. `EpochInv` adds what
  makes it so: the epoch is at most one ahead of a thread inside; the slots a
  sweep has looked at are those of its epoch or later, and stay so because
  announce looks at the epoch again; an object that a thread can reach is in
  `current` with that thread's epoch at most one ahead of the list's, or in
  `old` with it before the list's. To leave `old` the epoch must be two ahead of
  the list, hence more than one ahead of the thread: impossible.
- `ThreadIdProofs!IdsAreUnique`, `!IdsAreKept` and `!IdsAreDense`, and
  `!UsersKeepPool`, by which they hold for the threads of `ThreadSpecific`. The
  inductive invariant `IdInv` adds to `UniqueIds` and `NoneLost` who holds the
  mutex, and what a popper knows: since only one thread pops at a time, the node
  it is about to take stays in the stack with the same node below, whatever is
  pushed on top. `IdsAreDense` counts: a thread makes an id only after it saw the
  stack empty, when every id was some other thread's, and those make none.

- `BucketStateProofs`: for states of any length, `AddEntry` adds its entry and
  keeps the others, `ReplaceEntry` puts one in the place of another, `RemoveKey`
  takes away the entry of its key and nothing else, `Split` copies the entries
  with the given keys, and `Lookup` finds the entry of a key. The code does this
  in loops. The prover cannot instantiate induction with an operator, so `Least`,
  `Induction` and `Recursion` prove it anew for sets: a set of numbers with 0 and
  the successors of its elements has all of them, and a function on numbers can
  be defined step by step.
- `ParlayHashProofs`, for any number of threads, keys, versions and calls, and
  for direct and indirect entries: `TypesHold`, `EntriesAreInTheirBucket`,
  `CopiesArePrivate`, `VersionsGrowInOrder`, `TableImplementsMap` (the table is
  linearizable while it grows) and `WalksMeetEveryEntry`. All of these follow
  from `Full`, which is inductive (`FullIsInvariant`):
  - `Shape`: versions before the current one are forwarded throughout; there is
    at most one after it, and no marker is in that one;
  - `Blocks`, `Copiers`: a block that is done is forwarded throughout, one that
    nobody has claimed not at all; a block that is worked on has one copier, and
    its buckets are forwarded up to where the copier is;
  - `Counts`: `finished_block_count` and the threads about to increment it are
    together the number of blocks that are done, so that one thread finds the
    last one and makes the next version current;
  - `Positions`: where a thread is, its bucket is one that can be reached, of the
    version it believes or a later one, and what it loaded is still there while
    its tag is good;
  - `RightBucket` and `Fresh`: entries are in the bucket of their key, and the
    copies of a bucket whose copier will succeed have its entries.

  Under `Full` a key has exactly one bucket that can be reached and is not
  forwarded (`Owner`), and the map has for the key what that bucket has. Each
  step either leaves all buckets as they are, or writes one of them, or moves
  the entries of one to its copies. `WalkInv` adds for walks that an entry that
  is there throughout has been met or is of a bucket still to be visited, and
  that these buckets share no key.

  The theorems have the hypothesis `[]UpsertsMeetNoMarker`: no `Upsert` loads a
  forwarded marker first. That is precisely finding 1, after which the table is
  not correct. `CorrectWithoutUpserts` proves that without calls of `Upsert` no
  hypothesis is needed.

Only model-checked:

- All liveness: `ENABLED` and fairness are outside the prover's reach.
- `ThreadSpecific`: its chunks double in size, and what sums of powers of two
  are needs arithmetic the provers do not have.
- `BucketLinks`, `Scheduler`, `HazptrStack`, `BlockAllocator`. Their invariants
  are about linked lists, of which all that is reachable, or the order of a deque,
  is defined by recursion over the memory.

## Findings

Each of these is a run that fails. The source lines and quotations are in
`PROJECT.json`.

1. `hash_upsert_grows`: `Upsert` keeps a copy of the state from before it
   follows a forwarded bucket and stores that copy, a forwarded marker, in the
   new bucket. The entries there are lost.
2. `hash_lists`: with direct entries, the first pass of `Remove` copies
   overflow lists outside with_epoch.
3. `hash_blocks`: `copy_if_needed` sets up `grow_factor` times as many block
   statuses as there were, but a version with larger blocks has fewer. The run
   has blocks of 2, 4 and 8 in place of 4, 16 and 256.

The models also show the following; no run is kept for it.

- With `MaxDepth = 2`, `RetireWaits` of `Epoch` fails: the inner of two nested
  with_epoch empties the slot and so ends the protection of the outer one,
  against lines 9-10 of `epoch.h`. No operation of the table calls another from
  inside, but there are two ways to nest them: a function passed to the table that
  calls the table, and, with `USE_PARLAY`, a thread that waits in the parallel loop
  of `size` and steals a job of some other computation that calls the
  table. The theorems assume `MaxDepth = 1`.
- The block that is copied is not the one with the bucket of the call
  (`BlockOf`; `parlay_hash.h:460`), as the comment on `copy_if_needed` says it
  is. The table is correct all the same.
- `clear` skips a bucket that is updated or copied at the same time
  (`ClearLL`, `ClearSC`), so that an entry older than the call survives it,
  where `README.md:106` of the repository says "Clears all entries of the map."
  `UnorderedMap` lets `clear` take any of the entries: that what it takes goes once
  and stays away is checked, that it takes them all is not.
- The comment at `parlay_hash.h:33` has "grow by factor of 8 (2^3)" where the
  factor is 4, and that at lines 95-96 "lower 56 bits" and "top 8 bits" for a
  head that is split at bit 48.
- `Upsert` does not retire the new entry when its sc fails on a list, nor the
  entries it replaces. `NothingLost` makes an exception for them; nothing else
  goes wrong.
- With lists of one block (`list_length` is 1 for blocks of about 256 KB and
  more) the two tests of `block_allocator::free` are one, and no list goes back
  to the global stack, where the comment at the top of the file says that one
  does. The bound on local lists in `TypeOK` is about longer lists.
- After `block_allocator::clear` the local lists keep pointers to memory that is
  gone; since they count their blocks, nobody follows them.
- `push_bottom` returns whether `bot` was 0, not, as its comment says, whether
  the queue was empty: thieves may have emptied it. A worker is woken later then.

## Not modelled

- Of the modelled files: `Delete`, `retire_pool`, undo and the hooks of
  `epoch.h`; `try_loop` of `lock.h`; destructors and
  `parlay_hash::clear(reinitialize)`, which only the destructor calls;
  `Iterator`, which cannot be instantiated; the iterators of
  `thread_specific.h`; several schedulers at a time and the overflow of a deque
  (it aborts at 1000 nested jobs); the platforms of `atomic_wait.h`. The sizes of
  versions, blocks and lists are parameters.
- Weak memory order: all accesses are sequentially consistent.
- `with_epoch` in `with_epoch`: known to fail, as said above, and not kept as a
  run.
- Thread ids that are handed on while a sweep is under way: `Epoch` numbers its
  threads once. A slot whose thread has died is empty, and the next thread with
  that id is to the sweep the same one, entering again.
- `pool_allocator.h` and `alloc.h`: size classes over the allocator above.
- The rest of parlaylib (sequences, sorting, scans, reductions): sequential or
  data-parallel functions whose only concurrency is `pardo`.
- `old_parlay_hash`, which only a benchmark uses; the C++ traits and macros; the
  benchmarks.
- `src/other`: hash tables of others (sequential tables, phmap, growt and more)
  that the benchmarks compare with. They are most of the lines under `src`, and
  this table neither calls nor depends on any of them; what is modelled is
  therefore a small part of the lines and the concurrent core of the system.
