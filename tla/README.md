# fastparse in TLA+

fastparse reads a recorded stream of BGP UPDATE messages, splits it among a few
peers, parses each peer's share in a thread of its own, keeps an adj-RIB-in per
peer and one loc-RIB, and writes UPDATE messages for the winning routes to one
file per peer group. This directory holds TLA+ modules of that program, the TLC
configurations that check them, and TLAPS proofs about them. Source references
are to the repository's files.

## 1. Inventory

| component | source | state | operations | who calls it |
|---|---|---|---|---|
| prefix table | `bigtable.c` | `RIB`, `bigtable`, `bigtable_index`, `spinlock_bt` | `lookup_RIB64`, `lookup_RIB`, `lookup_bigtable` | parsers; phase 3 |
| allocator | `alloc.c` | two pools, a cache of free lists per peer | `alloc`, `dalloc` | parsers |
| adj-RIB-in and parser | `bgpparse.c` | `adj_rib_in` of each peer, `use_count` of each route | `parse_update`, `update_adj_rib_in` | peer threads |
| peers | `peer.c`, `phase1.c` | a static table | `phase1` stamps a route | parser |
| path attributes | `bgpupdate.c`, `aspath.c` | the `tiebreak` of a route | `parse_attributes`, `as_path_count` | parser |
| NLRI codec | `nlri2.h`, `getw.h` | none | `nlri_iter`, `build_nlri`, ... | parser; phase 3 |
| loc-RIB | `locrib.c` | `LOCRIB`: head, push flag, lock per address | `locrib`, `read_and_clear` | parsers; phase 3 |
| journal | `locribjournal.c` | `_LRJOURNAL`, `jread`, `jwrite`, `spinlock_lrj` | `locribj_push`, `locribj_pull` | loc-RIB; phase 3 |
| phase 3 | `phase3.c`, `phase3.h` | `phase3_spinlock`, `tx_buffer` | `schedule_phase3` | loc-RIB, at the end of a block; `buf_parse` |
| serializers, peer groups | `*serialize.c`, `bgpserialize.tpl`, `peergroup.c` | a file per group | `serialize_*` | phase 3 |
| input split and driver | `bgpparse.c` | the mapped file, the arguments, the counters | `split_buf`, `buf_parse`, `buf_parse_peer`, `reinit`, `main` | - |
| timespec | `timespec.c` | none | arithmetic | driver (third-party) |

How they interact. A peer thread takes a buffer for a message's route, fills it
in, and calls `update_adj_rib_in` for every prefix, with the prefix's index as
the address. That replaces the peer's route for the address, counts references,
frees the old route with its last reference, and calls `locrib`. `locrib`
decides under the entry's lock; if the winner changed and the push flag was
clear it journals the address *after* unlocking, and at the end of a block
calls `schedule_phase3`. Whoever gets `phase3_spinlock` there drains the
journal: it reads and clears entry after entry, gathers addresses with one
route into a block, and writes an UPDATE per block and peer group. Everyone
else returns at once. When all threads are joined `buf_parse` calls
`schedule_phase3` once more. `build.sh` does not define `MULTITHREAD`; without
it, each peer thread is joined before the next is created.

What is hard about it, and what makes each part correct:

- *journal*: several producers, one consumer, a ring that must not overrun. It
  is a FIFO queue.
- *loc-RIB and phase 3*: the push flag, the journal and the consumer's
  registers change in separate steps of several threads. A flagged address is
  on its way to be read; a clear flag means that what was written, or is about
  to be, is the winner; after the last flush nothing is left.
- *prefix table*: a test outside the lock, two stores under it, readers without
  it. No index stands for two prefixes; an index resolves; a prefix has one.
- *allocator and adj-RIB-in*: manual reference counts and free lists threaded
  through the freed buffers, in two pools whose place is computed in 32 bits. The
  count is the number of references; a buffer is freed once, is in one peer's hands at
  most, shares no octet with another in use, and none is lost.
- *codecs, attributes, serializers*: pure functions over octets with edges at
  lengths 0, 24 and 32, at 8- and 16-bit lengths, and at the limits of a message.
- *input split and driver*: cuts anywhere in the file, a search back from each for
  a marker, threads that share counters, rounds that reuse what the first has left.
  The pieces are a partition of the messages; it is known for which files and
  arguments the program fails; what it reports is what it did.

`PROJECT.json` lists the hazards at their lines, with the properties that watch
each or the reason why none does yet.

## 2. The modules

| module | models | uses |
|---|---|---|
| `JournalQueue` | the abstract FIFO queue with an overrun | |
| `LocribJournal` | `locribjournal.c`, a step per statement on shared memory | refines `JournalQueue` |
| `Locrib` | the entries of `LOCRIB`; the locked parts of `locrib` and `read_and_clear` | |
| `Phase3` | the peer threads, `locrib`, the journal and `schedule_phase3` together | EXTENDS `Locrib`, INSTANCE `JournalQueue` |
| `Bigtable` | `lookup_RIB`, a step per access to shared memory | |
| `Pools` | where the buffers of the two pools lie, as `init_pool` computes it | |
| `BufferPool` | the abstract allocator: a buffer has one holder and its octets to itself, until the pools overlap | EXTENDS `Pools` |
| `Alloc` | pools, caches and free lists | EXTENDS `Pools`, refines `BufferPool` |
| `Fastparse` | `Phase3` with the real parser: messages, buffers, reference counts, what was written | EXTENDS `Phase3`, `Pools`, refines `Alloc` |
| `Prefix` | the codecs of a prefix: `nlri_iter`, `build_nlri`, `encode`, `decode` | |
| `Attributes` | what is read from path attributes, and `get`, `set`, `copy`, `prepend` | |
| `Update` | one message through the loops of `parse_update`, a serializer and the building of a block | EXTENDS `Prefix`, `Attributes` |
| `Timespec` | what is used of `timespec.c` | |
| `Driver` | `main`, `reinit`, `split_buf`, the threads of `buf_parse` and their walk over messages | EXTENDS `Timespec` |
| `LocribJournal_proofs`, `Phase3_proofs`, `HardGuard_proofs`, `Bigtable_proofs`, `Alloc_proofs`, `Fastparse_proofs`, `Update_proofs`, `Driver_proofs` | theorems | |
| `MC*` | symmetry sets and inputs for TLC | |

**Atomicity.** In `LocribJournal` and `Bigtable` every access to shared memory
is a step: there the locks are what is being checked. `Phase3` takes the
journal's operations as single steps, which is what `LocribJournal` shows, and
the locked parts of `locrib` and `read_and_clear` likewise: nothing else touches
an entry. Between those, every thread can be interrupted: between the decision
and the push, the push and the try-lock, a pull and the read of what was
pulled, the last read of a block and its writing.

**State.** `journal` is the queue; `addrref[t]`, `addrreftable[t]`, `route1[t]`,
`route2[t]` are the locals of `schedule_phase3` in thread `t`; `call[p]` holds the
arguments of peer `p`'s `locrib`. A route pointer is a pair of a peer and a
buffer; `tiebreak` is what the buffer holds. `sent[a]` is the route last written
for `a`, in `Fastparse` `told[a]` is what that route held when it was written.
In `Phase3` the parser is left open: a thread builds a route in any of its
buffers, announces it for or withdraws any address, `todo[p]` times. `Fastparse`
replaces that by messages with their parts, `alloc`, `dalloc` and `use_count`.
A buffer is its pool and its index there, and `index` is how many each pool has given
out. `alloc.c:25` multiplies in 32 bits, so that the program's large pool begins at small
buffer number 6,445,568 of 40,000,000: `Pools!buf` is that product modulo `UINT32`. `Alloc`
and `Fastparse` follow the program up to and with the first small buffer that lies over
the large pool (`Runs`); what two holders then write over each other, and what `ISLARGE`
then does to the free lists, is not modelled.
`Update` looks into a message instead, with one thread: `nlri` and `txp` are fields
of octets, with the length octet of a prefix as one number, and `nlrip` is an
offset; an attribute is a type and a value whose items have the sizes that the
code counts with; an ORIGIN may have any number of octets, of which `parse_attribute` and
`set` take the first, and of an empty one the octet that follows it; `p` and `r` go from attribute to attribute, as the code's
pointers do in a list that is well formed. Only such messages are received.
`Driver` has the file octet by octet as far as markers go: a message is a marker of
`MarkerLen` octets, one octet for its length and type, and a body of octets that
are 0xff or not; a body that begins with `Bare` is that of a message with neither prefixes
nor withdrawn routes, from which `parse_update` returns at once (`bgpparse.c:68`). `run` is what one execution is given: the build, the arguments,
the file, the octet behind it, and the clock. `thread[p]`, `ptr[p]` and `msg_count[p]`
are the locals of `buf_parse_peer`, and `_msg_count++` is a load (`counted[p]`) and a
store. It meets `Phase3` and `Fastparse` where they begin: `todo[p]` there is what
lies in the piece of peer `p` here.

**Undefined behaviour.** `locrib` reads `push_flag` uninitialised when nothing
changed. `UninitPushFlag` is the set of values it may find: both in `phase3`,
so that what holds there holds of any build; `{FALSE}`, which is what gcc's
optimised code does here, in the violation runs; `{TRUE}` in
`fastparse`, which is the program with the flag initialised.

**Failed assertions** end the program: after one, no action is enabled but the
stuttering `Stop`.

**Plausible slips.** A definition that says so in its comment is a mistaken
variant of the one it precedes or follows. No specification uses it; it is
there so that each property can be shown to notice it (`PROJECT.json`,
"mutants").

## 3. The runs

Every run passes in under five minutes on two cores.

| run | what it asks | instance |
|---|---|---|
| `journal` | `TypeOK`, `ImplementsQueue` | 3 threads that push and pull freely, ring of 3 slots, 2 addresses |
| `phase3` | `OneConsumer`, `Scheduled`, `InSync`, `Flushed`; under fairness `Termination`, `EventuallyRead` | 2 peers and main, 2 addresses, 2 tiebreaks, up to 3 operations each, any content of `push_flag` |
| `bigtable` | `NoSharedIndex`, `IndexInRange`, `ResolvesAtRest`, `AnIndexPerThread` | 3 threads, 2 prefixes, 2 lookups each, 5 entries |
| `fastparse` | `CountsReferences`, `ListsSound`, `UsesAlloc`, `ImplementsPool`, `NoDuplicates` | 2 peers, 7 messages and prefixes between them, a large buffer and 5 small ones, of which the third lies over the large one, `push_flag` initialised |
| `update` | `PrefixesKept`, `IndexIsPrefix`, `AttributesKept`, `NeverAnothers`, `WellFormed`, `PathLength`, `LengthBound` | every pair of prefixes of addresses of 3 octets of 2 bits; six attributes in every order, with each left out; ORIGINs of none, one and two octets; eleven kinds of AS_PATH, one with empty segments; three serializers |
| `driver` | `Partition`, `StopsOnly`, `CountBounds`, `Elapsed` | 3 peers; files of up to 4 messages, bare and empty ones among them, with each octet behind them, or none; `repeat`, `msg_max` and `spare` from -1 to 2, both builds; all pairs of readings of a clock |
| `phase3_dup`, `phase3_withdraw`, `alloc_overlap`, `bigtable_zero`, `fastparse_stale`, `update_localpref` | one property each, violated | section 4 |

What they show:

- The journal is a FIFO queue up to the push that overruns it. Three slots are
  enough for both cursors to wrap and for the ring to be empty, full and
  overrun at every offset; two producers and a consumer, or more of either,
  meet at every statement.
- The pipeline loses nothing. `Scheduled` is the comment of `read_and_clear`, "if
  the route changes whilst we are working then a new action will be scheduled";
  `InSync` relates the flag, the loc-RIB, the consumer's two routes and the
  output; `Flushed` is why the last call of `schedule_phase3` suffices although
  the try-lock loses wake-ups. Two peers and the main thread are every role
  (producer, consumer, one turned away, a joiner), and a table of two and a
  journal of three slots reach both assertions.
- The prefix table never confuses two prefixes. The race on an empty slot costs
  a prefix at most one index per thread (`AnIndexPerThread`), so one only where
  lookups do not overlap, as in the default build.
- `use_count` is the number of adj-RIB-in entries that refer to the route at the
  end of every prefix, the parsers use the allocator as it means to be used, and
  it keeps its promise to them: each buffer is freed once, by its holder, none is
  lost, none is in two hands, and no octet of one is in another, up to the first small
  buffer that lies over the large pool. The run is long enough for one peer to free a
  buffer, build another route in it and free that, for the large pool to run out, and for
  the small one to reach the overlap, where the run stops. Two conditions are named by constants because the code does not check
  them: no message lists a prefix twice (`REPEATS`), and none has only prefixes
  longer than /24 (`ORPHANS`). A prefix listed twice frees a route in use, and the
  buffer of a message with only such prefixes is never freed.
- The codecs undo each other: what comes out of a message are its prefixes, over-long
  ones left out and bits past the length cleared (`PrefixesKept`), and two prefixes
  have one index just when they are the same (`IndexIsPrefix`, which `Bigtable` takes
  for granted). For length 0 the shift by 32 in `decode` is undefined; either outcome
  is harmless since no octet of the address is written. The serializers keep the
  mandatory attributes of a message that has them in order (`AttributesKept`), if its ORIGIN
  has one octet, which nothing asserts and `set` writes whatever was received. If
  one is missing, `get` takes the next one for the end of its search and that is
  lost too; but nothing is ever passed on in another's place (`NeverAnothers`), as the
  comments in the serializers fear.
- No serializer looks at the space in `tx_buffer`, and the assertion on the length of
  an UPDATE is commented out (`phase3.c:104`). `LengthBound` says why a block of one
  message's prefixes does not run away: apart from a LOCAL_PREF that was not there, and
  the AS that `prepend` adds with the longer head this may need, and the octet that `set`
  writes for an empty ORIGIN, nothing is written that was not received. So such a block can exceed 4096 octets by a few, but not `tx_buffer`'s
  8192. A block that lists a prefix twice (`phase3_dup`) or joins two messages whose routes
  were in one buffer (`fastparse_stale`) has no such bound.
- `split_buf` and the threads go over every message of the file once, in order, but
  never over the last one (`Partition`): the search for the end of the last piece
  begins at the octet *behind* the file and ends at the marker of the last message.
  Only if that octet, and the last of the file, look like a marker is the last
  message gone over. If the file ends with a page, that octet is a fault.
  `StopsOnly` lists all the ways to fail: a cut in the first message, in the marker of
  the second, or in a marker that the end of the message before seems to lengthen;
  one message only; a `repeat` above 1, which `locrib_init`'s assertion ends in its
  second round; and 0, by which `main` divides; a file that is not there ends the program
  before that. A negative `msg_max`, in a `uint64_t`, is no limit, and a negative `spare`,
  compared as unsigned, spares every message. The counters (`CountBounds`) are exact in the
  default build and lose increments with `MULTITHREAD`; `_msg_count` leaves out the messages
  that carry neither prefixes nor withdrawn routes (BGP-MP), while what is reported as the
  number of messages is all those of the last peer to be joined.
- With `push_flag` initialised the push flags keep the journal free of duplicates, as the
  comments say (`NoDuplicates`). They do not keep it from overrunning: `locrib.c:29` calls
  them "a hard guard over the amount of queued work and corresponding storage", but the
  tables and the journal both have `BIG` entries, and a ring of `BIG` slots holds one less.
  With every address of a full table queued the assertion of `locribj_push` fails. No run
  says so; `Phase3` and `LocribJournal` have the assertion, and every property holds up to it.

**Bounds.** In `update`, `OctetBits`, `Octets`, `Longest` and `UINT8` are the widths 8, 4,
24 and 256 made small, with lengths from 0 to the whole address, over-long ones in
both places, and paths just below and at the 8-bit count and around the length that
needs two octets; `Messages` bounds what is received. In `driver`, `MarkerLen` and `NSEC`
are 16 and 1000000000 made small, and `Runs` is the set of executions; three peers are
one more than the program has, so that there are a first, an inner and a last piece.
The length of a message is one octet and neither it nor the type looks like a marker's:
a search that stops one octet off meets an assertion of the type or of the length in
any case, in the program one octet later. `StreamLen` (messages and prefixes per peer), `InputLen` (those of all
peers together) and `Calls` (lookups per thread) bound the input. `BIG`, `TableSize`, `SMALL_MAX` and the like are sizes of the
program, made small so that their limits are met; `UINT32` is small so that they wrap. No run goes on
behind the first overlap. The number of peers, addresses
and tiebreak values is two, the least that lets a route differ from another by
content or by peer and a block have one or two addresses; the proofs of section
5 have no such bounds.

**Fairness.** `Phase3!Fairness` is weak fairness of every thread. Threads are
preemptive POSIX threads; no step of `Phase3` waits for another thread except the
join of all peers: the locks of the entries and of the journal are held for a
few instructions and are inside single steps, and `phase3_spinlock` is only tried.
So a thread that can run does, if the scheduler runs every thread.

## 4. Where the code and its comments disagree

Each is a run that is expected to be violated.

- `phase3_dup`: the uninitialised `push_flag` (`locrib.c:66`) lets an announcement
  that changes nothing be journalled again. So duplicates are in the journal
  (`locribjournal.c:12` says they cannot be), and its length is not bounded by
  the number of addresses (`locrib.c:27-29`).
- `alloc_overlap`: the size of the small pool, 40,000,000 * 256, is taken modulo 2^32
  (`alloc.c:25`), so that the large pool lies inside it, and a small and a large buffer in
  use may share octets. Two peers with tables of 1,000,000 entries use fewer small
  buffers than that, unless buffers are lost (`ORPHANS`); more peers do not.
- `phase3_withdraw`: a withdrawal compares the winner with NULL (`bgpparse.c:50`,
  `locrib.c:89`) and never removes it. As a consequence no head is ever NULL again
  and the withdraw branch of `schedule_phase3` is never taken.
- `bigtable_zero`: index 0 is given to the first prefix and also means "none".
- `fastparse_stale`: a winner's buffer is freed and reused; its content changes
  under the loc-RIB and nobody is told.
- `update_localpref`: a LOCAL_PREF from a message is kept as it lies in memory, the
  peer's own as a number, and both are written with their octets swapped
  (`bgpupdate.c:32`, `phase1.c:7`, `bgpserialize.tpl:35`).

`prepend` copies the old path from four octets too far (`bgpserialize.tpl:62`): the first AS
is lost and four octets that follow the attribute are written. `Attributes!prepend` does the
same; no default peer group uses `serialize_ebgp`, and no comment says otherwise.

A race that is no contradiction with a comment, only with its intent: two threads
that find a slot of `RIB` empty both insert the prefix, since the test is outside the
lock. `AnIndexPerThread` is what it can cost. A thread can also be handed an index
before `bigtable` holds its prefix, since the store to `RIB` comes first
(`ResolvesAtRest` is what remains). Both need `MULTITHREAD`.

## 5. What is proved

The proofs need only the named assumptions on the constants
(`LocribAssumption`, `Phase3Assumption`, `JournalAssumption`, `BigtableAssumption`,
`FastparseAssumption`, `PrefixAssumption`, `AttributesAssumption`, `UpdateAssumption`,
`PoolsAssumption` with `FastparseAssumption`, `DriverAssumption`, `TimespecAssumption`): any number of
peers, any set of addresses, pools (overlapping or not) and tiebreaks, any journal and table
size, any length of input, either build, any value of the uninitialised flag, any width
of an octet, an address, a length and a marker. `UpdateAssumption` is what a message must
be for the program to read it by its own lengths: one attribute and one prefix at least,
without which the loops do nothing; whole prefixes no longer than an address; and in an ORIGIN octets, as many as it likes; in an
AS_PATH whole segments of known kinds, which `as_path_count` asserts, the first of them not
empty, which `prepend` takes for granted. `UINT8` is above 4, so that a word has a
length of one octet. `DriverAssumption` says that a file is made of messages whose
bodies hold no marker and whose lengths do not look like part of one.

Many of the results are about sums, walks, lists or codecs, which are recursive functions. The
library's induction theorems are out of the provers' reach (they take a predicate
for a parameter); `Least`, that every non-empty set of numbers has a least, is in
the place of induction: the set is that of the counterexamples, and a smaller one is
found. `Recursion` builds the function that a recursive definition names.

- `LocribJournal_proofs`: `TypeCorrect`, and `Implements`, that the ring is the queue of
  `JournalQueue`. `JInv` adds to the types that one thread is between lock and unlock
  (`Exclusive`), that a cursor is past the end only before its wrap (`Cursors`), and that
  the slots between the mapped cursors hold references (`Filled`). A push maps to
  `JQ!Push` at its assertion, a pull to `JQ!Pull` at its read, and every other step moves
  no mapped cursor and writes no pending slot (`Frame`).
- `Phase3_proofs`: `TypeCorrect`, `MutualExclusion`, `NeverForgotten`,
  `NothingLost`, `AllFlushed`. The inductive invariant `IInv` is the conjunction of
  `TypeOK`, `OneConsumer`, `Scheduled`, `InSync` and two parts they do not say:
  `Locals`, what the locals of `schedule_phase3` hold where they are used (in
  "collect" `route2` equals `route1`, in "emit" the route read ahead is a route
  unless the journal was empty), without which a block could be announced for
  the wrong address; and `MainLast`, that the main thread runs phase 3 only after
  all peers are done, and finds the journal empty when it leaves, from which
  `Flushed` follows. `InSync` is the one with the long proof: for each step, who
  holds an address before and after. `InSyncFrame` deals with all the steps that
  touch none of what it mentions.
- `HardGuard_proofs`: `HardGuard`, that the journal has no address twice, and no more
  entries than there are addresses, as long as no call of `locrib` that changes nothing
  goes on to push. That is said of the steps (`Sober`), not of the build: it is the whole of
  what the uninitialised flag can spoil, and nothing is asked of the journal's size. It says
  nothing of the overrun, for which as many addresses as slots are enough. `OneToken` is its invariant: an
  address is in the journal, in one producer's hands or in the consumer's, once, and only
  while its flag is set. The bound on the length is a pigeonhole argument (`InjectiveLen`).
- `Bigtable_proofs`: `TypeCorrect`, `Unshared`, `InRange`, `Settled`, `FewIndices`. A pair of a
  prefix and an index is `Given` when `RIB`, a thread that has taken the index, or
  the past has it; given indices are below the count and belong to one prefix
  (`Distinct`), and resolve once the thread that took them has stored the prefix
  (`Settling`). `FewIndices` counts: the indices a prefix has been given and the threads
  that have found none and are on their way to take one are never more than there are
  threads (`Shares`), because a thread joins the race only while the slot is 0, when the
  one index that may have been taken is in the hands of a thread about to store it
  (`Unstored`). It needs finitely many threads.
- `Fastparse_proofs`: `Implements`, every step of the full pipeline is a step of
  `Phase3` or a stutter, and with it `PipelineSafe` and `PipelineGuarded`: the invariants of
  `Phase3`, and the guard of `HardGuard_proofs`, hold of the full pipeline.
  `CountsRight`, `Uses`, `PoolKept`: the reference counts of
  `update_adj_rib_in` are right, so the parsers free a buffer just when they have lost
  the last reference to it, so the allocator keeps its promise to them (until the pools
  overlap). The condition is
  `Disciplined`: no message lists a prefix twice, or only prefixes longer than /24.
  That a count cannot pass 65535 is proved from `MessageLen`, the prefixes a message can
  list: `parse_update` asserts that a message is shorter than 4097 octets, and each prefix
  takes an octet at least.
  `BInv` needs `Messages`, that during a message with a route the addresses listed so far
  are just those the adj-RIB-in has for the message's buffer: it makes the old route of
  the next prefix another one than the new; and `Countable`, that a buffer has no more
  references than its message listed prefixes. It needs the invariant of `Alloc_proofs`
  too: a buffer fresh from `alloc` is in nobody's hands, so clearing its count forgets
  no reference.
  `FreeLists` (`ListsSound`) is `NoneLost` seen from the parsers, and `FullTypeCorrect` puts the
  types of `Phase3`, of the allocator and of the counts together.
- `Alloc_proofs`: `Implements`, the caches and their free lists keep the promise of
  `BufferPool` until the pools overlap; `TypeCorrect`; and `NoneLost`, that every free list
  ends where its count says, holds freed buffers of its size only, and every freed buffer is
  on one. Nothing is assumed of where the pools lie: `PlaceIs` and `Disjoint` say what
  `init_pool` makes of them as long as the small buffers given out end before the large
  pool begins. (`Apart` is `PoolsAssumption`, and that NULL and `Data` are no buffers.) `WouldFit` is the other half: if the product did fit, no two buffers in use
  would ever overlap. `Implements`
  needs a look one link ahead only: what a head or the first word of a
  freed buffer leads to has been freed, is of the same size, and nothing else leads to it
  (`Heads`, `Links`). `NoneLost` needs whole lists: `IsList` names the list as a function
  from positions to buffers, so that `alloc` and `dalloc` shift it by one (`Chains`,
  `Covered`) and no walk has to be followed; the walk that the property is stated with
  ends, because there are finitely many buffers, and is that list.
- `Driver_proofs`: `ElapsedTime`, that a duration is the difference of the two readings
  and is normalised, whatever the clock says (`NormaliseSound`, `SubSound`). `Partitioned`,
  `StopsRightly`, `CountsBounded`, `TypeCorrect`, for every file, number of peers and
  set of arguments. First, where in a file markers can be found (`Layout`, `Text`, `Trail`):
  where a message begins, or in the 0xff octets before it, and at the very end only as the
  octet behind the file has it (`MarkerFound`, `EndMarkerFound`). Then, which cuts are
  right: the pieces end at markers, in order (`Bounds`), at beginnings of messages unless
  a cut is bad (`WrongBound`), and the last one at or near the last message (`LastMark`).
  Then `DInv`: the file does not change (`Mapped`), what main and the threads may do
  together (`Registers`, `Stages`), why the program has stopped (`Stopping`), that a thread
  has gone over the messages of its piece from the first, one by one (`Walks`), and that
  the counter is no higher than what has been counted, not 0 once something was, and
  exact where one thread runs at a time (`Counters`). What is to be counted is a message
  with prefixes or withdrawn routes and not to be spared.
- `Update_proofs`: a theorem for each invariant of the run `update`. About the attributes,
  `PassedOn`, `OwnPlace`, `Readable` and `Counted8` follow from `SInv`: what has
  been parsed was asserted and is in the tiebreak (`Parsed`), the cursors are where the
  serializer's calls have brought them (`Serialized`), and what is written is in
  ascending order and each attribute is either one of the message or one the serializer
  makes (`Sorted`); `PassedOn` adds for a message in order, with an ORIGIN of one octet, that the cursor has passed no
  attribute wanted that is not written (`Abreast`). `Counted8` rests on `PathCounted`, that
  the recursion of `as_path_count` from segment to segment counts the elements it
  passes. About the prefixes, `IndexStandsForPrefix` and `CameThrough` rest on the arithmetic
  of the codecs: `build_nlri` undoes `nlri_iter` (`RoundTrip`), what is built from a decoded
  index is the prefix with its spare bits cleared (`Built`), and an index is the
  leading 1 and the first bits of the address (`IndexIs`). `NInv` then follows the
  prefixes: the walk is at the offset of a prefix (`Walked`), the table holds the indices
  of what it passed (`Block`), each of those is in the table still or has been written,
  and nothing else is written (`Carried`), and the octets written and those that the table
  will need are no more than were passed (`Lengths`). `NoLonger` adds `Budget`: what is
  written of the attributes is no longer than those the cursor has passed, but for what the
  serializer has added and for the octet of an empty ORIGIN (`Spill`); a LOCAL_PREF that was received makes room for the one written
  because `parse_attribute` asserts its length.

Only model-checked: liveness (`Termination`, `EventuallyRead`), which needs
fairness and ENABLED, and the six runs that find a property violated. Every invariant, and
every other action or temporal property, of a passing run is a theorem.

## 6. What is not modelled, and the plan

Not modelled for good: the rest of `timespec.c` (third-party, not called), the wording
of what is printed, the files of the peer groups and `mmap`, `bgpserialize.c`,
`phase3.c.old`, `hex.h` and `z.c` (not part of the program), the `NEWWINS` variant,
`nlri_get` and `nlri_list` (they begin with `assert(0)`), `nlri_count` (not called).
`reinit_pools`, `reinit_cache`, `reinit_peers` and `reinit_bigtable` are called once,
on tables nobody has used: the round that would call them again ends in
`locrib_init` (`Driver!reinit`).

Not modelled yet:

1. A route that is built in steps, so that a reader of a stale winner can see it
   half-built.
2. MP_REACH and unknown attributes; the three lengths of a message that disagree.
3. What the holders of overlapping buffers write over each other.
4. Withdrawn prefixes on the wire: the branch of `schedule_phase3` that writes them is
   never taken, since no winner is ever withdrawn (`phase3_withdraw`).
