# TLA+ models of uclib

uclib is a C library of containers, a memory allocator, locks for a
shared-memory multiprocessor, an event log, and a small network layer (buffered
sockets, an epoll poller, websockets). This directory holds TLA+ models of them,
TLC configurations that check the models on small instances, and TLAPS proofs
for every size. The parts left out are those that only transform data
(section 7).

Everything is translated from `src/uclib`; names follow the C code. Run the
tools in this directory:

    tlasany SmpLock.tla
    tlc -config smp_spin.cfg MCSmpLock.tla
    tlapm SmpLockProofs.tla

`PROJECT.json` lists the components, the runs and their properties, which lines
of the source each definition stands for, one wrong variant of the code for
each property, the findings and the hazards.

## 1. The system

| Part | Source | State | Operations | What is hard | What makes it correct |
|---|---|---|---|---|---|
| smp lock | smp.h, smp.c | one header word, a ring of wait slots | lock, unlock (spin, reader, writer) | every interleaving of lock-free code; slots reused while still being read | exclusion, first come first served, no lost wake-up, no failing assertion |
| fifo | fifo.h, fifo.c | vector, head and tail index | add 1/n, remove, tail back, resize, validate, reset | wrapping, full against empty, growing a wrapped ring | it is a queue |
| socket | socket.h, socket.c | current tx buffer, fifo of tx buffers with offsets, rx buffer | tx add, tx, rx, init, accept, close, free | short writes, EWOULDBLOCK, errors, data added between writes | the byte stream is sent and received once and in order, and all of it |
| mheap | mheap.h, mheap.c | boundary tags, free lists by size bin, small object cache, statistics, smp lock | get aligned, put, extend, validate, foreach | merging on both sides, the cache's replacement, the lock around it all | blocks in use never overlap, tags agree, free lists hold exactly the free blocks |
| file poller | unix_file_poller.h/.c | registered files, epoll set, ring of errors | add, delete, set writable, poll | a batch of events handled while handlers add and delete files | events reach the connection they were reported for |
| websocket | websocket.h/.c | pool of connections over socket and poller | listen, connect, accept, read, write, frames, close, reap | handshake against data and time-outs, slots and descriptors reused | registrations match connections, bytes in order, closed once, handshakes end |
| heap | heap.h, heap.c | chain of blocks, free list per bin | alloc, dealloc, validate, free, (un)serialize | splitting in place, search through several bins | chain, free lists and objects agree |
| bitmap | bitmap.h | words without trailing zeros | set, get, fields, regions, set operations, searches | fields over the edge of a word | it is a set of numbers |
| pool | pool.h | free bitmap and vector of free indices | get, put, iteration, free, (un)serialize | two representations of one set | they agree; an element in use is handed out once |
| fibonacci heap | fheap.h, fheap.c | forest of circular sibling lists | add, delete, decrease key, delete minimum | pointer surgery in four lists | it is a priority queue |
| hash, mhash | hash.h/.c, mhash.h/.c | buckets with one inline pair or an array of pairs; key memory | set, get, unset, grow, shrink, iterate | bucket conversions, writes while iterating, slots of key memory | it is a map |
| event log | elog.h, elog.c | ring of events, atomic counter, types, tracks, limit | log, register, enable, trigger, read, merge | several cpus log while one enables or reads | the newest events, each once, in order |
| serialize | serialize.h/.c | stream with current and overflow buffer | open, get, read/write data, strings, vectors, diffs, close | bytes that straddle the buffers and reads of the file | what is read is what was written |
| sparse vector, zvec | sparse_vec.h, zvec.* | members with counts; a bitmap of codes | validate, lookup; encode, decode, choose a code | moving elements, codes over word edges | every index finds its own; round trips |
| vector, random numbers, format, http/url, time, errors, crypto, base64, elf, os glue | the rest | | | data transformation, text, start-up | not modelled (section 7) |

How they meet: the lock protects the allocator (`mheap_maybe_lock`), the
registration of event types (`elog_lock`) and whatever a program shares; the
socket queues its buffers in a fifo; the websocket layer owns a pool of
connections, each with a socket, and registers their descriptors with the
poller, which calls back `read`, `write` and `error` handlers; the event log and
the containers allocate from the heap of the calling cpu.

## 2. Modules

| Module | What it is |
|---|---|
| `SmpLock` | The four lock routines: `clib_smp_lock_inline`, `clib_smp_lock_slow_path`, `clib_smp_unlock_inline`, `clib_smp_unlock_slow_path`, and the spin lock's inductive invariant |
| `FifoLock` | What the spin lock promises: one holder, waiters in order, handover |
| `MCSmpLock` | Instances of both, and the refinement |
| `MCSmpRW` | The reader/writer lock up to the step that makes it unsound |
| `SmpLockProofs` | The lock: types in every use; the spin lock's exclusion, wake-ups, slots and assertions, and that it implements `FifoLock` |
| `Fifo` | The ring buffer |
| `Queue` | What the ring buffer promises |
| `Socket` | The buffered stream socket |
| `SocketProofs` | Both streams of the socket, for every size of buffers, writes and reads |
| `Mheap` | The memory allocator: tags, free lists, cache, pages |
| `Allocator` | What the memory allocator promises |
| `MCMheap` | Instances |
| `MheapProofs` | Tags, free lists, blocks, requests and pages of the allocator, and that it implements `Allocator` |
| `Poller` | Registrations of descriptors and one wait's batch of events |
| `Websocket` | Listener, accepted and client connections; composes with `Poller` and the kernel's side of a descriptor |
| `MCWebsocket` | Instances |
| `WebsocketProofs` | Registrations, events, closing and the received stream, for any number of connections |
| `Heap` | The heap of vector elements |
| `HeapProofs` | The chain, the free lists and the objects of the heap agree, for any sizes, alignments and bins |
| `Bitmap` | Bitmaps as vectors of words: the operators |
| `BitmapOps` | One bitmap under every operation, beside the set it should be |
| `Pool` | The pool, on `Bitmap` |
| `FHeap` | The Fibonacci heap |
| `Hash` | The hash table and its iterators |
| `Mhash` | The hash table that keeps its keys, on `Hash` |
| `Logarithms` | `max_log2` and the powers of 2, for the bins of both heaps and the capacity of a hash table |
| `ContainerProofs` | The ring buffer implements the queue; the hash tables are the maps written to them, and `hash_next` visits them; what is read of the event log, and what a trigger keeps, for any number of threads |
| `Elog` | The event log under several threads |
| `Numbers` | Lemmas about numbers: division, powers of 2, least and greatest, induction, functions defined step by step |
| `ElogMerge` | Merging logs |
| `Serialize` | Streams, their two buffers, and what is written to them |
| `SparseVec` | Sparse vectors, on `Bitmap` |
| `Zvec` | Compressed integers, on `Bitmap` |
| `BitmapProofs` | The bitmap, the pool and the sparse vector are the sets they should be, for every width of a word |
| `MCContainers` | Each container by itself on a small instance; `which` says which |
| `MCStreams` | The socket, the event log, merged logs and streams, each by itself, in the same way |

A module names its history variables (marked `history` where they are declared):
they record what was asked for or what happened, so that a property can compare,
and no action of the code reads them. Where the code errs, a history flag notes
that the step was taken and the property speaks of the behaviours before it; the
flags are listed in section 4. A definition under the heading "Wrong versions"
is a plausible bug, used by no specification: `PROJECT.json` names, for each
property, one that the property catches.

### SmpLock

Each thread has a program counter. One action is one access to shared memory
(the header word or one slot's `wait_type`) followed by the thread's private
code up to its next access, so every interleaving the hardware can show is a
behaviour; x86's locked compare-and-swap orders everything the algorithm relies
on, and the remaining accesses are `volatile`, so memory is sequentially
consistent. The correspondence:

| pc | the thread is about to |
|---|---|
| `idle` | call `clib_smp_lock_inline` (`LockRead` is its first read, smp.h:162) |
| `lock_cas` | compare-and-swap in the fast path, smp.h:182 |
| `slow_cas` | append itself to the waiting fifo, smp.c:132 |
| `slow_take` | take a lock freed meanwhile (spin locks only), smp.c:148 |
| `wait_slot`, `set_wait`, `wait_done`, `clear` | wait for its slot, say how it waits, wait for the grant, give the slot back, smp.c:167-178 |
| `held` | leave its critical section: the first read of `clib_smp_unlock_inline` |
| `unl_read`, `unl_cas` | the unlock loop, smp.h:207-235 |
| `uslow_read`, `uslow_cas` | read the head's `wait_type`, move the fifo, smp.c:216-250 |
| `wake`, `check_more` | write DONE, look for another reader, smp.c:266-276 |

`h0`, `tail`, `hwt` are the routines' local variables and are reset when they
are dead, which keeps the state space small. `ASSERT_AND_PANIC` is an action
`Panic` that stops every thread; it exists in debug builds (`CLIB_DEBUG > 0`).
`slotCpu` and `granted` are history variables: who queued at a slot, and which
threads were given the lock and have not given it back. They influence nothing.
`GrantsGoToHolders` compares them with the header: it counts as many readers as
there are in `granted`, and its writer's bit says whether a writer is.

`MCSmpRW` watches the reader/writer lock for the step in which a thread that woke
a reader goes round the loop of the slow unlock again (`HandsOnAgain`,
smp.c:272), with the header it read before its compare-and-swap (section 4).
`SoundUntilHandedOnAgain` is what holds before.

### Fifo

The C vector and its header are one record `[head, tail, len, vec]`; a null
pointer and the result of `clib_fifo_reset` both have `len = 0`. Every macro or
function that changes the fifo is an action, including the reallocation that
`_clib_fifo_advance_tail` performs. The lengths that `max_pow2` can return are
the constant `PowersOfTwo`, with the one fact the code needs of them as an
assumption: between x and 2x there is one.

### Socket

A byte is its position in the stream, so order, loss and duplication are
visible. `TxWritten(n)` is a whole call of `clib_socket_tx`: the current buffer
joins the fifo, `writev` takes `n` bytes (the only nondeterminism), and the loop
reclaims them in unsigned arithmetic (`Plus`, `Minus`). The fifo of buffers is a
sequence: that `Fifo` implements a queue is proved separately, which is what
makes the abstraction right. `RxRead`, `RxNothingRead`, `RxEndOfFile` and
`RxFailed` are the four outcomes of `read` in `clib_socket_rx`; the buffer is
lengthened first (`Lengthened`) and corrected afterwards (`Shortened`).
`resumed` and `readFailed` remember that one of the two defects below was met.

### Mheap

Offsets and sizes are in words of `user_data`. The heap's memory is a record:
`tag` holds the two words before every element (own size and state, the
predecessor's size and state), `link` the two words in which a free element
keeps its list pointers, `first` the heads of the free lists, `mapped` the pages
that are mapped, `len` the vector's length. Each static function of mheap.c is an
operator from heap to heap, applied in the order of the code, so that a copy that
one of them forgets to update stays stale. `Tidy` ends each call: words that are
no longer a tag or a link are a caller's data and the code never reads them as
anything else, so they are cleared. `GetFromCache`, `GetFromFreeList` and
`GetByExtending` are the three ways through `mheap_get_aligned`, chosen as the
code chooses; `Put` is `mheap_put`, through the small object cache, the special
case of the last element, or the merge with both neighbours. The search of a
bin's list, `while` loops over alignment included, is `Place`, `Fits` and
`FreeEltFor`. The heap is one with virtual memory and with the cache, as
`mheap_alloc` makes it without memory of the caller's; the lock around each call
makes a call one step. `non_empty_free_elt_heads` says which heads are not ~0
and is left out.

### Poller and Websocket

`Poller` has `interest`, what `epoll_ctl` was told of each descriptor, and
`batch`, the events of one `epoll_wait` not yet handled, each with the handlers
still to be called for it in the order of `unix_file_poller.c`.

`Websocket` adds the pool of connections (`conn`), and the kernel's side of each
descriptor (`file`): what can be read, whether there is room to write, errors
pending, end of file. The program is one thread. `PollForInput` fetches a batch;
`ReadReady`, `ServerWriteReady`, `ClientWriteReady`, `ErrorReady` and `Accept`
are the whole handlers, with the callback of the program in them, which may send
or close; `AddListener`, `AddConnection`, `TxFrame`, `WebsocketClose` and `Reap`
are the interface the program calls between them. `PeerSend`, `PeerClose`,
`PeerReset`, `PeerConnect`, `Connected`, `Drained` and the passing of the
handshake's time (`Expire`) happen at any time. What a peer sends comes in units
(handshake, refusal, data frame, closing frame) of two pieces each, and a read
delivers any number of pieces, so that every way a handshake or a frame can be
cut occurs. Data to be sent is counted in pieces, of which the kernel takes any
number. `StaleIndex` is the handler called for a slot that was given back while
the batch was handled: the assertion in `websocket_at_index` fails.

### Containers

Each container is a value and one action per function of its interface; `Change`,
`Validated` and the like follow the functions they call.

* `Heap`: handles, offsets and sizes; the chain of blocks in the order of their
  offsets, the free lists by bin with each block's place in its list (`fi`),
  the search from bin to bin, splitting in place and merging with both
  neighbours. `HeapUnserialized` is a heap that went through a stream.
* `Bitmap`: a bitmap is a sequence of words, a word the set of its bits, `W` the
  width of a word; fields and regions are cut and shifted word by word as in the
  code. `BitmapOps` also knows whether the vector was ever allocated, since a null
  vector has no length that could be written (`BinaryOfNull`). `Pool`, `SparseVec` and `Zvec` use the same operators.
* `Pool`: the bitmap of free elements and the vector of free indices are two
  fields, changed in the order of `pool_put`; `Unserialized` is a pool that went
  through a stream.
* `FHeap`: nodes with parent, first child, siblings, rank and mark. Linking trees
  of equal rank when the minimum is deleted, cutting, and circular lists are
  operators from nodes to nodes.
* `Hash`: a bucket holds a pair or points to an array of pairs with some room;
  `hashNext` is an iteration that goes on while the table is changed. The loop of
  `hash_resize_internal`, in which the new table may have to grow again, is a
  function of the number of steps taken (`Refill`, `Refilled`): a step sets one
  pair, or begins anew with a larger table. `RefillSteps` is more than it ever
  takes (section 5).
  `Mhash` adds the slots of the memory that keeps the keys and their free list.
* `Elog`: a thread is in one of the functions of the log at one of its accesses to
  it. Logging: the test whether the log is enabled, the registration of the type
  under the lock, the atomic increment, the writing of the event's header and of
  its data. Enabling, disabling and the trigger take two: the counter is
  read or cleared (`Switch`, `DisableAfter`), and the limit is written
  (`SetLimit`), with no lock, while others log. A reader reads the counter once
  (`Peek`) and copies the ring event by event, the header and then the data
  (`CopyHalf`), while others go on. `reader.sure` is history and says whether the
  half just copied is still the one that the reader came for: its place was not
  given to a newer event since, nobody is writing there, and nobody wrote there
  late. `MaxCalls` bounds the calls that switch, limit or read.
* `ElogMerge`: logs with a beginning each, the ring and its size, the cached vector
  of events, the maps of types and tracks that a merge builds. A merge allocates a
  ring of as many places as the next power of 2 needs, so that the next event
  logged may overwrite the oldest (`Added`). Here one thread writes each log.
* `Serialize`: the current buffer, the overflow buffer and the file behind them;
  a program writes items, closes, reads them again. A read of the file brings
  any number of bytes. Integers of variable length have their real codes, with a
  byte of `ByteValues` values.
* `SparseVec`: members and counts by word, elements that move with every
  insertion; `sparse_vec_free` is left out (section 4). `Zvec`: a code of variable length is written to any place of a
  bitmap and read back, and the code of fewest bits is sought.

## 3. Runs

| Run | Question | Bounds | Result |
|---|---|---|---|
| smp_spin | exclusion, does the header count whoever has the lock, no panic, no lost wake-up, no overwritten slot, the inductive invariant, in every interleaving; does the lock implement `FifoLock`, fairness included; is every queued thread served | 3 cpus, 2 slots | holds, 49,368 states |
| smp_rw_one_writer | reader/writer lock: up to the step of smp_rw_exclusion, does the header count whoever has the lock, and is a writer alone | 3 cpus: one writes, two read | holds, 330,847 states, of which 97,603 are before that step |
| smp_rw_lost_wakeup | reader/writer lock: is a waiter always behind a holder | 2 cpus | violated (finding) |
| smp_rw_exclusion | reader/writer lock: exclusion | 3 cpus, one writer | violated (finding) |
| streams | are the socket's streams kept; what is read of the event log and what does a trigger keep; what has a merged log; is what is written to a stream read back | see below | holds, 486,610 states |
| socket_partial_write | is the sent stream complete | 4 bytes out, 2 in, 2 at a time | violated (finding) |
| mheap | are tags, lists, cache and pages consistent; is it an allocator | 24 words, pages of 8, 4 small bins, 1 cache entry, 5 kinds of request | holds, 21,100 states |
| websocket | is what the peer sent received once and in order; does a handshake end; is the request of a client sent | a listener and 1 connection, 2 units from the peer, 2 pieces to send, 1 bad url | holds, 259,960 states |
| websocket_two | do registrations, events and connections belong together; is each connection closed once | a listener and 2 connections, no data, 1 bad url | holds, 752,350 states |
| websocket_stall | is all that is queued for sending sent | a listener and 1 connection, 1 unit | violated (finding) |
| containers | is each container what it should be; does the ring buffer implement `Queue` | see below | holds, 125,783 states |
| serialize_lost_write | is what was written in the file or a buffer | 8-valued bytes, 3 items | violated (finding) |

Why the bounds are enough. Three cpus are the fewest with a holder, a waiter and
a third thread that overtakes, and two slots the fewest where the ring wraps
while a slot is still being read; the proofs cover every number. Four bytes in
buffers of one and two make up to four buffers, each of which can be sent
wholly, partly, or in two parts. `WordSize` stands for 2^64 and only has to be
larger than any sum of lengths. `IovMax` is 3, so that four buffers are more than
one `writev` takes. The bitfield of readers keeps its 15 bits. The 24 words of the heap hold up to five
elements (four words is the smallest), so that a block has neighbours on both
sides in every combination of free and in use, several elements in one bin, and
free elements larger than a page; requests are of the smallest size, of a size
with its own bin, of one of the large bins, aligned at an offset, and larger than
the heap. One cache entry makes every second small put a replacement; the
invariants speak of any number. The heap's size, bins and pages are scaled
together, keeping the code's relations between them.

Two units of two pieces from a peer put a handshake and a frame, or a refusal, or
two frames, into one read or into up to four. Two connections beside a listener
are the fewest of which one is closed while events of the other wait, and three
descriptors and three slots make every close followed by an open reuse both.
`MaxBadUrls` is 1: the code closes descriptor 0 when an url is of no use (section
4), which a second time would be a connection's. The counters `MaxOpen`,
`MaxUnits` and `MaxTx` bound what would go on for ever.

In `containers` and in `streams`, `which` chooses one part for a whole behaviour, and each
property is evaluated for its own container (`FHeapIsPriorityQueueAlone` is
`FHeapIsPriorityQueue` while `which` is the Fibonacci heap; those with a theorem, of
the ring buffer, the heap, the socket, the event log, the bitmap, the pool, the sparse vector
and the hash tables, are evaluated always, as their modules state them). Words of `W = 3` bits put fields of bits over an edge,
a field of a whole word, and regions into two words; bits reach into the third
word. Twelve elements of the heap and four objects leave free blocks between
objects, in small and large bins. A program of the Fibonacci heap begins with
nine keys, four or none, and takes out the least of them; three more operations
then consolidate, cut marked nodes and empty lists. Four keys, three of them in
one bucket of any table, and five changes: a bucket goes through one pair, arrays
of two and three pairs, and back, while the table grows. A table can be created or
resized for 9 pairs, which makes 16 buckets, and an unset that leaves two pairs in
it shrinks it (hash.c:616). Two threads
log five events in a ring of four, which wraps, of a type and a track that both
threads may register, with one call that switches, limits or reads: limits of up to
two further events meet the condition of `TriggerEventKept`, and a reader is lapped.
With two calls, 4,466,061 states hold as well, too many for a run that is repeated;
the theorems are for any number. Three logs, of which one begins
first, merge in any order, with rings of two places at first and five events, so that a merge
gives rings of two and four places and the next event overwrites one. A byte has eight values, which scales the limits of
the integers' codes: the lengths written take one byte, 4 takes two, 20 four, and
532 a marker and its full width; buffers of two to nine bytes fill several times
with three items. Vectors of 2 to 8 with up to 4 elements queued reach every
relation of head, tail and length of the ring buffer; the proofs cover every
size.

Deadlock is checked in smp_spin and mheap. It is off in the reader/writer runs
because of the lost wake-up; in the socket, websocket and serialize runs because
an assertion, a closed connection or the end of the stream stops the model; and
in containers and streams because the number of operations is bounded and a read
stream ends.

Fairness. `FairSpec` of the lock runs every thread that is inside a lock routine
or a critical section (`WF` of `Step(c)`): the scheduler runs all threads and
critical sections end. Nothing makes a thread ask for the lock again. The
socket by itself has none: whether `clib_socket_tx` is called again while data
waits is up to its user, and the websocket does not always do it
(`websocket_stall`). The fairness of the websocket says that the program keeps polling and, as the main loop of
test/websocket.c does every five seconds, calls
`websocket_close_all_sockets_with_no_handshake`; that time passes; and that a
peer that has not closed takes what the kernel holds for it.
Nothing makes a peer send, or the program open or close.

## 4. Findings

With a run of their own:

* **Lost wake-up** (`smp_rw_lost_wakeup`, smp.c:139). A thread that loses the
  race for the tail looks again whether the lock is free only if it is a spin
  lock. A reader or writer then queues on a lock that nobody holds and sleeps
  until an unrelated lock/unlock pair passes by.
* **Reader beside writer** (`smp_rw_exclusion`, smp.c:272). After it has handed
  the lock to a reader, the unlocking thread inspects the slot its old header
  names, the one it has just granted. If that slot is already in use by another
  waiting reader, it acts as if it still held the lock, and a writer gets in.
* **Short writes** (`socket_partial_write`, socket.c:216). Once a buffer has been
  sent in two parts, `n_left` loses the whole length of the buffer instead of the
  rest after its offset, and wraps around: later buffers are freed unsent.
* **Stalled connection** (`websocket_stall`, websocket.c:793). A frame, or a
  server's handshake response, that the kernel takes only in part leaves the rest
  in the fifo, and nobody asks the poller for write readiness.
* **Overwritten bytes** (`serialize_lost_write`, serialize.c:824). Bytes of the
  overflow buffer are copied to the buffer with a local index that is stored only
  if the new bytes fit as well; if not, the next write overwrites them.

Met while modelling, and part of the models. Where a property holds only of
behaviours that avoid the step, it says so; the flag that marks the step is in
parentheses.

* Lock: the ring has `n_cpus - 1` slots but `n_cpus` does not count the main
  thread (smp.c:86, smp_bootstrap.h:43); the runs have one thread per cpu.
* Socket: a failed read leaves `rx_buffer` lengthened by bytes nobody read
  (socket.c:250; `readFailed`).
* Mheap: before a free element is split, pages are mapped up to its successor's
  tag but not its links (mheap.c:419). With an alignment of more than half a page
  (`AlignedWithinPage`) the links may be written into an unmapped page, and the
  page stays unmapped when it is given out later, because a free element is taken
  to begin in a mapped page. `InUseIsMapped` excludes such alignments; with
  `PageRequests` of `MCMheap` and pages of 4 words TLC finds the block.
* Poller and websocket: a callback that closes another connection leaves that
  one's events in the batch (unix_file_poller.c:125; `closing`). An url or an
  address of no use closes descriptor 0, which the slot never set
  (websocket.c:849, 899; bounded by `MaxBadUrls`). A handshake
  response of which only the first lines have come may be taken for one without
  the header lines that follow, and refused (`ClientParse`). A carriage return
  alone ends a line (http.c:41), so a handshake cut before its last line feed may be
  accepted early; the line feed left over is taken for the beginning of a frame and
  the connection is closed once a second byte comes (`BadFrame`).
  `websocket_socket_dealloc` closes a descriptor that a failing open or accept has
  closed already (websocket.c:44, socket.c:368, 406); the second close is left out.
* Heap: the search of the free lists reads place -1 (heap.c:270;
  `HeapAssertsHold` is violated by `MCContainers`; what is read is not used). A
  heap of large elements that went through a stream forgets the places of free
  blocks other than the first of each list (`ReceivedIsValid`).
* Bitmap: `_and`, `_andnot` and `_xor` of a null vector and a bitmap without words
  subtract from the length of the null vector (bitmap.h:367; `vector = "fault"`, after
  which nothing follows). `clib_bitmap_next_clear` does not always return a clear position
  (bitmap.h:446; `NextClearIsClear` is violated by `MCContainers`); setting a field
  can leave trailing zero words, which `is_equal` tells apart; the model does the
  same. A region that goes beyond the word after its first shifts by a word's
  width or more; the guard `RegionFits` leaves it out.
* Fibonacci heap: a cut does not go on to marked ancestors (fheap.c:405), which
  costs time and not correctness; deleting a root that is not the minimum fails
  an assertion (fheap.c:441) and is left out by a guard; keys from 1e100 on are
  taken for none (`Far`).
* Hash: an iteration by `hash_next` misses pairs after an unset (`unset` in
  `hashNext`). `mhash`: setting a key that exists while a slot is free frees the
  slot twice (mhash.c:299; `freedTwice`).
* Event log: the index of a type is visible before the type is in its vector
  (elog.h:215), a type can be registered twice, an event of a slow thread
  overwrites a newer one (`overtaken`), and a reader that others lap copies newer
  events among older ones, or a mixture (elog.c:436; `reader.sure`). With several
  threads a trigger needs more room than elog.h:150 says, and events logged between
  its two accesses count as well (elog.h:171), which `TriggerEventKept` states. Merging moves
  times the wrong way when the source began first, and takes cached events for all
  (elog.c:537, 623; `doubtful`), and its ring may be full (elog.c:640).
* Serialize: a read that needs the overflow buffer and more of the file keeps an
  old index (serialize.c:859; `stale`); the end of the stream is not seen behind
  an overflow buffer (serialize.h:194; `more`); the name of a diff type may be
  sent again (serialize.c:729; `again`). Negative numbers come back off by one
  (serialize.h:320, zvec.h:136).
* Sparse vector: `sparse_vec_free` frees the vector as one without a header, though
  it was made with one (sparse_vec.h:192, 59); nothing calls it.
* Zvec: `zvec_coding_bits` stops at the first number of a histogram that was
  never seen, and the code it chooses need not be the shortest for those behind.

## 5. Proofs

All proofs are for every value of the constants that meets the modules'
assumptions.

* `SmpLockProofs!TypeCorrect`: `TypeOK` for all three kinds of lock. It is not
  inductive alone: `head` and `tail` stay below `n_cpus - 1` only because the
  wrap is by one subtraction of sums below `2 * NFifo`, and `n` stays within the
  ring because of the assertion and because an unlock only advances a
  non-empty fifo.
* `SmpLockProofs` also: with `SpinOnly` (every thread uses the lock as a spin lock),
  `SpinInvariant` proves the inductive invariant `SpinInv`, and exclusion, no
  lost wake-up, the header's count of holders and the cycle of a slot follow from it.
  `SpinNoPanic` needs also one thread per cpu, which is exactly what the
  finding about the main thread lacks.
  The invariant says: the header counts one holder, and only a held lock has
  waiters (`HeaderInv`); each slot between head and tail has a thread of its own
  (`FifoInv`); which pcs a holder can be at (`PlaceInv`); what a slot says while
  its user waits, is granted and leaves, while a second thread may already wait
  for the same slot (`SlotInv`); at most one handover is in progress and its
  target still waits (`WakeInv`); and how much of a thread's copy of the header
  is still true (`CopyInv`): while the holder is in the unlock slow path, `head`
  cannot move and `n` can only grow, so the head slot it looks at is the right
  one even if its compare-and-swap fails. The proof has one lemma per action.
* `SmpLockProofs!SpinImplementsFifoLock`: the spin lock implements
  `FifoLock` step by step. The queue is read off the ring: the thread that wrote
  each slot between head and tail (`slotCpu`), the holders are `granted`. An
  enqueue appends, an unlock that finds waiters takes the first of them, a lock
  taken after a lost race for the tail finds the queue empty; everything else is a
  stutter. The fairness in `FifoLock!Spec` stays with the run.
* `ContainerProofs`, the ring buffer: `FifoTypeCorrect`, `FifoIndexRoundTrip` and
  `FifoImplementsQueue`, that every operation maps to one of `Queue` or to a
  stutter under the mapping `Contents`, which reads the ring from its head. They
  assume `HeadSteps` without 0: advancing a full fifo by nothing empties it
  (fifo.h:161), and nothing in the library does it. The argument is
  arithmetic about wrapped indices (`RingArithmetic`, `HeadArithmetic`,
  `BackArithmetic`) and one lemma per operation (`ResizeKeeps`, `AddAppends`,
  `HeadDrops`, `TailDrops`).
* `ContainerProofs`, the hash tables: `HashIsAMap`, `HashNextVisits` and
  `MhashIsAMap`, for every set of keys and values, every sum of keys (`KeySum`),
  least capacity and bound.
  A table is `Sound` if each bucket has room for its pairs, the pairs in it belong
  there by their key's sum (`BucketFits`), no two have keys that are equal, and
  there are as many as it counts; `Held` is the set of its pairs, and most lemmas say
  what an operation does to that set. `AddedFits`, `ValueSetFits` and `RemovedFits`
  are what happens in a bucket, between a pair and an array of pairs; `SetIs` and
  `UnsetIs` what a lookup does to the table.
  `RehashedIs` is about the loop that fills a new table, which may have to grow while
  it is filled. `Fillings` is its invariant: what the new table has and what is
  still to be set are together what the old one had. That it ends within
  `RefillSteps` is the decreasing `Effort`: each time it begins anew, the
  shortage of the table (`Short`) is less than before.
  `HashInv` is then that the table holds exactly the pairs of the map, and
  `PairsIs` that iterating visits each once.
  For `hash_next`, `NextInv` adds that a table over which an iteration is under way
  has the flag against growing, so that keys stay in their bucket and, as
  `SetGrows` shows, in their place there; and that of the pairs that were there at
  the start exactly those that lie before the iteration's place have been seen
  (`Visiting`, `Passed`). `SamePassed` is that the search for the next pair
  passes over none, which fails where `j` is kept for the next bucket.
  For the tables with keys of their own, what a key of the table stands for changes
  with the memory. A table is sound for any two memories that agree where it
  points (`SameId`); `MhashInv` says that it is sound for the present one, agrees
  with the map through it (`Agree`), and that the slots are divided between the
  pairs and the free list (`MemoryFits`). A key is stored before the table is asked
  whether it has it, which is why a slot must not be in use when it is taken
  (`SlotTaken`, `SlotNew`). All is stated up to the second freeing of a slot
  (`freedTwice`, section 4), after which two keys get the same memory.

* `WebsocketProofs`: `WebsocketRegistrations`, `WebsocketEvents`,
  `WebsocketClosedOnce` and `WebsocketStream`. `IInv` adds to the properties that
  every live connection has a descriptor of its own in the state its type and
  handshake imply, and no other descriptor is registered or open (`Held`);
  connections have different numbers, and exactly those opened and not live were
  told of their end (`Numbered`; `WebsocketClosedOnce` is about
  `connection_will_close`, and about no descriptor); and two events of a batch name different
  connections, except that a listener has one for each peer that waits, and an
  event whose connection was closed by a callback finds its slot free or taken by
  a connection accepted since (`Batched`), which is what makes `StaleIndex` and
  the assertion in `websocket_at_index` the worst that can happen. All four are
  stated up to the second url of no use, because that closes descriptor 0 under
  whoever has it then (section 4): the first finds it with the program.
* `ContainerProofs`, the event log: `ElogReadsLastEvents` and `ElogTriggerEventKept`,
  for every ring, counter and number of threads, the wrap of the counter included. The first
  rests on: the places behind the counter carry consecutive numbers, as far back as
  the counter has counted since it was last 0 (`Counted`); a place that no slow
  thread overwrote has each part of its last event or the thread that is about to
  write it (`RingWritten`); only one thread has given out an index that its vector
  does not have yet (`Registering`), and every other index names what it was given
  to (`Named`). `Reading` carries the first of these from the moment at which the
  reader read the counter (`reader.began`) to the copy of each half: a place whose
  last event is still the one of that moment, which nobody is writing and no slow
  thread overwrote, has both parts of it. The second theorem counts the threads that found the log enabled and have
  no place yet together with the events after the trigger's (`Limited`); between
  the two accesses of the trigger the limit is in the caller's local variable, and
  `Pending` says which limits are on their way. It
  assumes `MaxLogged < CounterWords`: threads under way may push the counter over
  its end, and a log whose counter is 0 again is enabled again, so that
  `TriggerEventKept` fails (TLC finds it with `CounterWords = 2` and
  `MaxLogged = 5`). `Numbers` has the arithmetic of `%` on which places rest.
* `MheapProofs`: `MheapTagsChain`, `MheapFreeListsExact`,
  `MheapBlocksAccountedFor`, `MheapRequestsMet`, `MheapInUseIsMapped` and
  `MheapImplementsAllocator`, for every size of heap, page, cache and bins and every
  set of requests. Walks of the heap and of its lists cannot be reasoned about while tags and links change, so
  the inductive invariant `Inv` speaks of sets. `Chain`: the elements are a set with
  the first and the last, closed under "the element after", with no element
  between the two; `ElementsAre` shows once that the walk finds this set.
  `Lists`: each free element is linked with its neighbours both ways, and links
  lead upwards in some numbering, so that no list is a circle; `ListedIs` and
  `ListedFinds` show that a walk then meets exactly the elements of its bin, and
  ends in time because elements lie four words apart (`FewElements`). `Apart`: no
  free element is before another or at the end. What splitting, extending and
  freeing do to the set of elements is one lemma each (`CutChain`, `GrownChain`,
  `MergedChain`, `LastChain`), what adding and removing do to the lists is
  `SetFreeKeeps` and `RemoveFreeKeeps`, and a whole operation either gives one
  block (`CarvedGives`, `ExtendedGives`) or takes one (`FreedTakes`) and keeps the
  size of every other. Above the heap, `Inv` divides the blocks in use between
  callers (`HeldIs`) and cache entries (`CacheIs`). `PlaceIs` and `ExtendAtIs` are
  the arithmetic of alignment, `BinsOfSizes` that a small bin has one size, which is
  why a cached block fits. Beside `Inv`, pages have the invariant `HeapIsBacked`:
  every word that is not inside a free element, behind its links (`Hole`), is in a
  mapped page. A call then only has to map what it takes out of a hole
  (`ExtendedBacked`, `CarvedBacked`) and to unmap what is in one (`FreedBacked`). That
  splitting maps enough is where the alignment matters: what is left of a free
  element above an aligned block is less than two alignments (the last part of
  `PlaceIs`), so that no whole page lies in it behind the tag that is mapped.
  `MheapAssumption` says what the proof needs of the constants: alignments are
  powers of 2, sizes and page sizes are positive.
* `HeapProofs`: `HeapSound`, that `HeapIsSound` holds for every size, alignment,
  number of bins and longest heap. The inductive invariant `HeapInv` says
  that the heap is empty or `Sound` and `Apart`, and that its objects are the blocks
  in use (`ObjectsAre`). `Sound`: the elements of the chain are those not on the list
  of free ones (`WellFormed`), linked both ways (`Linked`); offsets grow along the
  chain from 0 and stay below the length (`Placed`); and the free lists have exactly
  the free blocks, each at the place it believes, in the bin of its size (`Binned`).
  `Apart`: no two free blocks are neighbours.
  An operation breaks this in its middle: a block that is listed is no longer of its
  bin's size, two free blocks touch, a new element is in a list before it has a
  size. So `Binned` takes the set of listed blocks and the bin of each as
  parameters, and the lemmas about lists (`ListedBins`, `UnlistedBins`,
  `RelistedBins`) do not care what the sizes are. `InsertBeforeIs`, `InsertAfterIs`
  and `PassedByIs` say what the pointer surgery does to the links, and `Cut`, `Dropped`
  and `Merged` what it does to a chain. `Combined` is then the removal of two
  or three neighbours one at a time, of which one or a new element is kept
  (`Joining`, `Collapsed`, `Combines`); the place of the kept one is right although
  it is written from a copy made before the removals, because those are from other
  bins (`Keeps`). An allocation is a cut of a free block (`Searched`) or one at the end
  (`Gained`), then what is left in front of the aligned offset and behind the object
  is given back (`Trimmed`, `Freed`). That the free block found is the one to cut
  needs no more than that it is large enough.
  The chain as `heap_foreach` walks it is the sequence that `Walk` and `InOrder`
  describe: the walk goes upwards in offsets, so it meets no element twice, and
  after as many steps as there are elements it has met all (`SoundValidates`).
  Of the constants it is assumed that there are bins enough: one for each
  small size, and one for each power of 2 up to the longest heap. The code has them for
  lengths far beyond the 31 bits of an offset (heap.h:54, 61, 84). With too few, unlike
  sizes would share the last bin, and two blocks merged there could both be of the bin
  of their total (`NotBothInBin`), so that removing one moves the other while its
  place is kept.
* `SocketProofs`: `SocketStream` and `SocketRxStream`, that both streams of the
  socket are kept as far as section 4 says, and `SocketAssertionHolds`, that until
  then the assertion after the loop of `clib_socket_tx` holds. That loop and the
  iovecs are recursive functions over the buffers; `FlattenIs` and `ReclaimedIs`
  show once that these functions exist and take the steps they are defined by, and
  `FlattenAppend`, `FlattenHead` what they give at either end of the fifo.
  The inductive invariant says that every buffer in the fifo is non-empty, not
  wholly sent, and only the first partly sent (`WellFormed`). It survives the loop
  whatever `n_left` became, wrapped around or not (`ReclaimKeeps`). The loop's own
  invariant is `Splits`: some first bytes, as many as were subtracted from
  `n_left`, and what is pending still make up what was pending before. It holds
  from round to round as long as no buffer that was partly sent is freed (`Ready`),
  and at the end `n_left` is 0, because there are as many rounds as buffers. The
  bound `WordSize > 2 * MaxTx` says that an offset and a count do not overflow.
* `BitmapProofs`: `BitmapSound`, `PoolSound` and `SparseFinds`, for every width of a
  word and number of bits, elements and indices. The three rest on the same lemmas
  about words: what a position is (`Place`, `Offset`, `Places`), what changing one
  word does to the set (`WithWordBits`, `OneBit`) and that dropping zero words at the
  end does nothing to it (`PutTrimmedIs`).
  For the bitmap, `BitmapInv` is that it is a vector of words and that its bits are
  the set, up to the step that writes a null vector's length; every operation keeps that (`OneBit`, `AluHolds`, `TwoBitmaps`, `FieldSet`,
  `RegionSet`, of which the last two have the field that lies in two words), and
  every question then has the set's answer: `Searches` covers the three searches by
  one lemma (`SearchIs`), `FieldRead` the fields.
  For the pool, `PoolSound`'s invariant `PoolFits` adds to the agreement of bitmap and
  vector that no index is in the vector twice and all are below the length, and
  `UnserializedIs` steps through the loop that rebuilds the bitmap from the vector.
  For the sparse vector, `SparseFits` says that an index's element is at its rank
  among the members (`Rank`), that each word's count is the number of members in the
  words before it, and the first element is the one that stands for none.
  `BelowIsRank` shows that count and bits below make up the rank, and
  `InsertAtIs` with `RankWithOneMore` that inserting moves the elements as it moves
  the ranks.

Only model-checked: liveness, and `ImplementsFifoLock` as far as it contains
fairness (neither fairness nor `ENABLED` is within the prover's reach); the
reader/writer lock beyond its types; and of the containers the
Fibonacci heap, merged logs, streams and compressed integers, whose trees
and encodings are recursive functions of their memory.

## 6. What could follow

1. A proof of the invariant of `FHeap` (forests, where the chain of `Heap` has one list).
2. `Serialize` has recursive operators and stays with TLC, as does liveness.
3. `Mheap` composed with the lock, for the validation that takes the lock twice,
   and the readers of a heap without an end marker.

## 7. Not modelled

Whole parts, because they have no state between calls or only transform data:
the vector (sequences in every model), text formatting and parsing, http and url
parsing, clock calibration (floating point), error reporting, encryption and
base64, random numbers (what is to be said of them is statistical), ELF files,
and the operating system glue.

In the modelled parts: creation of the per-cpu heaps (`clib_smp_init`) and freeing
of a lock; the heap's lock, tracing, statistics, readers and the placing of its
header; opening, binding, connecting and accepting of sockets as system calls;
the kqueue half of the poller and its ring of errors; the event log's
formatting, clock, string table and saved form (the magic of a saved log is
written in another form than it is read, so that none can be read); formatting
and hashing of bitmaps; bitmaps and hash tables in a stream and failing system
calls under one; the contents of frames and handshakes beyond whether they are
accepted.
