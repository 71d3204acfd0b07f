# Specifications of literate

TLA+ models of this repository, with the TLC configurations that check them and
TLAPS proofs about the parts where it matters most. Source names are kept
(`LoadPool` and `Pop` are the two halves of `Processor::smp_get_from_pool`), and
`PROJECT.json` maps each definition to the lines it models.

The repository has two trees: `src/AK`, a C++ standard library of its own, and
`src/Kernel`, the architecture layer of a kernel (x86, aarch64 on a Raspberry Pi)
and its API headers. It has no tests; its documentation is the comments. Several
files do not compile as they are (misspelt identifiers, a missing semicolon, one
or two absent headers such as the x86 `Processor.h`). Where the intended token is
plain we read it so; the logic is never repaired: what the statements do, in the
order they stand, is what the models do.

## Inventory

| Part | State | Operations and interactions | What makes it correct | Status |
|---|---|---|---|---|
| Inter-processor messages, `Kernel/Arch/x86/common/Processor.cpp` | the pool `s_message_pool` (a lock-free stack), per message `refs`, `async`, `next`, per processor `m_message_queue` (a lock-free stack), `m_halt_requested`, the APIC's pending interrupt | `flush_tlb`, `smp_unicast`, `halt` send; `smp_process_pending_messages` receives, from `exit_trap`, from an empty pool, and while a sender waits | a message has one owner and comes back; its count is that of the processors still to answer; no message waits unnoticed; each request is delivered once, in order, before a synchronous call returns; calls return; a halt stops everyone | modelled |
| Traps, critical sections and deferred calls, same file | `m_in_irq`, `m_in_critical`, `m_invoke_scheduler_async`, the pool and the pending list of `DeferredCallEntry` | `enter_trap`, `exit_trap`, `enter_critical`, `leave_critical`, `deferred_call_queue`; they run deferred calls, which may do all of this again, and then the scheduler | levels balance; no entry is lost or used twice; calls run once, in order; the scheduler is entered only when nothing below forbids it, and is entered eventually | partly |
| Spinlocks, `SpinLock.cpp` | `m_lock`, `m_recursions`, the caller's `prev_flags`; IF and `m_in_critical` of the processor | `lock`, `unlock` of both kinds, from threads and handlers | exclusion; nobody is interrupted while holding; flags and levels restored | modelled |
| `AK/Singleton.h` | `m_obj`: null, 0x1, or the object | `get`, under preemption | created once; never 0x1 to the caller; every `get` returns | modelled |
| `AK/Weakable.h`, `RefCounted.h` | `m_ref_count`, `m_consumers`, `m_ptr` | `strong_ref` against `unref` and `revoke` | no use after free; no revival; one revocation, which ends | partly |
| Waking idle processors, `smp_wake_n_idle_processors` | `s_idle_cpu_mask` | takes bits, sends IPIs | a processor whose bit is taken gets one message | modelled |
| aarch64 interrupts, `Interrupts.cpp` | `s_interrupt_handlers`, the pending registers | handlers come and go, `handle_interrupt` dispatches | a registered handler is reached; whoever raised a line is called | partly |
| aarch64 timer, `RPi/Timer.cpp` | the device's counter and compare register, `m_current_timer_value` | two-halved read, interrupt per interval | the counter read was the counter's; the next match is ahead | partly (devices) |
| Hash tables, `AK/HasTable.h`, `HashMap.h` | `m_buckets`, `m_size`, `m_capacity`, `m_deleted_count`, the list of an `OrderedHashTable` | `try_set`, `remove`, `remove_all_matching`, `ensure_capacity`, `clear`; each may rehash, into a new array or in place | a set of elements told apart by key; every element is found; probing ends | partly |
| Trees, tries, lists, queues, heaps, bitmaps | nodes, links, slots, words | sequential | agree with a bag, a map, a sequence or a set; every link right after every step | modelled |
| Owners: counted and sole pointers, `Function`, `Variant`, `Optional`, `Vector`, `ByteBuffer`, streams | counts, storage, an inline buffer or a heap block, chunks | sequential, but re-entered: destructors and callables run in the middle | what is held lives, what is not is gone, contents keep through growth | partly |
| Numbers, wide integers, times | values | pure functions | exact, or they say that they cannot be | partly |
| Strings, Unicode views, searching, sorting, printf | values | pure functions | agree with a definition; what is written is read back | partly |
| Parsers: JSON, URL, paths, lexers, addresses | texts, parser states | pure functions; a URL's setters | end; take what the grammar says; keep what they took | partly |
| aarch64 boot, GPIO, UART, framebuffer, logo | page tables, registers, pixels | computed once | pages map to themselves; registers hold what was asked | partly |
| Processor set-up, GDT, IDT, thread contexts, SMAP, safe memory, API headers | registers, tables, constants | boot code, assembly | sequential, straight line | not modelled |

What is hard in the kernel is concurrent: lock-free lists between processors,
interrupts and exceptions that re-enter the functions they interrupt, spinning
with interrupts disabled, references that are made while an object dies, a table
of handlers that changes while interrupts arrive. What is hard in the library is
what a sequence of calls leaves behind: links after a rotation, storage after a
growth, an object that is destroyed in the middle of its own call, and the edges of
words, chunks and buffers. Nothing is persisted, so there is no crash recovery;
nothing has timeouts. `PROJECT.json` lists the hazards at their lines.

## Modules

| Module | Models | Notes |
|---|---|---|
| `MessageDelivery` | what inter-processor messaging promises | abstract: inboxes served in order, synchronous calls |
| `SmpMessaging`, `SmpMessagingProofs` | the messages, one action per atomic operation | implements `MessageDelivery` (`DeliverySpec`) |
| `ProcessorTraps`, `ProcessorTrapsProofs` | traps, critical sections, deferred calls of one processor | a stack of contexts; one action per stretch of code that nothing interrupts |
| `Spinlocks`, `SpinlocksProofs` | both spinlocks on all processors | contexts are a thread and a handler per processor |
| `Singleton` | `Singleton::get` and a scheduler | holds its own proofs |
| `WeakLink` | `strong_ref`, `unref`, `revoke` | holds its own proofs |
| `IdleProcessors` | `smp_wake_n_idle_processors` of several callers, and idle loops | load and fetch_and are separate steps |
| `DeviceInterrupts` | the aarch64 interrupt table | an interrupt may come between any two stores of a registration |
| `SystemTimer` | the Raspberry Pi's timer and its driver | the device counts between any two steps |
| `DevicesProofs` | proofs about the last three | |
| `KeyedSet` | what a hash table promises | abstract: a set of elements with different keys |
| `HashTable`, `HashTableProofs`, `MC_hashtable` | `AK/HasTable.h` | implements `KeyedSet` (`ImplementsSet`) when it is not ordered |
| `RedBlackTree` | `RedBlackTree.h`, owning and intrusive | |
| `Trie` | `Trie.h` | a node is its path |
| `IntrusiveList`, `LinkedLists` | `IntrusiveList.h`; `SinglyLinkedList.h`, `SinglyLinkedListWithCount.h`, `DoublyLinkedList.h` | |
| `Queues` | `CircularQueue.h`, `Queue.h`, `Stack.h`, `BinaryHeap.h`, `IDAllocator.h` | |
| `Vector`, `ByteBuffers` | `Vector.h`; `ByteBuffer.h` and `StringBuilder` | inline storage and the heap |
| `Bitmaps` | `BitmapView.h`, `Bitmap.h` | widths of byte and word are parameters |
| `Streams` | `MemoryStream.h`, `BitStream.h`, `Buffered.h`, `Stream.h` | |
| `OwningPointers`, `Callables` | `RefCounted.h`, `NonnullRefPtr.h`, `ReftPtr.h`, `OwnPtr.h`, `NonnullOwnPtr.h`; `Function.h`, `Optional.h`, `Variant.h` | |
| `OwnersProofs` | proofs about `OwningPointers`, `Callables` and `ByteBuffers` | |
| `Numbers`, `WideIntegers`, `TimeValues` | `Checked.h`, `LEB128.h`, `IntegralMath.h`, `StdLibExtras.h`; `UFixedBigInt.h`; `Time.h` | widths are parameters |
| `UnicodeViews`, `Strings`, `StringSearch`, `Sorting`, `Printf` | `Utf8View`, `Utf16View`, `UnicodeUtils.h`; `String`, `StringUtils`; `StringView`, `MemMem.h`; `QuickSort.h`, `BinarySearch.h`, `FuzzyMatch.h`; `PrintfImplementation.h` | |
| `Json`, `Urls`, `Paths`, `Lexers`, `Addresses` | the parsers and writers of these | |
| `Aarch64Boot` | the logo's header and drawing, the page tables, the pins and the UART's divisor | |
| `Components` | the six of the owners and the devices, their constants and what is assumed of them | `subject` says which of them `obj` is |
| `MC_components` | extends `Components` by the nine of the containers and the streams | |
| `MC_algorithms` | instantiates the fourteen modules of pure computations | `subject` says whose call `obj` is |

The modules at the end compose modules that do not interact. A behaviour
belongs to one of them: `subject` never changes, and `obj` is that module's
variable. Each property of these modules is a conjunction over the subjects of
properties the modules state, grouped by what they are about, so that one run
explores all of them. In every composed module a definition that carries a
plausible bug stands beside the one it mutates, with a comment saying what is wrong
with it; `PROJECT.json` names one of them per property, and each of the others can be
put in its place in the same way.

### Inter-processor messages

`pc[c]` says where processor `c` is: between calls (`idle`), in
`smp_get_from_pool` (`load`, `next`, `pop`), filling and posting a message
(`fill`, `enqueue`, `ipi`), waiting (`wait`), in `smp_return_to_pool` (`link`,
`push`), in `smp_process_pending_messages` (`exchange`, `run`, `drop`, `check`),
or halting. `back[c]` is where processing returns to: it is called from an empty
pool, from a wait and from `exit_trap`. The queue, a linked list of
`ProcessorMessageEntry`, is a sequence with the last message posted first; the
loop of `smp_enqueue_message` is its one exchange that succeeds (that `next` of an entry
is read before the entry's message may be used again is therefore not in the model), the loops of the
pool are modelled read by read because that is where they can go wrong.
Each operation is sequentially consistent. A call runs with interrupts disabled
(its caller in the repository holds a Spinlock), so interrupts come between calls.
Asynchronous calls are in the interface (`smp_unicast(..., async)`), though the
only caller in the repository is synchronous; they are sent in `smp_calls` only. A callback is
taken to return and to leave the messages alone: the deadlock that the comment at
`Processor.cpp:849-851` fears, of a page fault in a callback while the caller holds the
scheduler's lock, is outside the model. The user-address test of
`flush_tlb` and the `cr3` test of a request decide whether a flush is needed at
all and are left out. `halt` is included because its flag is read by the code
that processes messages.

### Traps

`stack` holds the contexts of the processor: the thread, interrupt handlers,
exceptions and drains of deferred calls, the running one last. A drain's context
is at `run` when `execute_pending` is about to invoke an entry and at `code` while
the call runs, which may queue calls, enter critical sections, or be interrupted
by an exception. With interrupts disabled a function is one step up to the
places where it runs other code. `QueuesMasked` says whether callers of
`deferred_call_queue` have disabled interrupts; `CallsQueue` whether deferred
calls queue others. The scheduler has been initialised. Messages of other
processors, which `exit_trap` serves too, are in `SmpMessaging`.

### Spinlocks

A context is the thread or the handler of a processor; interrupts, `iret` and
IF are in the model. Locks are released in the opposite order of their locking, as their
callers do: that order is built into the model. `track_lock_acquire` is taken to enforce an order of ranks,
so that the two kinds nest in one order.

### Singleton

The two preprocessor branches of the wait are as in the source: in a kernel build
the wait is a `sched_yield`, which in a critical section gives nothing up, so it
is a plain re-read.

### WeakLink

The link outlives the object because each thread has a reference to it, and the
object's own count is atomic, as thread-safe reference counting makes it in a
kernel. `adopt_ref` and the return of the reference take no step of their own.

### Idle processors, device interrupts, the timer

`IdleProcessors`: a caller's turn of the loop is a load of the mask, the
`fetch_and` that claims bits, and a message per bit it got. The loop that sets a
processor's own bit is not in the repository; it is modelled from that use.
`OverwakesOneTurn` is what the code can promise, not that exactly as many wake as
were asked for.

`DeviceInterrupts`: a change of a slot is a sequence of stores, and an interrupt may
come between any two of them. A slot that becomes shared is null, then a shared handler
without members, then one with the handler that was there, then one with both; an
unhandled handler is deleted before the slot leads to the one that takes its place; a
shared handler that has lost its last member goes by way of null. `handle_interrupt` goes
through the pending bits one by one and VERIFYs the slot; `due` holds the devices that
had raised their line when it was entered and are not called yet. Handler classes are
external: what matters of them is who is called; a deleted one may do as it did or halt.

`SystemTimer`: the counter is read in two halves, the high one again after the low
one. The device runs on, and raises its interrupt, between any two steps.

### HashTable

Buckets are numbers, hashes `0 .. HashCount-1`, and `DoubleHash` any function on
them. The list of an ordered table is a record of the functions `previous` and
`next` and the two ends, so that the statements of `rehash_in_place` are taken as
they stand, including what an exchange of links does to neighbours. The hashes that a key's
loops try are its `Way`, and a lookup is the first bucket on it that ends the loop
(`FirstOn`); the loops of both kinds of rehash are a step per iteration:
`pc` is `rehash` while `todo` holds the elements of the old array, `sweep` and
`move` in the outer and inner loop of `rehash_in_place`, and `insert` when `try_set`
goes on after growing. `kmalloc_good_size` is external and given by `GoodSize`.
An operation that would need more than `MaxCapacity` buckets is not begun.
`clear_with_capacity` of a table that was never allocated writes the end marker
through a null pointer; the model calls it on allocated tables only.

### Containers and owners

An operation of these is one action, and the object is a record. The record keeps
what the operations mean beside what the code's fields hold, so that a property
can say that the two agree: the bag of keys beside the links of `RedBlackTree`, the
queue's values beside the ring of `Queues`, `meant` beside the bytes of
`ByteBuffers`.

- `RedBlackTree`: left and right are one definition with a side except where the
  source differs between them. The runs check the owning tree: a node of an
  intrusive tree keeps its parent and colour when it is taken out, and inserted
  into an empty tree again it becomes a root with a parent (`RedBlackTree.h:147`).
- `LinkedLists`: `SinglyLinkedList::remove` of the first node compares `m_head`
  where it means to assign it, and `insert_before` at the end leaves `m_tail`; the
  list is unusable then and the model stops there.
- `Vector`: a slot is raw, holds a value, or holds the remains of a moved value; a
  slot that is read in another state than it has is a fault.
- `ByteBuffers`: a buffer may be appended to itself. Its bytes are then read from where
  they were before it grew, and what it is meant to hold from there on is unknown.
- `OwningPointers`, `Callables`: a destructor's or callable's body is a choice of
  further operations on the same objects, which is where `Function`'s deferred
  clear and the order of `unref`'s steps matter. The text of `ReftPtr.h` breaks off, so a
  counted slot that may be null follows `NonnullRefPtr.h`; a slot that is destroyed is
  emptied before the reference is given back, where `NonnullRefPtr.h:79-80` has it the
  other way round, which nobody can see as the slot is gone.
- `Streams`: an error stays until it is handled, by `handle_any_error` of the stream or of
  the one below, and reading may go on after that; the byte that a failed read leaves in
  a bit stream is `Garbage`.
- `Bitmaps`, `Streams`: widths are parameters, so that ranges, chunks and buffers
  end at, before and after a boundary within a few bits.

### Pure computations

An action is a call, its inputs chosen from small sets, and the state is the call
with its result; properties compare the result with a reference definition: the
integer an expression stands for, a grammar, the first occurrence, the sequence
of code points. Loops are folds or recursive functions. Widths are parameters:
`WideIntegers` has limbs of two bits at two levels, `Numbers` types of two and
three bits, `TimeValues` seconds of four bits, eight nanoseconds, four microseconds and
two milliseconds to a second. The fuzzy matcher remembers `MaxMatches` matches in a type
of `IndexValues` values, three each, where the source has 256. A character is a number or a name that says what the code can tell about it. The
largest value `Printf` writes in octal is below 8 times its first divisor, as
`print_octal_number` starts from 8^9 and puts all that is above it into one character.

## Runs

| Run | Bounds | Shows |
|---|---|---|
| `smp_broadcast` | 3 processors, 2 messages, one flush each | ownership, counts, interrupts, and that the code implements `MessageDelivery`. Three calls compete for two messages, so somebody finds the pool empty and serves its queue in the middle of its own call |
| `smp_calls` | 2 processors, 1 message, two calls each, synchronous and asynchronous, halting | messages come back, calls return, a halt stops everybody. It may deadlock: halted is the end |
| `smp_aba` (violation) | 3 processors, 2 messages, flush and synchronous unicast | finding 1 |
| `traps` | 1 pool entry, 2 heap entries, 3 calls, 2 exceptions, 4 contexts | safety of traps; four contexts are a thread, an interrupt, its drain and an exception in a deferred call, which drains in turn |
| `traps_live` | 1 pool entry, 1 heap entry, 2 calls, 1 exception, 3 contexts | deferred calls are run, reschedules happen |
| `traps_race` (violation) | 2 pool entries, 2 calls, interrupts enabled | finding 2 |
| `spinlocks` | 2 processors, 3 locks deep | all of it; the thread and the handler on each processor |
| `singleton` | 3 threads on 2 processors | two threads of one processor, so that a waiter could starve the creator |
| `weaklink` | 3 threads, 2 owners, two `strong_ref` each | references adopted after the owner's are gone |
| `hashtable` | 4 keys, 2 values, 18 hashes, up to 16 buckets, allocations in fours | that the table implements a set, finds everything, counts right, and that its loops end. The hashes make two keys take each other's home, so that a rehash in place exchanges elements both ways, and let four buckets fill with tombstones; 16 buckets are more than growing from four elements needs, so that no rehash stops at the bound |
| `components` | up to 5 tree nodes with 3 keys (two equal), 3 and 4 list nodes, vectors and buffers of 3 with 1 in place (a buffer with itself too), a ring of 4, 9 bits in words of 4, chunks of 3 bytes and a buffer of 2, 2 interrupt lines and 3 devices, a counter whose half is 6, 3 processors with 2 wakers | every sequence of the operations on each small instance. Capacities of one and two make growing, wrapping, shifting and refilling happen within a few calls; five nodes are the fewest with which an insertion and a removal meet every rotation and recolouring |
| `algorithms` | all texts up to 4 to 7 characters of a few kinds, all bit patterns of the small widths, samples around the edges where a width is given by a standard (code points, years) | every input to each computation against its reference definition |

`components` and `algorithms` are checked without deadlock: the bounded operations
of an object run out, and a call that has returned is the end of its behaviour.
Their properties:

- `LookupsAgree`, `ContentsKept`, `OwnedAndReleased`, `DevicesServed` and the action
  property `ChangesAsMeant` (an operation on linked nodes changes what it means to
  and leaves every other link right);
- `ArithmeticExact`, `TextsRoundTrip`, `SearchesAgree`, `ParsersAgree`.

The concurrent modules state a type invariant, `TypeOK`; it is proved where they have
proofs (but for `ProcessorTraps`) and no run is spent on it. The modules of one object
need none: their properties compare fields with what they mean and fail on a state
that is not well formed.

### Findings

1. `smp_get_from_pool` is open to ABA. The comment relies on the exchange
   failing when the message was used in between; it compares the head only.
2. `deferred_call_queue`, called by a thread with interrupts enabled, races with
   the drain of an interrupt: it enters a critical section, which keeps the
   scheduler away but not interrupts.

### What else the code does not do

Each row is a property that a module states and TLC refutes in a small instance; no run
is kept for it. The first kind is a comment, a VERIFY or a name of the source that the
code disagrees with; the second what the operation is plainly for. The properties
that the runs check say what is true instead, and where they make an exception the comment
above them names the property here.

| Property | Meant | The code |
|---|---|---|
| `ProcessorTraps.PendingRunBeforeScheduler` | `Processor.cpp:948`: the drain comes before the scheduler | a deferred call that queues another leaves it pending until the next trap (`QueuedCallsRun` holds) |
| `DeviceInterrupts.ServedAtAnyTime` | `Interrupts.cpp:28-29`: `VERIFY(handler)`; whoever raised a line is called | the table changes in several stores with interrupts enabled (52-103): an interrupt may find null, a handler that is deleted, or a shared handler without members |
| `HashTable.ListIsElements` | the list of an `OrderedHashTable` leads through its elements | `rehash_in_place` (`HasTable.h:584`) exchanges the links of two buckets and then repairs those of their neighbours; when they are neighbours of each other a link ends up at its own bucket. What the buckets hold is not affected until the table grows: `try_rehash` then iterates that list, and `ImplementsSet` fails for an ordered table |
| `RedBlackTree.NeverFollowsNull`, `InsertsRed` | `remove_fixups` has the parent "since node might be null"; an inserted node is red | the statement `node -> parent;` in the left branch (`RedBlackTree.h:295`) has no effect, so the loop does not go up and may read through null; the colours it leaves reach the VERIFY of a later insertion |
| `ByteBuffers.AppendsItself` | `b += b` doubles the bytes | `ByteBuffer.h:228-231` takes their position before the buffer grows, which frees or covers them |
| `Streams.NothingUninitialised` | bits that are read were written | a read past the end leaves `m_next_byte` uninitialised (`Stream.h:89-93`); once the error is handled its bits are read |
| `Numbers.OverflowRemembered` | `has_overflow` tells of any step | the saturating operations clear it (`Checked.h:153-169`) |
| `Numbers.PostfixCounts`; `TimeValues.RoundedExact` | `x++` counts; what is rounded up is the number next to it | the copy that `x++` and `x--` set aside moves the value out (`Checked.h:93`, 215-229), and `Time.cpp:66, 82, 95, 107` use it |
| `Numbers.DifferencesExact` | the difference of two `Checked` | `operator-` adds (`Checked.h:265-269`) |
| `Numbers.SignedReadsEnd` | reading a signed LEB128 number ends | the loop that extends the sign does not count (`LEB128.h:84-87`) |
| `TimeValues.MadeFromNanoseconds` | `Time.h:100`: a denominator is less than 10^9 | `from_nanoseconds` (141) and `from_timespec` (`Time.cpp:39`), and `from_ticks` with it, divide by just that and stop |
| `TimeValues.GreaterIsGreater` | `operator>` is the converse of `operator<` | it asks for fewer seconds (`Time.cpp:266`) |
| `TimeValues.NanosecondsExact` | a negative time in nanoseconds | the nanoseconds are asked for a sign they never have (`Time.cpp:121`), and a second is not taken off |
| `WideIntegers.PowIsPower` | `UFixedBigInt.h:662`: the power by Montgomery's ladder | the result is another number for some exponents |
| `WideIntegers.WordsExact` | a word and a carry are added; any word divides | the carry is asked of the low word without the other (328); the remainder, as wide as the divisor, loses its first bit when doubled (512) |
| `StringSearch.TrimsBlanks`; `Strings.TrimmedNumbersRead`; `Addresses.AddressesRoundTrip`, `OctetsInRange`, `MacsMean`; `Json.NumbersMean`, `StringsReadBack`, `ValuesReadBack`; `Urls.PortsRead` | blanks are trimmed; a number, an address, a JSON value, a port is the one written; `IPv4Address.h:100`: octets to 255 | the right trim takes off what is not blank (`StringUtils.cpp:316-324`), and the conversions trim by default (74-76, 114-116): "10" is read as 1, "256" as 2, port 80 as 8 |
| `StringSearch.EndsIgnoringCase`, `FoundIgnoringCase`, `CountsAndReplaces`, `PrefixesOrdered` | an end or a text is found whatever its case; a count and a replacement give a result; of two strings that differ one comes first | the text is compared with its own start (`StringUtils.cpp:236`); a search goes on behind a partial match (281-295); lengths are subtracted below zero where occurrences overlap or the needle is longer than the text (454-476); a prefix comes behind too (`StringView.h:199-228`) |
| `Strings.CaseInverted`, `ViewsCopiedWhole` | small letters become large; whether all was copied is told | both arms make small letters (`StringUtils.cpp:426-436`); an assignment stands where a comparison is meant (`StringView.cpp:168`) |
| `Sorting.AdjacentMatchesScore` | `FuzzyMatch.h:17`: a bonus for adjacent matches | not every adjacent match gets it |
| `Sorting.EveryMatchFound`, `MatchingEnds` | a needle matches if its letters are in the text in order; matching ends in a score | the matches it remembers run out (`FuzzyMatch.h:80-81`), and their places are stored in 8 bits (97) |
| `UnicodeViews.IteratesCodePoints` | `Utf8View.cpp:190`: one byte only where a code point is too long | the iterator moves one byte always |
| `Addresses.UuidsReadBack` | a UUID holds the bytes of its text, in the byte order asked for | the last six come from the first unit, which has four (`UUID.cpp:52`), and both orders make the mixed one (55-61) |
| `Json.IntegersKept`, `EqualityWithNulls` | an `unsigned long` is kept; equal objects, and they alone, compare equal | it is tagged as 32 bits wide (`JsonValue.cpp:115-121`); a null member is the same as none (`JsonObject.h:43-53`) |
| `Urls.NothingEncoded` | `URL.h:8`: members contain no percent-encoded sequence | the parser (`URLParser.cpp:668`) encodes into them |
| `Urls.DefaultPortEmpty` | `URL.h:130`: the default port is stored as none | `set_port` (`URL.cpp:36`) stores it |
| `Urls.NeverHalts`, `SerializesAlways` | a text is parsed against any base; a URL that is serialized comes back | the first segment is asked for of a base that has none (`URLParser.cpp:545-558`); an escaped slash is decoded (620); the buffer is not cleared for the query or fragment of a URL that cannot be a base (637-662) |
| `Printf.OctalsWritten`, `OnlyPrecisionCuts` | an octal number of 32 bits; a string is cut by the precision | the divisor starts a digit too low (`PrintfImplementation.h:213`); after a dot the field's width cuts too (278, 290) |
| `Aarch64Boot.LettersRefused` | the logo's sizes are numbers | any character is a digit (`BootPPMParser.cpp:90-93`) |

### Fairness

- Messages: a processor executes its next instruction (`WF` of `Step`) and takes
  a pending interrupt although other traps keep it busy (`SF` of `TakeIpi`, as the
  APIC keeps the interrupt pending and the processor looks at every instruction).
  When a call is made, or `halt`, is up to the caller: no fairness.
- Traps: instructions are executed; those of code that interrupts may come in
  front of are so under strong fairness. Code that disabled interrupts or entered
  a critical section undoes it, handlers and calls return, and a timer interrupts
  code that lets it: what each caller in a kernel owes.
- Spinlocks: contexts inside `lock` and `unlock` execute them. The exchange is not
  fair between processors, and `FreeLockIsTaken` claims only that somebody takes
  a free lock.
- Singleton: the scheduler runs every thread again and again unless a critical
  section keeps it from the processor.
- HashTable: a call that has begun goes on.
- WeakLink: threads inside `strong_ref` and the destructor go on.
- The sequential modules state no liveness: their loops are single actions whose
  folds end, and `Urls.ParserEnds` says of the one state machine among them that
  its pointer reaches the end.

## Proofs

The theorems have the form `Spec => []P`, or `Spec => P` for an action property, for
every value of the constants under the assumptions each module names (at least two
processors and one message, finite sets of threads, and so on). Each goes by an
inductive invariant `IInv`, one lemma or step per action, one step per part it can
disturb.

- `SmpMessagingProofs`, whatever calls are mixed: `TypeOK`, `NeverFollowsNull`, `NoLostWakeup`. A processor
  that waits serves its queue in the middle of its own call, so the invariant
  (`Sound`) says of each place inside the processing code what the call it
  returns to will need. Neither property depends on who owns a message, so both
  are true in spite of finding 1.
- `SmpMessagingProofs`, calls to all the others: `ExclusiveOwnership`, `RefsCountOutstanding`, `NoMessageLeaked`,
  and the refinement of `MessageDelivery` (`DeliverySpec`), all where each call goes to
  all the other processors (`ToAllOthers`): `flush_tlb` always does, and a unicast does
  when there are two processors. With a unicast among three or more the statements are
  false (finding 1), so the hypothesis is where the code is right and not a convenience.
  What excludes ABA is that a processor inside the pool's pop has not served the
  requests sent to it, and a message another processor took in the meantime waits for
  its answer: the head the pop read cannot have come back. The free messages are the
  least set that is closed under `next` from the pool's head, which lets a proof
  about the list go by the least number of steps and needs no recursion. For the refinement
  the invariant (`Delivering`) says to whom a call that is under way goes and whom it has
  yet to ask (`Calling`), that what has come to a processor came once and is of no call
  that has yet to ask it (`Requests`), and that the message of a call is, for each
  target, still to be queued, in its queue or hands, or served (`Carried`).
- `ProcessorTrapsProofs`, levels: `LevelsBalanced`, `SchedulerOnlyWhenQuiet`;
  `LeaveVerifies`, that `m_in_critical` is one again when the deferred calls that
  `leave_critical` ran have returned, which the code VERIFYs; `ThreadLevels`, that the
  thread finds both levels as it left them. The two counters are sums over the stack of
  contexts. A sum is a recursion, so the invariant says instead that there are functions
  of partial sums (`Sums`) that end at the counters; three lemmas say what replacing,
  adding and removing the last context do to them, each action is one or two of
  those, and `SumsCount` turns the sums into the cardinalities of the property. That a
  drain stands on an `exit_trap` or `leave_critical` that has a section of its own
  is what excludes a drain below a scheduler that finds the level at one. Nothing
  is assumed of the lists of entries, so these theorems hold in spite of finding 2.
- `ProcessorTrapsProofs`, deferred calls: `EntriesConserved`, `RunOnceInOrder`,
  `NothingLeftOutside` and `HandlerCallable`, where `deferred_call_queue` is called with
  interrupts disabled (`QueuesMasked`). Finding 2 is that without it `HandlerCallable`
  is false. The invariant (`CInv`) has a sequence of entries for each place an
  entry may be (the pool, the pending list, the list of each context) and a place for
  each entry in use; each head and its `next` pointers describe that sequence and each
  entry of it has that place, so no two places share one. The walk along a list
  (`Chain`) is unfolded once, in `ChainIs`, by the least number of the steps it takes;
  every action is then about appending to, dividing or reversing a sequence. That a call is
  not forgotten is `Kept`: while one is pending that no deferred call queued, there is a
  handler or a section under way, and a context that has already looked at the list has
  someone above it who will look again.
- `SpinlocksProofs`: `TypeOK`, `MutualExclusion`, `NotInterruptedWhileHolding`,
  `LeavesAsFound`, `UnlockVerifies`. What carries the proof is that IF is off from
  `cli` until the outermost unlock restores it, that saved flags other than
  the outermost are off, and that `m_in_critical` counts the sections of both
  contexts.
- `Singleton`: `TypeOK`, `CreatedOnce`, `ReturnsObject`. While the cell is null
  nobody creates; while it is 0x1 exactly one does; an object in it is finished.
- `WeakLink`: `TypeOK`, `NoUseAfterFree`, `StrongMeansLive`, `RevokedOnce`.
  `m_consumers` is the number of threads inside `strong_ref`, `m_ref_count` the
  number of strong references (cardinalities), and once the destructor has seen no
  consumer bit 0 keeps newcomers from the pointer.
- `HashTableProofs`, where the table is not ordered: `TypeOK`, `FindsAll`, `CountsRight`,
  `ProbesEnd`, and the refinement of `KeyedSet` (`ImplementsSet`), for any hashes,
  `double_hash`, sizes of allocation and sequence of operations. An ordered table
  is moved to a new array in the order of its list, which a rehash in place may break
  (`ListIsElements` above), so
  `~IsOrdered` is where the statements about what the table holds are right. `ProbesEnd` needs
  besides that the probes come to every bucket (`EveryHashTried`: the way of a key goes
  through all the hashes, and there are at least as many as buckets). The xorshift of
  `double_hash`, with the constant that stands in for zero, is one cycle of all
  32-bit numbers, and the hashes of the run are one cycle of eighteen. The invariant says
  that a key is in one place (`Distinct`), what the counters count (`Counted`), that the
  way of each element leads to it through buckets no lookup stops at, or, in the middle
  of a rehash in place, through elements that are settled (`Placed`), how far the
  sweep is and that the bucket it tries is on the way of the element in its hand (`Swept`),
  and that a bucket stays free (`Load`). What `rehash_in_place` rests on is `WayReturns`:
  if a hash comes twice on a way, by the pigeonhole every later one is among those before
  it, so `HashCount` tries are as good as a loop without an end. Recursion is met by the least
  number that violates a claim, which the library's well-founded relations give without
  an operator as a parameter.
- `DevicesProofs`: `DevicesServed` as a whole, for the state machine of the devices in
  `Components`.
  - Interrupts: a device raises one line (`OneLine`); the handler of a slot calls every
    device registered there, or the slot is the one under change, whose last store leads to
    one that does (`Reached`); whoever is due is behind a bit `handle_interrupt` has not
    come to, or behind the slot under change (`DueArePending`); it halts only at that slot
    (`HaltsInChange`). In that window the code has no more to promise
    (`ServedAtAnyTime` above).
  - The timer: the counter read is the counter at some point of the call (`TimeIsNow`) and
    the next match is ahead of the counter (`NextMatchAhead`), where a call or an interrupt
    is done before the next is due and an interval is less than the low half counts
    (`TimerAssumption`; the interval of `init.cpp` is a second, the low half is 2^32
    microseconds). The invariant says which count, since the call began, each half was read of,
    and that after a carry there is no second one within the call (`HalvesRead`).
  - Wake-ups: for each processor what was sent, what calls owe it and its bit in the mask
    together never exceed the times it went idle (`Each`): the fetch_and moves one from
    the mask to one call, and sending moves it from what is owed to what was sent. `Turns`
    bounds the bits a call has claimed by what it still may wake.
- `OwnersProofs`: `OwnedAndReleased` as a whole, for the state machine of the owners in
  `Components`.
  - Pointers (`CountIsHolders`, `NothingDangles`, `NothingLeaks`), for any number of
    objects and variables and any depth of destructors. An operation gives back a
    reference as its last act, and that may destroy an object whose destructor gives back
    another; so the invariant (`OwningInv`) is of the states between operations and of
    those in which one reference is yet to be given back. In both a count is the number of
    the variables and members that hold the object and one more for what is yet to be given
    back (`Balanced`); an object lives and is not being destroyed exactly when it is counted
    or owned (`OwnedLive`); the destructors under way are of different objects that live
    (`DyingLive`).
  - Functions and variants (`RunningIsAlive`, `CallablesOwned`, `StorageMatches`): a function
    runs what it holds (`RunsItsOwn`), what lives is held by one of the two (`LiveAreHeld`),
    and a clear is put off only while the function is being called (`PutOffWhileCalled`),
    however deep the calls. The storage of an `Optional` or a `Variant` holds what its index
    says (`Matches`).
  - Buffers: `BlocksOwned`, and `HoldsBytes`, which is the part of `ContentsKept` about
    buffers, for any number of buffers and any sizes. Every block is one buffer's and has
    its capacity (`BlocksAre`), the size is within it (`Fits`), and the cells, inside or on
    the heap, hold what the buffer is meant to hold (`BuffersHold`). After a buffer was appended to
    itself and had to grow, nothing is meant of the bytes that came with it (`Unset`). That a block is left
    for every allocation follows from there being one for each buffer (`BlockLeft`).

Model-checked only: liveness and ENABLED (out of the prover's reach); unicasts
among three processors or more, for which the messages' invariants are false in
general (finding 1) and hold in the bounds of `smp_calls`; `LookupsAgree`,
`ChangesAsMeant` and `ContentsKept` but for the buffers: the trees, lists, vectors, queues,
bitmaps and streams; and the computations of `MC_algorithms`, whose folds and recursive
functions would need an induction over data. Nothing is proved of an ordered hash table,
whose list may break (`ListIsElements` above).

## Not modelled

- `clear_critical` (nothing calls it and its counterpart is in an absent header), the
  chain of trap frames, `ScopedCritical`'s moves.
- `WeakPtr` and `try_make_weak_ptr`: safe where one thread owns the object, as they are
  used; `WeakLink` has the concurrent protocol.
- The helpers on `timeval` and `timespec` (`Time.h:200-255`) and the second text of
  `Time::operator+` (`Time.cpp:195-231`), which does not compile.
- Copies, moves and swaps of whole hash tables; `HashMap` forwards to the table.
- `BumpAllocator`: the VERIFY in line 104 stops its first allocation, so that no state
  lies behind it. `FixedArray`, whose copies are of memory nobody initialised; `Array`
  and `Span`, plain data. `FlyString`, whose table is returned by value
  (`FlyString.cpp:22`) and so is always empty.
- `Math.h` and `Complex.h`: floating point. The type-driven formatters of `Format.h`,
  data URLs, JSON doubles beyond hundredths.
- `Mailbox`: `send_queue` never writes its request (`Mailbox.cpp:67`) and so never
  returns; nothing behind it, the framebuffer's set-up among it, is reached. The UART's
  FIFO and the interrupt controller's enable registers: device registers alone.
- Processor initialisation, `ProcessorInfo`, GDT, IDT, thread contexts, exception
  vectors, safe memory access and SMAP: straight-line register set-up and assembly.
- Kernel API headers: constants and layouts.

What we would take next: the proofs of `Vector` and `Queues`, whose operations are like
those of the buffers, and a composition of `ProcessorTraps` with `SmpMessaging`, whose
messages `exit_trap` serves.
