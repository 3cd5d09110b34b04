# pipewire-rs: a verification project

pipewire-rs wraps the C library PipeWire for Rust: `pipewire/src` holds the
client API (loops, context, core, proxies, streams, channels) and
`libspa/src` the data layer beneath it (PODs, the wire format of parameters;
dictionaries; buffers; result codes). The C library is not in the repository.
What this project models is the Rust code; of the library it models what the
Rust code relies on, and says so.

## 1. Inventory

| Component | State | Operations | Meets | Hard about it |
|---|---|---|---|---|
| **channel** (`pipewire/src/channel.rs`) | mutex with poison flag, message queue, two ends of a pipe | `send` from any thread; `attach`, `deattach`, the IO closure, drop on the loop's thread | the loop (an IO source), the user's callback | threads against the loop; wakeups; a callback that panics or re-enters; failing reads and writes |
| **result codes** (`libspa/src/utils/result.rs`) | none | classify an `i32` as error, value or promise; make and mask sequence numbers | every C call | width, sign, wrap-around |
| **core, main loop** (`core.rs`, `main_loop.rs`) | sequence numbers; the loop's running flag; the `done` cell of the roundtrip idiom | `sync`, `done`, `run`, `quit` | server, listeners | answers of other syncs, other callers of `quit`, wrapping numbers |
| **pod serializer** (`libspa/src/pod/serialize.rs`) | writer position, open struct/object/array serializers | one method per pod kind, `end` | the builder of every parameter | headers written before or after the body, padding, `u32` overflow, failing writes |
| **pod deserializer** (`libspa/src/pod/deserialize.rs`) | input, remaining bytes of each open pod | parse by kind, `deserialize_ptr` | visitors | cut inputs, `u32` subtraction, lengths in headers |
| **stream and buffers** (`stream.rs`, `buffer.rs`, `libspa/src/buffer`) | pool of buffers, dequeued buffers, timeline points | dequeue, queue, drop, explicit sync, connect, disconnect | loop's thread, graphics drivers | a buffer held across an `await`; errors on the way back; time limits |
| **lifetimes** (`context.rs`, `core.rs`, `stream.rs`, the loops) | reference counts along loop <- context <- core <- stream | make, clone, upgrade, drop, `into_raw` | C destructors and the callbacks they make | who outlives whom; destroying twice; handles dropped inside a destructor |
| **registry, proxies** (`registry.rs`, `proxy.rs`, `core.rs`) | proxies and their types | bind, create, downcast, destroy | server | proxies that outlive their core; destroying twice |
| **listeners, hooks** (`hook.rs`, `list.rs` and the listeners of every interface) | linked list of hooks, boxed closures | register, remove, emit | every object with events | a list changed while it is emitted; a closure freed while it runs |
| **thread loop** (`thread_loop.rs`) | recursive lock, condition, thread | lock, start, stop, signal, wait, timed_wait, accept | any thread | deadlocks, lost signals, time limits |
| **loop sources** (`loop_.rs`) | io, idle, signal, event and timer sources | add, enable, signal, update, drop; enter, iterate, leave | the user's closures | a source dropped in its own callback; nesting |
| **pod builder, parser** (`pod/builder.rs`, `pod/parser.rs`) | frames over a byte buffer | push, pop, primitive pods, overflow callback | C's inline functions | a buffer that moves while frames are open |
| **pod views** (`pod/mod.rs`) | none: iterators over raw bytes | fields, properties, casts | builder, parser | lengths taken from the bytes |
| **dictionaries, properties** (`utils/dict.rs`, `properties.rs`) | C dictionary of C strings | get, insert, remove, iterate | every object | ownership |
| interfaces `node` ... `metadata`, parameter enumerations, `types`, `keys`, `permissions`, C bindings, examples | none beyond the above | forwarding, tables of names | | |

What makes each correct:

- *channel*: a waiting message keeps the loop awake; each accepted message
  reaches the callback once, in its sender's order; no thread waits for ever
  for the mutex; failing I/O costs at most a spurious wakeup.
- *result codes*: every `i32` is classified one way and the sequence number of
  a promise survives the way through the server.
- *roundtrip*: when it returns, the events of everything sent before are
  dispatched; it does return.
- *pods*: each header tells the truth about its body; everything is aligned;
  what is written is read back; what is cut is refused, never misread.
- *stream*: a buffer is in one place, with the program or with the stream, and
  is not touched once the stream has taken it away.
- *objects and listeners*: nothing is used after it was destroyed, nothing is
  destroyed twice, a closure is not freed while it runs.
- *thread loop*: objects of the loop are touched only under the lock; a signal
  given under the lock reaches those who wait.

The hazards, each at its line, are in PROJECT.json.

## 2. Plan

Done, the most important first:

1. `Mailbox` (abstract), `Channel` (implements it), `ChannelProofs`.
2. `SpaResult`, and `Roundtrip`, which extends it; `ConnectionProofs`.
3. `PodSerializer`; `PodDeserializer`; `PodRoundtrip`, which composes the two;
   `PodRoundtripProofs`. Then the programs that read with visitors of their own.
4. `StreamBuffers`, the buffers that return themselves and explicit sync;
   `StreamBuffersProofs`.
5. `Listeners`, the hook list of an object under emissions that change it;
   `ListenersProofs`.
6. `Lifetimes`, the chain of reference counts; `LifetimesProofs`.
7. `LoopSources`, and `ThreadLoop`, which extends it: lock, wait, signal, stop and
   the sources' closures on two threads; `ThreadLoopProofs`.
8. `PodBuilder`, `PodParser`, `PodViews`, and `PodFrames`, which composes them over
   one `Vec`; `PodFramesProofs`.
9. `Monitor`, proxies and the maps that keep them, against a server; proved in
   `ConnectionProofs` too, which extends both.
10. `MCClient` and `MCObjects`, which let several components share a run (hence the names
    `MonitorInit`, `BuffersInit`, `LifetimesInit` and the like).

What is left, should the project grow:

- the frames of arrays and choices in `PodBuilder`, where the body of the parent is
  a single pod header for all children;
- closures that are freed while they run, if a version of the library's source is
  at hand that says what it does with a source or hook after the callback.

## 3. What is modelled

### Channel and Mailbox

`Channel` has one action per step of `send` that another thread can observe:
call, lock (or find the lock poisoned), signal if the queue is empty (or fail),
push and unlock; and of the receiver: `attach`, poll, lock, read the pipe (or
fail), one delivery per message, the end of the drain, `deattach`, drop. `queue`
is the `VecDeque` with the mutex `holder` and its `poisoned` flag; `pipe` counts
the bytes in it. A sender's `calls` number its messages, so a message is a pair.
`outcome` and `delivered` are history variables.

The mutex is held across the user's callback, as in the code. The callback may
panic, which drops the rest of the `Drain` and poisons the mutex, or send on its
own channel, which blocks the thread for ever (`CallbackSends`; no line of
`channel.rs` warns of it or promises otherwise). What a panic does once it reaches
C frames is a choice of the build: abort, or unwind to a caller that goes on or
drops the receiver.

`Mailbox` is what the users of a channel rely on; `Channel` implements it, its
liveness included, under the mapping `waiting <- queue`.

### SpaResult and Roundtrip

`SpaResult` keeps the width: `AsyncBit` stands for `SPA_ASYNC_BIT` (2^30) and an
`i32` has one value bit above it and a sign. The masks of `result.rs` are arithmetic
here: the low bits are the remainder by `AsyncBit`, the two top bits (`top_bits`) the
quotient of the unsigned value. `Errno::from_raw` knows the numbers in `Errnos` and
makes one error of all others (`UnknownErrno`). `MCRoundtrip` adds a return code `res`, which is any
`i32`. `Roundtrip` uses `from_seq` for the sequence numbers the client makes and the
server echoes.

`Roundtrip` is the idiom of the examples (`while !done { mainloop.run() }` after
`core.sync(0)`) over `sync`, `done`, `run` and `quit`. The connection keeps order, so
messages and events are counted. Other callbacks may quit the loop, send, and
other syncs may be answered in between.

### PodSerializer, PodDeserializer, PodRoundtrip

The serializers own each other in Rust; `frames` is that stack. Bodies' bytes are
left out; positions, lengths, padding and the headers, all modulo `U32`, are kept.
The user's `PodSerialize` may make any sequence of calls the types allow: any
action whose guard holds. A write may fail at any time (`WriteFails`); an array
may be left incomplete, be too long for its header, or get one element too many.
Elements may have no bytes: an array or a choice of `()`.

`PodDeserializer` reads in two ways. With the `ValueVisitor`, the reader that
accepts anything, its calls are compared with the writer's (`calls` against
`events`). With requests and visitors of the program's own (`typed`) a visitor may
ask for another type than is there, lack a method for it, stop a struct early, return
an error or pass over one. `panic` remembers why a read panicked: a visitor that
stopped early or went on after an error, the `unwrap` of `deserialize_none`, or the
division by the size of a choice's values. A panic for any other reason, such as a
count of remaining bytes below zero, has none of these names, and `ReadsWhatWasWritten`
refuses it.
`scopes` are the deserializers it has open; `held` says whether a struct's or
object's deserializer has its `PodDeserializer`, which is taken before each
field and put back after.

A pointer pod whose body is neither 12 nor 16 bytes makes the code panic; no
serializer writes one, so `Pointer` is guarded by it and no behaviour is lost.

`PodRoundtrip` composes: after a serialization that succeeded, the whole output, a
part of it, or a pointer to it is read.

### StreamBuffers

A `Buffer` in Rust is one handle; `held` says what the program has made of it: a
plain buffer, a raw pointer, or the future of one of the three async methods
that keeps it. `copies` counts independently how often each queue of each
stream has the buffer, so that a buffer queued twice, or lost, shows. Streams are
used by one thread, so a step is a call, a poll or a drop.

A program may call a queueing method on another stream than the buffer's own.
Nothing in the types is against it, and such a buffer never comes home, which is the
run `BufferForeign`; with `Mixed = FALSE` programs keep to `Home`.

`Obtain` and `TimesOut` are the two ends of `SyncFuture::poll`; between them a
poll changes nothing but wakes its task. The futures of `sync_dma_buf` end at
their first poll (`QueueSynced`), unless the thread was held up between `new` and
`poll` (`QueueSyncFails`). `signalled` is the acquire point as the producer sees it;
neither side of the code looks at it, so no action does, and the run `BufferUnready`
shows a buffer queued before it. The queueing methods move nothing before they are polled:
a future dropped before that (`Cancel`) drops the buffer, which queues it.

`strong` and `weak` are the two words in front of the metadata that `Arc::from_raw`
makes reference counts of. Their first values are arbitrary, `Arc::get_mut` wants
both to be 1, and a drop that finds them so frees memory that no Rust allocator
gave out: the process aborts or goes on.

### Listeners

The twelve interfaces that have events register listeners in the same way: a
builder collects closures, `register` makes a table of C functions with an entry
for each closure and passes it to the library with a hook, and the drop of the
listener unlinks the hook. `Listeners` is one object's list; `Interface` says which
events there are, `callbacks` is what the builder collected and `table` what the
library sees. `next` and `prev` are the links of the hooks, including the stale ones
that `list::remove` leaves in a hook that is gone. Hook and closures are freed with
the listener, so `handle` is "dropped" for good.

How the library goes through the list is modelled from its headers' contract and
is external: an emission links a cursor of its own into the list, moves it behind
each hook before the hook's callback runs, and unlinks it at the end. `frames` is
the stack of emissions; a callback (`UserCode`) may register, drop, or call a method
that emits on the same object.

### Lifetimes

`holders[o]` is the set of those whose references to `o` are counted: variables of
the program and objects made from `o`. A stream is not counted, it has one owner.
`raw` is the C object behind each: alive, in its destructor, or gone.

`dropping` is the stack of drops under way. A drop calls the C destructor
(`EnterDestructor`, `LeaveDestructor`) and then drops the fields (`DropFields`), which
may take the last reference of the next object. Between entering and leaving the
library makes callbacks: a context's destructor ends its proxies, a stream's changes
its state. User code in them (`UserCode`) may make, clone and drop as anywhere else,
which starts drops on top of the one under way.

`Core` has no `Drop` (`docs/guidelines_for_bindings.md` says that owning structs
usually have one): the C core lives until its context's destructor, which
disconnects it (external, `LeaveDestructor`). `NothingLeaks` makes that exception.

### LoopSources and ThreadLoop

`LoopSources` has the five kinds of sources with their operations: `live` is where
source and closure exist together, `ready` what the next poll will report, `armed`
the timers and idle sources. `ThreadLoop` puts them between two threads, which is
all there are, since no handle is `Send`.

`owner` and `guards` are the recursive lock and the main thread's guards; `main` and
`worker` say where the threads are. The loop's thread polls without the lock and
dispatches with it (external, from the library's headers): `todo` are the sources
still to be called in this iteration, from which a source that is destroyed is taken.
A wait gives up the lock, and only if it is held once.

Two closures stand for what programs do with `signal`. `Notifier`'s says that what
was asked for is done (`signal(false)`); `Lender`'s lends the main thread something
and waits until it is given back (`signal(true)`, `accept`). The program follows the
rules that the comments of `thread_loop.rs` give: stop without the lock, wait in a
loop that tests a condition. Two programs that break the scheme are left out,
as nothing here promises that they work: one that destroys a source while its
closure lends (the closure has given up the lock though it runs, so it would be freed
under way), and one whose closure makes a `Lender` while the main thread already
waits in `stop`, where nobody is left to accept.

A wait with a time limit may end at any time (`TimesOut`), so how long the limit is
does not show; that `timed_wait` drops what is below a second is outside the model.

### PodBuilder, PodParser, PodViews, PodFrames

`PodBuilder` is the `Vec` with the builder of the C library over it: `len`, `home`
(where the `Vec` is) and `size`, `data` (where the builder thinks it is), which the
overflow callback brings together again. `frames` are the open pods; a push writes
a header of length 0 and a pop writes it again through `data`. `headers` is what is
in the `Vec`. `extents` are the pods that were finished, with their depth and
their number of children: what the readers are compared with.

`PodParser` reads the `Vec`, or its first pod, with any sequence of `get`, `push`,
`pop`, and with `parser_get!`, whose arms may fail. `PodViews` are the iterators over
structs and objects. `PodFrames` runs one of them once the builder is gone.

`PodViews` goes by headers and sizes as the C macros do, and asks of the next child
only that its header lies inside; whether its body does as well, which the code asks
too, makes no difference on what a builder finished.

The builder's frames are linked through C structs on the caller's stack; the types
allow to leave one without a pop. The builder's program here pops what it pushed
(`Ready`), the parser's may leave them, which is `PodDeadFrame`.

### Monitor

`Monitor` is `pw-mon`, the example that does with a registry what clients do: bind
globals as they appear, keep each proxy with its listeners in maps, and drop them
when the proxy is `removed`. The server (external) creates and destroys globals at
any time and tells those who bound one before everyone else; `toServer` and
`toClient` are the messages on their way, so a global may be gone when the bind
arrives. `proxies` are the library's, under ids that are used again as soon
as they are free; `made` tells one proxy from the next with the same id. Whatever the
maps do not show yet must be in one of the queues (`NewsOnTheWay`): nothing would ask
for it again.

## 4. Runs

| Run | What it asks | Bounds and why they suffice |
|---|---|---|
| `Channel` | wakeups, pipe, exactly once; `send` returns; `Mailbox`, with its order, its panics and its liveness, is implemented | 2 senders, 3 sends each, 2 faults, callbacks that panic or send: both orders of every pair of critical sections, a second and a third wakeup, a fault before and after the other |
| `Client` | the roundtrip idiom: everything sent before is dispatched; it returns; return codes are classified as the masks say and sequence numbers survive them | 10 messages with numbers modulo 4 in a window of 4: numbers wrap twice; every value of the 4-bit `i32` with two bits of sequence number |
| | `pw-mon`: maps, library and server agree; what is not in the maps yet is on its way; maps follow the server | 3 globals, one of them not wanted, and 2 ids: an id is used again while news about the first use are on their way |
| | a stream's buffers: one place for each, at home; calls end | two streams with a buffer each, one with metadata and descriptors; words of width 2 are unique or not, and wrap |
| `PodRoundtrip` | the writer: truthful headers, alignment; the reader: reading back, whole or cut, with any visitor; every read ends | 48 bytes hold three levels of nesting, three sizes of leaves, three of elements; `U32` is 64, so that an array of 63 elements overflows; elements of no bytes are among them |
| `Objects` | handles reach what is alive; destructors in order; nothing left over | a loop, 2 contexts, 2 cores, 2 streams, 4 handles: two chains that share a loop or a context, one of them dropped in a callback of the other's destructor |
| | the list of listeners: links that match, one ring, only living listeners called and each once, nobody passed over | 3 listeners and emissions 2 deep: a listener before, at and behind each of two cursors; two events, so that a hook is passed without a call |
| `ThreadLoop` | no closure runs beside a guard; none is freed while it runs or lends; no wait misses its signal; what is lent is not used; events are served; `stop` returns | one source each of four kinds (a signal source behaves as an io source), 2 nested guards; a source that is dropped, remade and dropped again within one iteration, stop and restart |
| `PodFrames` | headers written back reach a `Vec` that moved; the parser stays in step; its frames are nested; iterators yield each child once | 48 bytes, of which up to 24 were in the `Vec` before: it grows before, within and after each frame; three levels |
| `PodPtr` (violation) | a pod read through a pointer is accepted | |
| `PodNone` (violation) | another type than the one asked for is an error | any pod, asked for as `()` |
| `PodDeadFrame` (violation) | no call reads a frame that went out of scope | |
| `BufferMemory` (violation) | memory in front of the metadata is left alone | one buffer |
| `BufferForeign` (violation) | one place for each buffer, when programs mix streams | one buffer, two streams |
| `BufferUnready` (violation) | what is queued with synchronisation has its acquire point signalled | one buffer |

`Client` and `Objects` put components side by side that have no state in common:
`example` and `about` say which one a behaviour is about, the others stand still, and the
properties of all are checked. `MCClient` restates the fairness of the three, as that of
whichever runs.

Buffers do not meet except in the queues, and messages and pods enter the
properties at most in pairs, so two of each show what more would. An operation on
a list touches a node and its two neighbours, so with three hooks every pattern of
neighbours occurs; a third emission meets the cursors of two others as the second
meets that of one. Sources meet in `todo` and `running` only, where one runs and
another waits or is dropped.

Where a theorem proves type correctness for every value of the constants no run
repeats it. The same holds for the theorems `Fifo`, `PoisonIsFinal`, `LoopIsLeft`,
`LengthIsReported` and `SeekingBack`: they follow along the same invariants as their
neighbours.

Deadlock checking is off where the modelled call ends, the number of sends is
bounded, or the main thread may wait for a signal nobody has to give: the system
may stop there.

### Findings

- `PodPtr`: `deserialize_ptr` hands the parser header and body without the
  padding that the parsers of most pods consume; such pods are refused.
- `PodNone`: `deserialize_none` unwraps, so asking for `()` where another pod is, or
  a cut one, panics where the documentation of `deserialize_from` promises an error.
- `BufferForeign`: the queueing methods take a buffer of any stream and queue it on theirs.
- `BufferUnready`: `sync_dma_buf` is ready at its first poll.
- `BufferMemory`: metadata in the C library's memory is made an `Arc`; every use
  decrements a word in front of it, so that a buffer's timeline cannot be read
  without changing memory that belongs to something else.
  `queue_buffer_with_custom_sync`, which needs both words to be 1, either fails
  or is followed by freeing them.
- `PodDeadFrame`: a `Struct` arm of `parser_get!` leaves the frame it pushed linked
  into the parser when one of its fields is refused; the frame is a local of the
  arm, and the parser's next call reads it.

Met while modelling, and without a run:

- channel: a callback that sends on its own channel never returns (`Channel` has it
  as a behaviour, `CallbackSends`).
- serializer: the size of an array is computed in 32 bits; in a release build it wraps,
  and the array is finished under a header that is too small (`HeadersTruthful` fails
  with `U32` below `Capacity`, say 32 and 40, and three elements of 8 bytes). After it wrote a
  header again the serializer seeks to the end of the *stream*, which is where it was
  only if nothing lies behind that (`HeadersTruthful` fails with `Held` above 0, by a struct
  in a struct). The guard of `serialize_element` is the bitwise complement of a number
  where its negation was meant, so that an array takes more elements than were announced
  and only `end` notices. Pointer pods are not padded, which shows where pointers have 4 bytes.
- elements without bytes: an array of `()` is written with its number of elements and
  read back with none, as there are no bytes to count (`Seen`), and a choice of `()`, which
  the serializer writes, makes the reader of a `Value` divide by zero (`ChoiceOfUnits`).
- deserializer: `deserialize_element` has the same wrong guard, so it
  never refuses an element of a real array, though a panic is documented; a field that fails takes the deserializer with
  it, though a comment says that it is always there when the next field or `end`
  is asked for, so a visitor that goes on after an error panics; a property whose
  key is not the expected one is consumed.
- builder and parser: `Builder::new` writes over a `Vec` that is not empty without
  truncating it; `Pod::from_bytes(pod.as_bytes())` is `None` for a pod whose body is
  not padded, as `as_bytes` leaves the padding out; the `Pointer` arm of
  `builder_add!` calls `add_bool` and compiles for nobody, and the `Pod` arm of
  `parser_get!` wants another type than its comment gives; an early exit inside `builder_add!` leaves a dead frame as in `PodDeadFrame`.
- stream: a wait for a point other than 0 ends only by its time limit, since `poll`
  asks for point 0, and whether the point was signalled is not looked at.
- loops: `iterate` with a time limit beyond `i32` panics between `enter` and `leave`;
  the two programs named under `ThreadLoop` above.
- registry: `bind` of another type drops the proxy, though the comment of
  `downcast` says that it is not lost.
- dictionaries: `size_hint` of the iterators over keys and values gives a lower bound
  that leaves out that entries which are not UTF-8 are skipped.

## 5. Fairness

`Channel`: threads inside `send` are scheduled (`WF` per sender) and the loop keeps
dispatching (`WF(Dispatch)`); nobody has to call `send`, `attach`, `deattach` or
drop. Weak fairness is enough because a sender that waits for the mutex finds it
free again and again only while others finish a bounded number of calls.
`Roundtrip`: the loop's thread runs and the server answers; nobody has to send.
`PodRoundtrip`: the reader, a sequential function, goes on while it can.
`StreamBuffers`: awaited futures are polled (`SyncFuture` wakes its own task) and time
passes; nobody has to take or drop a buffer, and no driver has to signal.
`ThreadLoop`: the loop's thread polls, calls and finishes its iterations (`WF`);
closures return (`SF`, as they may use sources again and again); a thread that waits
for the lock gets it if it is free again and again (`SF` of `WorkerLock` and
`Relock`), which is what a mutex of the system gives and what the code relies on. Of
the program it assumes what a program with a loop's thread must do: it does not hold
the lock for ever and gives back what was lent. It need not wait, signal or stop.
`Monitor`: messages arrive and the loop dispatches (`WF`).
`Lifetimes`, `Listeners` and `PodFrames` have safety properties only.

## 6. Proofs

Every theorem is checked by TLAPS for every value of the constants, from the
assumptions named in the modules (`ChannelAssumption`, `AsyncBitAssumption`,
`RoundtripAssumption`, `SerializerAssumption`, `BuffersAssumption`,
`ListenersAssumption`, `LifetimesAssumption`, `SourcesAssumption`,
`ThreadLoopAssumption`, `BuilderAssumption`).

- `ChannelProofs`: `IInv` adds to the type invariant who holds the mutex where
  (`MutexInv`) and what accounts for the bytes in the pipe (`SignalInv`).
  `WakeupPending` alone is not inductive: between the write to the pipe and the
  push the byte belongs to a message that is not yet in the queue, and between
  the read and the drain the queue's messages have lost their byte. Proved: type
  correctness, no lost wakeup, the bound of the pipe, `WakeFindsMessage`, nothing
  after poison. `HistoryInv` adds that a sender's messages are numbered in the
  order of `delivered \o queue`; from it follow the order per sender, exactly-once
  delivery, and that `Channel` implements `Mailbox!SafeSpec`.
- `ConnectionProofs`, the roundtrip: `RoundtripInv` relates `pending`, `target` and `done`; the
  arithmetic lemma says that two messages less than `AsyncBit` apart have
  different numbers. Proved: `AllEventsProcessed`, `QuitNotLost`. For words of any
  width: a sequence number survives the way into a return code and back
  (`SeqSurvives`), and each return code is an error, a value or a promise as the
  masks say (`Classified`).

  The registry's program: neither the maps nor the server's table say why they agree, since
  the messages between them overtake one another. `MonitorInv` follows each id and
  each global along their way. An id is asked for, bound or told to be removed, in
  one place and once (`IdsOnce`); a global is announced, asked for or bound, once
  (`GlobalsOnce`). If an id could be told twice to be removed, the second
  time would destroy the proxy that has the id by then. Proxies have numbers of
  their own (`Numbered`), so that a listener left from an earlier proxy with
  the same id would show. From it follow `MapsMirrorLibrary`, `ServerAgrees`,
  `NewsOnTheWay` and type correctness, for any globals and any ids.
- `PodRoundtripProofs`, the writer: `IInv` gives, for every open serializer, the number of
  bytes from its header to where its innermost nested pod began, as the sum of
  what it has counted; from it come the truth of the headers, alignment, the
  reported length and that seeking leads back. The theorems are about a fresh
  writer and 8-byte pointers (`Fresh`), for the reasons given with the findings, and
  about streams shorter than `U32`: beyond that headers wrap, as said with the findings. `U32`,
  `Capacity` and the sizes of leaves and elements, 0 included, are arbitrary.

  The reader: its calls are compared with the writer's, which were made when the
  stack looked different, so the invariant has to remember. `RInv` says that there
  is a log `L`, a mark for each call of the writer with its stack and position
  before the call. Each frame of a mark is either still open, at the same place, or
  closed and ends where its header says; and each step of the log is what that call
  did (`Log`). The reader then stands at the mark of its next call (`Reading`): its scopes
  are the frames of that mark, and what remains of each ends where the frame ended
  (`Tracks`). An error needs an excuse: the input was cut, or the program asked for
  something else (`Excused`). Every step of the reader goes from its mark to the next, so
  no induction over pods is needed. From it follow `ReadsWhatWasWritten`,
  `ConsumesExactly` and `ScopesNested`, for any nesting and sizes, any cut and any
  visitor, again for a `Fresh` writer and streams below `U32`.
  Elements without bytes leave nothing that could be read: the log keeps the stack
  without their number (`Bare`, `Stack`), and an element of none is no step of it. What
  is read back is hence compared up to that number (`Seen`). A panic is accounted for
  like an error: a visitor, an `unwrap` or a division is to blame (`Panicking`).

  `ReaderEnds` is the half of `ReaderFinishes` that is in reach: every step makes
  `Left` smaller, which is a natural number. It counts three for each call of the writer that has not been
  read, one for each deserializer that is open, and what the innermost one does
  before it reads or is gone (`Awaiting`): a deserializer that is lent can only come
  back with something read, or fail. That the reader is never stuck before its end is
  a fact about `ENABLED` and stays with the run.

- `StreamBuffersProofs`: `BuffersTypeOK` and `ExactlyOnePlace` are inductive together; the
  argument goes by one buffer's row of `copies`, which every action either leaves
  alone, clears (`TakenInv`), or sets to one place (`RowSet`). That the place is
  in the buffer's own stream takes `AtHome` as well: no call is under way for another.
  The theorem assumes `~Mixed`, without which `BufferForeign` refutes it.
- `ListenersProofs`: that links match (`Ring`) is not enough to tell one ring from
  two, nor who comes before whom. `Inv` adds that the nodes can be ranked: the list
  least, growing along `next`, with nothing between a node and its next. Linking a
  node makes room in the ranks (`Shifted`), unlinking leaves them, and moving a
  cursor is the one after the other. An emission's cursor then ranks above whom it
  called and below whom it owes (`Ahead`), which gives `CalledWhileAlive` and
  `EveryoneServed` for any number of hooks and any depth. `OneRing` follows from the
  ranks too: a linked node that the head does not reach would have a predecessor
  that it does not reach either, of a lower rank.
- `LifetimesProofs`: that a handle's object is alive is not inductive, since its
  parent may be the one dropped. `Held` says exactly who has references: an object
  holds its parent, and only that, from when it is made until its drop is done,
  the time on the stack included. `Living` then follows the C object along: alive
  while there are references, dying only on the stack. From these come
  `HandlesAlive`, `ParentsAlive` and `NothingLeaks` for any number of objects and
  any order of drops.

- `ThreadLoopProofs`: `ClosureAlive` is not inductive, as the main thread may drop any
  source whose closure does not run. `Places` ties the owner of the lock to where the
  threads are, and where the loop's thread is to whether a closure runs; with it a
  main thread that is `Locked` meets no closure but one that lends. `Lending` says
  that there is at most one of these, and that it is awaited. From them
  `MutualExclusion`, `NoLostWakeup`, `ClosureAlive` and `LentUntilAccepted`, for any
  sources and any number of guards.
- `PodFramesProofs`: `HeadersWritten` is about finished pods, while a pop writes over
  a header that was there before. `Apart` says that it is never that of a finished
  pod, `Counting` that every open frame has counted to the offset, so that the length
  written is the right one, and `InReach` that builder and `Vec` agree on where and
  how long it is. For any sizes, nesting and number of moves.
  The readers go from header to header, which `Layout` justifies: the top level,
  each open frame and each finished pod are filled by their children, without a gap or
  an overlap, and a finished pod has counted them. `Stands` says that the parser is at the
  start of a pod or at the end of its frame, with `OpenedWithin`, that one that can go on
  is in structs only; `Yields` says where an iterator is. Hence `FramesNested`,
  `InStep` and `EachChildOnce`.

Only model-checked is liveness, which TLAPS does not prove: `SendReturns`, the
liveness half of `ImplementsMailbox`, `RoundtripReturns`, `ReaderFinishes` (but for
`ReaderEnds`), `CallsEnd`, `EventServed`, `StopReturns`, `MapsFollowServer`. Every
safety property of the passing runs is a theorem.

## 7. Not modelled

- The generated bindings of the C libraries (`bindings.rs` of `libspa-sys` and
  `pipewire-sys`) are 30,637 of the repository's 47,516 lines of Rust. They declare;
  they do nothing, and what they declare is code outside the repository. Tests,
  tables of keys, formats and types, and the examples other than `pw-mon` and the
  roundtrip make up much of the remainder.
- Dictionaries and properties: views of a C dictionary and calls that change one. One
  thread uses them, the borrow checker keeps changes and iteration apart, and the
  Rust side has no state of its own.
- Parameters and formats, permissions, errors, constants, directions: enumerations
  and calls of C functions.
- A stream's states and connection: the calls forward to the library, which decides
  on the states. What it does with a buffer that the program holds when the stream is
  disconnected cannot be read here (hazard at `stream.rs:249`).
- Closures that are freed while they run (hazard at `registry.rs:118`): what happens
  then is up to the closure and to what the library does after the call.
- Pods that no serializer of this crate writes (hazard at `deserialize.rs:482`): the
  reader is modelled against the writer, on what was written, whole or cut.
- The methods of node, port, link, device, client, factory, module and metadata, which
  forward to the server, and their info structures, which are views of the library's
  memory.
