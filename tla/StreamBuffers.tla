---------------------------- MODULE StreamBuffers ----------------------------
(***************************************************************************)
(* pipewire/src/buffer.rs, the buffer methods of stream.rs and the futures *)
(* of libspa/src/buffer/meta.rs.  A Buffer queues itself when it is        *)
(* dropped; the async methods keep one across an await.  Streams belong to *)
(* one thread, so a step is a call, a poll or a drop.  Which buffer a      *)
(* stream hands out next is left open.                                     *)
(***************************************************************************)
EXTENDS Integers

CONSTANTS
  Streams, Buffers,
  Home,       \* the stream that allocated each buffer
  WithMeta,   \* buffers that carry sync timeline metadata
  WithFds,    \* buffers with two valid syncobj file descriptors
  Mixed,      \* the program gives buffers to the methods of any stream
  Width       \* 2^64: the two words an Arc would have in front of its data

ASSUME BuffersAssumption ==
  /\ Home \in [Buffers -> Streams]
  /\ WithMeta \subseteq Buffers /\ WithFds \subseteq Buffers
  /\ Mixed \in BOOLEAN
  /\ Width \in Nat /\ Width > 1

Places == Streams \X {"free", "queued"}
Word == 0..Width - 1

VARIABLES
  copies,      \* how often each buffer is in each queue of each stream
  held,        \* what the program has of each buffer: "none", a "buffer", a
               \* "raw" pointer, or the future of a call: "waiting" in
               \* dequeue_buffer_with_sync, "queueing", "customising"
  via,         \* the stream whose queueing method was called
  late,        \* five seconds have passed since the wait began
  point,       \* acquire_point: 0, or the point the producer will signal
  signalled,   \* that point has been signalled on the timeline
  strong, weak, \* the words in front of the metadata, as Arc counts
  alive        \* the process has not been aborted

calls == <<held, via, late>>
timeline == <<point, signalled>>
memory == <<strong, weak, alive>>
bufferVars == <<copies, calls, timeline, memory>>

\* What precedes the metadata in the C library's memory is arbitrary.
BuffersInit ==
  /\ copies = [b \in Buffers |-> [p \in Places |-> IF p = <<Home[b], "free">> THEN 1 ELSE 0]]
  /\ held = [b \in Buffers |-> "none"]
  /\ via = Home
  /\ late = [b \in Buffers |-> FALSE]
  /\ point \in [Buffers -> {0, 1}]
  /\ signalled = [b \in Buffers |-> FALSE]
  /\ strong \in [Buffers -> Word] /\ weak \in [Buffers -> Word]
  /\ alive = TRUE

\* Buffers with which sync_dma_buf is called.
Synced == WithMeta \cap WithFds

Become(b, state) == held' = [held EXCEPT ![b] = state]

\* queue_raw_buffer
Queue(s, b) == copies' = [copies EXCEPT ![b][<<s, "queued">>] = @ + 1]

\* Drop for Buffer
DropBuffer(b) == Queue(Home[b], b)

\* Drop of the Arc made from the metadata's address.  Freeing memory that no
\* Rust allocator gave out aborts, or is not noticed.
DropTimeline(b) ==
  LET last == strong[b] = 1
  IN  /\ strong' = [strong EXCEPT ![b] = (@ - 1) % Width]
      /\ weak' = IF last THEN [weak EXCEPT ![b] = (@ - 1) % Width] ELSE weak
      /\ alive' \in IF last /\ weak[b] = 1 THEN BOOLEAN ELSE {alive}

------------------------------------------------------------------------------
(* Dequeueing *)

\* The stream may have no buffer to give: then nothing happens.
DequeueAs(b, state) ==
  /\ alive
  /\ \E s \in Streams :
       /\ copies[b][<<s, "free">>] > 0
       /\ copies' = [copies EXCEPT ![b][<<s, "free">>] = @ - 1]
  /\ Become(b, state)
  /\ UNCHANGED <<via, timeline, memory>>

Dequeue(b) == DequeueAs(b, "buffer") /\ UNCHANGED late
DequeueRaw(b) == DequeueAs(b, "raw") /\ UNCHANGED late

\* dequeue_buffer_with_sync up to the wait.
DequeueWithSync(b) ==
  /\ DequeueAs(b, IF b \in WithMeta THEN "waiting" ELSE "buffer")
  /\ late' = [late EXCEPT ![b] = FALSE]

TimePasses(b) ==
  /\ alive /\ held[b] = "waiting" /\ ~late[b]
  /\ late' = [late EXCEPT ![b] = TRUE]
  /\ UNCHANGED <<copies, held, via, timeline, memory>>

\* SyncFuture::poll.  It never looks at the timeline; a point other than 0
\* stays pending, and wakes its task, until the time limit.
Obtain(b) ==
  /\ alive /\ held[b] = "waiting" /\ ~late[b] /\ point[b] = 0
  /\ DropTimeline(b)
  /\ Become(b, "buffer")
  /\ UNCHANGED <<copies, via, late, timeline>>

\* Mutant: a wait for a point has no time limit.
TimesOutNever(b) ==
  /\ alive /\ held[b] = "waiting" /\ late[b] /\ point[b] = 0
  /\ DropTimeline(b) /\ DropBuffer(b)
  /\ Become(b, "none")
  /\ UNCHANGED <<via, late, timeline>>

\* The error goes to the caller and the buffer back to the stream.
TimesOut(b) ==
  /\ alive /\ held[b] = "waiting" /\ late[b]
  /\ DropTimeline(b) /\ DropBuffer(b)
  /\ Become(b, "none")
  /\ UNCHANGED <<via, late, timeline>>

------------------------------------------------------------------------------
(* Giving a buffer back *)

Drop(b) ==
  /\ alive /\ held[b] = "buffer"
  /\ DropBuffer(b)
  /\ Become(b, "none")
  /\ UNCHANGED <<via, late, timeline, memory>>

\* The caller keeps the contract: the pointer came from this stream.
QueueRaw(b) ==
  /\ alive /\ held[b] = "raw"
  /\ Queue(Home[b], b)
  /\ Become(b, "none")
  /\ UNCHANGED <<via, late, timeline, memory>>

\* queue_buffer_with_sync and queue_buffer_with_custom_sync take a buffer of
\* any stream, if a program passes one, and do nothing before they are polled.
Call(b, s, method) ==
  /\ alive /\ held[b] = "buffer"
  /\ Mixed \/ s = Home[b]
  /\ Become(b, method)
  /\ via' = [via EXCEPT ![b] = s]
  /\ UNCHANGED <<copies, late, timeline, memory>>

\* Mutant: into_raw lets the buffer be dropped as well.
QueueSyncedTwice(b) ==
  /\ alive /\ held[b] = "queueing"
  /\ copies' = [copies EXCEPT ![b][<<via[b], "queued">>] = @ + 1,
                              ![b][<<Home[b], "queued">>] = @ + 1]
  /\ Become(b, "none")
  /\ IF b \in WithMeta THEN DropTimeline(b) ELSE UNCHANGED memory
  /\ UNCHANGED <<via, late, timeline>>

\* sync_dma_buf looks at the file descriptors only, which get_sync_fds has
\* found valid; without them it is left out.
QueueSynced(b) ==
  /\ alive /\ held[b] = "queueing"
  /\ Queue(via[b], b)
  /\ Become(b, "none")
  /\ IF b \in WithMeta THEN DropTimeline(b) ELSE UNCHANGED memory
  /\ UNCHANGED <<via, late, timeline>>

\* The thread was held up for five seconds between new and poll.
QueueSyncFails(b) ==
  /\ alive /\ held[b] = "queueing" /\ b \in Synced
  /\ DropTimeline(b) /\ DropBuffer(b)
  /\ Become(b, "none")
  /\ UNCHANGED <<via, late, timeline>>

\* Arc::get_mut
Unique(b) == strong[b] = 1 /\ weak[b] = 1

QueueCustom(b) ==
  /\ alive /\ held[b] = "customising"
  /\ Queue(via[b], b)
  /\ Become(b, "none")
  /\ \/ b \notin WithMeta /\ UNCHANGED <<timeline, memory>>
     \/ b \in WithMeta /\ Unique(b)
        /\ DropTimeline(b)
        /\ \E p \in {0, 1} : point' = [point EXCEPT ![b] = p]
        /\ UNCHANGED signalled
  /\ UNCHANGED <<via, late>>

\* set_acquire_point fails before anything is written ...
CustomRefused(b) ==
  /\ alive /\ held[b] = "customising" /\ b \in WithMeta /\ ~Unique(b)
  /\ DropTimeline(b) /\ DropBuffer(b)
  /\ Become(b, "none")
  /\ UNCHANGED <<via, late, timeline>>

\* ... and sync_dma_buf, held up, after that.
CustomSyncFails(b) ==
  /\ alive /\ held[b] = "customising" /\ b \in Synced /\ Unique(b)
  /\ DropTimeline(b) /\ DropBuffer(b)
  /\ Become(b, "none")
  /\ \E p \in {0, 1} : point' = [point EXCEPT ![b] = p]
  /\ UNCHANGED <<via, late, signalled>>

\* A future is dropped: one that was polled has the timeline too.
Cancel(b) ==
  /\ alive /\ held[b] \in {"waiting", "queueing", "customising"}
  /\ DropBuffer(b)
  /\ Become(b, "none")
  /\ IF held[b] = "waiting" THEN DropTimeline(b) ELSE UNCHANGED memory
  /\ UNCHANGED <<via, late, timeline>>

------------------------------------------------------------------------------
(* The library and the other side of the stream *)

\* A queued buffer is used and comes back, with another acquire point.
Cycle(b) ==
  /\ alive
  /\ copies[b][<<Home[b], "queued">>] > 0
  /\ copies' = [copies EXCEPT ![b][<<Home[b], "queued">>] = @ - 1,
                              ![b][<<Home[b], "free">>] = @ + 1]
  /\ \E p \in {0, 1} : point' = [point EXCEPT ![b] = p]
  /\ signalled' = [signalled EXCEPT ![b] = FALSE]
  /\ UNCHANGED <<calls, memory>>

Signal(b) ==
  /\ alive /\ ~signalled[b]
  /\ signalled' = [signalled EXCEPT ![b] = TRUE]
  /\ UNCHANGED <<copies, calls, point, memory>>

------------------------------------------------------------------------------
Poll(b) == \/ Obtain(b) \/ TimesOut(b)
           \/ QueueSynced(b) \/ QueueSyncFails(b)
           \/ QueueCustom(b) \/ CustomRefused(b) \/ CustomSyncFails(b)

BuffersNext == \E b \in Buffers :
  \/ Dequeue(b) \/ DequeueRaw(b) \/ DequeueWithSync(b)
  \/ TimePasses(b) \/ Poll(b) \/ Cancel(b)
  \/ Drop(b) \/ QueueRaw(b)
  \/ \E s \in Streams, method \in {"queueing", "customising"} : Call(b, s, method)
  \/ Cycle(b) \/ Signal(b)

\* Calls are awaited by an executor that polls tasks that woke themselves, and
\* clocks go on.  Nobody has to take or drop a buffer, the driver need not signal.
BuffersFairness ==
  \A b \in Buffers : WF_bufferVars(Poll(b)) /\ WF_bufferVars(TimePasses(b))

BuffersSpec == BuffersInit /\ [][BuffersNext]_bufferVars
BuffersFairSpec == BuffersSpec /\ BuffersFairness

------------------------------------------------------------------------------
(* Properties *)

InCall == {"waiting", "queueing", "customising"}

\* The shape of the state.
BuffersTypeOK ==
  /\ copies \in [Buffers -> [Places -> Nat]]
  /\ held \in [Buffers -> InCall \cup {"none", "buffer", "raw"}]
  /\ via \in [Buffers -> Streams]
  /\ late \in [Buffers -> BOOLEAN]
  /\ point \in [Buffers -> {0, 1}] /\ signalled \in [Buffers -> BOOLEAN]
  /\ strong \in [Buffers -> Word] /\ weak \in [Buffers -> Word]
  /\ alive \in BOOLEAN

Nowhere == [p \in Places |-> 0]
OnlyAt(place) == [p \in Places |-> IF p = place THEN 1 ELSE 0]

\* A buffer is with the program or in one queue of the stream that owns it,
\* once: calls that succeed, fail, time out or are cancelled at any await queue
\* it exactly once, and none is lost to a future that was dropped.
ExactlyOnePlace ==
  \A b \in Buffers :
    IF held[b] = "none"
    THEN \E queue \in {"free", "queued"} : copies[b] = OnlyAt(<<Home[b], queue>>)
    ELSE copies[b] = Nowhere

\* queue_buffer_with_sync gives a buffer back when its acquire point has been
\* signalled, or when there was none to wait for.
QueuedWhenReady ==
  [][\A b \in Synced : QueueSynced(b) => point[b] = 0 \/ signalled[b]]_bufferVars

\* Every call ends, whether or not the producer ever signals its point.
CallsEnd == \A b \in Buffers : held[b] \in InCall ~> held[b] \notin InCall \/ ~alive

\* The memory in front of the metadata, which no Arc owns, is left alone.
MemoryLeftAlone == [][UNCHANGED <<strong, weak>>]_bufferVars
==============================================================================
