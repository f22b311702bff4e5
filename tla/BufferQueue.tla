----------------------------- MODULE BufferQueue -----------------------------
(***************************************************************************)
(* BufferQueueCore, BufferQueueProducer and BufferQueueConsumer: the slots *)
(* through which a guest's frames go to the display.  Every operation      *)
(* holds core->mutex; `core' is the BufferQueueCore, and an operation is   *)
(* an operator from one core to the next.  The producer is the service     *)
(* thread of the binder driver, which executes one transaction at a time:  *)
(* a DequeueBuffer that waits keeps it waiting.                            *)
(*                                                                         *)
(* A graphic buffer is a number, which stands for its address among the    *)
(* buffers of its slot: buffers are compared only with others of the slot. *)
(* A new one takes a number to which nothing refers any more.  Sizes,      *)
(* formats, fences, timestamps and the history are left out, and so is     *)
(* needs_cleanup_on_release: it is read only if the slot still has the     *)
(* frame number that its setting changes.  The consumer connects with      *)
(* controlled_by_app false, so that dequeue_buffer_cannot_block never      *)
(* holds, and composes without an expected time of presentation.           *)
(***************************************************************************)
EXTENDS Integers, Sequences, FiniteSets, FiniteSetsExt

CONSTANTS
    NUM_BUFFER_SLOTS,       \* the slots of a queue
    DefaultMaxBufferCount,  \* default_max_buffer_count
    MaxFrames,              \* bound: the frames that are queued
    MaxChanges,             \* bound: the calls that free, reset or resize slots
    MaxBuffers              \* bound: the buffers of a slot at a time

ASSUME BufferQueueAssumption ==
    /\ NUM_BUFFER_SLOTS \in Nat \ {0} /\ DefaultMaxBufferCount \in 1..NUM_BUFFER_SLOTS
    /\ {MaxFrames, MaxChanges, MaxBuffers} \subseteq Nat

VARIABLES
    core,                   \* the BufferQueueCore
    producer,               \* the producer's thread: where it is, and its slot
    overtaken,              \* history: what frames that took the front's place went ahead of
    changes                 \* the calls so far that free, reset or resize slots

Slots == 0..NUM_BUFFER_SLOTS - 1
NoSlot == -1
NoBuffer == 0
UINT32_MAX == MaxFrames + 1

EmptySlot ==
    [state |-> "Free", buffer |-> NoBuffer, frame |-> 0, requested |-> FALSE,
     acquireCalled |-> FALSE, preallocated |-> FALSE]

(* A new queue, to which the guest has connected.                          *)
CoreInit ==
    [slots |-> [s \in Slots |-> EmptySlot], queue |-> <<>>, override |-> 0, counter |-> 0,
     beenQueued |-> FALSE, connected |-> TRUE, abandoned |-> FALSE, possible |-> FALSE]

-----------------------------------------------------------------------------
(* BufferQueueCore.                                                        *)

SignalDequeueCondition(c) == [c EXCEPT !.possible = TRUE]

InState(c, st) == {s \in Slots : c.slots[s].state = st}

(* Without an override, a slot in use beyond the default raises the count. *)
MaxBufferCount(c) ==
    IF c.override # 0
    THEN c.override
    ELSE Max({DefaultMaxBufferCount}
             \cup {s + 1 : s \in InState(c, "Queued") \cup InState(c, "Dequeued")})

PreallocatedBufferCount(c) == Cardinality({s \in Slots : c.slots[s].preallocated})

FreeBuffers(c, freed) ==
    [c EXCEPT !.slots = [s \in Slots |->
        IF s \in freed
        THEN [@[s] EXCEPT !.buffer = NoBuffer, !.state = "Free", !.frame = UINT32_MAX, !.acquireCalled = FALSE]
        ELSE @[s]]]

FreeAllBuffers(c) == FreeBuffers([c EXCEPT !.beenQueued = FALSE], Slots)

StillTracking(c, item) ==
    c.slots[item.slot].buffer # NoBuffer /\ item.buffer = c.slots[item.slot].buffer

-----------------------------------------------------------------------------
(* BufferQueueProducer.                                                    *)

At(p) == producer.pc = p
GoTo(p, s) == producer' = [pc |-> p, slot |-> s]
Idle == GoTo("idle", NoSlot)

Change == changes < MaxChanges /\ changes' = changes + 1

RequestBuffer(s) ==
    /\ At("idle") /\ ~core.abandoned /\ core.slots[s].state = "Dequeued"
    /\ core' = [core EXCEPT !.slots[s].requested = TRUE]
    /\ UNCHANGED <<producer, overtaken, changes>>

(* The slots beyond the count lose their buffers.                          *)
Trimmed(c) ==
    FreeBuffers(c, {s \in MaxBufferCount(c)..NUM_BUFFER_SLOTS - 1 :
        c.slots[s].buffer # NoBuffer /\ c.slots[s].state = "Free" /\ ~c.slots[s].preallocated})

(* The free slots with the oldest frame; the first of them is found.       *)
FoundSlots(c) ==
    LET free == InState(c, "Free") \cap 0..MaxBufferCount(c) - 1
    IN  {s \in free : \A u \in free : c.slots[s].frame <= c.slots[u].frame}

TooManyDequeued(c) ==
    LET dequeued == Cardinality(InState(c, "Dequeued") \cap 0..MaxBufferCount(c) - 1)
    IN  \/ c.override = 0 /\ dequeued > 0
        \/ c.beenQueued /\ MaxBufferCount(c) - (dequeued + 1) < 0

MustWait(c) == FoundSlots(c) = {} \/ Len(c.queue) > MaxBufferCount(c)

(* The rest of DequeueBuffer's first critical section, with the slot that  *)
(* is found: a buffer that does not match what the guest asks for is       *)
(* dropped and has to be allocated.                                        *)
DequeueFound(c, s) ==
    \/ /\ c.slots[s].buffer # NoBuffer
       /\ core' = [c EXCEPT !.slots[s].state = "Dequeued"]
       /\ Idle /\ UNCHANGED changes
    \/ /\ core' = [c EXCEPT !.slots[s] = [@ EXCEPT !.state = "Dequeued", !.buffer = NoBuffer,
                                                  !.requested = FALSE, !.acquireCalled = FALSE]]
       /\ GoTo("allocating", s)
       /\ IF c.slots[s].buffer = NoBuffer THEN UNCHANGED changes ELSE Change

(* One turn of WaitForFreeSlotThenRelock's loop, and what follows it.      *)
DequeueTurn(c0) ==
    LET c == Trimmed(c0)
    IN  IF c0.abandoned
        THEN core' = c0 /\ Idle /\ UNCHANGED changes
        ELSE IF TooManyDequeued(c)
        THEN core' = c /\ Idle /\ UNCHANGED changes
        ELSE IF MustWait(c)
        THEN core' = c /\ GoTo("waiting", NoSlot) /\ UNCHANGED changes
        ELSE DequeueFound(c, Min(FoundSlots(c)))

DequeueBuffer == At("idle") /\ DequeueTurn(core) /\ UNCHANGED overtaken

(* WaitForDequeueCondition returns: the wake-up is used up.                *)
DequeueWakes ==
    /\ At("waiting") /\ core.possible
    /\ DequeueTurn([core EXCEPT !.possible = FALSE])
    /\ UNCHANGED overtaken

(* DequeueBuffer's second critical section.                                *)
DequeueAllocated(buffer) ==
    /\ At("allocating")
    /\ core' = IF core.abandoned
               THEN core
               ELSE [core EXCEPT !.slots[producer.slot] =
                         [@ EXCEPT !.frame = UINT32_MAX, !.buffer = buffer]]
    /\ Idle
    /\ UNCHANGED <<overtaken, changes>>

DetachBuffer(s) ==
    /\ At("idle") /\ ~core.abandoned
    /\ core.slots[s].state = "Dequeued" /\ core.slots[s].requested /\ Change
    /\ core' = SignalDequeueCondition(FreeBuffers(core, {s}))
    /\ UNCHANGED <<producer, overtaken>>

\* Mutant: the slot of the replaced item is not freed.
EnqueuedSlotKept(c, item) ==
    IF c.queue # <<>> /\ Head(c.queue).droppable
    THEN [c EXCEPT !.queue[1] = item]
    ELSE [c EXCEPT !.queue = Append(@, item)]

\* Mutant: the item goes to the front.
EnqueuedInFront(c, item) == [c EXCEPT !.queue = <<item>> \o @]

(* A droppable item at the front of the queue is replaced.                 *)
Enqueued(c, item) ==
    IF c.queue # <<>> /\ Head(c.queue).droppable
    THEN LET front == Head(c.queue)
         IN  [c EXCEPT !.queue[1] = item,
                       !.slots[front.slot] = IF StillTracking(c, front)
                                             THEN [@ EXCEPT !.state = "Free", !.frame = 0]
                                             ELSE @]
    ELSE [c EXCEPT !.queue = Append(@, item)]

(* What the frame of slot s goes ahead of, if it replaces the front: older *)
(* frames of other slots, and of its own, which the slot has lost.  No     *)
(* code reads it; the properties tell by it what the code can still        *)
(* promise.                                                                *)
Overtaken(s) ==
    IF core.queue # <<>> /\ Head(core.queue).droppable
    THEN {IF core.queue[i].slot = s THEN "slot" ELSE "frame" : i \in 2..Len(core.queue)}
    ELSE {}

(* async is an input of every call.                                        *)
QueueBuffer(s, async) ==
    /\ At("idle") /\ ~core.abandoned /\ core.counter < MaxFrames
    /\ s < MaxBufferCount(core)
    /\ core.slots[s].state = "Dequeued" /\ core.slots[s].requested
    /\ LET n == core.counter + 1
           c == [core EXCEPT !.counter = n, !.beenQueued = TRUE,
                             !.slots[s] = [@ EXCEPT !.state = "Queued", !.frame = n]]
       IN  core' = SignalDequeueCondition(Enqueued(c,
                       [slot |-> s, buffer |-> c.slots[s].buffer, frame |-> n, droppable |-> async,
                        acquireCalled |-> c.slots[s].acquireCalled]))
    /\ overtaken' = overtaken \cup Overtaken(s)
    /\ UNCHANGED <<producer, changes>>

CancelBuffer(s) ==
    /\ At("idle") /\ ~core.abandoned /\ core.slots[s].state = "Dequeued" /\ Change
    /\ core' = SignalDequeueCondition(
                   [core EXCEPT !.slots[s].state = "Free", !.slots[s].frame = 0])
    /\ UNCHANGED <<producer, overtaken>>

Connect ==
    /\ At("idle") /\ ~core.abandoned /\ ~core.connected
    /\ core' = [core EXCEPT !.connected = TRUE, !.beenQueued = FALSE]
    /\ UNCHANGED <<producer, overtaken, changes>>

(* The consumer's listener is called once the mutex is released.           *)
Disconnect ==
    /\ At("idle") /\ ~core.abandoned /\ core.connected /\ Change
    /\ core' = SignalDequeueCondition(
                   FreeAllBuffers([core EXCEPT !.queue = <<>>, !.connected = FALSE]))
    /\ GoTo("released", NoSlot)
    /\ UNCHANGED overtaken

SetBufferCount(n) ==
    /\ At("idle") /\ ~core.abandoned /\ InState(core, "Dequeued") = {} /\ Change
    /\ core' = SignalDequeueCondition([
                   (IF n = 0 \/ PreallocatedBufferCount(core) > 0
                    THEN core ELSE FreeAllBuffers(core)) EXCEPT !.override = n])
    /\ IF n = 0 THEN UNCHANGED producer ELSE GoTo("released", NoSlot)
    /\ UNCHANGED overtaken

(* The slot is reset whatever its state, and its item stays in the queue.  *)
(* An empty NvGraphicBuffer still makes a GraphicBuffer.                   *)
SetPreallocatedBuffer(s, buffer, empty) ==
    /\ At("idle") /\ Change
    /\ LET c == [core EXCEPT !.slots[s] = [EmptySlot EXCEPT !.buffer = buffer,
                                                            !.preallocated = ~empty]]
       IN  core' = SignalDequeueCondition(
                       IF empty THEN c ELSE [c EXCEPT !.override = PreallocatedBufferCount(c)])
    /\ UNCHANGED <<producer, overtaken>>

-----------------------------------------------------------------------------
(* BufferQueueConsumer; max_acquired_buffer_count is zero.                 *)

CanAcquire(c) == InState(c, "Acquired") = {} /\ c.queue # <<>>

(* The item that AcquireBuffer returns: its buffer only the first time.    *)
AcquiredItem(c) ==
    [Head(c.queue) EXCEPT !.buffer = IF Head(c.queue).acquireCalled THEN NoBuffer ELSE @]

AcquireBuffer(c) ==
    LET front == Head(c.queue)
    IN  SignalDequeueCondition(
            [c EXCEPT !.queue = Tail(@),
                      !.slots[front.slot] = IF StillTracking(c, front)
                                            THEN [@ EXCEPT !.state = "Acquired",
                                                           !.acquireCalled = TRUE]
                                            ELSE @])

ReleaseStatus(c, s, frame) ==
    IF frame # c.slots[s].frame
    THEN "StaleBufferSlot"
    ELSE IF c.slots[s].state = "Acquired" /\ \A i \in DOMAIN c.queue : c.queue[i].slot # s
         THEN "NoError"
         ELSE "BadValue"

\* Mutant: the waiting producer is not woken.
ReleaseWithoutSignal(c, s, frame) ==
    IF ReleaseStatus(c, s, frame) = "NoError" THEN [c EXCEPT !.slots[s].state = "Free"] ELSE c

ReleaseBuffer(c, s, frame) ==
    IF ReleaseStatus(c, s, frame) = "NoError"
    THEN SignalDequeueCondition([c EXCEPT !.slots[s].state = "Free"])
    ELSE c

ConsumerDisconnect(c) ==
    SignalDequeueCondition(FreeAllBuffers([c EXCEPT !.abandoned = TRUE, !.queue = <<>>]))

\* Mutant: the buffers of queued items are not kept.
ReleasedQueuedToo(c) == {s \in Slots : ~c.slots[s].acquireCalled}

(* The slots whose buffer the consumer is to forget; it keeps the buffer   *)
(* of a queued item that will come without it.                             *)
ReleasedBuffers(c) ==
    {s \in Slots : ~c.slots[s].acquireCalled}
        \ {c.queue[i].slot : i \in {j \in DOMAIN c.queue : c.queue[j].acquireCalled}}
==============================================================================
