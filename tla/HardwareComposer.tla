--------------------------- MODULE HardwareComposer ---------------------------
(***************************************************************************)
(* The display's side of one layer, and its composition with the layer's   *)
(* BufferQueue: ConsumerBase and BufferItemConsumer, which keep the buffer *)
(* of each slot that was acquired, HardwareComposer, which at every vsync  *)
(* releases and acquires a frame, and the layer's opening, closing and     *)
(* destruction.  The vsync thread and the threads that open and close      *)
(* layers exclude one another with Container::m_lock; the producer's       *)
(* thread excludes them only for as long as it holds core->mutex.          *)
(***************************************************************************)
EXTENDS BufferQueue

VARIABLES
    tracked,        \* ConsumerBase::slots: the buffer of each slot
    framebuffer,    \* the item that the layer's entry of m_framebuffers has acquired
    layer,          \* "open" (in the display's stack), "closed" or "destroyed"
    composing       \* ComposeLocked has released a frame and not yet acquired one

displayVars == <<tracked, framebuffer, layer, composing>>
vars == <<core, producer, overtaken, changes, displayVars>>

NoFramebuffer ==
    [acquired |-> FALSE, slot |-> NoSlot, buffer |-> NoBuffer, frame |-> 0]

Init ==
    /\ core = CoreInit
    /\ producer = [pc |-> "idle", slot |-> NoSlot]
    /\ overtaken = {}
    /\ changes = 0
    /\ tracked = [s \in Slots |-> NoBuffer]
    /\ framebuffer = NoFramebuffer
    /\ layer = "open"
    /\ composing = FALSE

-----------------------------------------------------------------------------
(* The producer's transactions.                                            *)

(* A GraphicBuffer is made at the first address to which nothing refers,   *)
(* if MaxBuffers leaves one.                                               *)
NewBuffers(s) ==
    LET unused == 1..MaxBuffers
                      \ ({core.slots[s].buffer, tracked[s]}
                         \cup {item.buffer : item \in {i \in Range(core.queue) : i.slot = s}}
                         \cup {framebuffer.buffer : x \in {framebuffer.slot} \cap {s}})
    IN  {b \in unused : \A x \in unused : b <= x}

Transact ==
    \/ DequeueBuffer
    \/ At("allocating") /\ \E b \in NewBuffers(producer.slot) : DequeueAllocated(b)
    \/ Connect \/ Disconnect
    \/ \E n \in 0..NUM_BUFFER_SLOTS : SetBufferCount(n)
    \/ \E s \in Slots :
          \/ RequestBuffer(s) \/ DetachBuffer(s) \/ CancelBuffer(s)
          \/ \E async \in BOOLEAN : QueueBuffer(s, async)
          \/ \E b \in NewBuffers(s), empty \in BOOLEAN : SetPreallocatedBuffer(s, b, empty)

(* OnBuffersReleased: ConsumerBase::mutex is held over the core's.         *)
OnBuffersReleased ==
    /\ At("released") /\ Idle
    /\ tracked' = IF layer = "destroyed"
                  THEN tracked
                  ELSE [s \in Slots |-> IF s \in ReleasedBuffers(core) THEN NoBuffer ELSE tracked[s]]
    /\ UNCHANGED <<core, overtaken, changes, framebuffer, layer, composing>>

-----------------------------------------------------------------------------
(* The display.                                                            *)

(* BufferItemConsumer::ReleaseBuffer of the framebuffer's item: nothing is *)
(* to be done if the slot no longer has the item's buffer.                 *)
ReleaseItem ==
    LET s == framebuffer.slot
    IN  IF tracked[s] # NoBuffer /\ tracked[s] = framebuffer.buffer
        THEN /\ core' = ReleaseBuffer(core, s, framebuffer.frame)
             /\ tracked' = IF ReleaseStatus(core, s, framebuffer.frame) = "StaleBufferSlot"
                           THEN [tracked EXCEPT ![s] = NoBuffer]
                           ELSE tracked
        ELSE UNCHANGED <<core, tracked>>

(* ComposeLocked begins with ReleaseFramebuffersLocked, which releases a   *)
(* frame that has been shown for its swap interval.  Until then composing  *)
(* changes nothing: the framebuffer stays acquired and is used again.      *)
ReleaseFramebuffer ==
    /\ layer = "open" /\ ~composing /\ framebuffer.acquired
    /\ ReleaseItem
    /\ framebuffer' = NoFramebuffer
    /\ composing' = TRUE
    /\ UNCHANGED <<producer, overtaken, changes, layer>>

(* The rest of ComposeLocked, CacheFramebufferLocked: after the release,   *)
(* or with nothing to release.                                             *)
CacheFramebuffer ==
    /\ composing \/ (layer = "open" /\ ~framebuffer.acquired)
    /\ composing' = FALSE
    /\ IF CanAcquire(core)
       THEN LET item == AcquiredItem(core)
                buffer == IF item.buffer # NoBuffer THEN item.buffer ELSE tracked[item.slot]
            IN  /\ core' = AcquireBuffer(core)
                /\ tracked' = [tracked EXCEPT ![item.slot] = buffer]
                /\ framebuffer' = [acquired |-> TRUE, slot |-> item.slot, buffer |-> buffer,
                                   frame |-> item.frame]
       ELSE UNCHANGED <<core, tracked, framebuffer>>
    /\ UNCHANGED <<producer, overtaken, changes, layer>>

(* RemoveLayerLocked, and the layer leaves the display's stack.            *)
CloseLayer ==
    /\ layer = "open" /\ ~composing
    /\ IF framebuffer.acquired THEN ReleaseItem ELSE UNCHANGED <<core, tracked>>
    /\ framebuffer' = NoFramebuffer
    /\ layer' = "closed"
    /\ UNCHANGED <<producer, overtaken, changes, composing>>

OpenLayer ==
    /\ layer = "closed"
    /\ layer' = "open"
    /\ UNCHANGED <<core, producer, overtaken, changes, tracked, framebuffer, composing>>

(* ConsumerBase::Abandon: a destroyed layer leaves the queue abandoned.    *)
(* When the display is shut down the layer is still open.                  *)
DestroyLayer ==
    /\ layer # "destroyed" /\ ~composing
    /\ layer' = "destroyed"
    /\ core' = ConsumerDisconnect(core)
    /\ tracked' = [s \in Slots |-> NoBuffer]
    /\ UNCHANGED <<producer, overtaken, changes, framebuffer, composing>>

-----------------------------------------------------------------------------

Next ==
    \/ Transact /\ UNCHANGED displayVars
    \/ DequeueWakes /\ UNCHANGED displayVars
    \/ OnBuffersReleased
    \/ ReleaseFramebuffer \/ CacheFramebuffer
    \/ CloseLayer \/ OpenLayer \/ DestroyLayer

Spec == Init /\ [][Next]_vars

(* The vsync thread composes again and again, a swap interval ends, and a  *)
(* producer that was notified runs.                                        *)
FairSpec ==
    /\ Spec
    /\ WF_vars(CacheFramebuffer) /\ WF_vars(ReleaseFramebuffer)
    /\ WF_vars(DequeueWakes /\ UNCHANGED displayVars)

-----------------------------------------------------------------------------
(* The types of the variables.                                             *)
TypeOK ==
    /\ producer \in [pc : {"idle", "waiting", "allocating", "released"}, slot : Slots \cup {NoSlot}]
    /\ \A s \in Slots : /\ core.slots[s].buffer \in 0..MaxBuffers
                        /\ core.slots[s].state \in {"Free", "Dequeued", "Queued", "Acquired"}
    /\ Len(core.queue) <= MaxFrames /\ core.override \in 0..NUM_BUFFER_SLOTS
    /\ tracked \in [Slots -> 0..MaxBuffers] /\ framebuffer.slot \in Slots \cup {NoSlot}
    /\ layer \in {"open", "closed", "destroyed"} /\ composing \in BOOLEAN
    /\ overtaken \subseteq {"frame", "slot"} /\ changes \in 0..MaxChanges

(* A frame has taken the front's place ahead of an older one of its own    *)
(* slot: both are in the queue, and the slot has only the newer one.       *)
Crossed == "slot" \in overtaken

(* No slot is lost, whatever calls reset or free slots while their frames  *)
(* are queued or shown: a slot is Queued exactly as long as one item that  *)
(* it still has is in the queue, and Acquired only while the composer      *)
(* holds its frame and is certain to release it.  The second is at an end  *)
(* once a frame has overtaken an older one of its own slot: ReleaseBuffer  *)
(* refuses the slot because of the older one, and it stays Acquired.       *)
SlotsAccounted ==
    /\ TypeOK
    /\ \A s \in Slots :
          LET items == {i \in DOMAIN core.queue :
                           core.queue[i].slot = s /\ StillTracking(core, core.queue[i])}
          IN  Cardinality(items) = IF core.slots[s].state = "Queued" THEN 1 ELSE 0
    /\ ~Crossed => \A s \in InState(core, "Acquired") :
          /\ framebuffer.acquired /\ framebuffer.slot = s
          /\ tracked[s] = framebuffer.buffer /\ core.slots[s].buffer = framebuffer.buffer
          /\ ReleaseStatus(core, s, framebuffer.frame) = "NoError"

(* The composer always has the buffer of the frame that it shows, though   *)
(* AcquireBuffer hands a buffer over only once and OnBuffersReleased makes *)
(* ConsumerBase forget buffers; and the guest does not own that buffer.    *)
(* Once a frame has overtaken an older one of its own slot, whose copy it  *)
(* takes in ConsumerBase, the older one may come without a buffer.         *)
ShownIntact ==
    framebuffer.acquired /\ ~Crossed =>
        /\ framebuffer.buffer # NoBuffer
        /\ core.slots[framebuffer.slot].state \in {"Dequeued", "Queued"} =>
              core.slots[framebuffer.slot].buffer # framebuffer.buffer

(* Frames are shown in the order in which QueueBuffer numbered them, each  *)
(* once: a queued frame is newer than those before it and than the shown   *)
(* one.  Only a frame that replaces a droppable front overtakes others;    *)
(* the frames behind the front are always in order.                        *)
FramesInOrder ==
    \A i \in DOMAIN core.queue :
        /\ core.queue[i].frame # framebuffer.frame
        /\ overtaken = {} => core.queue[i].frame > framebuffer.frame
        /\ \A j \in 1..i - 1 : IF j = 1 /\ overtaken # {}
                               THEN core.queue[i].frame # core.queue[j].frame
                               ELSE core.queue[i].frame > core.queue[j].frame

(* The producer does not sleep in DequeueBuffer for ever: it is woken for  *)
(* the frames that are acquired and released, and when the layer is        *)
(* destroyed, unless the layer stays closed, the guest itself owns all the *)
(* slots, or a slot was left Acquired because its frame overtook an older  *)
(* one of the slot.                                                        *)
DequeueReturns ==
    At("waiting") ~> \/ ~At("waiting")
                     \/ layer = "closed"
                     \/ 0..MaxBufferCount(core) - 1 \subseteq InState(core, "Dequeued")
                     \/ Crossed /\ ~framebuffer.acquired /\ InState(core, "Acquired") # {}
===============================================================================
