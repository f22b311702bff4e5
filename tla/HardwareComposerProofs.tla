------------------------ MODULE HardwareComposerProofs ------------------------
(***************************************************************************)
(* For every number of slots, of frames and of calls that change the       *)
(* slots: no slot is lost, the shown buffer stays whole, and the frames    *)
(* are shown in order, as far as no frame has overtaken others.  The       *)
(* argument is about the items that are in the queue.  Of the items of a   *)
(* slot at most one has the slot's buffer, and the slot is Queued if one   *)
(* has.  Unless a frame has overtaken an older one of its own slot, that   *)
(* item is the last one of its slot, so that a slot that is acquired has   *)
(* none left in the queue; an item that was queued without its buffer,     *)
(* because the consumer has seen it, is the only one of its slot, and the  *)
(* consumer keeps its copy until the item comes.                           *)
(***************************************************************************)
EXTENDS HardwareComposer, TLAPS

States == {"Free", "Dequeued", "Queued", "Acquired"}

Items == [slot : Slots, buffer : 1..MaxBuffers, frame : Nat, droppable : BOOLEAN,
          acquireCalled : BOOLEAN]

SlotRecords == [state : States, buffer : 0..MaxBuffers, frame : Nat, requested : BOOLEAN,
                acquireCalled : BOOLEAN, preallocated : BOOLEAN]

CoreRecords ==
    [slots : [Slots -> SlotRecords], queue : Seq(Items), override : 0..NUM_BUFFER_SLOTS,
     counter : 0..MaxFrames, beenQueued : BOOLEAN, connected : BOOLEAN, abandoned : BOOLEAN,
     possible : BOOLEAN]

(* The types, with those of the records' fields.                           *)
CoreType ==
    /\ core \in CoreRecords
    /\ producer \in [pc : {"idle", "waiting", "allocating", "released"}, slot : Slots \cup {NoSlot}]
    /\ overtaken \subseteq {"frame", "slot"} /\ changes \in 0..MaxChanges

DisplayType ==
    /\ tracked \in [Slots -> 0..MaxBuffers]
    /\ framebuffer \in [acquired : BOOLEAN, slot : Slots \cup {NoSlot}, buffer : 0..MaxBuffers,
                        frame : Nat]
    /\ framebuffer.acquired => framebuffer.slot \in Slots
    /\ layer \in {"open", "closed", "destroyed"} /\ composing \in BOOLEAN

(* Every frame is in one place.  The frames behind the front are in order, *)
(* and with the front and the shown frame as long as none was overtaken.   *)
QueueInv ==
    /\ \A i, j \in DOMAIN core.queue : i < j =>
          /\ core.queue[i].frame # core.queue[j].frame
          /\ 1 < i \/ overtaken = {} => core.queue[i].frame < core.queue[j].frame
    /\ \A i \in DOMAIN core.queue :
          /\ 0 < core.queue[i].frame /\ core.queue[i].frame <= core.counter
          /\ framebuffer.frame # core.queue[i].frame
          /\ overtaken = {} => framebuffer.frame < core.queue[i].frame
    /\ framebuffer.frame <= core.counter /\ Len(core.queue) <= core.counter

(* The slot still has the buffer of the queue's i-th item.                 *)
Tracks(i) == core.slots[core.queue[i].slot].buffer = core.queue[i].buffer

(* The items and the slots of which they are.                              *)
ItemInv ==
    /\ \A i \in DOMAIN core.queue : Tracks(i) =>
          /\ core.slots[core.queue[i].slot].state = "Queued"
          /\ core.slots[core.queue[i].slot].frame = core.queue[i].frame
    /\ \A s \in Slots : core.slots[s].state = "Queued" =>
          \E i \in DOMAIN core.queue : core.queue[i].slot = s /\ Tracks(i)

(* An item of which the slot has the buffer is the slot's last one.        *)
LastInv ==
    \A i, j \in DOMAIN core.queue :
        Tracks(i) /\ i < j => core.queue[j].slot # core.queue[i].slot

(* The consumer's copies: of a buffer that it has seen, of an item that    *)
(* comes without its buffer.                                               *)
CopyInv ==
    /\ \A s \in Slots : core.slots[s].acquireCalled =>
          /\ core.slots[s].buffer # NoBuffer /\ tracked[s] = core.slots[s].buffer
          /\ \A i \in DOMAIN core.queue : core.queue[i].slot = s => Tracks(i)
    /\ \A i \in DOMAIN core.queue : core.queue[i].acquireCalled =>
          /\ tracked[core.queue[i].slot] = core.queue[i].buffer
          /\ \A j \in DOMAIN core.queue : j < i => core.queue[j].slot # core.queue[i].slot
          /\ framebuffer.acquired => framebuffer.slot # core.queue[i].slot

(* The shown frame and its slot.                                           *)
ShownInv ==
    /\ framebuffer.acquired =>
          /\ framebuffer.buffer # NoBuffer
          /\ core.slots[framebuffer.slot].buffer = framebuffer.buffer =>
                core.slots[framebuffer.slot].state = "Acquired"
          /\ core.slots[framebuffer.slot].acquireCalled =>
                core.slots[framebuffer.slot].state = "Acquired"
    /\ \A s \in Slots : core.slots[s].state = "Acquired" =>
          /\ core.slots[s].acquireCalled
          /\ framebuffer.acquired /\ framebuffer.slot = s
          /\ core.slots[s].buffer = framebuffer.buffer /\ core.slots[s].frame = framebuffer.frame
          /\ \A i \in DOMAIN core.queue : core.queue[i].slot # s
    /\ composing => ~framebuffer.acquired

(* The producer: the guest owns a slot without a buffer only while it is   *)
(* allocated.                                                              *)
ProducerInv ==
    /\ \A s \in Slots : core.slots[s].state = "Dequeued" /\ core.slots[s].buffer = NoBuffer =>
          At("allocating") /\ producer.slot = s
    /\ At("allocating") /\ ~core.abandoned =>
          /\ producer.slot \in Slots
          /\ core.slots[producer.slot].state = "Dequeued"
          /\ core.slots[producer.slot].buffer = NoBuffer
          /\ ~core.slots[producer.slot].acquireCalled
    /\ core.abandoned => \A s \in Slots : core.slots[s].state = "Free"

(* What holds until a frame overtakes an older one of its own slot.        *)
CleanInv == LastInv /\ CopyInv /\ ShownInv

DisplayInv ==
    /\ CoreType /\ DisplayType /\ QueueInv /\ ItemInv /\ ProducerInv
    /\ ~Crossed => CleanInv

-----------------------------------------------------------------------------
(* Facts about the operators.                                              *)

(* A queue without its front.                                              *)
LEMMA TailFacts ==
    ASSUME NEW q \in Seq(Items), q # <<>>
    PROVE  /\ Len(q) \in Nat /\ Len(q) >= 1 /\ DOMAIN q = 1..Len(q)
           /\ Head(q) = q[1] /\ q[1] \in Items
           /\ Tail(q) \in Seq(Items) /\ Len(Tail(q)) = Len(q) - 1
           /\ \A i \in 1..Len(q) - 1 : Tail(q)[i] = q[i + 1]
OBVIOUS

(* A queue with another item in one place.                                 *)
LEMMA ReplacedFacts ==
    ASSUME NEW q \in Seq(Items), NEW i \in 1..Len(q), NEW e \in Items
    PROVE  /\ [q EXCEPT ![i] = e] \in Seq(Items) /\ Len([q EXCEPT ![i] = e]) = Len(q)
           /\ \A j \in 1..Len(q) : [q EXCEPT ![i] = e][j] = IF j = i THEN e ELSE q[j]
OBVIOUS

(* The fields of the records, with their types.                            *)
LEMMA FieldTypes ==
    ASSUME CoreType, DisplayType
    PROVE  /\ \A s \in Slots : /\ core.slots[s].state \in States
                               /\ core.slots[s].buffer \in 0..MaxBuffers
                               /\ core.slots[s].frame \in Nat
                               /\ core.slots[s].acquireCalled \in BOOLEAN
           /\ core.queue \in Seq(Items) /\ core.counter \in 0..MaxFrames
           /\ Len(core.queue) \in Nat /\ DOMAIN core.queue = 1..Len(core.queue)
           /\ \A i \in DOMAIN core.queue : /\ core.queue[i].slot \in Slots
                                           /\ core.queue[i].buffer \in 1..MaxBuffers
                                           /\ core.queue[i].frame \in Nat
                                           /\ core.queue[i].acquireCalled \in BOOLEAN
           /\ framebuffer.slot \in Slots \cup {NoSlot} /\ framebuffer.buffer \in 0..MaxBuffers
           /\ framebuffer.frame \in Nat /\ framebuffer.acquired \in BOOLEAN
           /\ \A s \in Slots : tracked[s] \in 0..MaxBuffers
<1>1. core.queue \in Seq(Items) /\ core.counter \in 0..MaxFrames
  BY Zenon DEF CoreType, CoreRecords
<1>2. \A i \in DOMAIN core.queue : core.queue[i] \in Items
  BY <1>1
<1>3. \A s \in Slots : core.slots[s] \in SlotRecords
  BY Zenon DEF CoreType, CoreRecords
<1>4. Len(core.queue) \in Nat /\ DOMAIN core.queue = 1..Len(core.queue)
  BY <1>1
<1>5. /\ framebuffer.slot \in Slots \cup {NoSlot} /\ framebuffer.buffer \in 0..MaxBuffers
      /\ framebuffer.frame \in Nat /\ framebuffer.acquired \in BOOLEAN
      /\ \A s \in Slots : tracked[s] \in 0..MaxBuffers
  BY Zenon DEF DisplayType
<1>6. \A i \in DOMAIN core.queue : /\ core.queue[i].slot \in Slots
                                   /\ core.queue[i].buffer \in 1..MaxBuffers
                                   /\ core.queue[i].frame \in Nat
                                   /\ core.queue[i].acquireCalled \in BOOLEAN
  BY <1>2, Zenon DEF Items
<1>7. \A s \in Slots : /\ core.slots[s].state \in States
                       /\ core.slots[s].buffer \in 0..MaxBuffers
                       /\ core.slots[s].frame \in Nat
                       /\ core.slots[s].acquireCalled \in BOOLEAN
  BY <1>3, Zenon DEF SlotRecords
<1> QED  BY <1>1, <1>4, <1>5, <1>6, <1>7, Zenon

(* FreeBuffers, and what Trimmed frees of the slots.                       *)
LEMMA FreeBuffersFacts ==
    ASSUME NEW c \in CoreRecords, NEW freed
    PROVE  /\ FreeBuffers(c, freed) \in CoreRecords
           /\ FreeBuffers(c, freed).queue = c.queue
           /\ FreeBuffers(c, freed).counter = c.counter
           /\ FreeBuffers(c, freed).abandoned = c.abandoned
           /\ \A s \in Slots : s \notin freed => FreeBuffers(c, freed).slots[s] = c.slots[s]
           /\ \A s \in Slots : s \in freed =>
                 /\ FreeBuffers(c, freed).slots[s].state = "Free"
                 /\ FreeBuffers(c, freed).slots[s].buffer = NoBuffer
                 /\ FreeBuffers(c, freed).slots[s].acquireCalled = FALSE
<1> DEFINE New(s) == IF s \in freed
                     THEN [c.slots[s] EXCEPT !.buffer = NoBuffer, !.state = "Free",
                                             !.frame = UINT32_MAX, !.acquireCalled = FALSE]
                     ELSE c.slots[s]
<1>1. FreeBuffers(c, freed) = [c EXCEPT !.slots = [s \in Slots |-> New(s)]]
  BY Zenon DEF FreeBuffers
<1>2. \A s \in Slots : c.slots[s] \in SlotRecords
  BY Zenon DEF CoreRecords
<1>3. UINT32_MAX \in Nat /\ NoBuffer \in 0..MaxBuffers
  BY BufferQueueAssumption DEF UINT32_MAX, NoBuffer
<1>4. \A s \in Slots : s \in freed =>
         /\ New(s) \in SlotRecords /\ New(s).state = "Free" /\ New(s).buffer = NoBuffer
         /\ New(s).acquireCalled = FALSE
  <2> TAKE s \in Slots
  <2> HAVE s \in freed
  <2>1. New(s) = [c.slots[s] EXCEPT !.buffer = NoBuffer, !.state = "Free",
                                    !.frame = UINT32_MAX, !.acquireCalled = FALSE]
    BY Zenon
  <2> QED  BY <1>2, <1>3, <2>1, ZenonT(20) DEF SlotRecords, States
<1>5. \A s \in Slots : s \notin freed => New(s) = c.slots[s]
  BY Zenon
<1> HIDE DEF New
<1>6. [s \in Slots |-> New(s)] \in [Slots -> SlotRecords]
  BY <1>2, <1>4, <1>5, Zenon
<1>7. FreeBuffers(c, freed) \in CoreRecords
  BY <1>1, <1>6, Zenon DEF CoreRecords
<1>8. FreeBuffers(c, freed).slots = [s \in Slots |-> New(s)]
  BY <1>1, Zenon DEF CoreRecords
<1>9. /\ FreeBuffers(c, freed).queue = c.queue
      /\ FreeBuffers(c, freed).counter = c.counter
      /\ FreeBuffers(c, freed).abandoned = c.abandoned
  BY <1>1, Zenon DEF CoreRecords
<1>10. \A s \in Slots : FreeBuffers(c, freed).slots[s] = New(s)
  BY <1>8, Zenon
<1> QED  BY <1>4, <1>5, <1>7, <1>9, <1>10, Zenon

(* The slots beyond the count that lose their buffers are free ones.       *)
LEMMA TrimmedFacts ==
    ASSUME NEW c \in CoreRecords
    PROVE  /\ Trimmed(c) \in CoreRecords
           /\ Trimmed(c).queue = c.queue
           /\ Trimmed(c).counter = c.counter
           /\ Trimmed(c).abandoned = c.abandoned
           /\ \A s \in Slots :
                 \/ Trimmed(c).slots[s] = c.slots[s]
                 \/ /\ c.slots[s].state = "Free" /\ Trimmed(c).slots[s].state = "Free"
                    /\ Trimmed(c).slots[s].buffer = NoBuffer
                    /\ Trimmed(c).slots[s].acquireCalled = FALSE
<1> DEFINE freed == {s \in MaxBufferCount(c)..NUM_BUFFER_SLOTS - 1 :
                c.slots[s].buffer # NoBuffer /\ c.slots[s].state = "Free" /\ ~c.slots[s].preallocated}
<1>1. Trimmed(c) = FreeBuffers(c, freed)
  BY Zenon DEF Trimmed
<1>2. \A s \in Slots : s \in freed => c.slots[s].state = "Free"
  BY Zenon
<1> HIDE DEF freed
<1>3. /\ FreeBuffers(c, freed) \in CoreRecords
      /\ FreeBuffers(c, freed).queue = c.queue
      /\ FreeBuffers(c, freed).counter = c.counter
      /\ FreeBuffers(c, freed).abandoned = c.abandoned
      /\ \A s \in Slots : s \notin freed => FreeBuffers(c, freed).slots[s] = c.slots[s]
      /\ \A s \in Slots : s \in freed =>
            /\ FreeBuffers(c, freed).slots[s].state = "Free"
            /\ FreeBuffers(c, freed).slots[s].buffer = NoBuffer
            /\ FreeBuffers(c, freed).slots[s].acquireCalled = FALSE
  BY FreeBuffersFacts, Zenon
<1> QED  BY <1>1, <1>2, <1>3, Zenon

(* The invariant holds of a new queue.                                     *)
LEMMA InitDisplayInv == Init => DisplayInv
<1> SUFFICES ASSUME Init PROVE DisplayInv
  BY Zenon
<1> USE BufferQueueAssumption
<1>1. CoreType
  BY DEF Init, CoreInit, CoreType, CoreRecords, SlotRecords, EmptySlot, States, NoBuffer
<1>2. DisplayType
  <2>1. MaxBuffers \in Nat
    BY Zenon
  <2>2. NoBuffer \in 0..MaxBuffers
    BY <2>1 DEF NoBuffer
  <2>3. tracked \in [Slots -> 0..MaxBuffers]
    BY <2>2, Zenon DEF Init
  <2>4. framebuffer \in [acquired : BOOLEAN, slot : Slots \cup {NoSlot}, buffer : 0..MaxBuffers,
                        frame : Nat]
    BY <2>2, Zenon DEF Init, NoFramebuffer
  <2>5. ~framebuffer.acquired
    BY Zenon DEF Init, NoFramebuffer
  <2> QED  BY <2>3, <2>4, <2>5, Zenon DEF Init, DisplayType
<1>3. /\ core.queue = <<>> /\ core.counter = 0 /\ ~core.abandoned
      /\ \A s \in Slots : core.slots[s].state = "Free" /\ ~core.slots[s].acquireCalled
      /\ framebuffer.frame = 0 /\ ~framebuffer.acquired /\ ~composing
      /\ producer.pc = "idle"
  BY Zenon DEF Init, CoreInit, EmptySlot, NoFramebuffer
<1>4. DOMAIN core.queue = {} /\ Len(core.queue) = 0
  BY <1>3
<1>5. QueueInv
  BY <1>3, <1>4 DEF QueueInv
<1>6. ItemInv /\ LastInv /\ CopyInv
  BY <1>3, <1>4, Zenon DEF ItemInv, LastInv, CopyInv
<1>7. ShownInv /\ ProducerInv
  BY <1>3, Zenon DEF ShownInv, ProducerInv, At
<1> QED  BY <1>1, <1>2, <1>5, <1>6, <1>7, Zenon DEF DisplayInv, CleanInv

-----------------------------------------------------------------------------
(* Steps that change slots of the producer's and leave the queue.          *)

(* A step leaves what matters of a slot as it is,                          *)
SlotKept(s) ==
    /\ core'.slots[s].state = core.slots[s].state
    /\ core'.slots[s].buffer = core.slots[s].buffer
    /\ core'.slots[s].frame = core.slots[s].frame
    /\ core'.slots[s].acquireCalled = core.slots[s].acquireCalled

(* neither the shown frame nor an item of the queue has the buffer,        *)
Unused(s, b) ==
    /\ \A i \in DOMAIN core.queue : core.queue[i].slot = s => core.queue[i].buffer # b
    /\ ~Crossed /\ framebuffer.acquired /\ framebuffer.slot = s => framebuffer.buffer # b

(* or the slot becomes the producer's, with another buffer unless it was.  *)
SlotTaken(s) ==
    /\ core'.slots[s].state \in {"Free", "Dequeued"}
    /\ \/ Unused(s, core'.slots[s].buffer)
       \/ /\ core.slots[s].state \in {"Free", "Dequeued"}
          /\ core'.slots[s].buffer = core.slots[s].buffer
    /\ core'.slots[s].acquireCalled =>
          core.slots[s].acquireCalled /\ core'.slots[s].buffer = core.slots[s].buffer

(* A step that leaves the queue, and of which every slot is either kept    *)
(* or taken, keeps all of the invariant but the producer's part.           *)
LEMMA SlotsPreserve ==
    ASSUME DisplayInv, CoreType',
           UNCHANGED <<overtaken, displayVars>>, core'.queue = core.queue,
           core'.counter = core.counter, \A s \in Slots : SlotKept(s) \/ SlotTaken(s)
    PROVE  DisplayType' /\ QueueInv' /\ ItemInv' /\ (~Crossed' => CleanInv')
<1>1. DisplayType'
  BY Zenon DEF DisplayInv, DisplayType, displayVars
<1>2. QueueInv'
  BY Zenon DEF DisplayInv, QueueInv, displayVars
<1>3. \A i \in DOMAIN core.queue : Tracks(i)' => Tracks(i) /\ SlotKept(core.queue[i].slot)
  <2> TAKE i \in DOMAIN core.queue
  <2> HAVE Tracks(i)'
  <2>1. core.queue[i].slot \in Slots
    BY FieldTypes, Zenon DEF DisplayInv
  <2>2. core'.slots[core.queue[i].slot].buffer = core.queue[i].buffer
    BY Zenon DEF Tracks
  <2>3. ~Unused(core.queue[i].slot, core'.slots[core.queue[i].slot].buffer)
    BY <2>2, Zenon DEF Unused
  <2>4. ASSUME core'.slots[core.queue[i].slot].buffer = core.slots[core.queue[i].slot].buffer
        PROVE  core.slots[core.queue[i].slot].state = "Queued"
    BY <2>2, <2>4, Zenon DEF DisplayInv, ItemInv, Tracks
  <2>5. ~SlotTaken(core.queue[i].slot)
    BY <2>3, <2>4, Zenon DEF SlotTaken
  <2> QED  BY <2>1, <2>2, <2>5, Zenon DEF SlotKept, Tracks
<1>4. \A i \in DOMAIN core.queue : SlotKept(core.queue[i].slot) => (Tracks(i)' <=> Tracks(i))
  BY Zenon DEF SlotKept, Tracks
<1>5. ItemInv'
  <2>1. \A i \in DOMAIN core.queue : Tracks(i)' =>
           /\ core'.slots[core.queue[i].slot].state = "Queued"
           /\ core'.slots[core.queue[i].slot].frame = core.queue[i].frame
    BY <1>3, ZenonT(20) DEF DisplayInv, ItemInv, SlotKept
  <2>2. \A s \in Slots : core'.slots[s].state = "Queued" =>
           \E i \in DOMAIN core.queue : core.queue[i].slot = s /\ Tracks(i)'
    <3> TAKE s \in Slots
    <3> HAVE core'.slots[s].state = "Queued"
    <3>1. SlotKept(s)
      BY Zenon DEF SlotTaken
    <3>2. PICK i \in DOMAIN core.queue : core.queue[i].slot = s /\ Tracks(i)
      BY <3>1 DEF SlotKept, DisplayInv, ItemInv
    <3> QED  BY <1>4, <3>1, <3>2, Zenon
  <2> QED  BY <2>1, <2>2 DEF ItemInv
<1>6. ASSUME ~Crossed' PROVE CleanInv'
  <2>1. ~Crossed /\ LastInv /\ CopyInv /\ ShownInv
    BY <1>6, Zenon DEF Crossed, DisplayInv, CleanInv
  <2>2. LastInv'
    BY <1>3, <2>1, Zenon DEF LastInv
  <2>3. \A s \in Slots : core'.slots[s].acquireCalled =>
           /\ core.slots[s].acquireCalled /\ core'.slots[s].buffer = core.slots[s].buffer
    BY Zenon DEF SlotKept, SlotTaken
  <2>4. CopyInv'
    <3>1. \A s \in Slots : core'.slots[s].acquireCalled =>
             \A i \in DOMAIN core.queue : core.queue[i].slot = s => Tracks(i)'
      BY <2>1, <2>3 DEF CopyInv, Tracks
    <3> QED  BY <2>1, <2>3, <3>1 DEF CopyInv, displayVars
  <2>5. ASSUME framebuffer.acquired
        PROVE  /\ core'.slots[framebuffer.slot].buffer = framebuffer.buffer =>
                     core'.slots[framebuffer.slot].state = "Acquired"
               /\ core'.slots[framebuffer.slot].acquireCalled =>
                     core'.slots[framebuffer.slot].state = "Acquired"
    <3>1. framebuffer.slot \in Slots
      BY <2>5, Zenon DEF DisplayInv, DisplayType
    <3>2. CASE SlotKept(framebuffer.slot)
      BY <2>1, <2>5, <3>1, <3>2, Zenon DEF SlotKept, ShownInv
    <3>3. CASE SlotTaken(framebuffer.slot)
      BY <2>1, <2>5, <3>1, <3>3, Zenon DEF SlotTaken, Unused, ShownInv, CopyInv
    <3> QED  BY <3>1, <3>2, <3>3, Zenon
  <2>6. \A s \in Slots : core'.slots[s].state = "Acquired" => SlotKept(s)
    BY Zenon DEF SlotTaken
  <2>7. ShownInv'
    BY <2>1, <2>5, <2>6 DEF SlotKept, ShownInv, displayVars
  <2> QED  BY <2>2, <2>4, <2>7, Zenon DEF CleanInv
<1> QED  BY <1>1, <1>2, <1>5, <1>6, Zenon

(* Nothing that has a buffer lacks one: an item of the queue has one, and  *)
(* the shown frame has until a frame overtakes an older one of its slot.   *)
LEMMA NoBufferUnused ==
    ASSUME DisplayInv
    PROVE  \A s \in Slots : Unused(s, NoBuffer)
<1>1. \A i \in DOMAIN core.queue : core.queue[i].buffer # NoBuffer
  BY FieldTypes DEF DisplayInv, NoBuffer
<1>2. ~Crossed /\ framebuffer.acquired => framebuffer.buffer # NoBuffer
  BY Zenon DEF DisplayInv, CleanInv, ShownInv
<1> QED  BY <1>1, <1>2, Zenon DEF Unused

(* The producer's part, of a step after which no slot is being allocated.  *)
LEMMA NotAllocating ==
    ASSUME producer'.pc # "allocating",
           core'.abandoned => \A s \in Slots : core'.slots[s].state = "Free",
           \A s \in Slots : core'.slots[s].state = "Dequeued" => core'.slots[s].buffer # NoBuffer
    PROVE  ProducerInv'
BY Zenon DEF ProducerInv, At

(* RequestBuffer only marks the slot as requested.                         *)
LEMMA RequestBufferPreserves ==
    ASSUME DisplayInv, NEW s \in Slots, RequestBuffer(s), UNCHANGED displayVars
    PROVE  DisplayInv'
<1>1. core \in CoreRecords /\ core.slots[s] \in SlotRecords
  BY Zenon DEF DisplayInv, CoreType, CoreRecords
<1>2. /\ core'.queue = core.queue /\ core'.counter = core.counter
      /\ core'.abandoned = core.abandoned /\ core' \in CoreRecords
      /\ \A u \in Slots : SlotKept(u)
  BY <1>1, Zenon DEF RequestBuffer, SlotKept, CoreRecords, SlotRecords
<1>3. CoreType'
  BY <1>2, Zenon DEF DisplayInv, CoreType, RequestBuffer
<1>4. ProducerInv'
  BY <1>2, Zenon DEF DisplayInv, ProducerInv, RequestBuffer, SlotKept, At
<1> QED  BY <1>2, <1>3, <1>4, SlotsPreserve, Zenon DEF DisplayInv, RequestBuffer

(* A new buffer is one to which neither an item nor the shown frame refers.*)
LEMMA NewBufferUnused ==
    ASSUME DisplayInv, NEW s \in Slots, NEW b \in NewBuffers(s)
    PROVE  b \in 1..MaxBuffers /\ Unused(s, b)
<1>1. /\ b \in 1..MaxBuffers
      /\ b \notin {item.buffer : item \in {i \in Range(core.queue) : i.slot = s}}
      /\ b \notin {framebuffer.buffer : x \in {framebuffer.slot} \cap {s}}
  BY Zenon DEF NewBuffers
<1>2. \A i \in DOMAIN core.queue : core.queue[i] \in Range(core.queue)
  BY Zenon DEF Range
<1> QED  BY <1>1, <1>2, Zenon DEF Unused

(* DequeueBuffer's second critical section.                                *)
LEMMA DequeueAllocatedPreserves ==
    ASSUME DisplayInv, At("allocating"), NEW b \in NewBuffers(producer.slot), DequeueAllocated(b),
           UNCHANGED displayVars
    PROVE  DisplayInv'
<1>1. CASE core.abandoned
  <2>1. core' = core /\ producer' = [pc |-> "idle", slot |-> NoSlot] /\ UNCHANGED <<overtaken, changes>>
    BY <1>1, Zenon DEF DequeueAllocated, Idle, GoTo
  <2>2. CoreType'
    BY <2>1, Zenon DEF DisplayInv, CoreType
  <2>3. \A u \in Slots : SlotKept(u)
    BY <2>1, Zenon DEF SlotKept
  <2>4. ProducerInv'
    BY <1>1, <2>1, Zenon DEF DisplayInv, ProducerInv, At
  <2> QED  BY <2>1, <2>2, <2>3, <2>4, SlotsPreserve, Zenon DEF DisplayInv
<1>2. CASE ~core.abandoned
  <2> DEFINE s == producer.slot
  <2>1. /\ s \in Slots /\ core.slots[s].state = "Dequeued" /\ core.slots[s].buffer = NoBuffer
        /\ ~core.slots[s].acquireCalled
    BY <1>2, Zenon DEF DisplayInv, ProducerInv
  <2>2. core' = [core EXCEPT !.slots[s] = [@ EXCEPT !.frame = UINT32_MAX, !.buffer = b]]
    BY <1>2, Zenon DEF DequeueAllocated
  <2>3. producer' = [pc |-> "idle", slot |-> NoSlot] /\ UNCHANGED <<overtaken, changes>>
    BY Zenon DEF DequeueAllocated, Idle, GoTo
  <2>4. b \in NewBuffers(s)
    BY Zenon
  <2> HIDE DEF s
  <2>5. core \in CoreRecords /\ core.slots[s] \in SlotRecords
    BY <2>1, Zenon DEF DisplayInv, CoreType, CoreRecords
  <2>6. b \in 1..MaxBuffers /\ Unused(s, b)
    BY <2>1, <2>4, NewBufferUnused, Zenon
  <2>7. UINT32_MAX \in Nat
    BY BufferQueueAssumption DEF UINT32_MAX
  <2>8. /\ core'.queue = core.queue /\ core'.counter = core.counter
        /\ core'.abandoned = core.abandoned /\ core' \in CoreRecords
        /\ \A u \in Slots : u # s => core'.slots[u] = core.slots[u]
        /\ core'.slots[s].state = "Dequeued" /\ core'.slots[s].buffer = b
        /\ core'.slots[s].acquireCalled = core.slots[s].acquireCalled
    <3> DEFINE n == [core.slots[s] EXCEPT !.frame = UINT32_MAX, !.buffer = b]
    <3>1. /\ n \in SlotRecords /\ n.state = core.slots[s].state /\ n.buffer = b
          /\ n.acquireCalled = core.slots[s].acquireCalled
      <4>1. b \in 0..MaxBuffers
        BY <2>6
      <4> QED  BY <2>5, <2>7, <4>1, Zenon DEF SlotRecords
    <3>2. core' = [core EXCEPT !.slots = [core.slots EXCEPT ![s] = n]]
      BY <2>1, <2>2, <2>5, Zenon DEF CoreRecords, SlotRecords
    <3> HIDE DEF n
    <3> QED  BY <2>1, <2>5, <3>1, <3>2, Zenon DEF CoreRecords
  <2>9. CoreType'
    BY <2>3, <2>8, Zenon DEF DisplayInv, CoreType
  <2>10. \A u \in Slots : SlotKept(u) \/ SlotTaken(u)
    BY <2>1, <2>6, <2>8, Zenon DEF SlotKept, SlotTaken
  <2>11. ProducerInv'
    <3>1. \A u \in Slots : core'.slots[u].state = "Dequeued" => core'.slots[u].buffer # NoBuffer
      BY <2>6, <2>8 DEF DisplayInv, ProducerInv, NoBuffer, s
    <3> QED  BY <1>2, <2>3, <2>8, <3>1, NotAllocating, Zenon
  <2> QED  BY <2>3, <2>8, <2>9, <2>10, <2>11, SlotsPreserve, Zenon DEF DisplayInv
<1> QED  BY <1>1, <1>2, Zenon

(* DetachBuffer frees a slot that the guest owns.                          *)
LEMMA DetachBufferPreserves ==
    ASSUME DisplayInv, NEW s \in Slots, DetachBuffer(s), UNCHANGED displayVars
    PROVE  DisplayInv'
<1> DEFINE c == FreeBuffers(core, {s})
<1>1. core \in CoreRecords
  BY Zenon DEF DisplayInv, CoreType
<1>2. /\ c \in CoreRecords /\ c.queue = core.queue /\ c.counter = core.counter
      /\ c.abandoned = core.abandoned
      /\ \A u \in Slots : u \notin {s} => c.slots[u] = core.slots[u]
      /\ \A u \in Slots : u \in {s} => /\ c.slots[u].state = "Free" /\ c.slots[u].buffer = NoBuffer
                                       /\ c.slots[u].acquireCalled = FALSE
  BY <1>1, FreeBuffersFacts, ZenonT(20)
<1>3. /\ core' = [c EXCEPT !.possible = TRUE] /\ ~core.abandoned /\ At("idle")
      /\ UNCHANGED <<producer, overtaken>> /\ Change
  BY Zenon DEF DetachBuffer, SignalDequeueCondition
<1> HIDE DEF c
<1>4. /\ core' \in CoreRecords /\ core'.queue = core.queue /\ core'.counter = core.counter
      /\ core'.abandoned = core.abandoned /\ core'.slots = c.slots
  BY <1>2, <1>3, Zenon DEF CoreRecords
<1>5. CoreType'
  <2>1. changes' \in 0..MaxChanges
    BY <1>3, BufferQueueAssumption DEF Change, DisplayInv, CoreType
  <2> QED  BY <1>3, <1>4, <2>1, Zenon DEF DisplayInv, CoreType
<1>6. \A u \in Slots : SlotKept(u) \/ SlotTaken(u)
  <2>1. Unused(s, NoBuffer)
    BY NoBufferUnused, Zenon
  <2> QED  BY <1>2, <1>4, <2>1, Zenon DEF SlotKept, SlotTaken
<1>7. ProducerInv'
  <2>1. \A u \in Slots : core'.slots[u].state = "Dequeued" => core'.slots[u].buffer # NoBuffer
    BY <1>2, <1>3, <1>4 DEF DisplayInv, ProducerInv, At
  <2> QED  BY <1>3, <1>4, <2>1, NotAllocating, Zenon DEF At
<1> QED  BY <1>3, <1>4, <1>5, <1>6, <1>7, SlotsPreserve, Zenon DEF DisplayInv

(* CancelBuffer gives a slot back with its buffer.                         *)
LEMMA CancelBufferPreserves ==
    ASSUME DisplayInv, NEW s \in Slots, CancelBuffer(s), UNCHANGED displayVars
    PROVE  DisplayInv'
<1>1. core \in CoreRecords /\ core.slots[s] \in SlotRecords
  BY Zenon DEF DisplayInv, CoreType, CoreRecords
<1> DEFINE n == [core.slots[s] EXCEPT !.state = "Free", !.frame = 0]
<1>2. /\ n \in SlotRecords /\ n.state = "Free" /\ n.buffer = core.slots[s].buffer
      /\ n.acquireCalled = core.slots[s].acquireCalled
  BY <1>1, Zenon DEF SlotRecords, States
<1>3. core' = [core EXCEPT !.slots = [core.slots EXCEPT ![s] = n], !.possible = TRUE]
  BY <1>1, Zenon DEF CancelBuffer, SignalDequeueCondition, CoreRecords, SlotRecords
<1> HIDE DEF n
<1>4. /\ core' \in CoreRecords /\ core'.queue = core.queue /\ core'.counter = core.counter
      /\ core'.abandoned = core.abandoned /\ core'.slots = [core.slots EXCEPT ![s] = n]
  BY <1>1, <1>2, <1>3, Zenon DEF CoreRecords
<1>5. /\ \A u \in Slots : u # s => core'.slots[u] = core.slots[u]
      /\ core'.slots[s] = n
  BY <1>1, <1>4, Zenon DEF CoreRecords
<1>6. /\ ~core.abandoned /\ At("idle") /\ UNCHANGED <<producer, overtaken>> /\ Change
      /\ core.slots[s].state = "Dequeued"
  BY Zenon DEF CancelBuffer
<1>7. CoreType'
  <2>1. changes' \in 0..MaxChanges
    BY <1>6, BufferQueueAssumption DEF Change, DisplayInv, CoreType
  <2> QED  BY <1>4, <1>6, <2>1, Zenon DEF DisplayInv, CoreType
<1>8. \A u \in Slots : SlotKept(u) \/ SlotTaken(u)
  BY <1>2, <1>5, <1>6, Zenon DEF SlotKept, SlotTaken
<1>9. ProducerInv'
  <2>1. \A u \in Slots : core'.slots[u].state = "Dequeued" => core'.slots[u].buffer # NoBuffer
    BY <1>2, <1>5, <1>6, Zenon DEF DisplayInv, ProducerInv, At
  <2> QED  BY <1>4, <1>6, <2>1, NotAllocating, Zenon DEF At
<1> QED  BY <1>4, <1>6, <1>7, <1>8, <1>9, SlotsPreserve, Zenon DEF DisplayInv

(* Connect changes no slot.                                                *)
LEMMA ConnectPreserves ==
    ASSUME DisplayInv, Connect, UNCHANGED displayVars
    PROVE  DisplayInv'
<1>1. core \in CoreRecords
  BY Zenon DEF DisplayInv, CoreType
<1>2. /\ core' = [core EXCEPT !.connected = TRUE, !.beenQueued = FALSE]
      /\ UNCHANGED <<producer, overtaken, changes>>
  BY Zenon DEF Connect
<1>3. /\ core' \in CoreRecords /\ core'.queue = core.queue /\ core'.counter = core.counter
      /\ core'.abandoned = core.abandoned /\ core'.slots = core.slots
  BY <1>1, <1>2, Zenon DEF CoreRecords
<1>4. CoreType'
  BY <1>2, <1>3, Zenon DEF DisplayInv, CoreType
<1>5. \A u \in Slots : SlotKept(u)
  BY <1>3, Zenon DEF SlotKept
<1>6. ProducerInv'
  BY <1>2, <1>3, Zenon DEF DisplayInv, ProducerInv, At
<1> QED  BY <1>2, <1>3, <1>4, <1>5, <1>6, SlotsPreserve, Zenon DEF DisplayInv

(* FreeAllBuffers makes every slot free and its buffer forgotten.          *)
LEMMA FreeAllBuffersFacts ==
    ASSUME NEW c \in CoreRecords
    PROVE  /\ FreeAllBuffers(c) \in CoreRecords
           /\ FreeAllBuffers(c).queue = c.queue
           /\ FreeAllBuffers(c).counter = c.counter
           /\ FreeAllBuffers(c).abandoned = c.abandoned
           /\ \A s \in Slots : /\ FreeAllBuffers(c).slots[s].state = "Free"
                               /\ FreeAllBuffers(c).slots[s].buffer = NoBuffer
                               /\ FreeAllBuffers(c).slots[s].acquireCalled = FALSE
<1> DEFINE d == [c EXCEPT !.beenQueued = FALSE]
<1>1. /\ d \in CoreRecords /\ d.queue = c.queue /\ d.counter = c.counter
      /\ d.abandoned = c.abandoned
  BY Zenon DEF CoreRecords
<1>2. FreeAllBuffers(c) = FreeBuffers(d, Slots)
  BY Zenon DEF FreeAllBuffers
<1> HIDE DEF d
<1>3. /\ FreeBuffers(d, Slots) \in CoreRecords
      /\ FreeBuffers(d, Slots).queue = d.queue
      /\ FreeBuffers(d, Slots).counter = d.counter
      /\ FreeBuffers(d, Slots).abandoned = d.abandoned
      /\ \A s \in Slots : /\ FreeBuffers(d, Slots).slots[s].state = "Free"
                          /\ FreeBuffers(d, Slots).slots[s].buffer = NoBuffer
                          /\ FreeBuffers(d, Slots).slots[s].acquireCalled = FALSE
  BY <1>1, FreeBuffersFacts, Zenon
<1> QED  BY <1>1, <1>2, <1>3, Zenon

(* SetBufferCount frees all the slots while their items stay in the        *)
(* queue, unless buffers are preallocated.                                 *)
LEMMA SetBufferCountPreserves ==
    ASSUME DisplayInv, NEW n \in 0..NUM_BUFFER_SLOTS, SetBufferCount(n), UNCHANGED displayVars
    PROVE  DisplayInv'
<1> DEFINE c == IF n = 0 \/ PreallocatedBufferCount(core) > 0 THEN core ELSE FreeAllBuffers(core)
<1>1. core \in CoreRecords
  BY Zenon DEF DisplayInv, CoreType
<1>2. /\ c \in CoreRecords /\ c.queue = core.queue /\ c.counter = core.counter
      /\ c.abandoned = core.abandoned
      /\ \/ c.slots = core.slots
         \/ \A s \in Slots : /\ c.slots[s].state = "Free" /\ c.slots[s].buffer = NoBuffer
                             /\ c.slots[s].acquireCalled = FALSE
  <2>1. CASE c = core
    BY <1>1, <2>1, Zenon
  <2>2. CASE c = FreeAllBuffers(core)
    BY <1>1, <2>2, FreeAllBuffersFacts, Zenon
  <2> QED  BY <2>1, <2>2, Zenon
<1>3. core' = [[c EXCEPT !.override = n] EXCEPT !.possible = TRUE]
  BY Zenon DEF SetBufferCount, SignalDequeueCondition
<1> HIDE DEF c
<1>4. /\ core' \in CoreRecords /\ core'.queue = core.queue /\ core'.counter = core.counter
      /\ core'.abandoned = core.abandoned /\ core'.slots = c.slots
  BY <1>2, <1>3, Zenon DEF CoreRecords
<1>5. /\ ~core.abandoned /\ At("idle") /\ UNCHANGED overtaken /\ Change
      /\ producer' = producer \/ producer' = [pc |-> "released", slot |-> NoSlot]
  BY Zenon DEF SetBufferCount, GoTo
<1>6. CoreType'
  <2>1. changes' \in 0..MaxChanges
    BY <1>5, BufferQueueAssumption DEF Change, DisplayInv, CoreType
  <2>2. producer' \in [pc : {"idle", "waiting", "allocating", "released"}, slot : Slots \cup {NoSlot}]
    BY <1>5 DEF DisplayInv, CoreType
  <2> QED  BY <1>4, <1>5, <2>1, <2>2, Zenon DEF DisplayInv, CoreType
<1>7. \A u \in Slots : SlotKept(u) \/ SlotTaken(u)
  <2>1. \A u \in Slots : Unused(u, NoBuffer)
    BY NoBufferUnused, Zenon
  <2> QED  BY <1>2, <1>4, <2>1, Zenon DEF SlotKept, SlotTaken
<1>8. ProducerInv'
  <2>1. \A u \in Slots : core'.slots[u].state = "Dequeued" => core'.slots[u].buffer # NoBuffer
    BY <1>2, <1>4, <1>5, Zenon DEF DisplayInv, ProducerInv, At
  <2> QED  BY <1>4, <1>5, <2>1, NotAllocating DEF At
<1> QED  BY <1>4, <1>5, <1>6, <1>7, <1>8, SlotsPreserve, Zenon DEF DisplayInv

-----------------------------------------------------------------------------
(* Steps that empty the queue and free all the slots.                      *)

(* An empty queue and free slots ask for nothing but the order of the      *)
(* frames still to come.                                                   *)
LEMMA EmptiedPreserves ==
    ASSUME DisplayInv, core'.queue = <<>>, core'.counter = core.counter,
           \A s \in Slots : /\ core'.slots[s].state = "Free" /\ core'.slots[s].buffer = NoBuffer
                            /\ core'.slots[s].acquireCalled = FALSE,
           UNCHANGED <<overtaken, framebuffer, composing>>
    PROVE  QueueInv' /\ ItemInv' /\ (~Crossed' => CleanInv')
<1>1. DOMAIN core'.queue = {} /\ Len(core'.queue) = 0
  OBVIOUS
<1>2. QueueInv'
  BY <1>1, FieldTypes DEF DisplayInv, QueueInv
<1>3. ItemInv' /\ LastInv' /\ CopyInv'
  BY <1>1, Zenon DEF ItemInv, LastInv, CopyInv
<1>4. ASSUME ~Crossed' PROVE ShownInv'
  <2>1. ShownInv
    BY <1>4, Zenon DEF Crossed, DisplayInv, CleanInv
  <2>2. framebuffer.acquired => framebuffer.slot \in Slots
    BY Zenon DEF DisplayInv, DisplayType
  <2> QED  BY <2>1, <2>2, Zenon DEF ShownInv
<1> QED  BY <1>2, <1>3, <1>4, Zenon DEF CleanInv

(* Disconnect of the guest, whose released buffers are forgotten later.    *)
LEMMA DisconnectPreserves ==
    ASSUME DisplayInv, Disconnect, UNCHANGED displayVars
    PROVE  DisplayInv'
<1> DEFINE c == [core EXCEPT !.queue = <<>>, !.connected = FALSE]
           d == FreeAllBuffers(c)
<1>1. c \in CoreRecords /\ c.queue = <<>> /\ c.counter = core.counter /\ c.abandoned = core.abandoned
  <2>1. core \in CoreRecords /\ <<>> \in Seq(Items)
    BY DEF DisplayInv, CoreType
  <2> QED  BY <2>1, Zenon DEF CoreRecords
<1>2. core' = [d EXCEPT !.possible = TRUE]
  BY Zenon DEF Disconnect, SignalDequeueCondition
<1> HIDE DEF c
<1>3. /\ d \in CoreRecords /\ d.queue = c.queue /\ d.counter = c.counter
      /\ d.abandoned = c.abandoned
      /\ \A s \in Slots : /\ d.slots[s].state = "Free" /\ d.slots[s].buffer = NoBuffer
                          /\ d.slots[s].acquireCalled = FALSE
  BY <1>1, FreeAllBuffersFacts, Zenon
<1> HIDE DEF d
<1>4. /\ core' \in CoreRecords /\ core'.queue = <<>> /\ core'.counter = core.counter
      /\ core'.abandoned = core.abandoned /\ core'.slots = d.slots
  BY <1>1, <1>2, <1>3, Zenon DEF CoreRecords
<1>5. Change /\ producer' = [pc |-> "released", slot |-> NoSlot] /\ UNCHANGED overtaken
  BY Zenon DEF Disconnect, GoTo
<1>6. CoreType'
  <2>1. changes' \in 0..MaxChanges
    BY <1>5, BufferQueueAssumption DEF Change, DisplayInv, CoreType
  <2>2. producer' \in [pc : {"idle", "waiting", "allocating", "released"}, slot : Slots \cup {NoSlot}]
    BY <1>5, Zenon
  <2> QED  BY <1>4, <1>5, <2>1, <2>2, Zenon DEF DisplayInv, CoreType
<1>7. DisplayType'
  BY Zenon DEF DisplayInv, DisplayType, displayVars
<1>8. ProducerInv'
  BY <1>3, <1>4, <1>5, Zenon DEF ProducerInv, At
<1>9. QueueInv' /\ ItemInv' /\ (~Crossed' => CleanInv')
  BY <1>3, <1>4, <1>5, EmptiedPreserves, Zenon DEF displayVars
<1> QED  BY <1>6, <1>7, <1>8, <1>9, Zenon DEF DisplayInv

(* ConsumerBase::Abandon, also while a frame is shown.                     *)
LEMMA DestroyLayerPreserves ==
    ASSUME DisplayInv, DestroyLayer
    PROVE  DisplayInv'
<1> DEFINE c == [core EXCEPT !.abandoned = TRUE, !.queue = <<>>]
           d == FreeAllBuffers(c)
<1>1. c \in CoreRecords /\ c.queue = <<>> /\ c.counter = core.counter
  <2>1. core \in CoreRecords /\ <<>> \in Seq(Items)
    BY DEF DisplayInv, CoreType
  <2> QED  BY <2>1, Zenon DEF CoreRecords
<1>2. core' = [d EXCEPT !.possible = TRUE]
  BY Zenon DEF DestroyLayer, ConsumerDisconnect, SignalDequeueCondition
<1> HIDE DEF c
<1>3. /\ d \in CoreRecords /\ d.queue = c.queue /\ d.counter = c.counter
      /\ \A s \in Slots : /\ d.slots[s].state = "Free" /\ d.slots[s].buffer = NoBuffer
                          /\ d.slots[s].acquireCalled = FALSE
  BY <1>1, FreeAllBuffersFacts, Zenon
<1> HIDE DEF d
<1>4. /\ core' \in CoreRecords /\ core'.queue = <<>> /\ core'.counter = core.counter
      /\ core'.slots = d.slots
  BY <1>1, <1>2, <1>3, Zenon DEF CoreRecords
<1>5. /\ UNCHANGED <<producer, overtaken, changes, framebuffer, composing>> /\ layer' = "destroyed"
      /\ tracked' = [s \in Slots |-> NoBuffer]
  BY Zenon DEF DestroyLayer
<1>6. CoreType'
  BY <1>4, <1>5, Zenon DEF DisplayInv, CoreType
<1>7. DisplayType'
  <2>1. NoBuffer \in 0..MaxBuffers
    BY BufferQueueAssumption DEF NoBuffer
  <2> QED  BY <1>5, <2>1, Zenon DEF DisplayInv, DisplayType
<1>8. ProducerInv'
  <2>1. core'.abandoned
    <3>1. c.abandoned
      BY Zenon DEF c, DisplayInv, CoreType, CoreRecords
    <3>2. d.abandoned
      BY <1>1, <3>1, FreeAllBuffersFacts, Zenon DEF d
    <3> QED  BY <1>2, <1>3, <3>2, Zenon DEF CoreRecords
  <2> QED  BY <1>3, <1>4, <2>1, Zenon DEF ProducerInv
<1>9. QueueInv' /\ ItemInv' /\ (~Crossed' => CleanInv')
  BY <1>3, <1>4, <1>5, EmptiedPreserves, Zenon
<1> QED  BY <1>6, <1>7, <1>8, <1>9, Zenon DEF DisplayInv

-----------------------------------------------------------------------------
(* QueueBuffer.                                                            *)

(* The item that QueueBuffer makes of slot s, and the slot.                *)
NewItem(s, async) ==
    [slot |-> s, buffer |-> core.slots[s].buffer, frame |-> core.counter + 1, droppable |-> async,
     acquireCalled |-> core.slots[s].acquireCalled]

QueuedSlot(s) == [core.slots[s] EXCEPT !.state = "Queued", !.frame = core.counter + 1]

(* The item is appended, and only slot s changes,                          *)
Appends(s, async) ==
    /\ ~(core.queue # <<>> /\ Head(core.queue).droppable)
    /\ core'.queue = Append(core.queue, NewItem(s, async))
    /\ core'.slots = [core.slots EXCEPT ![s] = QueuedSlot(s)]

(* or it replaces the front, of which the slot becomes free.               *)
Replaces(s, async) ==
    LET front == Head(core.queue)
    IN  /\ core.queue # <<>> /\ front.droppable
        /\ core'.queue = [core.queue EXCEPT ![1] = NewItem(s, async)]
        /\ \A u \in Slots :
              core'.slots[u] =
                  IF u = s THEN QueuedSlot(s)
                  ELSE IF u = front.slot /\ core.slots[u].buffer = front.buffer
                  THEN [core.slots[u] EXCEPT !.state = "Free", !.frame = 0]
                  ELSE core.slots[u]

(* QueueBuffer does one or the other.                                      *)
LEMMA QueueBufferFacts ==
    ASSUME DisplayInv, NEW s \in Slots, NEW async \in BOOLEAN, QueueBuffer(s, async)
    PROVE  /\ ~core.abandoned /\ ~core'.abandoned /\ At("idle") /\ core.slots[s].state = "Dequeued"
           /\ core.slots[s].buffer \in 1..MaxBuffers
           /\ core' \in CoreRecords /\ core'.counter = core.counter + 1
           /\ UNCHANGED <<producer, changes>> /\ overtaken' = overtaken \cup Overtaken(s)
           /\ NewItem(s, async) \in Items /\ QueuedSlot(s) \in SlotRecords
           /\ Appends(s, async) \/ Replaces(s, async)
<1> DEFINE n == core.counter + 1
           c == [core EXCEPT !.counter = n, !.beenQueued = TRUE,
                             !.slots[s] = [@ EXCEPT !.state = "Queued", !.frame = n]]
<1>1. /\ core \in CoreRecords /\ core.slots[s] \in SlotRecords
      /\ core.queue \in Seq(Items) /\ core.counter \in 0..MaxFrames
  BY Zenon DEF DisplayInv, CoreType, CoreRecords
<1>2. /\ ~core.abandoned /\ At("idle") /\ core.slots[s].state = "Dequeued"
      /\ core.counter < MaxFrames /\ UNCHANGED <<producer, changes>>
      /\ overtaken' = overtaken \cup Overtaken(s)
  BY Zenon DEF QueueBuffer
<1>3. core.slots[s].buffer \in 1..MaxBuffers
  <2>1. core.slots[s].buffer # NoBuffer
    BY <1>2, Zenon DEF DisplayInv, ProducerInv, At
  <2>2. core.slots[s].buffer \in 0..MaxBuffers
    BY <1>1, Zenon DEF SlotRecords
  <2> QED  BY <2>1, <2>2 DEF NoBuffer
<1>4. n \in 0..MaxFrames /\ n \in Nat
  BY <1>1, <1>2, BufferQueueAssumption
<1>5. NewItem(s, async) \in Items
  <2>1. core.slots[s].acquireCalled \in BOOLEAN
    BY <1>1, Zenon DEF SlotRecords
  <2> QED  BY <1>1, <1>3, <1>4, <2>1, Zenon DEF NewItem, Items
<1>6. QueuedSlot(s) \in SlotRecords
  BY <1>1, <1>4, Zenon DEF QueuedSlot, SlotRecords, States
<1>7. c = [core EXCEPT !.counter = n, !.beenQueued = TRUE,
                       !.slots = [core.slots EXCEPT ![s] = QueuedSlot(s)]]
  BY <1>1, Zenon DEF QueuedSlot, CoreRecords
<1>8. core' = SignalDequeueCondition(Enqueued(c,
                  [slot |-> s, buffer |-> c.slots[s].buffer, frame |-> n, droppable |-> async,
                   acquireCalled |-> c.slots[s].acquireCalled]))
  BY Zenon DEF QueueBuffer
<1> HIDE DEF c
<1>9. /\ c \in CoreRecords /\ c.queue = core.queue /\ c.counter = n /\ c.abandoned = core.abandoned
      /\ c.slots = [core.slots EXCEPT ![s] = QueuedSlot(s)]
      /\ core' = SignalDequeueCondition(Enqueued(c, NewItem(s, async)))
  <2>1. /\ c \in CoreRecords /\ c.queue = core.queue /\ c.counter = n
        /\ c.abandoned = core.abandoned
        /\ c.slots = [core.slots EXCEPT ![s] = QueuedSlot(s)]
    BY <1>1, <1>4, <1>6, <1>7, Zenon DEF CoreRecords
  <2>2. c.slots[s] = QueuedSlot(s)
    BY <1>1, <2>1, Zenon DEF CoreRecords
  <2>3. /\ c.slots[s].buffer = core.slots[s].buffer
        /\ c.slots[s].acquireCalled = core.slots[s].acquireCalled
    BY <1>1, <2>2, Zenon DEF QueuedSlot, SlotRecords
  <2> QED  BY <1>8, <2>1, <2>3, Zenon DEF NewItem
<1>10. CASE ~(core.queue # <<>> /\ Head(core.queue).droppable)
  <2>1. core' = [[c EXCEPT !.queue = Append(@, NewItem(s, async))] EXCEPT !.possible = TRUE]
    BY <1>9, <1>10, Zenon DEF Enqueued, SignalDequeueCondition
  <2>2. Append(core.queue, NewItem(s, async)) \in Seq(Items)
    BY <1>1, <1>5
  <2>3. /\ core' \in CoreRecords /\ core'.queue = Append(core.queue, NewItem(s, async))
        /\ core'.counter = n /\ core'.abandoned = core.abandoned /\ core'.slots = c.slots
    BY <1>9, <2>1, <2>2, ZenonT(20) DEF CoreRecords
  <2> QED  BY <1>2, <1>3, <1>5, <1>6, <1>9, <1>10, <2>3, Zenon DEF Appends
<1>11. CASE core.queue # <<>> /\ Head(core.queue).droppable
  <2> DEFINE front == Head(core.queue)
             new == IF StillTracking(c, front)
                    THEN [c.slots[front.slot] EXCEPT !.state = "Free", !.frame = 0]
                    ELSE c.slots[front.slot]
  <2>1. front \in Items /\ 1 \in DOMAIN core.queue /\ front = core.queue[1]
    BY <1>1, <1>11
  <2>2. front.slot \in Slots /\ front.buffer \in 1..MaxBuffers
    BY <2>1, Zenon DEF Items
  <2>3. core' = [[c EXCEPT !.queue[1] = NewItem(s, async), !.slots[front.slot] = new]
                   EXCEPT !.possible = TRUE]
    BY <1>9, <1>11, Zenon DEF Enqueued, SignalDequeueCondition
  <2>4. c.slots[front.slot] \in SlotRecords
    BY <1>9, <2>2, Zenon DEF CoreRecords
  <2>5. new \in SlotRecords
    BY <2>4, Zenon DEF SlotRecords, States
  <2>6. [core.queue EXCEPT ![1] = NewItem(s, async)] \in Seq(Items)
    <3>1. 1 \in 1..Len(core.queue)
      BY <1>1, <2>1
    <3> QED  BY <1>1, <1>5, <3>1, ReplacedFacts, Zenon
  <2>7. new = IF front.slot # s /\ core.slots[front.slot].buffer = front.buffer
              THEN [core.slots[front.slot] EXCEPT !.state = "Free", !.frame = 0]
              ELSE c.slots[front.slot]
    <3>1. \A u \in Slots : u # s => c.slots[u] = core.slots[u]
      BY <1>1, <1>9, Zenon DEF CoreRecords
    <3>2. front.slot = s => c.slots[s].buffer # front.buffer
      <4>1. c.slots[s].buffer = core.slots[s].buffer
        BY <1>1, <1>9 DEF QueuedSlot, CoreRecords, SlotRecords
      <4>2. front.slot = s => ~Tracks(1)
        BY <1>2, <2>1 DEF DisplayInv, ItemInv
      <4> QED  BY <2>1, <4>1, <4>2, Zenon DEF Tracks
    <3>3. front.buffer # NoBuffer
      BY <2>2 DEF NoBuffer
    <3> QED  BY <2>2, <3>1, <3>2, <3>3, Zenon DEF StillTracking
  <2> HIDE DEF new
  <2>8. /\ core' \in CoreRecords /\ core'.queue = [core.queue EXCEPT ![1] = NewItem(s, async)]
        /\ core'.counter = n /\ core'.abandoned = core.abandoned
        /\ core'.slots = [c.slots EXCEPT ![front.slot] = new]
    <3> DEFINE q == [core.queue EXCEPT ![1] = NewItem(s, async)]
               sl == [c.slots EXCEPT ![front.slot] = new]
    <3>1. sl \in [Slots -> SlotRecords]
      BY <1>9, <2>2, <2>5, Zenon DEF CoreRecords
    <3>2. core' = [c EXCEPT !.queue = q, !.slots = sl, !.possible = TRUE]
      BY <1>9, <2>3, Zenon DEF CoreRecords
    <3>3. q \in Seq(Items)
      BY <2>6, Zenon
    <3> HIDE DEF q, sl
    <3>4. /\ core' \in CoreRecords /\ core'.queue = q /\ core'.counter = c.counter
          /\ core'.abandoned = c.abandoned /\ core'.slots = sl
      BY <1>9, <3>1, <3>2, <3>3, Zenon DEF CoreRecords
    <3> QED  BY <1>9, <3>4, Zenon DEF q, sl
  <2> HIDE DEF front
  <2>9. \A u \in Slots :
           core'.slots[u] =
               IF u = s THEN QueuedSlot(s)
               ELSE IF u = front.slot /\ core.slots[u].buffer = front.buffer
               THEN [core.slots[u] EXCEPT !.state = "Free", !.frame = 0]
               ELSE core.slots[u]
    <3>1. \A u \in Slots : core'.slots[u] = IF u = front.slot THEN new ELSE c.slots[u]
      BY <1>9, <2>2, <2>8, Zenon DEF CoreRecords
    <3>2. \A u \in Slots : c.slots[u] = IF u = s THEN QueuedSlot(s) ELSE core.slots[u]
      BY <1>1, <1>9, Zenon DEF CoreRecords
    <3> QED  BY <2>2, <2>7, <3>1, <3>2, Zenon
  <2>10. Replaces(s, async)
    BY <1>11, <2>8, <2>9, Zenon DEF Replaces, front
  <2> QED  BY <1>2, <1>3, <1>5, <1>6, <2>8, <2>10, Zenon
<1> QED  BY <1>10, <1>11, Zenon

(* The slot's fields, after either.                                        *)
LEMMA QueuedSlotFields ==
    ASSUME DisplayInv, NEW s \in Slots
    PROVE  /\ QueuedSlot(s).state = "Queued" /\ QueuedSlot(s).frame = core.counter + 1
           /\ QueuedSlot(s).buffer = core.slots[s].buffer
           /\ QueuedSlot(s).acquireCalled = core.slots[s].acquireCalled
<1>1. core.slots[s] \in SlotRecords
  BY Zenon DEF DisplayInv, CoreType, CoreRecords
<1> QED  BY <1>1, Zenon DEF QueuedSlot, SlotRecords

(* A frame that is appended is the newest one; the slot was the guest's,   *)
(* so that no item before it is tracked.                                   *)
LEMMA AppendsPreserves ==
    ASSUME DisplayInv, NEW s \in Slots, NEW async \in BOOLEAN,
           QueueBuffer(s, async), Appends(s, async), UNCHANGED displayVars
    PROVE  QueueInv' /\ ItemInv' /\ (~Crossed' => CleanInv')
<1>0. PICK L : L = Len(core.queue)
  BY Zenon
<1>1. /\ core.slots[s].state = "Dequeued" /\ core.slots[s].buffer \in 1..MaxBuffers
      /\ core'.counter = core.counter + 1 /\ UNCHANGED <<overtaken, displayVars>>
      /\ NewItem(s, async) \in Items
  <2>1. Overtaken(s) = {}
    BY Zenon DEF Appends, Overtaken
  <2>2. overtaken' = overtaken
    BY <2>1, QueueBufferFacts, Zenon
  <2> QED  BY <2>2, QueueBufferFacts, Zenon
<1>2. /\ core.queue \in Seq(Items) /\ L \in Nat /\ DOMAIN core.queue = 1..L
      /\ core.counter \in 0..MaxFrames /\ framebuffer.frame \in Nat
      /\ \A i \in 1..L : core.queue[i].slot \in Slots /\ core.queue[i].frame \in Nat
  BY <1>0, FieldTypes, Zenon DEF DisplayInv
<1>3. /\ \A i \in 1..L : core'.queue[i] = core.queue[i]
      /\ core'.queue[L + 1] = NewItem(s, async) /\ DOMAIN core'.queue = 1..L + 1
      /\ Len(core'.queue) = L + 1
  BY <1>0, <1>1, <1>2 DEF Appends
<1>4. /\ \A u \in Slots : u # s => SlotKept(u)
      /\ core'.slots[s].state = "Queued" /\ core'.slots[s].frame = core.counter + 1
      /\ core'.slots[s].buffer = core.slots[s].buffer
      /\ core'.slots[s].acquireCalled = core.slots[s].acquireCalled
  <2>1. core.slots \in [Slots -> SlotRecords]
    BY Zenon DEF DisplayInv, CoreType, CoreRecords
  <2>2. \A u \in Slots : core'.slots[u] = IF u = s THEN QueuedSlot(s) ELSE core.slots[u]
    BY <2>1, Zenon DEF Appends
  <2> QED  BY <2>2, QueuedSlotFields DEF SlotKept
<1>5. /\ core'.queue[L + 1].slot = s /\ core'.queue[L + 1].buffer = core.slots[s].buffer
      /\ core'.queue[L + 1].frame = core.counter + 1
      /\ core'.queue[L + 1].acquireCalled = core.slots[s].acquireCalled
  <2>1. /\ NewItem(s, async).slot = s /\ NewItem(s, async).buffer = core.slots[s].buffer
        /\ NewItem(s, async).frame = core.counter + 1
        /\ NewItem(s, async).acquireCalled = core.slots[s].acquireCalled
    BY Zenon DEF NewItem
  <2> QED  BY <1>3, <2>1, Zenon
<1>6. \A i \in 1..L : Tracks(i)' <=> Tracks(i)
  <2> TAKE i \in 1..L
  <2>1. core'.queue[i] = core.queue[i] /\ core.queue[i].slot \in Slots
    BY <1>2, <1>3, Zenon
  <2>2. \A u \in Slots : core'.slots[u].buffer = core.slots[u].buffer
    BY <1>4, Zenon DEF SlotKept
  <2> QED  BY <2>1, <2>2, Zenon DEF Tracks
<1>7. Tracks(L + 1)'
  BY <1>4, <1>5, Zenon DEF Tracks
<1>8. \A i \in 1..L : Tracks(i) => core.queue[i].slot # s
  BY <1>1, <1>2, Zenon DEF DisplayInv, ItemInv
<1>9. \A i \in 1..L + 1 : i \in 1..L \/ i = L + 1
  BY <1>2
<1>10. QueueInv'
  <2>1. /\ \A i, j \in 1..L : i < j =>
              /\ core.queue[i].frame # core.queue[j].frame
              /\ 1 < i \/ overtaken = {} => core.queue[i].frame < core.queue[j].frame
        /\ \A i \in 1..L : /\ 0 < core.queue[i].frame /\ core.queue[i].frame <= core.counter
                           /\ framebuffer.frame # core.queue[i].frame
                           /\ overtaken = {} => framebuffer.frame < core.queue[i].frame
        /\ framebuffer.frame <= core.counter /\ L <= core.counter
    BY <1>0, <1>2, Zenon DEF DisplayInv, QueueInv
  <2>2. ASSUME NEW i \in 1..L + 1, NEW j \in 1..L + 1, i < j
        PROVE  /\ core'.queue[i].frame # core'.queue[j].frame
               /\ 1 < i \/ overtaken = {} => core'.queue[i].frame < core'.queue[j].frame
    <3>1. i \in 1..L
      BY <1>2, <2>2
    <3>2. /\ core'.queue[i] = core.queue[i] /\ core.queue[i].frame <= core.counter
          /\ core.queue[i].frame \in Nat
      BY <1>2, <1>3, <2>1, <3>1, Zenon
    <3>3. CASE j \in 1..L
      <4>1. /\ core'.queue[j] = core.queue[j] /\ core.queue[i].frame # core.queue[j].frame
            /\ 1 < i \/ overtaken = {} => core.queue[i].frame < core.queue[j].frame
        BY <1>3, <2>1, <2>2, <3>1, <3>3, Zenon
      <4> QED  BY <3>2, <4>1, Zenon
    <3>4. CASE j = L + 1
      <4>1. core'.queue[j].frame = core.counter + 1 /\ core.counter \in Nat
        BY <1>2, <1>5, <3>4
      <4> QED  BY <3>2, <4>1
    <3> QED  BY <1>9, <3>3, <3>4, Zenon
  <2>3. ASSUME NEW i \in 1..L + 1
        PROVE  /\ 0 < core'.queue[i].frame /\ core'.queue[i].frame <= core'.counter
               /\ framebuffer.frame # core'.queue[i].frame
               /\ overtaken = {} => framebuffer.frame < core'.queue[i].frame
    <3>1. CASE i \in 1..L
      <4>1. /\ core'.queue[i] = core.queue[i] /\ core.queue[i].frame <= core.counter
            /\ 0 < core.queue[i].frame /\ framebuffer.frame # core.queue[i].frame
            /\ overtaken = {} => framebuffer.frame < core.queue[i].frame
            /\ core.queue[i].frame \in Nat
        BY <1>2, <1>3, <2>1, <3>1, Zenon
      <4> QED  BY <1>1, <1>2, <4>1
    <3>2. CASE i = L + 1
      BY <1>1, <1>2, <1>5, <2>1, <3>2
    <3> QED  BY <1>9, <3>1, <3>2, Zenon
  <2>4. framebuffer.frame <= core'.counter /\ Len(core'.queue) <= core'.counter
    BY <1>1, <1>2, <1>3, <2>1
  <2>5. framebuffer' = framebuffer /\ overtaken' = overtaken
    BY <1>1, Zenon DEF displayVars
  <2> QED  BY <1>3, <2>2, <2>3, <2>4, <2>5, Zenon DEF QueueInv
<1>11. ItemInv'
  <2>1. ASSUME NEW i \in 1..L + 1, Tracks(i)'
        PROVE  /\ core'.slots[core'.queue[i].slot].state = "Queued"
               /\ core'.slots[core'.queue[i].slot].frame = core'.queue[i].frame
    <3>1. CASE i = L + 1
      BY <1>2, <1>4, <1>5, <3>1
    <3>2. CASE i \in 1..L
      <4>1. /\ Tracks(i) /\ core.queue[i].slot # s /\ core.queue[i].slot \in Slots
            /\ core'.queue[i] = core.queue[i]
        BY <1>2, <1>3, <1>6, <1>8, <2>1, <3>2, Zenon
      <4>2. /\ core.slots[core.queue[i].slot].state = "Queued"
            /\ core.slots[core.queue[i].slot].frame = core.queue[i].frame
        BY <1>2, <3>2, <4>1, Zenon DEF DisplayInv, ItemInv
      <4> QED  BY <1>4, <4>1, <4>2, Zenon DEF SlotKept
    <3> QED  BY <1>9, <3>1, <3>2, Zenon
  <2>2. ASSUME NEW u \in Slots, core'.slots[u].state = "Queued"
        PROVE  \E i \in 1..L + 1 : core'.queue[i].slot = u /\ Tracks(i)'
    <3>1. CASE u = s
      <4>1. L + 1 \in 1..L + 1
        BY <1>2
      <4> QED  BY <1>5, <1>7, <3>1, <4>1, Zenon
    <3>2. CASE u # s
      <4>1. core.slots[u].state = "Queued"
        BY <1>4, <2>2, <3>2, Zenon DEF SlotKept
      <4>2. PICK i \in 1..L : core.queue[i].slot = u /\ Tracks(i)
        BY <1>2, <4>1, Zenon DEF DisplayInv, ItemInv
      <4>3. i \in 1..L + 1 /\ core'.queue[i].slot = u /\ Tracks(i)'
        BY <1>2, <1>3, <1>6, <4>2
      <4> QED  BY <4>3, Zenon
    <3> QED  BY <3>1, <3>2, Zenon
  <2> QED  BY <1>3, <2>1, <2>2, Zenon DEF ItemInv
<1>12. ASSUME ~Crossed' PROVE CleanInv'
  <2>1. LastInv /\ CopyInv /\ ShownInv
    BY <1>1, <1>12, Zenon DEF Crossed, DisplayInv, CleanInv
  <2>2. LastInv'
    <3> SUFFICES ASSUME NEW i \in 1..L + 1, NEW j \in 1..L + 1, Tracks(i)', i < j
                 PROVE  core'.queue[j].slot # core'.queue[i].slot
      BY <1>3, Zenon DEF LastInv
    <3>1. i \in 1..L
      BY <1>2
    <3>2. Tracks(i) /\ core.queue[i].slot # s /\ core'.queue[i] = core.queue[i]
      BY <1>3, <1>6, <1>8, <3>1, Zenon
    <3>3. CASE j \in 1..L
      BY <1>2, <1>3, <2>1, <3>1, <3>2, <3>3, Zenon DEF LastInv
    <3>4. CASE j = L + 1
      BY <1>5, <3>2, <3>4, Zenon
    <3> QED  BY <1>9, <3>3, <3>4, Zenon
  <2>3. CopyInv'
    <3>1. ASSUME core.slots[s].acquireCalled
          PROVE  /\ tracked[s] = core.slots[s].buffer
                 /\ \A i \in 1..L : core.queue[i].slot # s
                 /\ framebuffer.acquired => framebuffer.slot # s
      <4>1. tracked[s] = core.slots[s].buffer /\ \A i \in 1..L : core.queue[i].slot = s => Tracks(i)
        BY <1>2, <2>1, <3>1, Zenon DEF CopyInv
      <4>2. framebuffer.acquired => framebuffer.slot # s
        BY <1>1, <2>1, <3>1, Zenon DEF ShownInv
      <4> QED  BY <1>8, <4>1, <4>2, Zenon
    <3>2. ASSUME NEW u \in Slots, core'.slots[u].acquireCalled
          PROVE  /\ core'.slots[u].buffer # NoBuffer /\ tracked[u] = core'.slots[u].buffer
                 /\ \A i \in 1..L + 1 : core'.queue[i].slot = u => Tracks(i)'
      <4>1. core.slots[u].acquireCalled /\ core'.slots[u].buffer = core.slots[u].buffer
        BY <1>4, <3>2, Zenon DEF SlotKept
      <4>2. /\ core.slots[u].buffer # NoBuffer /\ tracked[u] = core.slots[u].buffer
            /\ \A i \in 1..L : core.queue[i].slot = u => Tracks(i)
        BY <1>2, <2>1, <4>1, Zenon DEF CopyInv
      <4> QED  BY <1>3, <1>6, <1>7, <1>9, <4>1, <4>2, Zenon
    <3>3. ASSUME NEW i \in 1..L + 1, core'.queue[i].acquireCalled
          PROVE  /\ tracked[core'.queue[i].slot] = core'.queue[i].buffer
                 /\ \A j \in 1..L + 1 : j < i => core'.queue[j].slot # core'.queue[i].slot
                 /\ framebuffer.acquired => framebuffer.slot # core'.queue[i].slot
      <4>1. CASE i = L + 1
        <5>1. core.slots[s].acquireCalled
          BY <1>5, <3>3, <4>1, Zenon
        <5>2. /\ \A j \in 1..L : core.queue[j].slot # s
              /\ framebuffer.acquired => framebuffer.slot # s
              /\ tracked[s] = core.slots[s].buffer
          BY <3>1, <5>1, Zenon
        <5>3. \A j \in 1..L + 1 : j < i => j \in 1..L
          BY <1>2, <4>1
        <5> QED  BY <1>3, <1>5, <4>1, <5>2, <5>3, Zenon
      <4>2. CASE i \in 1..L
        <5>1. /\ tracked[core.queue[i].slot] = core.queue[i].buffer
              /\ \A j \in 1..L : j < i => core.queue[j].slot # core.queue[i].slot
              /\ framebuffer.acquired => framebuffer.slot # core.queue[i].slot
          BY <1>2, <1>3, <2>1, <3>3, <4>2, Zenon DEF CopyInv
        <5>2. \A j \in 1..L + 1 : j < i => j \in 1..L
          BY <1>2, <4>2
        <5> QED  BY <1>3, <4>2, <5>1, <5>2, Zenon
      <4> QED  BY <1>9, <4>1, <4>2, Zenon
    <3> QED  BY <1>3, <3>2, <3>3, Zenon DEF CopyInv, displayVars
  <2>4. ShownInv'
    <3>1. ASSUME framebuffer.acquired
          PROVE  /\ framebuffer.buffer # NoBuffer
                 /\ core'.slots[framebuffer.slot].buffer = framebuffer.buffer =>
                       core'.slots[framebuffer.slot].state = "Acquired"
                 /\ core'.slots[framebuffer.slot].acquireCalled =>
                       core'.slots[framebuffer.slot].state = "Acquired"
      <4>1. framebuffer.slot \in Slots
        BY <3>1, Zenon DEF DisplayInv, DisplayType
      <4> QED  BY <1>1, <1>4, <2>1, <3>1, <4>1, Zenon DEF SlotKept, ShownInv
    <3>2. ASSUME NEW u \in Slots, core'.slots[u].state = "Acquired"
          PROVE  /\ core'.slots[u].acquireCalled
                 /\ framebuffer.acquired /\ framebuffer.slot = u
                 /\ core'.slots[u].buffer = framebuffer.buffer
                 /\ core'.slots[u].frame = framebuffer.frame
                 /\ \A i \in 1..L + 1 : core'.queue[i].slot # u
      <4>1. u # s /\ SlotKept(u)
        BY <1>4, <3>2, Zenon
      <4>2. /\ core.slots[u].acquireCalled /\ framebuffer.acquired /\ framebuffer.slot = u
            /\ core.slots[u].buffer = framebuffer.buffer /\ core.slots[u].frame = framebuffer.frame
            /\ \A i \in 1..L : core.queue[i].slot # u
        BY <1>2, <2>1, <3>2, <4>1, ZenonT(20) DEF SlotKept, ShownInv
      <4>3. \A i \in 1..L + 1 : core'.queue[i].slot # u
        BY <1>3, <1>5, <1>9, <4>1, <4>2, Zenon
      <4> QED  BY <4>1, <4>2, <4>3, Zenon DEF SlotKept
    <3> QED  BY <1>1, <1>3, <2>1, <3>1, <3>2 DEF ShownInv, displayVars
  <2> QED  BY <2>2, <2>3, <2>4, Zenon DEF CleanInv
<1> QED  BY <1>10, <1>11, <1>12, Zenon

(* A frame that replaces a droppable one takes the place of the front.     *)
(* The items behind it are older; as long as none of them is of its slot,  *)
(* they and their slots are as they were.                                  *)
LEMMA ReplacesPreserves ==
    ASSUME DisplayInv, NEW s \in Slots, NEW async \in BOOLEAN,
           QueueBuffer(s, async), Replaces(s, async), UNCHANGED displayVars
    PROVE  QueueInv' /\ ItemInv' /\ (~Crossed' => CleanInv')
<1>0. PICK L : L = Len(core.queue)
  BY Zenon
<1>1. /\ core.slots[s].state = "Dequeued" /\ core.slots[s].buffer \in 1..MaxBuffers
      /\ core'.counter = core.counter + 1 /\ overtaken' = overtaken \cup Overtaken(s)
      /\ NewItem(s, async) \in Items
  BY QueueBufferFacts, Zenon
<1>2. /\ core.queue \in Seq(Items) /\ L \in Nat /\ L >= 1 /\ DOMAIN core.queue = 1..L
      /\ core.counter \in 0..MaxFrames /\ framebuffer.frame \in Nat
      /\ Head(core.queue) = core.queue[1] /\ core.queue[1].slot \in Slots
      /\ \A i \in 1..L : core.queue[i].slot \in Slots /\ core.queue[i].frame \in Nat
  <2>1. /\ core.queue \in Seq(Items) /\ L \in Nat /\ DOMAIN core.queue = 1..L
        /\ core.counter \in 0..MaxFrames /\ framebuffer.frame \in Nat
        /\ \A i \in 1..L : core.queue[i].slot \in Slots /\ core.queue[i].frame \in Nat
    BY <1>0, FieldTypes, Zenon DEF DisplayInv
  <2>2. core.queue # <<>>
    BY Zenon DEF Replaces
  <2>3. L >= 1 /\ Head(core.queue) = core.queue[1]
    BY <1>0, <2>1, <2>2, TailFacts, Zenon
  <2>4. 1 \in 1..L
    BY <2>1, <2>3
  <2> QED  BY <2>1, <2>3, <2>4, Zenon
<1>3. /\ core'.queue[1] = NewItem(s, async) /\ DOMAIN core'.queue = 1..L /\ Len(core'.queue) = L
      /\ \A i \in 2..L : core'.queue[i] = core.queue[i]
  <2>1. core'.queue = [core.queue EXCEPT ![1] = NewItem(s, async)]
    BY Zenon DEF Replaces
  <2>2. 1 \in 1..L /\ \A i \in 2..L : i \in 1..L /\ i # 1
    BY <1>2
  <2>3. /\ core'.queue \in Seq(Items) /\ Len(core'.queue) = L
        /\ \A i \in 1..L : core'.queue[i] = IF i = 1 THEN NewItem(s, async) ELSE core.queue[i]
    <3>1. 1 \in 1..Len(core.queue)
      BY <1>0, <2>2, Zenon
    <3>2. /\ [core.queue EXCEPT ![1] = NewItem(s, async)] \in Seq(Items)
          /\ Len([core.queue EXCEPT ![1] = NewItem(s, async)]) = Len(core.queue)
          /\ \A i \in 1..Len(core.queue) : [core.queue EXCEPT ![1] = NewItem(s, async)][i] =
                                            IF i = 1 THEN NewItem(s, async) ELSE core.queue[i]
      BY <1>1, <1>2, <3>1, ReplacedFacts
    <3> QED  BY <1>0, <2>1, <3>2, Zenon
  <2>4. DOMAIN core'.queue = 1..L
    BY <1>2, <2>1, Zenon
  <2> QED  BY <2>2, <2>3, <2>4, Zenon
<1>4. /\ core'.slots[s].state = "Queued" /\ core'.slots[s].frame = core.counter + 1
      /\ \A u \in Slots : /\ core'.slots[u].buffer = core.slots[u].buffer
                          /\ core'.slots[u].acquireCalled = core.slots[u].acquireCalled
      /\ \A u \in Slots : u # s =>
            /\ ~(u = core.queue[1].slot /\ Tracks(1)) => SlotKept(u)
            /\ u = core.queue[1].slot /\ Tracks(1) => core'.slots[u].state = "Free"
  <2> DEFINE Freed(u) == [core.slots[u] EXCEPT !.state = "Free", !.frame = 0]
  <2>1. \A u \in Slots :
           core'.slots[u] = IF u = s THEN QueuedSlot(s)
                            ELSE IF u = core.queue[1].slot /\ core.slots[u].buffer = core.queue[1].buffer
                            THEN Freed(u) ELSE core.slots[u]
    BY <1>2, ZenonT(20) DEF Replaces
  <2>2. \A u \in Slots : /\ Freed(u).state = "Free" /\ Freed(u).buffer = core.slots[u].buffer
                         /\ Freed(u).acquireCalled = core.slots[u].acquireCalled
    <3>1. \A u \in Slots : core.slots[u] \in SlotRecords
      BY Zenon DEF DisplayInv, CoreType, CoreRecords
    <3> QED  BY <3>1, Zenon DEF SlotRecords
  <2> HIDE DEF Freed
  <2>3. core'.slots[s] = QueuedSlot(s)
    BY <2>1, Zenon
  <2>4. /\ core'.slots[s].state = "Queued" /\ core'.slots[s].frame = core.counter + 1
        /\ core'.slots[s].buffer = core.slots[s].buffer
        /\ core'.slots[s].acquireCalled = core.slots[s].acquireCalled
    BY <2>3, QueuedSlotFields, Zenon
  <2>5. ASSUME NEW u \in Slots, u # s
        PROVE  /\ core'.slots[u].buffer = core.slots[u].buffer
               /\ core'.slots[u].acquireCalled = core.slots[u].acquireCalled
               /\ ~(u = core.queue[1].slot /\ Tracks(1)) => SlotKept(u)
               /\ u = core.queue[1].slot /\ Tracks(1) => core'.slots[u].state = "Free"
    BY <2>1, <2>2, <2>5 DEF SlotKept, Tracks
  <2> QED  BY <2>4, <2>5, Zenon
<1>5. /\ core'.queue[1].slot = s /\ core'.queue[1].buffer = core.slots[s].buffer
      /\ core'.queue[1].frame = core.counter + 1
      /\ core'.queue[1].acquireCalled = core.slots[s].acquireCalled
  <2>1. /\ NewItem(s, async).slot = s /\ NewItem(s, async).buffer = core.slots[s].buffer
        /\ NewItem(s, async).frame = core.counter + 1
        /\ NewItem(s, async).acquireCalled = core.slots[s].acquireCalled
    BY Zenon DEF NewItem
  <2> QED  BY <1>3, <2>1, Zenon
<1>6. Tracks(1)'
  BY <1>4, <1>5, Zenon DEF Tracks
<1>7. /\ \A i \in 1..L : i = 1 \/ i \in 2..L
      /\ \A i \in 2..L : i \in 1..L /\ i # 1 /\ 1 < i
      /\ 1 \in 1..L /\ \A i, j \in 1..L : i < j => j \in 2..L
  BY <1>2
<1>8. \A i \in 2..L : Tracks(i)' <=> Tracks(i)
  <2> TAKE i \in 2..L
  <2>1. core'.queue[i] = core.queue[i] /\ core.queue[i].slot \in Slots
    BY <1>2, <1>3, <1>7, Zenon
  <2>2. \A u \in Slots : core'.slots[u].buffer = core.slots[u].buffer
    BY <1>4, Zenon DEF SlotKept
  <2> QED  BY <2>1, <2>2, Zenon DEF Tracks
<1>9. \A i \in 2..L : Tracks(i) => core.queue[i].slot # s /\ SlotKept(core.queue[i].slot)
  <2> SUFFICES ASSUME NEW i \in 2..L, Tracks(i)
               PROVE  core.queue[i].slot # s /\ SlotKept(core.queue[i].slot)
    BY Zenon
  <2>1. /\ core.queue[i].slot \in Slots /\ core.slots[core.queue[i].slot].state = "Queued"
        /\ core.slots[core.queue[i].slot].frame = core.queue[i].frame
    BY <1>2, <1>7, Zenon DEF DisplayInv, ItemInv
  <2>2. ASSUME core.queue[i].slot = core.queue[1].slot, Tracks(1) PROVE FALSE
    <3>1. core.slots[core.queue[1].slot].frame = core.queue[1].frame
      BY <1>2, <1>7, <2>2, Zenon DEF DisplayInv, ItemInv
    <3>2. core.queue[1].frame # core.queue[i].frame
      BY <1>2, <1>7, Zenon DEF DisplayInv, QueueInv
    <3> QED  BY <2>1, <2>2, <3>1, <3>2, Zenon
  <2>3. core.queue[i].slot # s
    BY <1>1, <2>1, Zenon
  <2> QED  BY <1>4, <2>1, <2>2, <2>3, Zenon
<1>10. (\E i \in 2..L : TRUE) => overtaken' # {}
  <2>1. core.queue # <<>> /\ Head(core.queue).droppable
    BY Zenon DEF Replaces
  <2> QED  BY <1>0, <1>1, <2>1, Zenon DEF Overtaken
<1>11. QueueInv'
  <2>1. /\ \A i, j \in 1..L : i < j =>
              /\ core.queue[i].frame # core.queue[j].frame
              /\ 1 < i \/ overtaken = {} => core.queue[i].frame < core.queue[j].frame
        /\ \A i \in 1..L : /\ 0 < core.queue[i].frame /\ core.queue[i].frame <= core.counter
                           /\ framebuffer.frame # core.queue[i].frame
                           /\ overtaken = {} => framebuffer.frame < core.queue[i].frame
        /\ framebuffer.frame <= core.counter /\ L <= core.counter
    BY <1>0, <1>2, Zenon DEF DisplayInv, QueueInv
  <2>2. ASSUME NEW i \in 1..L, NEW j \in 1..L, i < j
        PROVE  /\ core'.queue[i].frame # core'.queue[j].frame
               /\ 1 < i \/ overtaken' = {} => core'.queue[i].frame < core'.queue[j].frame
    <3>1. j \in 2..L /\ overtaken' # {}
      BY <1>7, <1>10, <2>2, Zenon
    <3>2. core'.queue[j] = core.queue[j] /\ core.queue[j].frame <= core.counter
      BY <1>3, <2>1, <3>1, Zenon
    <3>3. CASE i = 1
      <4>1. core.queue[j].frame \in Nat /\ core.counter \in Nat
        BY <1>2
      <4>2. core'.queue[i].frame # core'.queue[j].frame
        BY <1>5, <3>2, <3>3, <4>1
      <4>3. ~(1 < i)
        BY <3>3
      <4> QED  BY <3>1, <4>2, <4>3, Zenon
    <3>4. CASE i \in 2..L
      <4>1. core'.queue[i] = core.queue[i] /\ 1 < i
        BY <1>3, <1>7, <3>4, Zenon
      <4>2. core.queue[i].frame # core.queue[j].frame /\ core.queue[i].frame < core.queue[j].frame
        BY <2>1, <2>2, <4>1, Zenon
      <4> QED  BY <3>2, <4>1, <4>2, Zenon
    <3> QED  BY <1>7, <3>3, <3>4, Zenon
  <2>3. ASSUME NEW i \in 1..L
        PROVE  /\ 0 < core'.queue[i].frame /\ core'.queue[i].frame <= core'.counter
               /\ framebuffer.frame # core'.queue[i].frame
               /\ overtaken' = {} => framebuffer.frame < core'.queue[i].frame
    <3>1. CASE i = 1
      BY <1>1, <1>2, <1>5, <2>1, <3>1
    <3>2. CASE i \in 2..L
      <4>1. /\ core'.queue[i] = core.queue[i] /\ core.queue[i].frame <= core.counter
            /\ 0 < core.queue[i].frame /\ framebuffer.frame # core.queue[i].frame
            /\ overtaken' # {} /\ core.queue[i].frame \in Nat /\ core.counter \in Nat
        BY <1>2, <1>3, <1>10, <2>1, <3>2
      <4> QED  BY <1>1, <4>1
    <3> QED  BY <1>7, <3>1, <3>2, Zenon
  <2>4. framebuffer.frame <= core'.counter /\ Len(core'.queue) <= core'.counter
    BY <1>1, <1>2, <1>3, <2>1
  <2> QED  BY <1>3, <2>2, <2>3, <2>4, Zenon DEF QueueInv, displayVars
<1>12. ItemInv'
  <2>1. ASSUME NEW i \in 1..L, Tracks(i)'
        PROVE  /\ core'.slots[core'.queue[i].slot].state = "Queued"
               /\ core'.slots[core'.queue[i].slot].frame = core'.queue[i].frame
    <3>1. CASE i = 1
      BY <1>4, <1>5, <3>1
    <3>2. CASE i \in 2..L
      <4>1. Tracks(i) /\ SlotKept(core.queue[i].slot) /\ core'.queue[i] = core.queue[i]
        BY <1>3, <1>8, <1>9, <2>1, <3>2, Zenon
      <4> QED  BY <1>2, <4>1, Zenon DEF DisplayInv, ItemInv, SlotKept
    <3> QED  BY <1>7, <3>1, <3>2, Zenon
  <2>2. ASSUME NEW u \in Slots, core'.slots[u].state = "Queued"
        PROVE  \E i \in 1..L : core'.queue[i].slot = u /\ Tracks(i)'
    <3>1. CASE u = s
      BY <1>5, <1>6, <1>7, <3>1, Zenon
    <3>2. CASE u # s
      <4>1. ~(u = core.queue[1].slot /\ Tracks(1)) /\ SlotKept(u)
        <5>1. ASSUME u = core.queue[1].slot, Tracks(1) PROVE FALSE
          BY <1>4, <2>2, <3>2, <5>1, Zenon
        <5> QED  BY <1>4, <3>2, <5>1, Zenon
      <4>2. core.slots[u].state = "Queued"
        BY <2>2, <4>1, Zenon DEF SlotKept
      <4>3. PICK i \in 1..L : core.queue[i].slot = u /\ Tracks(i)
        BY <1>2, <4>2, Zenon DEF DisplayInv, ItemInv
      <4>4. i \in 2..L
        BY <1>7, <4>1, <4>3, Zenon
      <4>5. core'.queue[i].slot = u /\ Tracks(i)'
        BY <1>3, <1>8, <4>3, <4>4, Zenon
      <4> QED  BY <4>5, Zenon
    <3> QED  BY <3>1, <3>2, Zenon
  <2> QED  BY <1>3, <2>1, <2>2, Zenon DEF ItemInv
<1>13. ASSUME ~Crossed' PROVE CleanInv'
  <2>1. LastInv /\ CopyInv /\ ShownInv
    BY <1>1, <1>13, Zenon DEF Crossed, DisplayInv, CleanInv
  <2>2. \A i \in 2..L : core.queue[i].slot # s
    <3>1. core.queue # <<>> /\ Head(core.queue).droppable
      BY Zenon DEF Replaces
    <3>2. "slot" \notin Overtaken(s)
      BY <1>1, <1>13, Zenon DEF Crossed
    <3> QED  BY <1>0, <3>1, <3>2, Zenon DEF Overtaken
  <2>3. LastInv'
    <3> SUFFICES ASSUME NEW i \in 1..L, NEW j \in 1..L, Tracks(i)', i < j
                 PROVE  core'.queue[j].slot # core'.queue[i].slot
      BY <1>3, Zenon DEF LastInv
    <3>1. j \in 2..L /\ core'.queue[j] = core.queue[j]
      BY <1>3, <1>7, Zenon
    <3>2. CASE i = 1
      BY <1>5, <2>2, <3>1, <3>2, Zenon
    <3>3. CASE i \in 2..L
      BY <1>2, <1>3, <1>8, <2>1, <3>1, <3>3, Zenon DEF LastInv
    <3> QED  BY <1>7, <3>2, <3>3, Zenon
  <2>4. CopyInv'
    <3>1. ASSUME NEW u \in Slots, core'.slots[u].acquireCalled
          PROVE  /\ core'.slots[u].buffer # NoBuffer /\ tracked[u] = core'.slots[u].buffer
                 /\ \A i \in 1..L : core'.queue[i].slot = u => Tracks(i)'
      <4>1. /\ core.slots[u].buffer # NoBuffer /\ tracked[u] = core.slots[u].buffer
            /\ \A i \in 1..L : core.queue[i].slot = u => Tracks(i)
        BY <1>2, <1>4, <2>1, <3>1, Zenon DEF CopyInv
      <4>2. \A i \in 2..L : core'.queue[i].slot = u => Tracks(i)'
        BY <1>3, <1>7, <1>8, <4>1, Zenon
      <4> QED  BY <1>4, <1>6, <1>7, <4>1, <4>2, Zenon
    <3>2. ASSUME NEW i \in 1..L, core'.queue[i].acquireCalled
          PROVE  /\ tracked[core'.queue[i].slot] = core'.queue[i].buffer
                 /\ \A j \in 1..L : j < i => core'.queue[j].slot # core'.queue[i].slot
                 /\ framebuffer.acquired => framebuffer.slot # core'.queue[i].slot
      <4>1. CASE i = 1
        <5>1. core.slots[s].acquireCalled
          BY <1>5, <3>2, <4>1, Zenon
        <5>2. tracked[s] = core.slots[s].buffer
          BY <2>1, <5>1, Zenon DEF CopyInv
        <5>3. framebuffer.acquired => framebuffer.slot # s
          BY <1>1, <2>1, <5>1, Zenon DEF ShownInv
        <5>4. \A j \in 1..L : ~(j < i)
          BY <1>2, <4>1
        <5> QED  BY <1>5, <4>1, <5>2, <5>3, <5>4, Zenon
      <4>2. CASE i \in 2..L
        <5>1. /\ core'.queue[i] = core.queue[i] /\ core.queue[i].acquireCalled
              /\ i \in DOMAIN core.queue
          BY <1>2, <1>3, <1>7, <3>2, <4>2, Zenon
        <5>2. /\ tracked[core.queue[i].slot] = core.queue[i].buffer
              /\ \A j \in 1..L : j < i => core.queue[j].slot # core.queue[i].slot
              /\ framebuffer.acquired => framebuffer.slot # core.queue[i].slot
          BY <1>2, <2>1, <5>1, Zenon DEF CopyInv
        <5>3. \A j \in 1..L : j < i => core'.queue[j].slot # core.queue[i].slot
          BY <1>3, <1>5, <1>7, <2>2, <4>2, <5>2, Zenon
        <5> QED  BY <5>1, <5>2, <5>3, Zenon
      <4> QED  BY <1>7, <4>1, <4>2, Zenon
    <3> QED  BY <1>3, <3>1, <3>2, Zenon DEF CopyInv, displayVars
  <2>5. ShownInv'
    <3>1. ASSUME framebuffer.acquired
          PROVE  /\ framebuffer.buffer # NoBuffer
                 /\ core'.slots[framebuffer.slot].buffer = framebuffer.buffer =>
                       core'.slots[framebuffer.slot].state = "Acquired"
                 /\ core'.slots[framebuffer.slot].acquireCalled =>
                       core'.slots[framebuffer.slot].state = "Acquired"
      <4>1. /\ framebuffer.slot \in Slots /\ framebuffer.buffer # NoBuffer
            /\ core.slots[framebuffer.slot].buffer = framebuffer.buffer =>
                  core.slots[framebuffer.slot].state = "Acquired"
            /\ core.slots[framebuffer.slot].acquireCalled =>
                  core.slots[framebuffer.slot].state = "Acquired"
        BY <2>1, <3>1, Zenon DEF DisplayInv, DisplayType, ShownInv
      <4>2. core.slots[framebuffer.slot].state = "Acquired" => SlotKept(framebuffer.slot)
        BY <1>1, <1>2, <1>4, <1>7, <4>1 DEF DisplayInv, ItemInv
      <4> QED  BY <1>4, <4>1, <4>2, Zenon DEF SlotKept
    <3>2. ASSUME NEW u \in Slots, core'.slots[u].state = "Acquired"
          PROVE  /\ core'.slots[u].acquireCalled
                 /\ framebuffer.acquired /\ framebuffer.slot = u
                 /\ core'.slots[u].buffer = framebuffer.buffer
                 /\ core'.slots[u].frame = framebuffer.frame
                 /\ \A i \in 1..L : core'.queue[i].slot # u
      <4>1. u # s /\ SlotKept(u)
        BY <1>4, <3>2, Zenon
      <4>2. /\ core.slots[u].acquireCalled /\ framebuffer.acquired /\ framebuffer.slot = u
            /\ core.slots[u].buffer = framebuffer.buffer /\ core.slots[u].frame = framebuffer.frame
            /\ \A i \in 1..L : core.queue[i].slot # u
        BY <1>2, <2>1, <3>2, <4>1, ZenonT(20) DEF SlotKept, ShownInv
      <4>3. \A i \in 1..L : core'.queue[i].slot # u
        BY <1>3, <1>5, <1>7, <4>1, <4>2, Zenon
      <4> QED  BY <4>1, <4>2, <4>3, Zenon DEF SlotKept
    <3> QED  BY <1>3, <2>1, <3>1, <3>2 DEF ShownInv, displayVars
  <2> QED  BY <2>3, <2>4, <2>5, Zenon DEF CleanInv
<1> QED  BY <1>11, <1>12, <1>13, Zenon

(* QueueBuffer, either way.                                                *)
LEMMA QueueBufferPreserves ==
    ASSUME DisplayInv, NEW s \in Slots, NEW async \in BOOLEAN, QueueBuffer(s, async),
           UNCHANGED displayVars
    PROVE  DisplayInv'
<1>1. /\ ~core.abandoned /\ ~core'.abandoned /\ At("idle") /\ core' \in CoreRecords
      /\ UNCHANGED <<producer, changes>> /\ overtaken' = overtaken \cup Overtaken(s)
      /\ core.slots[s].state = "Dequeued" /\ (Appends(s, async) \/ Replaces(s, async))
  BY QueueBufferFacts, Zenon
<1>2. CoreType' /\ DisplayType'
  <2>1. Overtaken(s) \subseteq {"frame", "slot"}
    BY Zenon DEF Overtaken
  <2>2. overtaken' \subseteq {"frame", "slot"}
    BY <1>1, <2>1, Zenon DEF DisplayInv, CoreType
  <2> QED  BY <1>1, <2>2, Zenon DEF DisplayInv, CoreType, DisplayType, displayVars
<1>3. QueueInv' /\ ItemInv' /\ (~Crossed' => CleanInv')
  <2>1. CASE Replaces(s, async)
    BY <2>1, ReplacesPreserves, Zenon
  <2>2. CASE ~Replaces(s, async)
    <3>1. Appends(s, async)
      BY <1>1, <2>2, Zenon
    <3> QED  BY <3>1, AppendsPreserves, Zenon
  <2> QED  BY <2>1, <2>2, Zenon
<1>4. ProducerInv'
  <2>1. core.slots \in [Slots -> SlotRecords]
    BY Zenon DEF DisplayInv, CoreType, CoreRecords
  <2>2. ASSUME NEW u \in Slots, core'.slots[u].state = "Dequeued"
        PROVE  core'.slots[u] = core.slots[u]
    <3>1. CASE Appends(s, async)
      <4>1. core'.slots[u] = IF u = s THEN QueuedSlot(s) ELSE core.slots[u]
        BY <2>1, <3>1, Zenon DEF Appends
      <4> QED  BY <2>2, <4>1, QueuedSlotFields, Zenon
    <3>2. CASE Replaces(s, async)
      <4> DEFINE freed == [core.slots[u] EXCEPT !.state = "Free", !.frame = 0]
      <4>1. core'.slots[u] \in {QueuedSlot(s), freed, core.slots[u]}
        BY <3>2, Zenon DEF Replaces
      <4>2. freed.state = "Free"
        BY <2>1, Zenon DEF SlotRecords
      <4> HIDE DEF freed
      <4> QED  BY <2>2, <4>1, <4>2, QueuedSlotFields, Zenon
    <3> QED  BY <1>1, <3>1, <3>2, Zenon
  <2>3. \A u \in Slots : core'.slots[u].state = "Dequeued" => core'.slots[u].buffer # NoBuffer
    BY <1>1, <2>2, Zenon DEF DisplayInv, ProducerInv, At
  <2> QED  BY <1>1, <2>3, NotAllocating, Zenon DEF At
<1> QED  BY <1>2, <1>3, <1>4, Zenon DEF DisplayInv

-----------------------------------------------------------------------------
(* The display.                                                            *)

(* ReleaseItem frees the slot, or leaves the slots as they are.  As long   *)
(* as no frame overtook one of its own slot, it leaves no slot acquired,   *)
(* and forgets no more than a copy of a buffer that the slot has not.      *)
LEMMA ReleaseItemFacts ==
    ASSUME DisplayInv, framebuffer.acquired, ReleaseItem
    PROVE  /\ core' \in CoreRecords /\ core'.queue = core.queue /\ core'.counter = core.counter
           /\ core'.abandoned = core.abandoned
           /\ \A u \in Slots :
                 /\ core'.slots[u].buffer = core.slots[u].buffer
                 /\ core'.slots[u].frame = core.slots[u].frame
                 /\ core'.slots[u].acquireCalled = core.slots[u].acquireCalled
                 /\ \/ core'.slots[u].state = core.slots[u].state
                    \/ core.slots[u].state = "Acquired" /\ core'.slots[u].state = "Free"
           /\ tracked' \in [Slots -> 0..MaxBuffers]
           /\ ~Crossed => \A u \in Slots :
                 /\ core'.slots[u].state # "Acquired"
                 /\ tracked'[u] = tracked[u]
                    \/ /\ framebuffer.acquired /\ u = framebuffer.slot
                       /\ ~core.slots[u].acquireCalled
<1>0. PICK s \in Slots : s = framebuffer.slot
  BY Zenon DEF DisplayInv, DisplayType
<1>1. /\ core \in CoreRecords /\ core.slots[s] \in SlotRecords
      /\ tracked \in [Slots -> 0..MaxBuffers] /\ NoBuffer \in 0..MaxBuffers
  BY BufferQueueAssumption, SMTT(20) DEF DisplayInv, CoreType, DisplayType, CoreRecords, NoBuffer
<1>2. ~Crossed => \A u \in Slots : core.slots[u].state = "Acquired" => u = s
  BY <1>0, Zenon DEF DisplayInv, CleanInv, ShownInv
<1> DEFINE released == /\ tracked[s] # NoBuffer /\ tracked[s] = framebuffer.buffer
                       /\ ReleaseStatus(core, s, framebuffer.frame) = "NoError"
<1>3. CASE released
  <2>1. core.slots[s].state = "Acquired"
    BY <1>3, Zenon DEF ReleaseStatus
  <2>2. core' = [[core EXCEPT !.slots[s].state = "Free"] EXCEPT !.possible = TRUE]
    BY <1>0, <1>3, Zenon DEF ReleaseItem, ReleaseBuffer, SignalDequeueCondition
  <2>3. tracked' = tracked
    BY <1>0, <1>3, Zenon DEF ReleaseItem
  <2> DEFINE n == [core.slots[s] EXCEPT !.state = "Free"]
  <2>4. /\ n \in SlotRecords /\ n.state = "Free" /\ n.buffer = core.slots[s].buffer
        /\ n.frame = core.slots[s].frame /\ n.acquireCalled = core.slots[s].acquireCalled
    BY <1>1, Zenon DEF SlotRecords, States
  <2>5. core' = [core EXCEPT !.slots = [core.slots EXCEPT ![s] = n], !.possible = TRUE]
    BY <1>1, <2>2, Zenon DEF CoreRecords
  <2> HIDE DEF n
  <2>6. /\ core' \in CoreRecords /\ core'.queue = core.queue /\ core'.counter = core.counter
        /\ core'.abandoned = core.abandoned /\ core'.slots = [core.slots EXCEPT ![s] = n]
    BY <1>1, <2>4, <2>5, Zenon DEF CoreRecords
  <2>7. \A u \in Slots : core'.slots[u] = IF u = s THEN n ELSE core.slots[u]
    BY <1>1, <2>6, Zenon DEF CoreRecords
  <2>8. ~Crossed => \A u \in Slots : core'.slots[u].state # "Acquired"
    BY <1>2, <2>4, <2>7, Zenon
  <2> QED  BY <1>1, <2>1, <2>3, <2>4, <2>6, <2>7, <2>8, Zenon
<1>4. CASE ~released
  <2>1. core' = core /\ (tracked' = tracked \/ tracked' = [tracked EXCEPT ![s] = NoBuffer])
    BY <1>0, <1>4, Zenon DEF ReleaseItem, ReleaseBuffer
  <2>2. /\ tracked' \in [Slots -> 0..MaxBuffers]
        /\ \A u \in Slots : u # s => tracked'[u] = tracked[u]
    BY <1>1, <2>1, Zenon
  <2>3. ASSUME ~Crossed PROVE core.slots[s].state # "Acquired" /\ ~core.slots[s].acquireCalled
    <3>1. CopyInv /\ ShownInv
      BY <2>3, Zenon DEF DisplayInv, CleanInv
    <3>2. ASSUME core.slots[s].state = "Acquired" PROVE FALSE
      <4>1. /\ core.slots[s].acquireCalled /\ core.slots[s].buffer = framebuffer.buffer
            /\ core.slots[s].frame = framebuffer.frame
            /\ \A i \in DOMAIN core.queue : core.queue[i].slot # s
        BY <3>1, <3>2, Zenon DEF ShownInv
      <4>2. tracked[s] = framebuffer.buffer /\ tracked[s] # NoBuffer
        BY <3>1, <4>1, Zenon DEF CopyInv
      <4>3. ReleaseStatus(core, s, framebuffer.frame) = "NoError"
        BY <3>2, <4>1, Zenon DEF ReleaseStatus
      <4> QED  BY <1>4, <4>2, <4>3, Zenon
    <3> QED  BY <1>0, <3>1, <3>2, Zenon DEF ShownInv
  <2>4. ~Crossed => \A u \in Slots : core.slots[u].state # "Acquired"
    BY <1>2, <2>3, Zenon
  <2> QED  BY <1>0, <1>1, <2>1, <2>2, <2>3, <2>4, Zenon
<1> QED  BY <1>3, <1>4, Zenon

(* ReleaseFramebuffersLocked and RemoveLayerLocked: the frame is given up. *)
LEMMA ReleasePreserves ==
    ASSUME DisplayInv, framebuffer' = NoFramebuffer,
           IF framebuffer.acquired THEN ReleaseItem ELSE UNCHANGED <<core, tracked>>,
           composing' \in BOOLEAN, layer' \in {"open", "closed", "destroyed"},
           UNCHANGED <<producer, overtaken, changes>>
    PROVE  DisplayInv'
<1>1. /\ core' \in CoreRecords /\ core'.queue = core.queue /\ core'.counter = core.counter
      /\ core'.abandoned = core.abandoned
      /\ \A u \in Slots :
            /\ core'.slots[u].buffer = core.slots[u].buffer
            /\ core'.slots[u].frame = core.slots[u].frame
            /\ core'.slots[u].acquireCalled = core.slots[u].acquireCalled
            /\ \/ core'.slots[u].state = core.slots[u].state
               \/ core.slots[u].state = "Acquired" /\ core'.slots[u].state = "Free"
      /\ tracked' \in [Slots -> 0..MaxBuffers]
      /\ ~Crossed => \A u \in Slots :
            /\ core'.slots[u].state # "Acquired"
            /\ tracked'[u] = tracked[u]
               \/ /\ framebuffer.acquired /\ u = framebuffer.slot
                  /\ ~core.slots[u].acquireCalled
  <2>1. CASE framebuffer.acquired
    BY <2>1, ReleaseItemFacts, Zenon
  <2>2. CASE ~framebuffer.acquired
    <3>1. ~Crossed => \A u \in Slots : core.slots[u].state # "Acquired"
      BY <2>2, Zenon DEF DisplayInv, CleanInv, ShownInv
    <3> QED  BY <2>2, <3>1, Zenon DEF DisplayInv, CoreType, DisplayType
  <2> QED  BY <2>1, <2>2, Zenon
<1>a. /\ core'.queue = core.queue /\ core'.counter = core.counter
      /\ core'.abandoned = core.abandoned
      /\ \A u \in Slots : /\ core'.slots[u].buffer = core.slots[u].buffer
                         /\ core'.slots[u].frame = core.slots[u].frame
                         /\ core'.slots[u].acquireCalled = core.slots[u].acquireCalled
  BY <1>1, Zenon
<1>b. producer' = producer /\ overtaken' = overtaken
  BY Zenon
<1>2. /\ ~framebuffer'.acquired /\ framebuffer'.frame = 0
      /\ framebuffer' \in [acquired : BOOLEAN, slot : Slots \cup {NoSlot}, buffer : 0..MaxBuffers,
                           frame : Nat]
  <2>1. NoBuffer \in 0..MaxBuffers
    BY BufferQueueAssumption DEF NoBuffer
  <2> QED  BY <2>1, Zenon DEF NoFramebuffer
<1>3. \A i \in DOMAIN core.queue : core.queue[i].slot \in Slots /\ core.queue[i].frame \in Nat
  BY FieldTypes, Zenon DEF DisplayInv
<1>4. \A i \in DOMAIN core.queue : Tracks(i)' <=> Tracks(i)
  BY <1>a, <1>3 DEF Tracks
<1>5. CoreType' /\ DisplayType'
  BY <1>1, <1>2, Zenon DEF DisplayInv, CoreType, DisplayType
<1>6. QueueInv'
  <2>1. 0 <= core.counter /\ \A i \in DOMAIN core.queue : 0 # core.queue[i].frame
    BY <1>3, FieldTypes, SMTT(20) DEF DisplayInv, QueueInv
  <2>2. QueueInv /\ \A i \in DOMAIN core.queue : 0 < core.queue[i].frame
    BY Zenon DEF DisplayInv, QueueInv
  <2>3. /\ core'.queue = core.queue /\ core'.counter = core.counter /\ overtaken' = overtaken
        /\ framebuffer'.frame = 0
    BY <1>a, <1>b, <1>2, Zenon
  <2> QED  BY <2>1, <2>2, <2>3, Zenon DEF QueueInv
<1>7. ItemInv'
  <2>1. \A u \in Slots : core'.slots[u].state = "Queued" <=> core.slots[u].state = "Queued"
    BY <1>1, Zenon
  <2>2. \A i \in DOMAIN core.queue : Tracks(i)' =>
           /\ core'.slots[core.queue[i].slot].state = "Queued"
           /\ core'.slots[core.queue[i].slot].frame = core.queue[i].frame
    BY <1>a, <1>3, <1>4, <2>1, Zenon DEF DisplayInv, ItemInv
  <2>3. \A u \in Slots : core'.slots[u].state = "Queued" =>
           \E i \in DOMAIN core.queue : core.queue[i].slot = u /\ Tracks(i)'
    BY <1>4, <2>1, Zenon DEF DisplayInv, ItemInv
  <2> QED  BY <1>a, <2>2, <2>3 DEF ItemInv
<1>8. ASSUME ~Crossed' PROVE CleanInv'
  <2>1. ~Crossed /\ LastInv /\ CopyInv
    BY <1>b, <1>8, Zenon DEF Crossed, DisplayInv, CleanInv
  <2>2. LastInv'
    BY <1>a, <1>4, <2>1, Zenon DEF LastInv
  <2>3. CopyInv'
    <3>1. ASSUME NEW i \in DOMAIN core.queue, core.queue[i].acquireCalled
          PROVE  tracked'[core.queue[i].slot] = tracked[core.queue[i].slot]
      <4>1. framebuffer.acquired => framebuffer.slot # core.queue[i].slot
        BY <2>1, <3>1, Zenon DEF CopyInv
      <4> QED  BY <1>1, <1>3, <2>1, <4>1, Zenon
    <3>2. \A u \in Slots : core.slots[u].acquireCalled => tracked'[u] = tracked[u]
      BY <1>1, <2>1, Zenon
    <3>3. \A u \in Slots : core'.slots[u].acquireCalled =>
             \A i \in DOMAIN core.queue : core.queue[i].slot = u => Tracks(i)'
      BY <1>a, <1>4, <2>1, Zenon DEF CopyInv
    <3> QED  BY <1>a, <1>2, <1>3, <2>1, <3>1, <3>2, <3>3 DEF CopyInv
  <2>4. ShownInv'
    <3>1. \A u \in Slots : core'.slots[u].state # "Acquired"
      BY <1>1, <2>1, Zenon
    <3> QED  BY <1>2, <3>1, Zenon DEF ShownInv
  <2> QED  BY <2>2, <2>3, <2>4, Zenon DEF CleanInv
<1>9. ProducerInv'
  <2>1. \A u \in Slots : core'.slots[u].state = "Dequeued" <=> core.slots[u].state = "Dequeued"
    BY <1>1, Zenon
  <2>2. \A u \in Slots : core.slots[u].state = "Free" => core'.slots[u].state = "Free"
    BY <1>1, Zenon
  <2> QED  BY <1>a, <1>b, <2>1, <2>2 DEF DisplayInv, ProducerInv, At
<1> QED  BY <1>5, <1>6, <1>7, <1>8, <1>9, Zenon DEF DisplayInv

(* What AcquireBuffer and ConsumerBase make of the front of the queue.  As *)
(* long as no frame overtook one of its own slot, the composer gets the    *)
(* front's buffer, from the item or from its copy.                         *)
LEMMA AcquireFacts ==
    ASSUME DisplayInv, CacheFramebuffer, CanAcquire(core)
    PROVE  /\ 1 \in DOMAIN core.queue
           /\ core' \in CoreRecords /\ core'.queue = Tail(core.queue)
           /\ core'.counter = core.counter /\ core'.abandoned = core.abandoned
           /\ \A u \in Slots : u # core.queue[1].slot \/ ~Tracks(1) =>
                 core'.slots[u] = core.slots[u]
           /\ Tracks(1) =>
                 /\ core'.slots[core.queue[1].slot].state = "Acquired"
                 /\ core'.slots[core.queue[1].slot].acquireCalled
                 /\ core'.slots[core.queue[1].slot].buffer = core.queue[1].buffer
                 /\ core'.slots[core.queue[1].slot].frame = core.queue[1].frame
           /\ \E b \in 0..MaxBuffers :
                 /\ ~Crossed => b = core.queue[1].buffer
                 /\ tracked' = [tracked EXCEPT ![core.queue[1].slot] = b]
                 /\ framebuffer' = [acquired |-> TRUE, slot |-> core.queue[1].slot, buffer |-> b,
                                    frame |-> core.queue[1].frame]
<1>1. /\ 1 \in DOMAIN core.queue /\ Head(core.queue) = core.queue[1]
      /\ core.queue[1] \in Items /\ Tail(core.queue) \in Seq(Items)
  <2>1. core.queue \in Seq(Items) /\ core.queue # <<>>
    BY Zenon DEF DisplayInv, CoreType, CoreRecords, CanAcquire
  <2> QED  BY <2>1, TailFacts
<1> DEFINE f == core.queue[1]
<1>2. /\ f.slot \in Slots /\ f.buffer \in 1..MaxBuffers /\ f.buffer # NoBuffer
      /\ f.acquireCalled \in BOOLEAN
  BY <1>1, BufferQueueAssumption DEF Items, NoBuffer
<1>3. core \in CoreRecords /\ core.slots[f.slot] \in SlotRecords
  BY <1>2, Zenon DEF DisplayInv, CoreType, CoreRecords
<1>4. StillTracking(core, f) <=> Tracks(1)
  BY <1>2, Zenon DEF StillTracking, Tracks
<1>5. /\ AcquiredItem(core).slot = f.slot /\ AcquiredItem(core).frame = f.frame
      /\ AcquiredItem(core).buffer = IF f.acquireCalled THEN NoBuffer ELSE f.buffer
  BY <1>1, Zenon DEF AcquiredItem, Items
<1>6. ~Crossed /\ f.acquireCalled => tracked[f.slot] = f.buffer
  BY <1>1, Zenon DEF DisplayInv, CleanInv, CopyInv
<1>7. PICK b : b = IF AcquiredItem(core).buffer # NoBuffer THEN AcquiredItem(core).buffer
                   ELSE tracked[AcquiredItem(core).slot]
  BY Zenon
<1>8. /\ core' = AcquireBuffer(core) /\ b \in 0..MaxBuffers /\ (~Crossed => b = f.buffer)
      /\ tracked' = [tracked EXCEPT ![f.slot] = b]
      /\ framebuffer' = [acquired |-> TRUE, slot |-> f.slot, buffer |-> b, frame |-> f.frame]
  <2>1. tracked[f.slot] \in 0..MaxBuffers /\ f.buffer \in 0..MaxBuffers
    BY <1>2, BufferQueueAssumption DEF DisplayInv, DisplayType
  <2> HIDE DEF f
  <2>2. b \in {f.buffer, tracked[f.slot]} /\ (~Crossed => b = f.buffer)
    BY <1>2, <1>5, <1>6, <1>7, Zenon
  <2> QED  BY <1>5, <1>7, <2>1, <2>2, Zenon DEF CacheFramebuffer
<1> DEFINE n == [core.slots[f.slot] EXCEPT !.state = "Acquired", !.acquireCalled = TRUE]
<1>9. /\ n \in SlotRecords /\ n.state = "Acquired" /\ n.acquireCalled
      /\ n.buffer = core.slots[f.slot].buffer /\ n.frame = core.slots[f.slot].frame
  BY <1>3, Zenon DEF SlotRecords, States
<1> HIDE DEF n
<1>10. Tracks(1) => n.buffer = f.buffer /\ n.frame = f.frame
  BY <1>1, <1>9, Zenon DEF DisplayInv, ItemInv, Tracks
<1>11. /\ core' \in CoreRecords /\ core'.queue = Tail(core.queue)
       /\ core'.counter = core.counter /\ core'.abandoned = core.abandoned
       /\ core'.slots = [core.slots EXCEPT ![f.slot] =
                            IF Tracks(1) THEN n ELSE core.slots[f.slot]]
  <2> DEFINE m == IF Tracks(1) THEN n ELSE core.slots[f.slot]
  <2>1. m \in SlotRecords
    BY <1>3, <1>9, Zenon
  <2>2. core' = [core EXCEPT !.queue = Tail(core.queue),
                             !.slots = [core.slots EXCEPT ![f.slot] = m], !.possible = TRUE]
    BY <1>1, <1>3, <1>4, <1>8, Zenon DEF AcquireBuffer, SignalDequeueCondition, CoreRecords, n
  <2> HIDE DEF m
  <2>3. /\ core' \in CoreRecords /\ core'.queue = Tail(core.queue)
        /\ core'.counter = core.counter /\ core'.abandoned = core.abandoned
        /\ core'.slots = [core.slots EXCEPT ![f.slot] = m]
    BY <1>1, <1>3, <2>1, <2>2, Zenon DEF CoreRecords
  <2> QED  BY <2>3, Zenon DEF m
<1>12. \A u \in Slots : core'.slots[u] = IF u = f.slot /\ Tracks(1) THEN n ELSE core.slots[u]
  BY <1>3, <1>11, Zenon DEF CoreRecords
<1> QED  BY <1>1, <1>2, <1>8, <1>9, <1>10, <1>11, <1>12, Zenon

(* CacheFramebufferLocked, when there is a frame to be acquired.           *)
LEMMA AcquirePreserves ==
    ASSUME DisplayInv, CacheFramebuffer, CanAcquire(core)
    PROVE  DisplayInv'
<1> DEFINE f == core.queue[1]
<1>1. /\ 1 \in DOMAIN core.queue
      /\ core' \in CoreRecords /\ core'.queue = Tail(core.queue)
      /\ core'.counter = core.counter /\ core'.abandoned = core.abandoned
      /\ \A u \in Slots : u # f.slot \/ ~Tracks(1) => core'.slots[u] = core.slots[u]
      /\ Tracks(1) => /\ core'.slots[f.slot].state = "Acquired"
                      /\ core'.slots[f.slot].acquireCalled
                      /\ core'.slots[f.slot].buffer = f.buffer
                      /\ core'.slots[f.slot].frame = f.frame
      /\ \E b \in 0..MaxBuffers :
            /\ ~Crossed => b = f.buffer
            /\ tracked' = [tracked EXCEPT ![f.slot] = b]
            /\ framebuffer' = [acquired |-> TRUE, slot |-> f.slot, buffer |-> b,
                               frame |-> f.frame]
  BY AcquireFacts, Zenon
<1>2. producer' = producer /\ overtaken' = overtaken /\ changes' = changes /\ layer' = layer
      /\ composing' = FALSE
  BY Zenon DEF CacheFramebuffer
<1>3. /\ f.slot \in Slots /\ f.buffer \in 1..MaxBuffers /\ f.frame \in Nat
      /\ \A i \in DOMAIN core.queue : core.queue[i].slot \in Slots
      /\ core.queue \in Seq(Items) /\ Len(core.queue) \in Nat
      /\ DOMAIN core.queue = 1..Len(core.queue)
  BY <1>1, FieldTypes, Zenon DEF DisplayInv
<1>4. PICK L : L = Len(core.queue)
  BY Zenon
<1>5. /\ L \in Nat /\ L >= 1 /\ Len(core'.queue) = L - 1 /\ DOMAIN core'.queue = 1..L - 1
      /\ \A i \in 1..L - 1 : i + 1 \in 1..L /\ core'.queue[i] = core.queue[i + 1]
      /\ DOMAIN core.queue = 1..L
  <2>1. core.queue # <<>>
    BY <1>1, <1>3
  <2> QED  BY <1>1, <1>3, <1>4, <2>1, TailFacts, SMTT(20)
<1>6. /\ framebuffer'.acquired /\ framebuffer'.slot = f.slot /\ framebuffer'.frame = f.frame
      /\ framebuffer'.buffer \in 0..MaxBuffers /\ (~Crossed => framebuffer'.buffer = f.buffer)
      /\ framebuffer' \in [acquired : BOOLEAN, slot : Slots \cup {NoSlot}, buffer : 0..MaxBuffers,
                           frame : Nat]
  <2>1. PICK b \in 0..MaxBuffers :
           /\ ~Crossed => b = f.buffer
           /\ framebuffer' = [acquired |-> TRUE, slot |-> f.slot, buffer |-> b, frame |-> f.frame]
    BY <1>1, Zenon
  <2> QED  BY <1>3, <2>1, Zenon
<1>7. /\ tracked' \in [Slots -> 0..MaxBuffers] /\ (~Crossed => tracked'[f.slot] = f.buffer)
      /\ \A u \in Slots : u # f.slot => tracked'[u] = tracked[u]
  BY <1>1, <1>3, Zenon DEF DisplayInv, DisplayType
<1>8. \A u \in Slots : core'.slots[u].buffer = core.slots[u].buffer
  BY <1>1, <1>3, Zenon DEF Tracks
<1>9. \A i \in 1..L - 1 : Tracks(i)' <=> Tracks(i + 1)
  BY <1>3, <1>5, <1>8, Zenon DEF Tracks
<1>10. \A i \in 1..L - 1 : i + 1 \in DOMAIN core.queue /\ 1 < i + 1
  BY <1>5
<1>11. CoreType'
  BY <1>1, <1>2, Zenon DEF DisplayInv, CoreType
<1>12. DisplayType'
  BY <1>2, <1>3, <1>6, <1>7, Zenon DEF DisplayInv, DisplayType
<1>13. QueueInv'
  <2>1. /\ \A i, j \in 1..L : i < j =>
              /\ core.queue[i].frame # core.queue[j].frame
              /\ 1 < i \/ overtaken = {} => core.queue[i].frame < core.queue[j].frame
        /\ \A i \in 1..L : 0 < core.queue[i].frame /\ core.queue[i].frame <= core.counter
    BY <1>5, Zenon DEF DisplayInv, QueueInv
  <2>2. ASSUME NEW i \in 1..L - 1, NEW j \in 1..L - 1, i < j
        PROVE  /\ core'.queue[i].frame < core'.queue[j].frame
               /\ core'.queue[i].frame # core'.queue[j].frame
    <3>1. i + 1 \in 1..L /\ j + 1 \in 1..L /\ i + 1 < j + 1 /\ 1 < i + 1
      BY <1>5, <2>2
    <3>2. core'.queue[i] = core.queue[i + 1] /\ core'.queue[j] = core.queue[j + 1]
      BY <1>5, Zenon
    <3> QED  BY <2>1, <3>1, <3>2, Zenon
  <2>3. \A i \in 1..L - 1 : /\ f.frame # core'.queue[i].frame
                            /\ overtaken = {} => f.frame < core'.queue[i].frame
    <3> TAKE i \in 1..L - 1
    <3>1. 1 \in 1..L /\ i + 1 \in 1..L /\ 1 < i + 1
      BY <1>5
    <3>2. core'.queue[i] = core.queue[i + 1]
      BY <1>5, Zenon
    <3> QED  BY <2>1, <3>1, <3>2, Zenon
  <2>4. \A i \in 1..L - 1 : 0 < core'.queue[i].frame /\ core'.queue[i].frame <= core.counter
    BY <1>5, <2>1, Zenon
  <2>5. f.frame <= core.counter
    BY <1>1, Zenon DEF DisplayInv, QueueInv
  <2>6. L - 1 <= core.counter
    <3>1. L <= core.counter /\ core.counter \in Int
      BY <1>4, FieldTypes DEF DisplayInv, QueueInv
    <3> QED  BY <1>5, <3>1
  <2>7. /\ framebuffer'.frame = f.frame /\ core'.counter = core.counter /\ overtaken' = overtaken
        /\ DOMAIN core'.queue = 1..L - 1 /\ Len(core'.queue) = L - 1
    BY <1>1, <1>2, <1>5, <1>6, Zenon
  <2> QED  BY <2>2, <2>3, <2>4, <2>5, <2>6, <2>7, Zenon DEF QueueInv
<1>14. ItemInv'
  <2>1. ASSUME NEW i \in 1..L - 1, Tracks(i)'
        PROVE  /\ core'.slots[core'.queue[i].slot].state = "Queued"
               /\ core'.slots[core'.queue[i].slot].frame = core'.queue[i].frame
    <3>1. /\ i + 1 \in DOMAIN core.queue /\ core'.queue[i] = core.queue[i + 1]
          /\ Tracks(i + 1) /\ core.queue[i + 1].slot \in Slots
      BY <1>3, <1>5, <1>9, <2>1, Zenon
    <3>2. /\ core.slots[core.queue[i + 1].slot].state = "Queued"
          /\ core.slots[core.queue[i + 1].slot].frame = core.queue[i + 1].frame
      BY <3>1, Zenon DEF DisplayInv, ItemInv
    <3>3. ASSUME core.queue[i + 1].slot = f.slot, Tracks(1) PROVE FALSE
      <4>1. core.slots[f.slot].frame = f.frame
        BY <1>1, <3>3, Zenon DEF DisplayInv, ItemInv
      <4>2. f.frame # core.queue[i + 1].frame
        BY <1>1, <1>10, Zenon DEF DisplayInv, QueueInv
      <4> QED  BY <3>2, <3>3, <4>1, <4>2, Zenon
    <3>4. core'.slots[core.queue[i + 1].slot] = core.slots[core.queue[i + 1].slot]
      BY <1>1, <3>1, <3>3, Zenon
    <3> QED  BY <3>1, <3>2, <3>4, Zenon
  <2>2. ASSUME NEW u \in Slots, core'.slots[u].state = "Queued"
        PROVE  \E i \in 1..L - 1 : core'.queue[i].slot = u /\ Tracks(i)'
    <3>1. core'.slots[u] = core.slots[u] /\ ~(u = f.slot /\ Tracks(1))
      BY <1>1, <1>3, <2>2, Zenon
    <3>2. PICK i \in DOMAIN core.queue : core.queue[i].slot = u /\ Tracks(i)
      BY <2>2, <3>1, Zenon DEF DisplayInv, ItemInv
    <3>3. i # 1
      BY <3>1, <3>2, Zenon
    <3>4. PICK k \in 1..L - 1 : i = k + 1
      <4>1. i - 1 \in 1..L - 1 /\ i = (i - 1) + 1
        BY <1>5, <3>3
      <4> QED  BY <4>1, Zenon
    <3> QED  BY <1>5, <1>9, <3>2, <3>4, Zenon
  <2> QED  BY <1>5, <2>1, <2>2, Zenon DEF ItemInv
<1>15. ASSUME ~Crossed' PROVE CleanInv'
  <2>1. LastInv /\ CopyInv /\ tracked'[f.slot] = f.buffer /\ framebuffer'.buffer = f.buffer
    BY <1>2, <1>6, <1>7, <1>15, Zenon DEF Crossed, DisplayInv, CleanInv
  <2>2. \A i \in 1..L - 1 : Tracks(1) => core.queue[i + 1].slot # f.slot
    BY <1>1, <1>10, <2>1, Zenon DEF LastInv
  <2>3. LastInv'
    <3>1. ASSUME NEW i \in 1..L - 1, NEW j \in 1..L - 1, Tracks(i)', i < j
          PROVE  core'.queue[j].slot # core'.queue[i].slot
      <4>1. i + 1 < j + 1
        BY <1>5, <3>1
      <4>2. /\ core'.queue[i] = core.queue[i + 1] /\ core'.queue[j] = core.queue[j + 1]
            /\ Tracks(i + 1)
        BY <1>5, <1>9, <3>1, Zenon
      <4>3. core.queue[j + 1].slot # core.queue[i + 1].slot
        BY <1>10, <2>1, <4>1, <4>2, Zenon DEF LastInv
      <4> QED  BY <4>2, <4>3, Zenon
    <3> QED  BY <1>5, <3>1, Zenon DEF LastInv
  <2>4. CopyInv'
    <3>1. ASSUME NEW u \in Slots, core'.slots[u].acquireCalled
          PROVE  /\ core'.slots[u].buffer # NoBuffer /\ tracked'[u] = core'.slots[u].buffer
                 /\ \A i \in 1..L - 1 : core'.queue[i].slot = u => Tracks(i)'
      <4>1. CASE u = f.slot /\ Tracks(1)
        <5>1. f.buffer # NoBuffer
          BY <1>3, BufferQueueAssumption DEF NoBuffer
        <5>2. \A i \in 1..L - 1 : core'.queue[i].slot # u
          BY <1>5, <2>2, <4>1, Zenon
        <5> QED  BY <1>1, <2>1, <4>1, <5>1, <5>2, Zenon
      <4>2. CASE u # f.slot \/ ~Tracks(1)
        <5>1. core.slots[u].acquireCalled
          BY <1>1, <3>1, <4>2, Zenon
        <5>2. /\ core.slots[u].buffer # NoBuffer /\ tracked[u] = core.slots[u].buffer
              /\ \A i \in DOMAIN core.queue : core.queue[i].slot = u => Tracks(i)
          BY <2>1, <5>1, Zenon DEF CopyInv
        <5>3. u # f.slot
          BY <1>1, <4>2, <5>2, Zenon
        <5>4. \A i \in 1..L - 1 : core'.queue[i].slot = u => Tracks(i)'
          BY <1>5, <1>9, <5>2, Zenon
        <5> QED  BY <1>7, <1>8, <5>2, <5>3, <5>4, Zenon
      <4> QED  BY <4>1, <4>2, Zenon
    <3>2. ASSUME NEW i \in 1..L - 1, core'.queue[i].acquireCalled
          PROVE  /\ tracked'[core'.queue[i].slot] = core'.queue[i].buffer
                 /\ \A j \in 1..L - 1 : j < i => core'.queue[j].slot # core'.queue[i].slot
                 /\ f.slot # core'.queue[i].slot
      <4>1. /\ i + 1 \in DOMAIN core.queue /\ core'.queue[i] = core.queue[i + 1]
            /\ core.queue[i + 1].slot \in Slots /\ 1 < i + 1
        BY <1>3, <1>5, SMTT(20)
      <4>2. /\ tracked[core.queue[i + 1].slot] = core.queue[i + 1].buffer
            /\ \A j \in DOMAIN core.queue : j < i + 1 => core.queue[j].slot # core.queue[i + 1].slot
        BY <2>1, <3>2, <4>1, Zenon DEF CopyInv
      <4>3. f.slot # core.queue[i + 1].slot
        BY <1>1, <4>1, <4>2, Zenon
      <4>4. \A j \in 1..L - 1 : j < i =>
               /\ j + 1 \in DOMAIN core.queue /\ j + 1 < i + 1
               /\ core'.queue[j] = core.queue[j + 1]
        BY <1>5
      <4> QED  BY <1>7, <4>1, <4>2, <4>3, <4>4, Zenon
    <3> QED  BY <1>5, <1>6, <3>1, <3>2, Zenon DEF CopyInv
  <2>5. ShownInv'
    <3>1. /\ core'.slots[f.slot].buffer = f.buffer => Tracks(1)
          /\ core'.slots[f.slot].acquireCalled => Tracks(1)
      <4>1. core.slots[f.slot].acquireCalled => Tracks(1)
        BY <1>1, <1>3, <2>1, Zenon DEF CopyInv
      <4> QED  BY <1>1, <1>3, <1>8, <4>1, Zenon DEF Tracks
    <3>2. ASSUME NEW u \in Slots, core'.slots[u].state = "Acquired"
          PROVE  u = f.slot /\ Tracks(1)
      <4>1. core.slots[u].state # "Acquired"
        BY Zenon DEF CanAcquire, InState
      <4> QED  BY <1>1, <3>2, <4>1, Zenon
    <3>3. f.buffer # NoBuffer
      BY <1>3, BufferQueueAssumption DEF NoBuffer
    <3>4. \A i \in 1..L - 1 : Tracks(1) => core'.queue[i].slot # f.slot
      BY <1>5, <2>2, Zenon
    <3>5. /\ framebuffer'.slot = f.slot /\ framebuffer'.buffer = f.buffer
          /\ framebuffer'.frame = f.frame /\ framebuffer'.acquired /\ composing' = FALSE
      BY <1>2, <1>6, <2>1, Zenon
    <3> QED  BY <1>1, <1>3, <1>5, <3>1, <3>2, <3>3, <3>4, <3>5, Zenon DEF ShownInv
  <2> QED  BY <2>3, <2>4, <2>5, Zenon DEF CleanInv
<1>16. ProducerInv'
  <2>1. \A u \in Slots : \/ core'.slots[u] = core.slots[u]
                         \/ core.slots[u].state = "Queued" /\ core'.slots[u].state = "Acquired"
    BY <1>1, <1>3, Zenon DEF DisplayInv, ItemInv
  <2> QED  BY <1>1, <1>2, <2>1 DEF DisplayInv, ProducerInv, At
<1> QED  BY <1>11, <1>12, <1>13, <1>14, <1>15, <1>16, Zenon DEF DisplayInv

(* A step that leaves the slots, the queue and the shown frame, and drops  *)
(* no more copies than OnBuffersReleased does.                             *)
LEMMA QuietPreserves ==
    ASSUME DisplayInv, UNCHANGED <<core, overtaken, changes, framebuffer>>,
           tracked' \in [Slots -> 0..MaxBuffers],
           \A s \in Slots : tracked'[s] = tracked[s] \/ s \in ReleasedBuffers(core),
           layer' \in {"open", "closed", "destroyed"}, composing' \in {composing, FALSE},
           producer' = producer \/ (At("released") /\ Idle)
    PROVE  DisplayInv'
<1>0. producer' = producer \/ (At("released") /\ producer' = [pc |-> "idle", slot |-> NoSlot])
  BY Zenon DEF Idle, GoTo
<1>1. CoreType' /\ DisplayType'
  <2>1. CoreType'
    BY <1>0 DEF DisplayInv, CoreType
  <2>2. composing' \in BOOLEAN
    BY Zenon DEF DisplayInv, DisplayType
  <2> QED  BY <2>1, <2>2, Zenon DEF DisplayInv, DisplayType
<1>2. QueueInv' /\ ItemInv' /\ (\A i \in DOMAIN core.queue : Tracks(i)' <=> Tracks(i))
  <2>1. core' = core /\ framebuffer' = framebuffer /\ overtaken' = overtaken
    BY Zenon
  <2>2. QueueInv'
    BY <2>1, SMTT(20) DEF DisplayInv, QueueInv
  <2>3. ItemInv'
    BY <2>1 DEF DisplayInv, ItemInv, Tracks
  <2> QED  BY <2>1, <2>2, <2>3 DEF Tracks
<1>3. ASSUME ~Crossed' PROVE CleanInv'
  <2>1. LastInv /\ CopyInv /\ ShownInv
    BY <1>3, Zenon DEF Crossed, DisplayInv, CleanInv
  <2>2. LastInv'
    BY <1>2, <2>1, Zenon DEF LastInv
  <2>3. CopyInv'
    <3>1. \A s \in Slots : core.slots[s].acquireCalled => tracked'[s] = tracked[s]
      BY Zenon DEF ReleasedBuffers
    <3>2. \A i \in DOMAIN core.queue : core.queue[i].acquireCalled =>
             tracked'[core.queue[i].slot] = tracked[core.queue[i].slot]
      <4>1. \A i \in DOMAIN core.queue : core.queue[i].slot \in Slots
        BY FieldTypes, Zenon DEF DisplayInv
      <4> QED  BY <4>1, Zenon DEF ReleasedBuffers
    <3> QED  BY <1>2, <2>1, <3>1, <3>2, Zenon DEF CopyInv
  <2>4. ShownInv'
    <3>1. core' = core /\ framebuffer' = framebuffer
      BY Zenon
    <3>2. composing' => composing
      BY Zenon DEF DisplayInv, DisplayType
    <3> QED  BY <2>1, <3>1, <3>2, Zenon DEF ShownInv
  <2> QED  BY <2>2, <2>3, <2>4, Zenon DEF CleanInv
<1>4. ProducerInv'
  BY <1>0 DEF DisplayInv, ProducerInv, At
<1> QED  BY <1>1, <1>2, <1>3, <1>4, Zenon DEF DisplayInv

(* The listener's call, after a producer's transaction has freed buffers.  *)
LEMMA OnBuffersReleasedPreserves ==
    ASSUME DisplayInv, OnBuffersReleased
    PROVE  DisplayInv'
<1>1. NoBuffer \in 0..MaxBuffers /\ tracked \in [Slots -> 0..MaxBuffers]
  BY BufferQueueAssumption DEF DisplayInv, DisplayType, NoBuffer
<1>2. /\ tracked' \in [Slots -> 0..MaxBuffers]
      /\ \A s \in Slots : tracked'[s] = tracked[s] \/ s \in ReleasedBuffers(core)
  BY <1>1, Zenon DEF OnBuffersReleased
<1> QED  BY <1>2, QuietPreserves, Zenon DEF OnBuffersReleased, DisplayInv, DisplayType

(* The steps of the composer and of the layer's owner.                     *)
LEMMA ComposerPreserves ==
    ASSUME DisplayInv, ReleaseFramebuffer \/ CacheFramebuffer \/ CloseLayer \/ OpenLayer
    PROVE  DisplayInv'
<1>1. /\ layer \in {"open", "closed", "destroyed"} /\ composing \in BOOLEAN
      /\ tracked \in [Slots -> 0..MaxBuffers]
  BY Zenon DEF DisplayInv, DisplayType
<1>2. CASE ReleaseFramebuffer
  BY <1>1, <1>2, ReleasePreserves, Zenon DEF ReleaseFramebuffer
<1>3. CASE CacheFramebuffer
  <2>1. CASE CanAcquire(core)
    BY <1>3, <2>1, AcquirePreserves, Zenon
  <2>2. CASE ~CanAcquire(core)
    BY <1>1, <1>3, <2>2, QuietPreserves, Zenon DEF CacheFramebuffer
  <2> QED  BY <2>1, <2>2, Zenon
<1>4. CASE CloseLayer
  BY <1>1, <1>4, ReleasePreserves, Zenon DEF CloseLayer
<1>5. CASE OpenLayer
  BY <1>1, <1>5, QuietPreserves, Zenon DEF OpenLayer
<1> QED  BY <1>2, <1>3, <1>4, <1>5, Zenon

-----------------------------------------------------------------------------
(* Two transactions whose proofs need the theorems about well-founded      *)
(* orders and finite sets: the first of the free slots is one of them, and *)
(* a count of slots is at most their number.                               *)

INSTANCE FiniteSetTheorems

(* A set of natural numbers has its least member.                          *)
LEMMA MinMember ==
    ASSUME NEW S, S \subseteq Nat, S # {}
    PROVE  Min(S) \in S
<1>1. PICK x \in S : \A y \in S : ~(<<y, x>> \in OpToRel(<, Nat))
  BY NatLessThanWellFounded, WFMin, Zenon
<1>2. \A y \in S : x <= y
  <2> TAKE y \in S
  <2>1. <<y, x>> \in Nat \X Nat /\ ~(y < x)
    BY <1>1, Zenon DEF OpToRel
  <2> QED  BY <2>1
<1> QED  BY <1>2, Zenon DEF Min

(* One turn of WaitForFreeSlotThenRelock and of DequeueBuffer.             *)
LEMMA DequeueTurnPreserves ==
    ASSUME DisplayInv, ~At("allocating"), NEW b \in BOOLEAN,
           DequeueTurn([core EXCEPT !.possible = b]), UNCHANGED <<overtaken, displayVars>>
    PROVE  DisplayInv'
<1> DEFINE c0 == [core EXCEPT !.possible = b]
           c == Trimmed(c0)
           s == Min(FoundSlots(c))
<1>1. /\ c0 \in CoreRecords /\ c0.slots = core.slots /\ c0.queue = core.queue
      /\ c0.counter = core.counter /\ c0.abandoned = core.abandoned
  BY Zenon DEF DisplayInv, CoreType, CoreRecords
<1> HIDE DEF c0
<1>2. /\ c \in CoreRecords /\ c.queue = core.queue /\ c.counter = core.counter
      /\ c.abandoned = core.abandoned
      /\ \A u \in Slots :
            \/ c.slots[u] = core.slots[u]
            \/ /\ core.slots[u].state = "Free" /\ c.slots[u].state = "Free"
               /\ c.slots[u].buffer = NoBuffer /\ c.slots[u].acquireCalled = FALSE
  <2>1. /\ c \in CoreRecords /\ c.queue = c0.queue /\ c.counter = c0.counter
        /\ c.abandoned = c0.abandoned
        /\ \A u \in Slots :
              \/ c.slots[u] = c0.slots[u]
              \/ /\ c0.slots[u].state = "Free" /\ c.slots[u].state = "Free"
                 /\ c.slots[u].buffer = NoBuffer /\ c.slots[u].acquireCalled = FALSE
    BY <1>1, TrimmedFacts, Zenon
  <2> QED  BY <1>1, <2>1, Zenon
<1> HIDE DEF c
<1>3. \A u \in Slots : Unused(u, NoBuffer)
  BY NoBufferUnused, Zenon
<1>4. ASSUME core' = c0 \/ core' = c, producer'.pc # "allocating", CoreType'
      PROVE  DisplayInv'
  <2>1. /\ core'.queue = core.queue /\ core'.counter = core.counter
        /\ core'.abandoned = core.abandoned
        /\ \A u \in Slots : \/ core'.slots[u] = core.slots[u]
                            \/ /\ core.slots[u].state = "Free" /\ core'.slots[u].state = "Free"
                               /\ core'.slots[u].buffer = NoBuffer
                               /\ core'.slots[u].acquireCalled = FALSE
    BY <1>1, <1>2, <1>4, Zenon
  <2>2. \A u \in Slots : SlotKept(u) \/ SlotTaken(u)
    BY <1>3, <2>1, Zenon DEF SlotKept, SlotTaken
  <2>3. ProducerInv'
    <3>1. \A u \in Slots : core'.slots[u].state = "Dequeued" => core'.slots[u].buffer # NoBuffer
      BY <2>1, Zenon DEF DisplayInv, ProducerInv
    <3>2. core'.abandoned => \A u \in Slots : core'.slots[u].state = "Free"
      BY <2>1, Zenon DEF DisplayInv, ProducerInv
    <3> QED  BY <1>4, <3>1, <3>2, NotAllocating, Zenon
  <2> QED  BY <1>4, <2>1, <2>2, <2>3, SlotsPreserve, Zenon DEF DisplayInv
<1>5. ASSUME core' = c0 \/ core' = c, Idle \/ GoTo("waiting", NoSlot), UNCHANGED changes
      PROVE  DisplayInv'
  <2>1. producer' \in [pc : {"idle", "waiting"}, slot : {NoSlot}]
    BY <1>5 DEF Idle, GoTo
  <2>2. CoreType'
    BY <1>1, <1>2, <1>5, <2>1, Zenon DEF DisplayInv, CoreType
  <2> QED  BY <1>4, <1>5, <2>1, <2>2, Zenon
<1>6. ASSUME ~c0.abandoned, ~MustWait(c), DequeueFound(c, s)
      PROVE  DisplayInv'
  <2>1. s \in Slots /\ c.slots[s].state = "Free"
    <3>1. FoundSlots(c) # {} /\ FoundSlots(c) \subseteq InState(c, "Free")
      BY <1>6, Zenon DEF MustWait, FoundSlots
    <3>2. InState(c, "Free") \subseteq Nat
      BY BufferQueueAssumption DEF InState, Slots
    <3>3. s \in FoundSlots(c)
      BY <3>1, <3>2, MinMember, Zenon
    <3> QED  BY <3>1, <3>3, Zenon DEF InState
  <2> HIDE DEF s
  <2>2. core.slots[s].state = "Free"
    BY <1>2, <2>1, Zenon
  <2>3. c.slots[s] \in SlotRecords /\ NoBuffer \in 0..MaxBuffers
    BY <1>2, <2>1, BufferQueueAssumption DEF CoreRecords, NoBuffer
  <2>4. /\ core'.queue = core.queue /\ core'.counter = core.counter
        /\ core'.abandoned = core.abandoned /\ core' \in CoreRecords
        /\ \A u \in Slots : u # s => core'.slots[u] = c.slots[u]
        /\ core'.slots[s].state = "Dequeued"
        /\ \/ /\ core'.slots[s].buffer = c.slots[s].buffer /\ c.slots[s].buffer # NoBuffer
              /\ core'.slots[s].acquireCalled = c.slots[s].acquireCalled /\ Idle
           \/ /\ core'.slots[s].buffer = NoBuffer
              /\ core'.slots[s].acquireCalled = FALSE /\ GoTo("allocating", s)
    <3>1. CASE /\ c.slots[s].buffer # NoBuffer
               /\ core' = [c EXCEPT !.slots[s].state = "Dequeued"]
               /\ Idle
      BY <1>2, <2>1, <2>3, <3>1, Zenon DEF CoreRecords, SlotRecords, States
    <3>2. CASE /\ core' = [c EXCEPT !.slots[s] = [@ EXCEPT !.state = "Dequeued",
                               !.buffer = NoBuffer, !.requested = FALSE, !.acquireCalled = FALSE]]
               /\ GoTo("allocating", s)
      BY <1>2, <2>1, <2>3, <3>2, Zenon DEF CoreRecords, SlotRecords, States
    <3> QED  BY <1>6, <3>1, <3>2, Zenon DEF DequeueFound
  <2>5. CoreType'
    <3>1. UNCHANGED changes \/ Change
      BY <1>6, Zenon DEF DequeueFound
    <3>2. changes' \in 0..MaxChanges
      BY <3>1, BufferQueueAssumption DEF Change, DisplayInv, CoreType
    <3> QED  BY <2>1, <2>4, <3>2 DEF DisplayInv, CoreType, Idle, GoTo
  <2>6. \A u \in Slots : SlotKept(u) \/ SlotTaken(u)
    <3>1. \A u \in Slots : u # s => SlotKept(u) \/ SlotTaken(u)
      BY <1>2, <1>3, <2>4, ZenonT(20) DEF SlotKept, SlotTaken
    <3>2. SlotTaken(s)
      BY <1>2, <1>3, <2>1, <2>2, <2>4, Zenon DEF SlotTaken
    <3> QED  BY <3>1, <3>2, Zenon
  <2>7. ProducerInv'
    <3>1. \A u \in Slots : u # s /\ core'.slots[u].state = "Dequeued" =>
             core'.slots[u].buffer # NoBuffer
      BY <1>2, <2>4, Zenon DEF DisplayInv, ProducerInv
    <3>2. ~core'.abandoned
      BY <1>1, <1>6, <2>4, Zenon
    <3> QED  BY <2>1, <2>4, <3>1, <3>2 DEF ProducerInv, At, Idle, GoTo
  <2> QED  BY <2>4, <2>5, <2>6, <2>7, SlotsPreserve, Zenon DEF DisplayInv
<1>7. \/ (core' = c0 \/ core' = c) /\ (Idle \/ GoTo("waiting", NoSlot)) /\ UNCHANGED changes
      \/ ~c0.abandoned /\ ~MustWait(c) /\ DequeueFound(c, s)
  BY Zenon DEF DequeueTurn, c0, c
<1> QED  BY <1>5, <1>6, <1>7, Zenon

(* SetPreallocatedBuffer gives the slot a buffer that nothing refers to,   *)
(* so that no item of the slot is tracked any more.                        *)
LEMMA SetPreallocatedBufferPreserves ==
    ASSUME DisplayInv, NEW s \in Slots, NEW b \in NewBuffers(s), NEW empty \in BOOLEAN,
           SetPreallocatedBuffer(s, b, empty), UNCHANGED displayVars
    PROVE  DisplayInv'
<1> DEFINE n == [EmptySlot EXCEPT !.buffer = b, !.preallocated = ~empty]
           c == [core EXCEPT !.slots[s] = n]
<1>1. core \in CoreRecords
  BY Zenon DEF DisplayInv, CoreType
<1>2. b \in 0..MaxBuffers /\ b # NoBuffer /\ Unused(s, b)
  <2>1. b \in 1..MaxBuffers /\ Unused(s, b)
    BY NewBufferUnused, Zenon
  <2> QED  BY <2>1 DEF NoBuffer
<1>3. n \in SlotRecords /\ n.state = "Free" /\ n.buffer = b /\ n.acquireCalled = FALSE
  BY <1>2, Zenon DEF EmptySlot, SlotRecords, States
<1>4. core' = [(IF empty THEN c ELSE [c EXCEPT !.override = PreallocatedBufferCount(c)])
                  EXCEPT !.possible = TRUE]
  BY Zenon DEF SetPreallocatedBuffer, SignalDequeueCondition
<1> HIDE DEF n
<1>5. /\ c \in CoreRecords /\ c.queue = core.queue /\ c.counter = core.counter
      /\ c.abandoned = core.abandoned /\ c.slots[s] = n
      /\ \A u \in Slots : u # s => c.slots[u] = core.slots[u]
  BY <1>1, <1>3, Zenon DEF CoreRecords
<1> HIDE DEF c
<1>6. PreallocatedBufferCount(c) \in 0..NUM_BUFFER_SLOTS
  <2>1. IsFiniteSet(Slots) /\ Cardinality(Slots) = NUM_BUFFER_SLOTS
    <3>1. /\ IsFiniteSet(0..NUM_BUFFER_SLOTS - 1)
          /\ Cardinality(0..NUM_BUFFER_SLOTS - 1) = NUM_BUFFER_SLOTS
      <4>1. 0 \in Int /\ NUM_BUFFER_SLOTS - 1 \in Int /\ NUM_BUFFER_SLOTS \in Nat \ {0}
        BY BufferQueueAssumption
      <4>2. /\ IsFiniteSet(0..NUM_BUFFER_SLOTS - 1)
            /\ Cardinality(0..NUM_BUFFER_SLOTS - 1) =
                  IF 0 > NUM_BUFFER_SLOTS - 1 THEN 0 ELSE NUM_BUFFER_SLOTS - 1 - 0 + 1
        BY <4>1, FS_Interval, Zenon
      <4> QED  BY <4>1, <4>2
    <3> QED  BY <3>1, Zenon DEF Slots
  <2> DEFINE P == {u \in Slots : c.slots[u].preallocated}
  <2>2. P \subseteq Slots
    BY Zenon
  <2>3. PreallocatedBufferCount(c) = Cardinality(P)
    BY Zenon DEF PreallocatedBufferCount
  <2> HIDE DEF P
  <2>4. IsFiniteSet(P) /\ Cardinality(P) <= Cardinality(Slots)
    BY <2>1, <2>2, FS_Subset, Zenon
  <2>5. Cardinality(P) \in Nat
    BY <2>4, FS_CardinalityType, Zenon
  <2> QED  BY <2>1, <2>3, <2>4, <2>5, BufferQueueAssumption
<1>7. /\ core' \in CoreRecords /\ core'.queue = core.queue /\ core'.counter = core.counter
      /\ core'.abandoned = core.abandoned /\ core'.slots = c.slots
  <2>1. CASE empty
    BY <1>4, <1>5, <2>1, Zenon DEF CoreRecords
  <2>2. CASE ~empty
    <3>1. core' = [[c EXCEPT !.override = PreallocatedBufferCount(c)] EXCEPT !.possible = TRUE]
      BY <1>4, <2>2, Zenon
    <3> QED  BY <1>5, <1>6, <3>1, Zenon DEF CoreRecords
  <2> QED  BY <2>1, <2>2, Zenon
<1>8. At("idle") /\ UNCHANGED <<producer, overtaken>> /\ Change
  BY Zenon DEF SetPreallocatedBuffer
<1>9. CoreType'
  <2>1. changes' \in 0..MaxChanges
    BY <1>8, BufferQueueAssumption DEF Change, DisplayInv, CoreType
  <2> QED  BY <1>7, <1>8, <2>1, Zenon DEF DisplayInv, CoreType
<1>10. \A u \in Slots : SlotKept(u) \/ SlotTaken(u)
  <2>1. SlotTaken(s)
    BY <1>2, <1>3, <1>5, <1>7, Zenon DEF SlotTaken
  <2>2. \A u \in Slots : u # s => SlotKept(u)
    BY <1>5, <1>7, Zenon DEF SlotKept
  <2> QED  BY <2>1, <2>2, Zenon
<1>11. ProducerInv'
  <2>1. \A u \in Slots : core'.slots[u].state = "Dequeued" => core'.slots[u].buffer # NoBuffer
    BY <1>3, <1>5, <1>7, <1>8, ZenonT(20) DEF DisplayInv, ProducerInv, At
  <2>2. core'.abandoned => \A u \in Slots : core'.slots[u].state = "Free"
    BY <1>3, <1>5, <1>7 DEF DisplayInv, ProducerInv
  <2> QED  BY <1>8, <2>1, <2>2, NotAllocating, Zenon DEF At
<1> QED  BY <1>7, <1>8, <1>9, <1>10, <1>11, SlotsPreserve, Zenon DEF DisplayInv

-----------------------------------------------------------------------------
(* Every step.                                                             *)

(* The transactions of the binder driver's thread.                         *)
LEMMA TransactPreserves ==
    ASSUME DisplayInv, Transact, UNCHANGED displayVars
    PROVE  DisplayInv'
<1>1. CASE DequeueBuffer
  <2>1. core.possible \in BOOLEAN /\ core = [core EXCEPT !.possible = core.possible]
    BY Zenon DEF DisplayInv, CoreType, CoreRecords
  <2>2. ~At("allocating") /\ DequeueTurn([core EXCEPT !.possible = core.possible])
    BY <1>1, <2>1, Zenon DEF DequeueBuffer, At
  <2>3. UNCHANGED <<overtaken, displayVars>>
    BY <1>1, Zenon DEF DequeueBuffer
  <2> QED  BY <2>1, <2>2, <2>3, DequeueTurnPreserves, Zenon
<1>2. CASE At("allocating") /\ \E b \in NewBuffers(producer.slot) : DequeueAllocated(b)
  BY <1>2, DequeueAllocatedPreserves, Zenon
<1>3. CASE Connect \/ Disconnect
  BY <1>3, ConnectPreserves, DisconnectPreserves, Zenon
<1>4. CASE \E n \in 0..NUM_BUFFER_SLOTS : SetBufferCount(n)
  BY <1>4, SetBufferCountPreserves, Zenon
<1>5. ASSUME NEW s \in Slots,
             \/ RequestBuffer(s) \/ DetachBuffer(s) \/ CancelBuffer(s)
             \/ \E async \in BOOLEAN : QueueBuffer(s, async)
      PROVE  DisplayInv'
  BY <1>5, RequestBufferPreserves, DetachBufferPreserves, CancelBufferPreserves,
     QueueBufferPreserves, Zenon
<1>6. ASSUME NEW s \in Slots,
             \E b \in NewBuffers(s), empty \in BOOLEAN : SetPreallocatedBuffer(s, b, empty)
      PROVE  DisplayInv'
  BY <1>6, SetPreallocatedBufferPreserves, Zenon
<1> QED  BY <1>1, <1>2, <1>3, <1>4, <1>5, <1>6, Zenon DEF Transact

(* Every step of the producer, of the composer and of the layer's owner.   *)
LEMMA NextDisplayInv ==
    ASSUME DisplayInv, [Next]_vars
    PROVE  DisplayInv'
<1>1. CASE Transact /\ UNCHANGED displayVars
  BY <1>1, TransactPreserves, Zenon
<1>2. CASE DequeueWakes /\ UNCHANGED displayVars
  <2>1. ~At("allocating") /\ DequeueTurn([core EXCEPT !.possible = FALSE])
    BY <1>2, Zenon DEF DequeueWakes, At
  <2>2. UNCHANGED <<overtaken, displayVars>> /\ FALSE \in BOOLEAN
    BY <1>2, Zenon DEF DequeueWakes
  <2> QED  BY <2>1, <2>2, DequeueTurnPreserves, Zenon
<1>3. CASE OnBuffersReleased
  BY <1>3, OnBuffersReleasedPreserves, Zenon
<1>4. CASE ReleaseFramebuffer \/ CacheFramebuffer \/ CloseLayer \/ OpenLayer
  BY <1>4, ComposerPreserves, Zenon
<1>5. CASE DestroyLayer
  BY <1>5, DestroyLayerPreserves, Zenon
<1>6. CASE UNCHANGED vars
  BY <1>6, QuietPreserves, Zenon DEF vars, displayVars, DisplayInv, DisplayType
<1> QED  BY <1>1, <1>2, <1>3, <1>4, <1>5, <1>6, Zenon DEF Next

(* In every behaviour the items and the slots agree, whatever the guest's  *)
(* transactions do to the slots between two compositions; and so do the    *)
(* consumer's copies and the shown frame, until QueueBuffer puts a frame   *)
(* in the place of a droppable front ahead of an older one of its slot.    *)
THEOREM DisplayInvariant == Spec => []DisplayInv
<1>1. DisplayInv /\ [Next]_vars => DisplayInv'
  BY NextDisplayInv, Zenon
<1> QED  BY InitDisplayInv, <1>1, PTL DEF Spec

-----------------------------------------------------------------------------
(* The properties.                                                         *)

(* The invariant has the types of the model.                               *)
LEMMA DisplayTypeOK ==
    ASSUME DisplayInv
    PROVE  TypeOK
<1>1. /\ producer \in [pc : {"idle", "waiting", "allocating", "released"},
                       slot : Slots \cup {NoSlot}]
      /\ overtaken \subseteq {"frame", "slot"} /\ changes \in 0..MaxChanges
      /\ core.override \in 0..NUM_BUFFER_SLOTS
  BY Zenon DEF DisplayInv, CoreType, CoreRecords
<1>2. /\ tracked \in [Slots -> 0..MaxBuffers]
      /\ layer \in {"open", "closed", "destroyed"} /\ composing \in BOOLEAN
  BY Zenon DEF DisplayInv, DisplayType
<1>3. /\ \A s \in Slots : /\ core.slots[s].buffer \in 0..MaxBuffers
                          /\ core.slots[s].state \in {"Free", "Dequeued", "Queued", "Acquired"}
      /\ framebuffer.slot \in Slots \cup {NoSlot}
  BY FieldTypes, Zenon DEF DisplayInv, States
<1>4. Len(core.queue) <= MaxFrames
  <2>1. Len(core.queue) \in Nat /\ core.counter \in 0..MaxFrames /\ Len(core.queue) <= core.counter
    BY FieldTypes, Zenon DEF DisplayInv, QueueInv
  <2> QED  BY <2>1, BufferQueueAssumption
<1> QED  BY <1>1, <1>2, <1>3, <1>4, Zenon DEF TypeOK

(* The invariant accounts for every slot.                                  *)
LEMMA DisplayInvSlotsAccounted ==
    ASSUME DisplayInv
    PROVE  SlotsAccounted
<1>1. TypeOK
  BY DisplayTypeOK, Zenon
<1>2. ASSUME NEW i \in DOMAIN core.queue
      PROVE  StillTracking(core, core.queue[i]) <=> Tracks(i)
  <2>1. core.queue[i].buffer \in 1..MaxBuffers
    BY FieldTypes, Zenon DEF DisplayInv
  <2>2. core.queue[i].buffer # NoBuffer
    BY <2>1, BufferQueueAssumption DEF NoBuffer
  <2> QED  BY <2>2, Zenon DEF StillTracking, Tracks
<1>3. ASSUME NEW s \in Slots
      PROVE  LET items == {i \in DOMAIN core.queue :
                              core.queue[i].slot = s /\ StillTracking(core, core.queue[i])}
             IN  Cardinality(items) = IF core.slots[s].state = "Queued" THEN 1 ELSE 0
  <2> DEFINE items == {i \in DOMAIN core.queue :
                          core.queue[i].slot = s /\ StillTracking(core, core.queue[i])}
  <2>1. CASE core.slots[s].state = "Queued"
    <3>1. PICK i \in DOMAIN core.queue : core.queue[i].slot = s /\ Tracks(i)
      BY <2>1, Zenon DEF DisplayInv, ItemInv
    <3>2. \A j \in DOMAIN core.queue : core.queue[j].slot = s /\ Tracks(j) => j = i
      <4> TAKE j \in DOMAIN core.queue
      <4> HAVE core.queue[j].slot = s /\ Tracks(j)
      <4>1. core.slots[s].frame = core.queue[i].frame /\ core.slots[s].frame = core.queue[j].frame
        <5>1. ASSUME NEW k \in DOMAIN core.queue, Tracks(k)
              PROVE  core.slots[core.queue[k].slot].frame = core.queue[k].frame
          BY <5>1, Zenon DEF DisplayInv, ItemInv
        <5> QED  BY <3>1, <5>1, Zenon
      <4>2. DOMAIN core.queue = 1..Len(core.queue) /\ Len(core.queue) \in Nat
        BY FieldTypes, Zenon DEF DisplayInv
      <4>3. ~(i < j) /\ ~(j < i)
        BY <4>1, Zenon DEF DisplayInv, QueueInv
      <4> QED  BY <4>2, <4>3
    <3>3. items = {i}
      BY <1>2, <3>1, <3>2, Zenon
    <3> QED  BY <2>1, <3>3, FS_Singleton, Zenon
  <2>2. CASE core.slots[s].state # "Queued"
    <3>1. items = {}
      BY <1>2, <2>2 DEF DisplayInv, ItemInv
    <3> QED  BY <2>2, <3>1, FS_EmptySet, Zenon
  <2> QED  BY <2>1, <2>2, Zenon
<1>4. ASSUME ~Crossed, NEW s \in InState(core, "Acquired")
      PROVE  /\ framebuffer.acquired /\ framebuffer.slot = s
             /\ tracked[s] = framebuffer.buffer /\ core.slots[s].buffer = framebuffer.buffer
             /\ ReleaseStatus(core, s, framebuffer.frame) = "NoError"
  <2>1. s \in Slots /\ core.slots[s].state = "Acquired"
    BY Zenon DEF InState
  <2>2. /\ core.slots[s].acquireCalled
        /\ framebuffer.acquired /\ framebuffer.slot = s
        /\ core.slots[s].buffer = framebuffer.buffer /\ core.slots[s].frame = framebuffer.frame
        /\ \A i \in DOMAIN core.queue : core.queue[i].slot # s
    BY <1>4, <2>1, Zenon DEF DisplayInv, CleanInv, ShownInv
  <2>3. tracked[s] = core.slots[s].buffer
    BY <1>4, <2>1, <2>2, Zenon DEF DisplayInv, CleanInv, CopyInv
  <2>4. ReleaseStatus(core, s, framebuffer.frame) = "NoError"
    BY <2>1, <2>2, Zenon DEF ReleaseStatus
  <2> QED  BY <2>2, <2>3, <2>4, Zenon
<1> QED  BY <1>1, <1>3, <1>4, Zenon DEF SlotsAccounted

(* Whatever SetPreallocatedBuffer, SetBufferCount, Disconnect and Abandon  *)
(* do to the slots meanwhile, and whatever frames are droppable, a slot is *)
(* Queued exactly as long as one item that it still has is queued.  Until  *)
(* a frame replaces the front ahead of an older one of its own slot, no    *)
(* slot is lost: an Acquired one is one that the composer's ReleaseBuffer  *)
(* is certain to free.                                                     *)
THEOREM NoSlotLost == Spec => []SlotsAccounted
<1>1. DisplayInv => SlotsAccounted
  BY DisplayInvSlotsAccounted, Zenon
<1> QED  BY DisplayInvariant, <1>1, PTL

(* The composer has the buffer of the frame that it shows, though          *)
(* AcquireBuffer hands a buffer over only once and OnBuffersReleased makes *)
(* ConsumerBase forget buffers; and the guest does not own that buffer.    *)
(* This holds until a frame replaces the front ahead of an older one of    *)
(* its own slot.                                                           *)
THEOREM ShownFrameIntact == Spec => []ShownIntact
<1>1. DisplayInv => ShownIntact
  <2> SUFFICES ASSUME DisplayInv, framebuffer.acquired, ~Crossed
               PROVE  /\ framebuffer.buffer # NoBuffer
                      /\ core.slots[framebuffer.slot].state \in {"Dequeued", "Queued"} =>
                            core.slots[framebuffer.slot].buffer # framebuffer.buffer
    BY Zenon DEF ShownIntact
  <2> QED  BY Zenon DEF DisplayInv, CleanInv, ShownInv
<1> QED  BY DisplayInvariant, <1>1, PTL

(* Every frame is shown at most once, and the frames behind the front of   *)
(* the queue are in the order in which QueueBuffer numbered them.  So are  *)
(* the shown frame and the front with them, until a frame takes the place  *)
(* of a droppable front that has others behind it.                         *)
THEOREM FramesShownInOrder == Spec => []FramesInOrder
<1>1. DisplayInv => FramesInOrder
  <2> SUFFICES ASSUME DisplayInv, NEW i \in DOMAIN core.queue
               PROVE  /\ core.queue[i].frame # framebuffer.frame
                      /\ overtaken = {} => core.queue[i].frame > framebuffer.frame
                      /\ \A j \in 1..i - 1 : IF j = 1 /\ overtaken # {}
                                             THEN core.queue[i].frame # core.queue[j].frame
                                             ELSE core.queue[i].frame > core.queue[j].frame
    BY Zenon DEF FramesInOrder
  <2>1. /\ framebuffer.frame \in Nat /\ Len(core.queue) \in Nat
        /\ DOMAIN core.queue = 1..Len(core.queue)
        /\ \A j \in DOMAIN core.queue : core.queue[j].frame \in Nat
    BY FieldTypes, Zenon DEF DisplayInv
  <2>2. /\ framebuffer.frame # core.queue[i].frame
        /\ overtaken = {} => framebuffer.frame < core.queue[i].frame
    BY Zenon DEF DisplayInv, QueueInv
  <2>3. ASSUME NEW j \in 1..i - 1
        PROVE  IF j = 1 /\ overtaken # {} THEN core.queue[i].frame # core.queue[j].frame
                                          ELSE core.queue[i].frame > core.queue[j].frame
    <3>1. j \in DOMAIN core.queue /\ j < i /\ (j = 1 \/ 1 < j)
      BY <2>1
    <3>2. /\ core.queue[j].frame # core.queue[i].frame
          /\ 1 < j \/ overtaken = {} => core.queue[j].frame < core.queue[i].frame
      BY <3>1, Zenon DEF DisplayInv, QueueInv
    <3> QED  BY <3>1, <3>2, Zenon
  <2> QED  BY <2>2, <2>3, Zenon
<1> QED  BY DisplayInvariant, <1>1, PTL

===============================================================================
