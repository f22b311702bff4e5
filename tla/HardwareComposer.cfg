\* Two slots; four frames, so that one overtakes others; two calls that free, reset or resize slots.
SPECIFICATION FairSpec
CONSTANTS
    NUM_BUFFER_SLOTS = 2
    DefaultMaxBufferCount = 2
    MaxFrames = 4
    MaxChanges = 2
    MaxBuffers = 6
INVARIANTS SlotsAccounted ShownIntact FramesInOrder
PROPERTY DequeueReturns
CHECK_DEADLOCK FALSE
