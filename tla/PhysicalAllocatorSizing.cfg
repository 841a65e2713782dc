\* Two flags fit the page set aside, the flag of frame 2 is a byte of frame 0; index 4 wraps to frame 0.
\* The kernel's end is not page aligned.
CONSTANTS
    FRAME_SIZE = 2
    FRAMES_FOR_MANAGING = 1
    PHYSICAL_HEAP_START = 3
    PHYSICAL_MEMORY_END = 12
    UINT32 = 8
    DataBytes = {0, 2}
    MaxGrants = 2
SPECIFICATION Spec
INVARIANT FrameGrantedOnce
\* The bound on grants and the fault state end behaviours.
CHECK_DEADLOCK FALSE
