\* In units of 1 MiB of physical memory: the heap at 16 MiB, the exchange heap
\* at 32 MiB, frames from 16 MiB on (cut off at 36 MiB).
SPECIFICATION Spec
CONSTANTS
    HeapSpace = {16}
    ExchangeSpace = {32, 33, 34, 35}
    FrameSpace = {16, 17, 18, 19, 20, 21, 22, 23, 24, 25, 26, 27, 28, 29, 30, 31,
                  32, 33, 34, 35}
    Sizes = {1}
INVARIANT
    AllocatorsApart
