SPECIFICATION FrameSpec
CONSTANTS
    Handler = {h1, h2, h3}
    SeqModulus = 4
    MaxFrames = 3
INVARIANTS
    FramesParse
    EveryFrameCounted
SYMMETRY HandlerSymmetry
CHECK_DEADLOCK FALSE
