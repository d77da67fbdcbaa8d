\* Well-formed ELF layouts against the loader: every PT_LOAD memory image mapped, no panic.
CONSTANTS
    PAGE = 16
    StackBase = 512
    Top = 1024
    LoadBase = 1152
    InterpBase = 1536
    Images <- MCImages
    Linker <- MCLinker
    PathLens = {1}
    ArgLens = {1}
    MaxArgs = 0
SPECIFICATION Spec
INVARIANT ImageLoaded
\* The loader stops after SeedAux or at a panic.
CHECK_DEADLOCK FALSE
