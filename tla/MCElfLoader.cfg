\* load over four ELF layouts and every argv/envp of up to two short strings.
CONSTANTS
    PAGE = 16
    StackBase = 512
    Top = 1024
    LoadBase = 1152
    InterpBase = 1536
    Images <- MCImages
    Linker <- MCLinker
    PathLens = {1, 2, 4}
    ArgLens = {1, 2}
    MaxArgs = 2
SPECIFICATION Spec
INVARIANT TypeOK
INVARIANT ArgvEnvpReadBack
INVARIANT InitialStackAbi
INVARIANT ImageBytesLoaded
INVARIANT AtPhdrLeadsToHeaders
\* The loader stops after SeedAux or at a panic; the guest's run is Runner's.
CHECK_DEADLOCK FALSE
