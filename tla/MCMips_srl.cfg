SPECIFICATION Spec
CONSTANTS
    ByteBits = 2
    PageSize = 16
    NumPhysPages = 3
    UserStackSize = 8
    noffH <- MCNoffH
    Executable <- MCExecutable
    NumGPRegs = 4
    ShamtBits = 3
    TargetBits = 5
    Text <- MCText
    Operands <- MCOperands
    Results = {5}
    Threads = {t1, t2}
    MaxInstructions = 2
PROPERTIES
    SrlShiftsZerosIn
CHECK_DEADLOCK FALSE
