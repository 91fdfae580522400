-------------------------------- MODULE Mips --------------------------------
(***************************************************************************)
(* The simulated processor (machine/mipssim.cc, machine/machine.cc): one   *)
(* action per group of instructions, exceptions, delayed loads, and the    *)
(* user registers across interrupts and context switches                   *)
(* (Thread::SaveUserState, RestoreUserState around SWITCH).                *)
(*                                                                         *)
(* The text of the program is left open: the fetch at address a finds any  *)
(* of Text(a).  So the encoding of instructions is left out, but not the   *)
(* formats, which decide what the immediate field means.  Register numbers *)
(* keep the layout of machine.h for NumGPRegs general registers.           *)
(***************************************************************************)
EXTENDS AddrSpace, Bitwise, FiniteSets

CONSTANTS
    NumGPRegs,      \* general registers (32 in the code)
    ShamtBits,      \* bits of a shift amount: 2^ShamtBits = WordBits
    TargetBits,     \* bits of a jump target
    Text(_),        \* what may stand at an address: [op, rs, rt, rd, raw]
    Operands,       \* values the general registers start with
    Results,        \* values a system call may return
    Threads,        \* threads that share the machine
    MaxInstructions \* bound: instructions executed

ASSUME MipsAssumption ==
    /\ NumGPRegs \in Nat /\ NumGPRegs >= 4
    /\ 2^ShamtBits = WordBits /\ TargetBits \in 1 .. WordBits - 2
    /\ Operands \subseteq Word /\ Results \subseteq Word

StackReg     == NumGPRegs - 3
R31          == NumGPRegs - 1
HiReg        == NumGPRegs
LoReg        == NumGPRegs + 1
PCReg        == NumGPRegs + 2
NextPCReg    == NumGPRegs + 3
PrevPCReg    == NumGPRegs + 4
LoadReg      == NumGPRegs + 5
LoadValueReg == NumGPRegs + 6
BadVAddrReg  == NumGPRegs + 7
NumTotalRegs == NumGPRegs + 8

Regs == 0 .. NumTotalRegs - 1
GPRegs == 0 .. NumGPRegs - 1

VARIABLES
    registers,      \* the machine's registers
    mainMemory,     \* its physical memory
    pageTable,      \* the page table of the one address space
    userRegisters,  \* per thread: registers saved by Scheduler::Run
    space,          \* the threads that execute a user program
    currentThread,
    trap,           \* per thread: the exception whose handler it is in
    instr,          \* the instruction decoded last
    executed,       \* number of instructions started
    halted          \* Interrupt::Halt was called, or the host stopped Nachos

vars == <<registers, mainMemory, pageTable, userRegisters, space,
          currentThread, trap, instr, executed, halted>>

-----------------------------------------------------------------------------
(* Decoding: the formats of opTable and specialTable, and what              *)
(* Instruction::Decode makes of the immediate field.                       *)

JFMT == {"J", "JAL"}

RFMT == {"SLL", "SRL", "SRA", "SLLV", "SRLV", "SRAV", "JR", "JALR", "SYSCALL",
         "MFHI", "MTHI", "MFLO", "MTLO", "MULT", "MULTU", "DIV", "DIVU", "ADD",
         "ADDU", "SUB", "SUBU", "AND", "OR", "XOR", "NOR", "SLT", "SLTU"}

Decode(i) ==
    [op |-> i.op, rs |-> i.rs, rt |-> i.rt, rd |-> i.rd,
     extra |-> CASE i.op \in RFMT -> i.raw % 2^ShamtBits
                 [] i.op \in JFMT -> i.raw % 2^TargetBits
                 [] OTHER -> SignExtend(i.raw, HalfBits)]

IndexToAddr(x) == Truncate(x * 4)

Negative(x) == x >= 2^(WordBits - 1)

Plus(a, b) == Truncate(a + b)
Minus(a, b) == Truncate(a - b)
Complement(a) == 2^WordBits - 1 - a
Bool(b) == IF b THEN 1 ELSE 0
Shamt(x) == x % 2^ShamtBits
LowHalf(x) == x % 2^HalfBits
ShiftLeft(x, n) == Truncate(x * 2^n)
ShiftRight(x, n) == Truncate(Signed(x) \div 2^n)   \* >> on an int

-----------------------------------------------------------------------------
(* Values the instructions compute, in the order of the switch of          *)
(* OneInstruction.  i is a decoded instruction, r the registers.           *)

AddOps == {"ADD", "ADDI", "ADDIU", "ADDU", "AND", "ANDI"}

AddValue(i, r) ==
    CASE i.op \in {"ADD", "ADDU"} -> Plus(r[i.rs], r[i.rt])
      [] i.op \in {"ADDI", "ADDIU"} -> Plus(r[i.rs], i.extra)
      [] i.op = "AND" -> r[i.rs] & r[i.rt]
      [] i.op = "ANDI" -> r[i.rs] & LowHalf(i.extra)

(* The tests on sign bits before RaiseException(OverflowException). *)
AddOverflows(i, r) ==
    LET b == IF i.op = "ADD" THEN r[i.rt] ELSE i.extra
    IN /\ i.op \in {"ADD", "ADDI"}
       /\ Negative(r[i.rs]) = Negative(b)
       /\ Negative(b) # Negative(Plus(r[i.rs], b))

BranchOps == {"BEQ", "BGEZAL", "BGEZ", "BGTZ", "BLEZ", "BLTZAL", "BLTZ", "BNE"}

Taken(i, r) ==
    CASE i.op = "BEQ" -> r[i.rs] = r[i.rt]
      [] i.op = "BNE" -> r[i.rs] # r[i.rt]
      [] i.op \in {"BGEZ", "BGEZAL"} -> ~Negative(r[i.rs])
      [] i.op \in {"BLTZ", "BLTZAL"} -> Negative(r[i.rs])
      [] i.op = "BGTZ" -> Signed(r[i.rs]) > 0
      [] i.op = "BLEZ" -> Signed(r[i.rs]) <= 0

(* BGEZAL and BLTZAL write R31 before the test reads rs. *)
Linked(i, r) ==
    IF i.op \in {"BGEZAL", "BLTZAL", "JAL"}
    THEN [r EXCEPT ![R31] = Plus(r[NextPCReg], 4)]
    ELSE IF i.op = "JALR" THEN [r EXCEPT ![i.rd] = Plus(r[NextPCReg], 4)]
    ELSE r

(* C's division truncates towards zero. *)
Quotient(n, d) ==
    LET q == (IF n < 0 THEN -n ELSE n) \div (IF d < 0 THEN -d ELSE d)
    IN IF (n < 0) = (d < 0) THEN q ELSE -q

Divide(i, r) ==
    LET n == IF i.op = "DIV" THEN Signed(r[i.rs]) ELSE r[i.rs]
        d == IF i.op = "DIV" THEN Signed(r[i.rt]) ELSE r[i.rt]
    IN IF d = 0
       THEN [r EXCEPT ![LoReg] = 0, ![HiReg] = 0]
       ELSE [r EXCEPT ![LoReg] = Truncate(Quotient(n, d)),
                      ![HiReg] = Truncate(n - Quotient(n, d) * d)]

(* The quotient of the least int by -1 is no int: the host's division       *)
(* instruction traps and Nachos is killed.                                 *)
DivideTraps(i, r) ==
    /\ i.op = "DIV"
    /\ Signed(r[i.rs]) = -(2^(WordBits - 1)) /\ Signed(r[i.rt]) = -1

JumpOps == {"JAL", "J", "JALR", "JR"}

JumpTarget(i, r) ==
    IF i.op \in {"J", "JAL"}
    THEN LET pcAfter == Plus(r[NextPCReg], 4)
             region == 2^(TargetBits + 2)
         IN (pcAfter - (pcAfter % region)) + IndexToAddr(i.extra)
    ELSE r[i.rs]

(* Where a load or store goes; LWL, LWR, SWL and SWR access the aligned     *)
(* word around it (SIM_FIX).                                               *)
Address(i, r) == Plus(r[i.rs], i.extra)
Unaligned(i) == i.op \in {"LWL", "LWR", "SWL", "SWR"}
AccessSize(i) ==
    CASE i.op \in {"LB", "LBU", "SB"} -> 1
      [] i.op \in {"LH", "LHU", "SH"} -> 2
      [] OTHER -> 4
AccessAddress(i, r) ==
    IF Unaligned(i) THEN Address(i, r) - (Address(i, r) % 4) ELSE Address(i, r)

LoadOps == {"LB", "LBU", "LH", "LHU", "LW", "LWL", "LWR"}

(* What LB .. LW make of the value ReadMem returns. *)
Extended(i, value) ==
    CASE i.op = "LB" -> SignExtend(value, ByteBits)
      [] i.op = "LBU" -> value % 2^ByteBits
      [] i.op = "LH" -> SignExtend(value, HalfBits)
      [] i.op = "LHU" -> value % 2^HalfBits
      [] i.op = "LW" -> value

(* LWL and LWR merge bytes of the word into old; k is 3 - byte. *)
MergeLeft(old, value, k) ==
    Truncate(value * 2^(ByteBits * k)) + (old % 2^(ByteBits * k))
MergeRightShort(old, value, k) ==
    LET m == 2^(ByteBits * k)
    IN (old - (old % m)) + ((value \div 2^(ByteBits * (3 - k))) % m)
MergeRight(old, value, k) ==
    LET m == 2^(ByteBits * (k + 1))
    IN (old - (old % m)) + ((value \div 2^(ByteBits * (3 - k))) % m)

(* The merge starts from the value of a load into rt still in flight. *)
OldValue(i, r) == IF r[LoadReg] = i.rt THEN r[LoadValueReg] ELSE r[i.rt]

LoadedValue(i, r, value) ==
    LET k == 3 - (Address(i, r) % 4)
    IN CASE i.op = "LWL" -> MergeLeft(OldValue(i, r), value, k)
         [] i.op = "LWR" -> MergeRight(OldValue(i, r), value, k)
         [] OTHER -> Extended(i, value)

MoveOps == {"MFHI", "MFLO", "MTHI", "MTLO"}

Move(i, r) ==
    CASE i.op = "MFHI" -> [r EXCEPT ![i.rd] = r[HiReg]]
      [] i.op = "MFLO" -> [r EXCEPT ![i.rd] = r[LoReg]]
      [] i.op = "MTHI" -> [r EXCEPT ![HiReg] = r[i.rs]]
      [] i.op = "MTLO" -> [r EXCEPT ![LoReg] = r[i.rs]]

MultTurnNoCarry(s) ==
    LET lo == Plus(s.lo, s.bLo)
        add == s.a % 2 = 1
    IN [lo |-> IF add THEN lo ELSE s.lo,
        hi |-> IF add THEN Plus(s.hi, s.bHi) ELSE s.hi,
        bHi |-> Plus(ShiftLeft(s.bHi, 1), Bool(Negative(s.bLo))),
        bLo |-> ShiftLeft(s.bLo, 1),
        a |-> ShiftRight(s.a, 1)]

(* One turn of Mult's loop: if the low bit of a is set, add <<bHi, bLo>>    *)
(* with the carry; double b; halve a (an int, so its sign is copied).  The *)
(* loop's early exit leaves only turns that add nothing.                   *)
MultTurn(s) ==
    LET lo == Plus(s.lo, s.bLo)
        carry == Bool(lo < s.bLo)
        add == s.a % 2 = 1
    IN [lo |-> IF add THEN lo ELSE s.lo,
        hi |-> IF add THEN Plus(Plus(s.hi, carry), s.bHi) ELSE s.hi,
        bHi |-> Plus(ShiftLeft(s.bHi, 1), Bool(Negative(s.bLo))),
        bLo |-> ShiftLeft(s.bLo, 1),
        a |-> ShiftRight(s.a, 1)]

(* Mult: the magnitudes are multiplied and the double word is negated if   *)
(* the signs differ.                                                       *)
Mult(a, b, signedArith) ==
    LET negative == signedArith /\ Negative(a) # Negative(b)
        Magnitude(x) == IF signedArith /\ Negative(x) THEN Minus(0, x) ELSE x
        loop[n \in 0 .. WordBits] ==
            IF n = 0
            THEN [a |-> Magnitude(a), bLo |-> Magnitude(b), bHi |-> 0,
                  lo |-> 0, hi |-> 0]
            ELSE MultTurn(loop[n - 1])
        s == loop[WordBits]
        lo == Plus(Complement(s.lo), 1)
    IN IF a = 0 \/ b = 0 THEN [hi |-> 0, lo |-> 0]
       ELSE IF negative
            THEN [hi |-> Plus(Complement(s.hi), Bool(lo = 0)), lo |-> lo]
            ELSE [hi |-> s.hi, lo |-> s.lo]

LogicOps == {"NOR", "OR", "ORI"}

LogicValue(i, r) ==
    CASE i.op = "NOR" -> Complement(r[i.rs] | r[i.rt])
      [] i.op = "OR" -> r[i.rs] | r[i.rt]
      [] i.op = "ORI" -> r[i.rs] | LowHalf(i.extra)

ShiftOps == {"SLL", "SLLV", "SLT", "SLTI", "SLTIU", "SLTU", "SRA", "SRAV",
             "SRL", "SRLV"}

(* tmp is an int in the code, so SRL and SRLV shift the sign in as well.   *)
ShiftValue(i, r) ==
    CASE i.op = "SLL" -> ShiftLeft(r[i.rt], i.extra)
      [] i.op = "SLLV" -> ShiftLeft(r[i.rt], Shamt(r[i.rs]))
      [] i.op = "SLT" -> Bool(Signed(r[i.rs]) < Signed(r[i.rt]))
      [] i.op = "SLTI" -> Bool(Signed(r[i.rs]) < Signed(i.extra))
      [] i.op = "SLTIU" -> Bool(r[i.rs] < i.extra)
      [] i.op = "SLTU" -> Bool(r[i.rs] < r[i.rt])
      [] i.op \in {"SRA", "SRL"} -> ShiftRight(r[i.rt], i.extra)
      [] i.op \in {"SRAV", "SRLV"} -> ShiftRight(r[i.rt], Shamt(r[i.rs]))

SubOps == {"SUB", "SUBU"}

SubValue(i, r) == Minus(r[i.rs], r[i.rt])

SubOverflows(i, r) ==
    /\ i.op = "SUB"
    /\ Negative(r[i.rs]) # Negative(r[i.rt])
    /\ Negative(r[i.rs]) # Negative(SubValue(i, r))

StoreOps == {"SB", "SH", "SW", "SWL", "SWR"}

(* What SWL and SWR store into the word that holds value. *)
StoreLeft(value, reg, k) ==
    LET m == 2^(ByteBits * (4 - k))
    IN (value - (value % m)) + ((reg \div 2^(ByteBits * k)) % m)
StoreRight(value, reg, k) ==
    LET m == 2^(ByteBits * (3 - k)) IN Truncate(reg * m) + (value % m)

StoredValue(i, r, value) ==
    LET k == 3 - (Address(i, r) % 4)
    IN CASE i.op = "SWL" -> StoreLeft(value, r[i.rt], k)
         [] i.op = "SWR" -> StoreRight(value, r[i.rt], k)
         [] OTHER -> r[i.rt]

XorOps == {"XOR", "XORI"}

XorValue(i, r) ==
    IF i.op = "XOR" THEN r[i.rs] ^^ r[i.rt] ELSE r[i.rs] ^^ LowHalf(i.extra)

-----------------------------------------------------------------------------
(* Machine::DelayedLoad on registers r. *)
DelayedLoad(r, nextReg, nextValue) ==
    [[r EXCEPT ![r[LoadReg]] = r[LoadValueReg]]
        EXCEPT ![LoadReg] = nextReg, ![LoadValueReg] = nextValue, ![0] = 0]

(* AddrSpace::InitRegisters *)
InitRegisters ==
    [n \in Regs |->
        CASE n = NextPCReg -> 4
          [] n = StackReg -> Truncate(numPages * PageSize - 16)
          [] OTHER -> 0]

(* The program of one thread has been loaded and has run for a while: its  *)
(* registers 2 and 3 hold any operands, and a load may be in flight.       *)
Init ==
    /\ \E a, b \in Operands, target \in {0, 2} :
          registers = [InitRegisters EXCEPT ![2] = a, ![3] = b,
                          ![LoadReg] = target,
                          ![LoadValueReg] = IF target = 0 THEN 0 ELSE b]
    /\ mainMemory = Load
    /\ pageTable = NewPageTable
    /\ \E t \in Threads : space = {t} /\ currentThread = t
    /\ userRegisters = [t \in Threads |-> InitRegisters]
    /\ trap = [t \in Threads |-> "NoException"]
    /\ instr = [op |-> "NOP"]
    /\ executed = 0
    /\ halted = FALSE

(* The thread runs user code. *)
InUserCode ==
    /\ ~halted
    /\ currentThread \in space
    /\ trap[currentThread] = "NoException"

RaiseExceptionLoadInFlight(which, badVAddr) ==
    /\ registers' = [registers EXCEPT ![BadVAddrReg] = badVAddr]
    /\ trap' = [trap EXCEPT ![currentThread] = which]
    /\ halted' = (which # "SyscallException")
    /\ UNCHANGED mainMemory

(* Machine::RaiseException: the load in flight lands, and the kernel's      *)
(* ExceptionHandler runs; it halts the machine for everything but a system *)
(* call.                                                                   *)
RaiseException(which, badVAddr) ==
    /\ registers' =
          DelayedLoad([registers EXCEPT ![BadVAddrReg] = badVAddr], 0, 0)
    /\ trap' = [trap EXCEPT ![currentThread] = which]
    /\ halted' = (which # "SyscallException")
    /\ UNCHANGED mainMemory

(* The end of OneInstruction: the delayed load, then the program counters. *)
Complete(r, pcAfter, nextReg, nextValue) ==
    LET loaded == DelayedLoad(r, nextReg, nextValue)
    IN /\ registers' = [loaded EXCEPT ![PrevPCReg] = loaded[PCReg],
                                      ![PCReg] = loaded[NextPCReg],
                                      ![NextPCReg] = pcAfter]
       /\ UNCHANGED <<trap, halted>>

PcAfter == Plus(registers[NextPCReg], 4)

(* The fetch of OneInstruction that found i. *)
Fetched(i) ==
    /\ InUserCode
    /\ executed < MaxInstructions
    /\ executed' = executed + 1
    /\ instr' = i
    /\ Translate(pageTable, registers[PCReg], 4, FALSE) = "NoException"
    /\ UNCHANGED <<userRegisters, space, currentThread>>

(* The page table after the fetch. *)
FetchTouched == Touch(pageTable, registers[PCReg], FALSE)

FetchFault ==
    LET which == Translate(pageTable, registers[PCReg], 4, FALSE)
    IN /\ InUserCode
       /\ which # "NoException"
       /\ RaiseException(which, registers[PCReg])
       /\ UNCHANGED <<pageTable, userRegisters, space, currentThread, instr,
                      executed>>

ComputeOps == AddOps \union LogicOps \union ShiftOps \union SubOps
                \union XorOps \union {"LUI"}

ComputedValue(i, r) ==
    CASE i.op \in AddOps -> AddValue(i, r)
      [] i.op \in LogicOps -> LogicValue(i, r)
      [] i.op \in ShiftOps -> ShiftValue(i, r)
      [] i.op \in SubOps -> SubValue(i, r)
      [] i.op \in XorOps -> XorValue(i, r)
      [] i.op = "LUI" -> ShiftLeft(i.extra, HalfBits)

Destination(i) == IF i.op \in RFMT THEN i.rd ELSE i.rt

Compute(i) ==
    /\ i.op \in ComputeOps
    /\ Fetched(i)
    /\ pageTable' = FetchTouched
    /\ IF AddOverflows(i, registers) \/ SubOverflows(i, registers)
       THEN RaiseException("OverflowException", 0)
       ELSE /\ Complete([registers EXCEPT
                           ![Destination(i)] = ComputedValue(i, registers)],
                        PcAfter, 0, 0)
            /\ UNCHANGED mainMemory

Branch(i) ==
    LET r == Linked(i, registers)
    IN /\ i.op \in BranchOps
       /\ Fetched(i)
       /\ pageTable' = FetchTouched
       /\ Complete(r, IF Taken(i, r)
                      THEN Plus(r[NextPCReg], IndexToAddr(i.extra))
                      ELSE PcAfter, 0, 0)
       /\ UNCHANGED mainMemory

Jump(i) ==
    LET r == Linked(i, registers)
    IN /\ i.op \in JumpOps
       /\ Fetched(i)
       /\ pageTable' = FetchTouched
       /\ Complete(r, JumpTarget(i, r), 0, 0)
       /\ UNCHANGED mainMemory

(* DIV, DIVU, MULT, MULTU and the moves from and to Hi and Lo. *)
HiLo(i) ==
    LET m == Mult(registers[i.rs], registers[i.rt], i.op = "MULT")
    IN /\ i.op \in {"DIV", "DIVU", "MULT", "MULTU"} \union MoveOps
       /\ Fetched(i)
       /\ pageTable' = FetchTouched
       /\ IF DivideTraps(i, registers)
          THEN halted' = TRUE /\ UNCHANGED <<registers, trap>>
          ELSE Complete(CASE i.op \in {"DIV", "DIVU"} -> Divide(i, registers)
                          [] i.op \in {"MULT", "MULTU"} ->
                               [registers EXCEPT ![HiReg] = m.hi, ![LoReg] = m.lo]
                          [] OTHER -> Move(i, registers),
                        PcAfter, 0, 0)
       /\ UNCHANGED mainMemory

LoadMemory(i) ==
    LET addr == AccessAddress(i, registers)
        which == Translate(FetchTouched, addr, AccessSize(i), FALSE)
    IN /\ i.op \in LoadOps
       /\ Fetched(i)
       /\ IF which # "NoException"
          THEN RaiseException(which, addr) /\ pageTable' = FetchTouched
          ELSE /\ pageTable' = Touch(FetchTouched, addr, FALSE)
               /\ Complete(registers, PcAfter, i.rt,
                     LoadedValue(i, registers,
                        ReadValue(mainMemory, PhysAddr(pageTable, addr),
                                  AccessSize(i))))
               /\ UNCHANGED mainMemory

StoreMemory(i) ==
    LET addr == AccessAddress(i, registers)
        which == Translate(FetchTouched, addr, AccessSize(i), TRUE)
        phys == PhysAddr(pageTable, addr)
    IN /\ i.op \in StoreOps
       /\ Fetched(i)
       /\ IF which # "NoException"
          THEN RaiseException(which, addr) /\ pageTable' = FetchTouched
          ELSE /\ pageTable' = Touch(FetchTouched, addr, TRUE)
               /\ mainMemory' =
                     WriteValue(mainMemory, phys, AccessSize(i),
                        StoredValue(i, registers, ReadValue(mainMemory, phys, 4)))
               /\ Complete(registers, PcAfter, 0, 0)

(* SYSCALL and the instructions the simulator does not know. *)
Trap(i) ==
    /\ i.op \in {"SYSCALL", "RES", "UNIMP"}
    /\ Fetched(i)
    /\ pageTable' = FetchTouched
    /\ RaiseException(IF i.op = "SYSCALL" THEN "SyscallException"
                      ELSE "IllegalInstrException", 0)

OneInstruction ==
    \/ FetchFault
    \/ \E raw \in Text(registers[PCReg]) :
          LET i == Decode(raw)
          IN \/ Compute(i) \/ Branch(i) \/ Jump(i) \/ HiLo(i)
             \/ LoadMemory(i) \/ StoreMemory(i) \/ Trap(i)

-----------------------------------------------------------------------------
(* A handler of a system call ends (exception.cc): increasePC, perhaps a    *)
(* result in register 2, and perhaps a byte that WriteMem put in a buffer  *)
(* whose address is in one of the program's registers.                     *)
SyscallReturn ==
    /\ ~halted
    /\ trap[currentThread] = "SyscallException"
    /\ \E v \in Results \union {registers[2]} :
          registers' = [registers EXCEPT ![2] = v,
                           ![PrevPCReg] = registers[PCReg],
                           ![PCReg] = registers[NextPCReg],
                           ![NextPCReg] = Plus(registers[NextPCReg], 4)]
    /\ \/ UNCHANGED <<mainMemory, pageTable>>
       \/ \E r \in GPRegs, b \in Byte :
             /\ Translate(pageTable, registers[r], 1, TRUE) = "NoException"
             /\ pageTable' = Touch(pageTable, registers[r], TRUE)
             /\ mainMemory' =
                   WriteValue(mainMemory, PhysAddr(pageTable, registers[r]), 1, b)
    /\ trap' = [trap EXCEPT ![currentThread] = "NoException"]
    /\ UNCHANGED <<userRegisters, space, currentThread, instr, executed, halted>>

(* Interrupt::CheckIfDue has something to deliver. *)
InterruptDue ==
    /\ ~halted
    /\ registers' = DelayedLoad(registers, 0, 0)
    /\ UNCHANGED <<mainMemory, pageTable, userRegisters, space, currentThread,
                   trap, instr, executed, halted>>

SaveUserState(r) == [userRegisters EXCEPT ![currentThread] = r]
RestoreUserState(next) == userRegisters'[next]

RunNoRestore(r, next) ==
    /\ userRegisters' =
          IF currentThread \in space THEN SaveUserState(r) ELSE userRegisters
    /\ currentThread' = next
    /\ registers' = r

(* Scheduler::Run, called with the registers r: the registers of a user    *)
(* program are saved, and those of the next thread restored if it was a    *)
(* user program when it left the processor.                                *)
Run(r, next) ==
    /\ userRegisters' =
          IF currentThread \in space THEN SaveUserState(r) ELSE userRegisters
    /\ currentThread' = next
    /\ registers' = IF next \in space THEN RestoreUserState(next) ELSE r

(* The timer is due after an instruction and its handler asks for a Yield; *)
(* in the kernel the thread also yields or sleeps.                         *)
Switch ==
    /\ ~halted
    /\ \E next \in Threads \ {currentThread} :
          Run(DelayedLoad(registers, 0, 0), next)
    /\ UNCHANGED <<mainMemory, pageTable, space, trap, instr, executed, halted>>

(* AddrSpace::Execute by a kernel thread, in the address space there is.   *)
Execute ==
    /\ ~halted
    /\ currentThread \notin space
    /\ space' = space \union {currentThread}
    /\ registers' = InitRegisters
    /\ UNCHANGED <<mainMemory, pageTable, userRegisters, currentThread, trap,
                   instr, executed, halted>>

Next ==
    OneInstruction \/ SyscallReturn \/ InterruptDue \/ Switch \/ Execute

Spec == Init /\ [][Next]_vars

-----------------------------------------------------------------------------
(* Properties *)

(* The registers of a user program, wherever they are. *)
View(t) == IF t = currentThread THEN registers ELSE userRegisters[t]

(* "Any delayed load must get applied before we trap to the kernel"        *)
(* (mipssim.cc, DelayedLoad): no load is in flight in a thread that is in   *)
(* a handler or off the processor, and R0 is zero in every saved context.  *)
(* The memory and the registers keep their width.                          *)
LoadsLandBeforeKernel ==
    /\ mainMemory \in [0 .. MemorySize - 1 -> Byte]
    /\ registers \in [Regs -> Word]
    /\ \A t \in space :
          /\ View(t)[0] = 0
          /\ t # currentThread \/ trap[t] # "NoException" =>
                View(t)[LoadReg] = 0

(* A user program's registers belong to it: nothing that other threads,    *)
(* the interrupts or a context switch do changes them, except that a load  *)
(* in flight may land early (Scheduler::Run, CheckIfDue).                  *)
RegistersPrivate ==
    [][\A t \in space :
          t # currentThread \/ currentThread' # currentThread =>
             View(t)' \in {View(t), DelayedLoad(View(t), 0, 0)}]_vars

IntRange == -(2^(WordBits - 1)) .. 2^(WordBits - 1) - 1

(* The mathematical result of the arithmetic instructions, for operands a  *)
(* and b and registers r after the instruction (cf. the MIPS manual).      *)
MatchesManual(i, a, b, r) ==
    LET sa == Signed(a)
        sb == Signed(b)
        ext == Signed(i.extra)
        double == 2^(2 * WordBits)
    IN CASE i.op = "ADD" -> Signed(r[i.rd]) = sa + sb
         [] i.op = "ADDI" -> Signed(r[i.rt]) = sa + ext
         [] i.op = "SUB" -> Signed(r[i.rd]) = sa - sb
         [] i.op = "MULT" -> ((r[HiReg] * 2^WordBits + r[LoReg]) - sa * sb)
                                % double = 0
         [] i.op = "MULTU" -> r[HiReg] * 2^WordBits + r[LoReg] = a * b
         [] i.op = "DIV" /\ b # 0 ->
              /\ Signed(r[LoReg]) * sb + Signed(r[HiReg]) = sa
              /\ Signed(r[HiReg])^2 < sb^2
              /\ Signed(r[HiReg]) * sa >= 0
         [] i.op = "DIVU" /\ b # 0 ->
              r[LoReg] * b + r[HiReg] = a /\ r[HiReg] < b
         [] i.op \in {"SRA", "SRAV"} ->
              LET n == IF i.op = "SRA" THEN i.extra ELSE Shamt(a)
              IN 0 <= sb - Signed(r[i.rd]) * 2^n /\ sb - Signed(r[i.rd]) * 2^n < 2^n
         [] i.op \in {"SLT", "SLTU"} ->
              (r[i.rd] = 1) = (IF i.op = "SLT" THEN sa < sb ELSE a < b)
         [] OTHER -> TRUE

(* The exact result of an instruction that adds or subtracts. *)
ExactSum(i, a, b) ==
    CASE i.op = "ADD" -> Signed(a) + Signed(b)
      [] i.op = "ADDI" -> Signed(a) + Signed(i.extra)
      [] i.op = "SUB" -> Signed(a) - Signed(b)
      [] OTHER -> 0

(* The arithmetic instructions that MatchesManual lists compute what the   *)
(* manual says, the bit by bit multiplication included, and of ADD, ADDI   *)
(* and SUB those whose result is no int raise OverflowException.  (A load that lands in the *)
(* destination at the same time wins, and says nothing.)                   *)
ArithmeticExact ==
    [][executed' # executed =>
         LET i == instr'
             a == registers[i.rs]
             b == registers[i.rt]
         IN /\ (trap'[currentThread] = "OverflowException")
                 = (ExactSum(i, a, b) \notin IntRange)
            /\ halted' \/ registers[LoadReg] # 0
                 \/ MatchesManual(i, a, b, registers')]_vars

(* LWL at the last byte and LWR at the first byte of any four bytes load    *)
(* them into one register whatever it held, and SWL and SWR store them     *)
(* without touching other bytes: the pairs a compiler emits for unaligned  *)
(* words.  Checked at the word that register 2 selects, initially and when *)
(* a store has just changed the memory.                                    *)
UnalignedPairs ==
  instr.op \in StoreOps \union {"NOP"} =>
    \A a \in {4 * (registers[2] % (MemorySize \div 8)) + n : n \in 0 .. 3} :
      LET word(m, x) == ReadValue(m, x - (x % 4), 4)
          wanted == mainMemory[a] + 2^ByteBits * mainMemory[a + 1]
                      + 2^(2 * ByteBits) * mainMemory[a + 2]
                      + 2^(3 * ByteBits) * mainMemory[a + 3]
          K(x) == 3 - (x % 4)
          Put(m, x, v) == WriteValue(m, x - (x % 4), 4, v)
      IN \A old \in {0, registers[3]} :
           /\ MergeRight(MergeLeft(old, word(mainMemory, a + 3), K(a + 3)),
                         word(mainMemory, a), K(a)) = wanted
           /\ LET m1 == Put(mainMemory, a + 3,
                            StoreLeft(word(mainMemory, a + 3), old, K(a + 3)))
                  m2 == Put(m1, a, StoreRight(word(m1, a), old, K(a)))
              IN \A x \in DOMAIN m2 :
                   m2[x] = IF x \in a .. a + 3
                           THEN (old \div 2^(ByteBits * (x - a))) % 2^ByteBits
                           ELSE mainMemory[x]

(* On any address a program puts in a register, the kernel's translation   *)
(* (AddrSpace::Translate) and the machine's agree about a byte, and an     *)
(* access the machine allows stays inside the program's pages, the memory  *)
(* and the page's frame.                                                   *)
TranslationsAgree ==
    LET addr == registers[2]
    IN /\ \A writing \in BOOLEAN :
             Translate(pageTable, addr, 1, writing)
               = KernelTranslate(pageTable, addr, writing)
       /\ \A size \in {1, 2, 4} :
             Translate(pageTable, addr, size, FALSE) = "NoException" =>
               /\ addr + size <= numPages * PageSize
               /\ PhysAddr(pageTable, addr) + size <= MemorySize
               /\ (PhysAddr(pageTable, addr) + size - 1) \div PageSize
                    = pageTable[Vpn(addr)].physicalPage

(* The MIPS manual's SRL and SRLV, whose names mipssim.h takes "straight    *)
(* from the MIPS manual": zeros are shifted in.                            *)
SrlShiftsZerosIn ==
    [][executed' # executed /\ instr'.op \in {"SRL", "SRLV"} /\ registers[LoadReg] = 0 =>
          LET amount == IF instr'.op = "SRL" THEN instr'.extra
                        ELSE Shamt(registers[instr'.rs])
          IN  registers'[instr'.rd] = registers[instr'.rt] \div 2^amount]_vars
=============================================================================
