------------------------------ MODULE AddrSpace ------------------------------
(***************************************************************************)
(* The user program's address space (userprog/addrspace.cc) and the        *)
(* machine's address translation and memory access (machine/translate.cc). *)
(*                                                                         *)
(* A word is four bytes of ByteBits bits (8 in the code) and is kept as    *)
(* the unsigned number of its bits; Signed gives the int the code sees.    *)
(* The build uses a linear page table and no TLB.                          *)
(***************************************************************************)
EXTENDS Integers

CONSTANTS
    ByteBits,       \* bits of a byte
    PageSize,       \* bytes of a page
    NumPhysPages,   \* pages of the simulated memory
    UserStackSize,  \* bytes that Load adds for the stack
    noffH,          \* the header of the executable: its four segments
    Executable      \* the bytes of the executable, a function on 0 .. n-1

WordBits == 4 * ByteBits
HalfBits == 2 * ByteBits
MemorySize == NumPhysPages * PageSize

Byte == 0 .. 2^ByteBits - 1
Word == 0 .. 2^WordBits - 1

(* The segments fit the memory one after the other, as test/script lays    *)
(* them out, and the header describes bytes that are in the file.          *)
ASSUME SizesAssumption ==
    /\ ByteBits \in Nat \ {0} /\ PageSize \in Nat \ {0} /\ PageSize % 4 = 0
    /\ NumPhysPages \in Nat \ {0} /\ UserStackSize \in Nat
    /\ MemorySize <= 2^WordBits
    /\ \A s \in {"code", "initData", "readonlyData", "uninitData"} :
          /\ noffH[s].size \in Nat /\ noffH[s].virtualAddr \in Nat
          /\ noffH[s].inFileAddr \in Nat
          /\ noffH[s].virtualAddr + noffH[s].size <= MemorySize

Truncate(x) == x % 2^WordBits

Signed(x) == IF x < 2^(WordBits - 1) THEN x ELSE x - 2^WordBits

(* The word with the sign of the low "bits" bits of x. *)
SignExtend(x, bits) ==
    LET low == x % 2^bits
    IN IF low < 2^(bits - 1) THEN low ELSE Truncate(low - 2^bits)

-----------------------------------------------------------------------------
(* AddrSpace: construction and loading. *)

TranslationEntry ==
    [physicalPage : Nat, valid : BOOLEAN, use : BOOLEAN, dirty : BOOLEAN,
     readOnly : BOOLEAN]

(* AddrSpace::AddrSpace: virtual page i is physical page i. *)
NewPageTable ==
    [i \in 0 .. NumPhysPages - 1 |->
        [physicalPage |-> i, valid |-> TRUE, use |-> FALSE, dirty |-> FALSE,
         readOnly |-> FALSE]]

divRoundUp(n, s) == (n \div s) + (IF n % s > 0 THEN 1 ELSE 0)

(* The pages Load counts: the four segments and the stack. *)
numPages ==
    divRoundUp(noffH.code.size + noffH.readonlyData.size + noffH.initData.size
                 + noffH.uninitData.size + UserStackSize, PageSize)

(* Load's ASSERT that the program is not too big. *)
ASSUME ProgramFits == numPages <= NumPhysPages

(* One ReadAt of Load: a segment copied to the memory at its address.      *)
CopySegment(memory, segment) ==
    [a \in DOMAIN memory |->
        LET i == a - segment.virtualAddr
        IN IF i \in 0 .. segment.size - 1
              /\ segment.inFileAddr + i \in DOMAIN Executable
           THEN Executable[segment.inFileAddr + i]
           ELSE memory[a]]

(* AddrSpace::Load on the memory the constructor has zeroed. *)
Load ==
    LET zeroed == [a \in 0 .. MemorySize - 1 |-> 0]
    IN CopySegment(
         CopySegment(CopySegment(zeroed, noffH.code), noffH.initData),
         noffH.readonlyData)

-----------------------------------------------------------------------------
(* Machine: translation and access. *)

Vpn(virtAddr) == virtAddr \div PageSize

TranslateOffByOne(table, virtAddr, size, writing) ==
    IF virtAddr % size # 0 THEN "AddressErrorException"
    ELSE IF Vpn(virtAddr) > numPages THEN "AddressErrorException"
    ELSE LET entry == table[Vpn(virtAddr)]
         IN IF ~entry.valid THEN "PageFaultException"
            ELSE IF entry.readOnly /\ writing THEN "ReadOnlyException"
            ELSE IF entry.physicalPage >= NumPhysPages THEN "BusErrorException"
            ELSE "NoException"

(* The exception Machine::Translate returns for an access of size bytes.   *)
Translate(table, virtAddr, size, writing) ==
    IF virtAddr % size # 0 THEN "AddressErrorException"
    ELSE IF Vpn(virtAddr) >= numPages THEN "AddressErrorException"
    ELSE LET entry == table[Vpn(virtAddr)]
         IN IF ~entry.valid THEN "PageFaultException"
            ELSE IF entry.readOnly /\ writing THEN "ReadOnlyException"
            ELSE IF entry.physicalPage >= NumPhysPages THEN "BusErrorException"
            ELSE "NoException"

(* The physical address it stores when there is no exception... *)
PhysAddr(table, virtAddr) ==
    table[Vpn(virtAddr)].physicalPage * PageSize + (virtAddr % PageSize)

(* ... and the use and dirty bits it sets. *)
Touch(table, virtAddr, writing) ==
    [table EXCEPT ![Vpn(virtAddr)].use = TRUE,
                  ![Vpn(virtAddr)].dirty = @ \/ writing]

(* AddrSpace::Translate, the kernel's own translation: no size, no check   *)
(* of the valid bit.                                                       *)
KernelTranslate(table, vaddr, isReadWrite) ==
    IF Vpn(vaddr) >= numPages THEN "AddressErrorException"
    ELSE IF isReadWrite /\ table[Vpn(vaddr)].readOnly THEN "ReadOnlyException"
    ELSE IF table[Vpn(vaddr)].physicalPage >= NumPhysPages
         THEN "BusErrorException"
    ELSE "NoException"

(* The value of ReadMem: size bytes, the lowest address lowest.  A single  *)
(* byte is a char, hence signed.                                           *)
ReadValue(memory, phys, size) ==
    CASE size = 1 -> SignExtend(memory[phys], ByteBits)
      [] size = 2 -> memory[phys] + 2^ByteBits * memory[phys + 1]
      [] size = 4 -> memory[phys] + 2^ByteBits * memory[phys + 1]
                       + 2^(2 * ByteBits) * memory[phys + 2]
                       + 2^(3 * ByteBits) * memory[phys + 3]

(* The memory after WriteMem stores the low size bytes of value. *)
WriteValue(memory, phys, size, value) ==
    [a \in DOMAIN memory |->
        IF a \in phys .. phys + size - 1
        THEN (value \div 2^(ByteBits * (a - phys))) % 2^ByteBits
        ELSE memory[a]]
=============================================================================
