------------------------------- MODULE MCMips -------------------------------
EXTENDS Mips, TLC

(* A page of 16 bytes, half of it code; the second page is data and stack.  *)
MCNoffH ==
    [code |-> [virtualAddr |-> 0, inFileAddr |-> 0, size |-> 8],
     initData |-> [virtualAddr |-> 8, inFileAddr |-> 8, size |-> 4],
     readonlyData |-> [virtualAddr |-> 12, inFileAddr |-> 12, size |-> 4],
     uninitData |-> [virtualAddr |-> 16, inFileAddr |-> 0, size |-> 2]]

MCExecutable == [n \in 0 .. 15 |-> (3 * n + n \div 4) % 4]

IOps == {"ADDI", "ADDIU", "ANDI", "LUI", "ORI", "SLTI", "SLTIU", "XORI", "RES",
         "UNIMP"} \union BranchOps \union LoadOps \union StoreOps

Instruction(ops, raw) ==
    [op : ops, rs : {2}, rt : {3}, rd : {2}, raw : {raw}]

(* Every operation once, on registers 2 and 3, and with an immediate that  *)
(* is negative as well where the sign matters.                             *)
FirstInstructions ==
    Instruction(RFMT \union JFMT \union IOps, 3)
      \union Instruction({"ADDI", "SLTIU", "BEQ", "LW", "LWL", "SB"}, 12)

(* Any instruction stands at address 0; elsewhere a few, so that a second  *)
(* instruction meets the delayed loads and branches of the first.          *)
MCText(addr) ==
    IF addr = 0 THEN FirstInstructions
    ELSE Instruction({"ADDU", "LW", "LWR", "SYSCALL"}, 3)

MCOperands == {0, 6, 127, 128, 255}

MCSymmetry == Permutations(Threads)
=============================================================================
