------------------------------ MODULE NumberIO ------------------------------
(***************************************************************************)
(* How userprog/ksyscall.h turns a typed line into an int (SysReadNum,     *)
(* checkNumString) and an int into characters (SysPrintNum).               *)
(*                                                                         *)
(* Characters are their ASCII codes.  The width of an int is a constant:   *)
(* the code's 32 bits, 11 for _maxNumLen and "-2147483648" become IntBits, *)
(* one more than the digits of INT_MAX, and the digits of INT_MIN.         *)
(* _numberBuffer holds _maxNumLen + 2 bytes, so a line of more than        *)
(* _maxNumLen + 1 characters overruns it and is not modelled.              *)
(***************************************************************************)
EXTENDS Integers, Sequences, FiniteSetsExt

CONSTANTS
  IntBits,        \* width of an int
  MinNumeral,     \* the literal the code compares with: INT_MIN in decimal
  maxNumLen       \* _maxNumLen

ASSUME IntBitsAssumption == IntBits \in Nat /\ IntBits > 1 /\ maxNumLen \in Nat

\* Arithmetic that the provers do not know.
ASSUME PowerAssumption ==
  2 ^ (IntBits - 1) \in Nat \ {0} /\ 2 ^ IntBits = 2 * (2 ^ (IntBits - 1))

MinInt == -(2 ^ (IntBits - 1))

MaxInt == (2 ^ (IntBits - 1)) - 1

Ints == MinInt .. MaxInt

\* What an int variable holds after an operation overflowed.
Wrap(n) == ((n - MinInt) % (2 ^ IntBits)) + MinInt

Minus == 45

Zero == 48

Newline == 10

IsDigit(c) == c \in Zero .. Zero + 9

-----------------------------------------------------------------------------

\* The loop of checkNumString: what is left of n once the last k characters of
\* s were found to be its last digits, or -1.
CheckDigits(n, s) ==
  LET f[k \in 0 .. Len(s)] ==
        IF k = 0 THEN n
        ELSE IF f[k - 1] > 0 /\ s[Len(s) + 1 - k] - Zero = f[k - 1] % 10
        THEN f[k - 1] \div 10 ELSE -1
  IN  f[Len(s)] = 0

checkNumString(integer, s) ==
  IF integer = 0 THEN s = <<Zero>>
  ELSE IF integer > 0 THEN CheckDigits(integer, s)
  ELSE s[1] = Minus /\ CheckDigits(IF Wrap(-integer) > 0 THEN -integer ELSE 0, Tail(s))

\* num = num * 10 + digit, in an int.
Accumulate(s) ==
  LET f[k \in 0 .. Len(s)] ==
        IF k = 0 THEN 0 ELSE Wrap(f[k - 1] * 10 + s[k] - Zero)
  IN  f[Len(s)]

\* What strcmp and strlen see of the characters typed: they stop at a NUL.
CString(s) ==
  LET nul == {k \in 1 .. Len(s) : s[k] = 0}
  IN  SubSeq(s, 1, IF nul = {} THEN Len(s) ELSE Min(nul) - 1)

\* As ToInt, without the check for overflow and leading zeros.
ToIntUnchecked(s) ==
  IF s = MinNumeral THEN MinInt
  ELSE IF Len(s) >= maxNumLen THEN 0
  ELSE LET nega   == s # <<>> /\ s[1] = Minus
           digits == IF nega THEN Tail(s) ELSE s
           num    == Accumulate(digits)
       IN  IF \E k \in DOMAIN digits : ~IsDigit(digits[k]) THEN 0
           ELSE IF nega THEN Wrap(-num) ELSE num

\* SysReadNum once the line is in _numberBuffer.
ToInt(s) ==
  IF s = MinNumeral THEN MinInt
  ELSE IF Len(s) >= maxNumLen THEN 0
  ELSE LET nega   == s # <<>> /\ s[1] = Minus
           digits == IF nega THEN Tail(s) ELSE s
           num    == IF nega THEN Wrap(-Accumulate(digits)) ELSE Accumulate(digits)
       IN  IF \E k \in DOMAIN digits : ~IsDigit(digits[k]) THEN 0
           ELSE IF checkNumString(num, s) THEN num ELSE 0

SysReadNum(line) == ToInt(CString(line))

SysPrintNum(num) ==
  LET f[n \in 0 .. MaxInt] ==
        IF n = 0 THEN <<>> ELSE Append(f[n \div 10], Zero + (n % 10))
  IN  IF num = 0 THEN <<Zero>>
      ELSE IF num = MinInt THEN MinNumeral
      ELSE IF num < 0 THEN <<Minus>> \o f[-num] ELSE f[num]

-----------------------------------------------------------------------------
(* The reference: what a decimal numeral denotes. *)

Unsigned(s) == IF s # <<>> /\ s[1] = Minus THEN Tail(s) ELSE s

\* The one way to write an integer: no leading zero, no "-0".
Canonical(s) ==
  LET u == Unsigned(s)
  IN  /\ u # <<>> /\ \A k \in DOMAIN u : IsDigit(u[k])
      /\ u[1] = Zero => s = <<Zero>>

\* What each prefix of a row of digits denotes.
Values(u) ==
  LET f[k \in 0 .. Len(u)] == IF k = 0 THEN 0 ELSE 10 * f[k - 1] + (u[k] - Zero)
  IN  f

Denotes(s) ==
  LET u == Unsigned(s)
  IN  IF u = s THEN Values(u)[Len(u)] ELSE -Values(u)[Len(u)]

\* The literal of the code is the numeral of INT_MIN.
ASSUME NumeralAssumption ==
  MinNumeral \in Seq(Int) /\ Canonical(MinNumeral) /\ Denotes(MinNumeral) = MinInt

=============================================================================
