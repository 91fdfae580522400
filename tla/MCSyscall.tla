----------------------------- MODULE MCSyscall -----------------------------
(* Small instances of Syscall: 8-bit ints, two slots, three descriptors. *)
EXTENDS Syscall

MCNames == {<<"a">>, <<"b", "a">>}

\* One file holds two bytes, the other is absent.
MCHostFiles ==
  {[n \in MCNames |-> IF Len(n) = 1 THEN [inode |-> 1, bytes |-> <<2, 1>>]
                      ELSE [inode |-> 0, bytes |-> <<>>]]}

\* Zeroed memory, and memory that holds the descriptors about to be used.
MCHeaps ==
  {[j \in Slots |-> [id |-> 0, openMode |-> 0]],
   [j \in Slots |-> [id |-> 6 - j, openMode |-> 3 - j]]}

MCTexts == {<<1, 2>>}

\* NUL, '-', '0', '1', '2', '8' and a letter in the lines that are looked at
\* digit by digit; fewer characters in lines of maxNumLen and one more.
MCLines ==
  UNION {[1 .. n -> {0, 45, 48, 49, 50, 56, 120}] : n \in 0 .. 3}
    \cup [1 .. 4 -> {0, 45, 49, 50, 56}] \cup [1 .. 5 -> {0, 45, 49}]

MCFileIds == {-1, 0, 1, 3, 4}

\* A negative length, the default of user2System, and as much as fits.
MCSizes == {-2, -1, 1, 2}

MCPositions == {-2, -1, 3}

MCNums == {-128, 127}

MCMinNumeral == <<45, 49, 50, 56>>

=============================================================================
