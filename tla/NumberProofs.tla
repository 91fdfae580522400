---------------------------- MODULE NumberProofs ----------------------------
(***************************************************************************)
(* Proofs about NumberIO, for ints of any width and for every line: what a  *)
(* row of digits denotes, what the loops of checkNumString, SysReadNum and  *)
(* SysPrintNum compute, and that the system calls never misread a number    *)
(* and print every int.                                                     *)
(***************************************************************************)
EXTENDS Syscall, WellFoundedInduction, TLAPS

-----------------------------------------------------------------------------
(* Sequences                                                                *)

\* Sequences are equal when their elements are.
LEMMA SameSequence ==
  ASSUME NEW S, NEW s \in Seq(S), NEW t \in Seq(S), Len(s) = Len(t),
         \A i \in 1 .. Len(s) : s[i] = t[i]
  PROVE  s = t
OBVIOUS

\* What Head and Tail do.
LEMMA HeadTailAre ==
  ASSUME NEW S, NEW s \in Seq(S), s # <<>>
  PROVE  /\ Head(s) \in S /\ Tail(s) \in Seq(S)
         /\ Len(Tail(s)) = Len(s) - 1
         /\ \A i \in 1 .. Len(Tail(s)) : Tail(s)[i] = s[i + 1]
OBVIOUS

-----------------------------------------------------------------------------
(* Induction, and functions defined by recursion                            *)

\* Induction up to L, for a set of numbers: there is no least number outside it.
LEMMA UpTo ==
  ASSUME NEW L \in Nat, NEW T, 0 \in T, \A k \in 1 .. L : k - 1 \in T => k \in T
  PROVE  \A k \in 0 .. L : k \in T
<1> DEFINE D == {k \in 0 .. L : k \notin T}
<1> SUFFICES ASSUME D # {} PROVE FALSE
  OBVIOUS
<1>1. D \subseteq Nat
  OBVIOUS
<1>2. PICK x \in D : \A y \in D : <<y, x>> \notin OpToRel(<, Nat)
  BY <1>1, NatLessThanWellFounded, WFMin, Zenon
<1>3. \A y \in D : x \in Nat /\ y \in Nat /\ ~(y < x)
  BY <1>1, <1>2, Zenon DEF OpToRel
<1>4. x # 0 /\ x \in 0 .. L
  BY <1>2, Zenon
<1>5. x - 1 \in 0 .. L /\ x - 1 \notin D
  BY <1>3, <1>4
<1>6. x - 1 \in T /\ x \in 1 .. L
  BY <1>4, <1>5
<1>7. x \notin T
  BY <1>2, Zenon
<1>. QED  BY <1>6, <1>7

\* f starts at a and takes the step G[k] to f[k].
Follows(f, a, G, L) == f[0] = a /\ \A k \in 1 .. L : f[k] = G[k][f[k - 1]]

\* A function may be defined from its value at 0 and its steps.
LEMMA RecursionExists ==
  ASSUME NEW S, NEW a \in S, NEW L \in Nat, NEW G \in [1 .. L -> [S -> S]]
  PROVE  \E f \in [0 .. L -> S] : Follows(f, a, G, L)
<1> DEFINE T == {n \in 0 .. L : \E f \in [0 .. n -> S] :
                                   f[0] = a /\ \A k \in 1 .. n : f[k] = G[k][f[k - 1]]}
<1>1. 0 \in T
  <2> DEFINE f == [k \in 0 .. 0 |-> a]
  <2>1. f \in [0 .. 0 -> S] /\ f[0] = a /\ \A k \in 1 .. 0 : f[k] = G[k][f[k - 1]]
    OBVIOUS
  <2> HIDE DEF f
  <2>2. 0 \in 0 .. L
    OBVIOUS
  <2>. QED  BY <2>1, <2>2
<1>2. ASSUME NEW n \in 1 .. L, n - 1 \in T
      PROVE  n \in T
  <2>1. PICK f \in [0 .. n - 1 -> S] :
          f[0] = a /\ \A k \in 1 .. n - 1 : f[k] = G[k][f[k - 1]]
    BY <1>2
  <2> DEFINE h == [k \in 0 .. n |-> IF k = n THEN G[n][f[n - 1]] ELSE f[k]]
  <2>2. G[n][f[n - 1]] \in S
    OBVIOUS
  <2>3. h \in [0 .. n -> S] /\ h[0] = a
    BY <2>1, <2>2
  <2>4. ASSUME NEW k \in 1 .. n PROVE h[k] = G[k][h[k - 1]]
    <3>1. k - 1 \in 0 .. n - 1 /\ k - 1 # n /\ n # 0
      OBVIOUS
    <3>2. h[k - 1] = f[k - 1]
      BY <3>1
    <3>3. CASE k = n
      BY <3>2, <3>3
    <3>4. CASE k # n
      <4>1. k \in 1 .. n - 1
        BY <3>4
      <4>2. h[k] = f[k]
        BY <3>4
      <4>. QED  BY <2>1, <3>2, <4>1, <4>2
    <3>. QED  BY <3>3, <3>4
  <2> HIDE DEF h
  <2>5. n \in 0 .. L
    OBVIOUS
  <2>. QED  BY <2>3, <2>4, <2>5, Zenon
<1> HIDE DEF T
<1>3. \A k \in 0 .. L : k \in T
  BY <1>1, <1>2, UpTo, Zenon
<1>4. L \in T
  BY <1>3
<1>. QED  BY <1>4 DEF T, Follows

-----------------------------------------------------------------------------
(* Rows of digits                                                           *)

Row(u) == u \in Seq(Int) /\ \A k \in 1 .. Len(u) : u[k] \in Zero .. Zero + 9

\* A row without a leading zero.
Plain(u) == Row(u) /\ u # <<>> /\ u[1] # Zero

\* What the prefixes of a row denote.
LEMMA ValuesIs ==
  ASSUME NEW u, Row(u)
  PROVE  /\ Values(u) \in [0 .. Len(u) -> Nat] /\ Values(u)[0] = 0
         /\ \A k \in 1 .. Len(u) : Values(u)[k] = 10 * Values(u)[k - 1] + (u[k] - Zero)
<1> DEFINE L == Len(u)
           G == [k \in 1 .. L |-> [x \in Nat |-> 10 * x + (u[k] - Zero)]]
           F(f) == f = [k \in 0 .. L |-> IF k = 0 THEN 0 ELSE 10 * f[k - 1] + (u[k] - Zero)]
<1>1. L \in Nat /\ \A k \in 1 .. L : u[k] - Zero \in 0 .. 9
  BY DEF Row, Zero
<1>2. G \in [1 .. L -> [Nat -> Nat]]
  BY <1>1, SMTT(30)
<1>a. \A k \in 1 .. L : \A x \in Nat : G[k][x] = 10 * x + (u[k] - Zero)
  OBVIOUS
<1> HIDE DEF G, L
<1>3. PICK f \in [0 .. L -> Nat] : f[0] = 0 /\ \A k \in 1 .. L : f[k] = G[k][f[k - 1]]
  <2>1. 0 \in Nat
    OBVIOUS
  <2>2. \E f \in [0 .. L -> Nat] : Follows(f, 0, G, L)
    BY <2>1, <1>1, <1>2, RecursionExists, Zenon
  <2>. QED  BY <2>2, Zenon DEF Follows
<1>4. ASSUME NEW k \in 1 .. L PROVE f[k] = 10 * f[k - 1] + (u[k] - Zero)
  <2>1. k - 1 \in 0 .. L
    BY <1>1
  <2>2. f[k - 1] \in Nat /\ f[k] = G[k][f[k - 1]]
    BY <2>1, <1>3
  <2>. QED  BY <2>2, <1>a, Zenon
<1>5. F(f)
  BY <1>1, <1>3, <1>4
<1>6. Values(u) = CHOOSE g : F(g)
  BY DEF Values, L
<1>7. F(Values(u))
  BY <1>5, <1>6, Zenon
<1> DEFINE g == Values(u)
<1>8. g = [k \in 0 .. L |-> IF k = 0 THEN 0 ELSE 10 * g[k - 1] + (u[k] - Zero)]
  BY <1>7, Zenon
<1> HIDE DEF g
<1>9. g[0] = 0 /\ \A k \in 1 .. L : g[k] = 10 * g[k - 1] + (u[k] - Zero)
  BY <1>1, <1>8
<1>10. \A k \in 0 .. L : g[k] \in Nat
  <2> DEFINE T == {k \in 0 .. L : g[k] \in Nat}
  <2>1. 0 \in T
    BY <1>1, <1>9
  <2>2. ASSUME NEW k \in 1 .. L, k - 1 \in T PROVE k \in T
    <3>1. g[k - 1] \in Nat /\ u[k] - Zero \in 0 .. 9 /\ k \in 0 .. L
      BY <1>1, <2>2
    <3>2. g[k] = 10 * g[k - 1] + (u[k] - Zero)
      BY <1>9
    <3> DEFINE x == g[k - 1]
               c == u[k] - Zero
    <3>3. x \in Nat /\ c \in 0 .. 9 /\ g[k] = 10 * x + c
      BY <3>1, <3>2
    <3> HIDE DEF x, c
    <3>4. g[k] \in Nat
      BY <3>3
    <3>. QED  BY <3>1, <3>4
  <2> HIDE DEF T
  <2>3. \A k \in 0 .. L : k \in T
    BY <1>1, <2>1, <2>2, UpTo, Zenon
  <2>. QED  BY <2>3 DEF T
<1>. QED  BY <1>8, <1>9, <1>10, Zenon DEF g, L

\* A longer prefix denotes no less, and without a leading zero more than 0.
LEMMA ValuesGrow ==
  ASSUME NEW u, Row(u)
  PROVE  /\ \A k \in 0 .. Len(u) : Values(u)[k] <= Values(u)[Len(u)]
         /\ Plain(u) => \A k \in 1 .. Len(u) : Values(u)[k] > 0
<1> DEFINE L == Len(u)
           V == Values(u)
<1>1. L \in Nat /\ \A k \in 1 .. L : u[k] - Zero \in 0 .. 9 /\ u[k] \in Int
  BY DEF Row, Zero
<1>2. V \in [0 .. L -> Nat] /\ V[0] = 0 /\ \A k \in 1 .. L : V[k] = 10 * V[k - 1] + (u[k] - Zero)
  BY ValuesIs
<1> HIDE DEF V
<1>3. \A k \in 0 .. L : V[k] <= V[L]
  <2> DEFINE T == {k \in 0 .. L : V[L - k] <= V[L]}
  <2>1. 0 \in T
    BY <1>1, <1>2
  <2>2. ASSUME NEW k \in 1 .. L, k - 1 \in T PROVE k \in T
    <3>1. V[L - (k - 1)] <= V[L] /\ L - (k - 1) \in 1 .. L
      BY <1>1, <2>2
    <3>2. V[L - (k - 1)] = 10 * V[L - k] + (u[L - (k - 1)] - Zero)
      BY <1>1, <1>2, <3>1
    <3>3. L - k \in 0 .. L /\ L \in 0 .. L /\ k \in 0 .. L
      BY <1>1
    <3>4. V[L - k] \in Nat /\ V[L] \in Nat
      BY <1>2, <3>3, Zenon
    <3>5. u[L - (k - 1)] - Zero \in 0 .. 9
      BY <1>1, <3>1
    <3> DEFINE x == V[L - k]
               d == u[L - (k - 1)] - Zero
               y == V[L - (k - 1)]
    <3>6. y <= V[L] /\ y = 10 * x + d /\ x \in Nat /\ d \in 0 .. 9
      BY <3>1, <3>2, <3>4, <3>5
    <3> HIDE DEF x, y, d
    <3>7. x <= V[L]
      BY <3>4, <3>6
    <3>. QED  BY <3>3, <3>7 DEF x
  <2> HIDE DEF T
  <2>3. \A k \in 0 .. L : k \in T
    BY <1>1, <2>1, <2>2, UpTo, Zenon
  <2>4. ASSUME NEW k \in 0 .. L PROVE V[k] <= V[L]
    <3>1. L - k \in T
      BY <1>1, <2>3
    <3>2. V[L - (L - k)] <= V[L]
      BY <3>1 DEF T
    <3>3. L - (L - k) = k
      BY <1>1
    <3>. QED  BY <3>2, <3>3
  <2>. QED  BY <2>4
<1>4. ASSUME Plain(u), NEW j \in 1 .. L PROVE V[j] > 0
  <2> DEFINE T == {k \in 0 .. L : k > 0 => V[k] > 0}
  <2>1. 0 \in T
    BY <1>1
  <2>2. ASSUME NEW k \in 1 .. L, k - 1 \in T PROVE k \in T
    <3>1. CASE k = 1
      <4>1. u[1] - Zero > 0
        BY <1>1, <1>4, <3>1 DEF Plain, Zero
      <4>2. V[1] = 10 * V[0] + (u[1] - Zero) /\ V[0] = 0
        BY <1>1, <1>2, <3>1
      <4>3. V[1] > 0
        <5> DEFINE c == u[1] - Zero
        <5>1. c \in Int /\ c > 0 /\ V[1] = 10 * 0 + c
          BY <1>1, <3>1, <4>1, <4>2
        <5> HIDE DEF c
        <5>. QED  BY <5>1
      <4>. QED  BY <3>1, <4>3
    <3>2. CASE k # 1
      <4> DEFINE x == V[k - 1]
                 c == u[k] - Zero
      <4>0. k - 1 > 0 /\ k - 1 \in 0 .. L
        BY <1>1, <3>2
      <4>1. x > 0 /\ x \in Nat
        BY <1>2, <2>2, <4>0, Zenon
      <4>2. c \in 0 .. 9 /\ V[k] = 10 * x + c
        BY <1>1, <1>2
      <4> HIDE DEF x, c
      <4>3. V[k] > 0
        BY <4>1, <4>2
      <4>. QED  BY <4>3
    <3>. QED  BY <3>1, <3>2
  <2> HIDE DEF T
  <2>3. \A k \in 0 .. L : k \in T
    BY <1>1, <2>1, <2>2, UpTo, Zenon
  <2>4. j \in T /\ j > 0
    BY <1>1, <2>3
  <2>. QED  BY <2>4 DEF T
<1>. QED  BY <1>3, <1>4 DEF V

\* Two rows without leading zeros that denote the same number are the same row.
LEMMA SameRow ==
  ASSUME NEW u, Plain(u), NEW w, Plain(w), Values(u)[Len(u)] = Values(w)[Len(w)]
  PROVE  u = w
<1> DEFINE L == Len(u)
           M == Len(w)
           V == Values(u)
           W == Values(w)
<1>1. /\ L \in Nat /\ \A k \in 1 .. L : u[k] - Zero \in 0 .. 9 /\ u[k] \in Int
      /\ M \in Nat /\ \A k \in 1 .. M : w[k] - Zero \in 0 .. 9 /\ w[k] \in Int
  BY DEF Plain, Row, Zero
<1>2. /\ V \in [0 .. L -> Nat] /\ V[0] = 0
      /\ \A k \in 1 .. L : V[k] = 10 * V[k - 1] + (u[k] - Zero)
  BY ValuesIs DEF Plain
<1>3. /\ W \in [0 .. M -> Nat] /\ W[0] = 0
      /\ \A k \in 1 .. M : W[k] = 10 * W[k - 1] + (w[k] - Zero)
  BY ValuesIs DEF Plain
<1>4. (\A k \in 1 .. L : V[k] > 0) /\ (\A k \in 1 .. M : W[k] > 0)
  BY ValuesGrow DEF Plain
<1> HIDE DEF V, W
<1>5. ASSUME NEW k \in 1 .. L, k <= M, V[L - (k - 1)] = W[M - (k - 1)]
      PROVE  V[L - k] = W[M - k] /\ u[L - (k - 1)] = w[M - (k - 1)]
  <2> DEFINE x == V[L - k]
             y == W[M - k]
             c == u[L - (k - 1)]
             d == w[M - (k - 1)]
  <2>1. L - (k - 1) \in 1 .. L /\ L - k \in 0 .. L /\ M - (k - 1) \in 1 .. M /\ M - k \in 0 .. M
    BY <1>1, <1>5
  <2>a. (L - (k - 1)) - 1 = L - k /\ (M - (k - 1)) - 1 = M - k
    BY <1>1
  <2>2. V[L - (k - 1)] = 10 * x + (c - Zero) /\ W[M - (k - 1)] = 10 * y + (d - Zero)
    BY <1>2, <1>3, <2>1, <2>a, Zenon
  <2>3. x \in Nat /\ y \in Nat
    BY <1>2, <1>3, <2>1, Zenon
  <2>4. c - Zero \in 0 .. 9 /\ d - Zero \in 0 .. 9 /\ c \in Int /\ d \in Int
    BY <1>1, <2>1
  <2> HIDE DEF x, y, c, d
  <2>5. 10 * x + (c - Zero) = 10 * y + (d - Zero)
    BY <1>5, <2>2, Zenon
  <2>6. x = y /\ c = d
    BY <2>3, <2>4, <2>5 DEF Zero
  <2>. QED  BY <2>6 DEF x, y, c, d
<1> DEFINE T == {k \in 0 .. L : k <= M /\ V[L - k] = W[M - k]}
<1>6. 0 \in T
  <2>1. V[L] = W[M]
    BY DEF V, W
  <2>. QED  BY <1>1, <2>1
<1>7. ASSUME NEW k \in 1 .. L, k - 1 \in T PROVE k \in T
  <2>1. k - 1 <= M /\ V[L - (k - 1)] = W[M - (k - 1)]
    BY <1>7
  <2>2. L - (k - 1) \in 1 .. L
    BY <1>1
  <2>3. k - 1 # M
    <3> SUFFICES ASSUME k - 1 = M PROVE FALSE
      OBVIOUS
    <3>1. M - (k - 1) = 0
      BY <1>1
    <3>. QED  BY <1>3, <1>4, <2>1, <2>2, <3>1
  <2>4. k <= M
    BY <1>1, <2>1, <2>3
  <2>. QED  BY <1>5, <2>1, <2>4
<1> HIDE DEF T
<1>8. \A k \in 0 .. L : k \in T
  BY <1>1, <1>6, <1>7, UpTo, Zenon
<1>9. \A k \in 0 .. L : k <= M /\ V[L - k] = W[M - k]
  BY <1>8 DEF T
<1>10. L = M
  <2>1. L <= M /\ V[L - L] = W[M - L]
    BY <1>1, <1>9
  <2>2. W[M - L] = 0
    BY <1>1, <1>2, <2>1
  <2> SUFFICES ASSUME L # M PROVE FALSE
    OBVIOUS
  <2>3. M - L \in 1 .. M
    BY <1>1, <2>1
  <2>. QED  BY <1>4, <2>2, <2>3
<1>11. ASSUME NEW k \in 1 .. L PROVE u[k] = w[k]
  <2> DEFINE q == L + 1 - k
  <2>1. q \in 1 .. L /\ q <= M /\ q - 1 \in 0 .. L /\ L - (q - 1) = k /\ M - (q - 1) = k
    BY <1>1, <1>10
  <2> HIDE DEF q
  <2>2. V[L - (q - 1)] = W[M - (q - 1)]
    BY <1>9, <2>1, Zenon
  <2>. QED  BY <1>5, <2>1, <2>2
<1>12. u \in Seq(Int) /\ w \in Seq(Int) /\ Len(u) = Len(w)
  BY <1>10 DEF Plain, Row
<1>13. \A k \in 1 .. Len(u) : u[k] = w[k]
  BY <1>11
<1>. QED  BY <1>12, <1>13, SameSequence

\* The loop of checkNumString: what is left of n after each character.
Remains(R, n, u) ==
  /\ R \in [0 .. Len(u) -> Int] /\ R[0] = n
  /\ \A k \in 1 .. Len(u) :
       R[k] = IF R[k - 1] > 0 /\ u[Len(u) + 1 - k] - Zero = R[k - 1] % 10
              THEN R[k - 1] \div 10 ELSE -1

\* checkNumString computes what remains.
LEMMA CheckIs ==
  ASSUME NEW u \in Seq(Int), NEW n \in Nat
  PROVE  \E R : Remains(R, n, u) /\ (CheckDigits(n, u) <=> R[Len(u)] = 0)
<1> DEFINE L == Len(u)
           D(k, x) == IF x > 0 /\ u[L + 1 - k] - Zero = x % 10 THEN x \div 10 ELSE -1
           G == [k \in 1 .. L |-> [x \in Int |-> D(k, x)]]
           F(f) == f = [k \in 0 .. L |-> IF k = 0 THEN n ELSE D(k, f[k - 1])]
<1>1. L \in Nat
  OBVIOUS
<1>2. G \in [1 .. L -> [Int -> Int]]
  <2>1. \A x \in Int : x \div 10 \in Int
    OBVIOUS
  <2>. QED  BY <1>1, <2>1
<1>a. \A k \in 1 .. L : \A x \in Int : G[k][x] = D(k, x)
  OBVIOUS
<1>b. \A k \in 1 .. L : \A x \in Int : D(k, x) \in Int
  BY <1>1
<1> HIDE DEF G, D
<1>3. PICK f \in [0 .. L -> Int] : f[0] = n /\ \A k \in 1 .. L : f[k] = G[k][f[k - 1]]
  <2>1. n \in Int
    OBVIOUS
  <2>2. \E f \in [0 .. L -> Int] : Follows(f, n, G, L)
    BY <2>1, <1>1, <1>2, RecursionExists, Zenon
  <2>. QED  BY <2>2 DEF Follows
<1>4. ASSUME NEW k \in 1 .. L PROVE f[k] = D(k, f[k - 1])
  <2>1. k - 1 \in 0 .. L
    BY <1>1
  <2>2. f[k - 1] \in Int /\ f[k] = G[k][f[k - 1]]
    BY <2>1, <1>3, Zenon
  <2>. QED  BY <2>2, <1>a
<1>5. F(f)
  <2>1. f = [k \in 0 .. L |-> f[k]]
    OBVIOUS
  <2>2. \A k \in 0 .. L : k # 0 => k \in 1 .. L
    BY <1>1
  <2>3. \A k \in 0 .. L : f[k] = IF k = 0 THEN n ELSE D(k, f[k - 1])
    BY <1>3, <1>4, <2>2
  <2>. QED  BY <2>1, <2>3
<1> DEFINE R == CHOOSE g : F(g)
<1>6. CheckDigits(n, u) <=> R[L] = 0
  BY DEF CheckDigits, D
<1>7. F(R)
  BY <1>5, Zenon
<1> HIDE DEF R
<1>8. R = [k \in 0 .. L |-> IF k = 0 THEN n ELSE D(k, R[k - 1])]
  BY <1>7, Zenon
<1>9. R[0] = n /\ \A k \in 1 .. L : R[k] = D(k, R[k - 1])
  BY <1>1, <1>8
<1>10. \A k \in 0 .. L : R[k] \in Int
  <2> DEFINE T == {k \in 0 .. L : R[k] \in Int}
  <2>1. 0 \in T
    BY <1>1, <1>9
  <2>2. ASSUME NEW k \in 1 .. L, k - 1 \in T PROVE k \in T
    <3>1. R[k - 1] \in Int /\ k \in 0 .. L
      BY <1>1, <2>2
    <3>2. R[k] \in Int
      BY <1>9, <1>b, <3>1, Zenon
    <3>. QED  BY <3>1, <3>2
  <2> HIDE DEF T
  <2>3. \A k \in 0 .. L : k \in T
    BY <1>1, <2>1, <2>2, UpTo, Zenon
  <2>. QED  BY <2>3 DEF T
<1>11. R \in [0 .. L -> Int]
  BY <1>8, <1>10
<1>12. Remains(R, n, u)
  BY <1>9, <1>11 DEF Remains, D
<1>. QED  BY <1>6, <1>12

LEMMA DigitOf ==
  ASSUME NEW x \in Nat, NEW d \in 0 .. 9
  PROVE  /\ (10 * x + d) % 10 = d /\ (10 * x + d) \div 10 = x
         /\ \A y \in Nat : y % 10 = d /\ y \div 10 = x => y = 10 * x + d
OBVIOUS

\* checkNumString accepts a row of digits for a positive n exactly when it is
\* the numeral of n, and for 0 only the empty row.
LEMMA CheckExact ==
  ASSUME NEW u, Row(u), NEW n \in Nat
  PROVE  /\ n > 0 => (CheckDigits(n, u) <=> Plain(u) /\ Values(u)[Len(u)] = n)
         /\ n = 0 => (CheckDigits(n, u) <=> u = <<>>)
<1> DEFINE L == Len(u)
           V == Values(u)
<1>1. PICK R : Remains(R, n, u) /\ (CheckDigits(n, u) <=> R[L] = 0)
  BY CheckIs DEF Row
<1>2. L \in Nat /\ \A k \in 1 .. L : u[k] - Zero \in 0 .. 9
  BY DEF Row, Zero
<1>3. R \in [0 .. L -> Int] /\ R[0] = n
  BY <1>1 DEF Remains
<1>4. \A k \in 1 .. L :
        R[k] = IF R[k - 1] > 0 /\ u[L + 1 - k] - Zero = R[k - 1] % 10
               THEN R[k - 1] \div 10 ELSE -1
  BY <1>1 DEF Remains
<1>5. /\ V \in [0 .. L -> Nat] /\ V[0] = 0
      /\ \A k \in 1 .. L : V[k] = 10 * V[k - 1] + (u[k] - Zero)
  BY ValuesIs
<1>6. Plain(u) => \A k \in 1 .. L : V[k] > 0
  BY ValuesGrow
<1>d. L = 0 <=> u = <<>>
  BY DEF Row
<1> HIDE DEF V, L
<1>7. ASSUME Plain(u), V[L] = n PROVE R[L] = 0
  <2> DEFINE T == {k \in 0 .. L : R[k] = V[L - k]}
  <2>1. 0 \in T
    BY <1>2, <1>3, <1>7
  <2>2. ASSUME NEW k \in 1 .. L, k - 1 \in T PROVE k \in T
    <3> DEFINE j == L + 1 - k
    <3>1. j \in 1 .. L /\ j - 1 \in 0 .. L /\ j - 1 = L - k /\ L - (k - 1) = j /\ k \in 0 .. L
      BY <1>2
    <3>2. R[k - 1] = V[j]
      BY <2>2, <3>1
    <3> DEFINE x == V[j - 1]
               d == u[j] - Zero
    <3>3. x \in Nat /\ d \in 0 .. 9 /\ R[k - 1] = 10 * x + d /\ R[k - 1] > 0
      BY <1>2, <1>5, <1>6, <1>7, <3>1, <3>2
    <3>4. R[k] = IF R[k - 1] > 0 /\ d = R[k - 1] % 10 THEN R[k - 1] \div 10 ELSE -1
      BY <1>4
    <3>5. V[L - k] = x
      BY <3>1
    <3> HIDE DEF x, d
    <3>6. R[k] = x
      BY <3>3, <3>4, DigitOf
    <3>. QED  BY <3>1, <3>5, <3>6
  <2> HIDE DEF T
  <2>3. \A k \in 0 .. L : k \in T
    BY <1>2, <2>1, <2>2, UpTo
  <2>4. R[L] = V[L - L] /\ L - L = 0
    BY <1>2, <2>3 DEF T
  <2>. QED  BY <1>5, <2>4
<1>8. ASSUME R[L] = 0, n > 0 PROVE Plain(u) /\ V[L] = n
  <2> DEFINE T == {k \in 0 .. L : R[L - k] = V[k]}
  <2>1. 0 \in T
    BY <1>2, <1>5, <1>8
  <2>2. ASSUME NEW k \in 1 .. L, k - 1 \in T PROVE k \in T /\ R[L - k] > 0
    <3> DEFINE j == L - (k - 1)
               x == V[k - 1]
               d == u[k] - Zero
               y == R[L - k]
    <3>1. /\ j \in 1 .. L /\ j - 1 = L - k /\ L + 1 - j = k /\ k \in 0 .. L /\ k - 1 \in 0 .. L
          /\ L - k \in 0 .. L
      BY <1>2
    <3>2. R[j] = x
      BY <2>2
    <3>3. x \in Nat /\ d \in 0 .. 9 /\ y \in Int /\ V[k] = 10 * x + d
      BY <1>2, <1>3, <1>5, <3>1
    <3>4. x = IF y > 0 /\ d = y % 10 THEN y \div 10 ELSE -1
      BY <1>4, <3>1, <3>2
    <3> HIDE DEF x, d, y
    <3>5. y > 0 /\ d = y % 10 /\ x = y \div 10
      BY <3>3, <3>4
    <3>6. y = 10 * x + d
      BY <3>3, <3>5, DigitOf
    <3>. QED  BY <3>1, <3>3, <3>5, <3>6, Zenon DEF y
  <2>a. \A k \in 1 .. L : k - 1 \in T => k \in T
    BY <2>2
  <2> HIDE DEF T
  <2>3. \A k \in 0 .. L : k \in T
    BY <1>2, <2>1, <2>a, UpTo
  <2>4. V[L] = n
    <3>1. L \in T /\ L - L = 0
      BY <1>2, <2>3
    <3>. QED  BY <1>3, <3>1 DEF T
  <2>5. L # 0
    BY <1>3, <1>8
  <2>6. 1 \in 1 .. L /\ 1 - 1 \in T /\ 1 \in T /\ 1 - 1 = 0
    BY <1>2, <2>3, <2>5
  <2>7. V[1] > 0
    BY <2>2, <2>6 DEF T
  <2>8. u[1] # Zero
    <3>1. V[1] = 10 * V[0] + (u[1] - Zero)
      BY <1>5, <2>6
    <3>. QED  BY <1>2, <1>5, <2>6, <2>7, <3>1 DEF Zero
  <2>9. u # <<>>
    BY <1>d, <2>5
  <2>. QED  BY <2>4, <2>8, <2>9 DEF Plain
<1>9. ASSUME n = 0, L # 0 PROVE R[L] # 0
  <2> DEFINE T == {k \in 0 .. L : k = 0 \/ R[k] = -1}
  <2>1. 0 \in T
    BY <1>2
  <2>2. ASSUME NEW k \in 1 .. L, k - 1 \in T PROVE k \in T
    <3>1. k \in 0 .. L /\ k - 1 \in 0 .. L /\ ~(R[k - 1] > 0)
      BY <1>2, <1>3, <1>9, <2>2
    <3>2. R[k] = -1
      BY <1>4, <3>1
    <3>. QED  BY <3>1, <3>2
  <2> HIDE DEF T
  <2>3. \A k \in 0 .. L : k \in T
    BY <1>2, <2>1, <2>2, UpTo
  <2>4. L \in T
    BY <1>2, <2>3
  <2>. QED  BY <1>9, <2>4 DEF T
<1>10. n = 0 /\ L = 0 => R[L] = 0
  BY <1>3
<1>11. n > 0 => (CheckDigits(n, u) <=> Plain(u) /\ V[L] = n)
  BY <1>1, <1>7, <1>8
<1>12. n = 0 => (CheckDigits(n, u) <=> u = <<>>)
  BY <1>1, <1>9, <1>10, <1>d
<1>. QED  BY <1>11, <1>12 DEF V, L

\* ... and never a line that starts with a minus sign.
LEMMA CheckMinus ==
  ASSUME NEW s \in Seq(Int), s # <<>>, s[1] = Minus, NEW n \in Nat
  PROVE  ~CheckDigits(n, s)
<1>1. PICK R : Remains(R, n, s) /\ (CheckDigits(n, s) <=> R[Len(s)] = 0)
  BY CheckIs
<1> DEFINE L == Len(s)
<1>2. L \in Nat /\ L # 0 /\ L \in 1 .. L /\ L - 1 \in 0 .. L /\ L + 1 - L = 1
  OBVIOUS
<1>3. R[L] = IF R[L - 1] > 0 /\ s[1] - Zero = R[L - 1] % 10 THEN R[L - 1] \div 10 ELSE -1
  BY <1>1, <1>2 DEF Remains
<1>4. R[L - 1] \in Int
  BY <1>1, <1>2, Zenon DEF Remains
<1>5. R[L - 1] % 10 # s[1] - Zero
  BY <1>4 DEF Minus, Zero
<1>. QED  BY <1>1, <1>3, <1>5

\* How an int wraps.
LEMMA WrapIs ==
  /\ MinInt \in Int /\ MaxInt \in Nat /\ MinInt = -MaxInt - 1
  /\ \A n \in Int : Wrap(n) \in Ints
  /\ \A n \in Ints : Wrap(n) = n
  /\ Wrap(-MinInt) = MinInt
<1> DEFINE P == 2 ^ (IntBits - 1)
           Q == 2 ^ IntBits
<1>1. P \in Nat \ {0} /\ Q = 2 * P
  BY PowerAssumption
<1>2. MinInt = -P /\ MaxInt = P - 1
  BY DEF MinInt, MaxInt
<1>3. \A n : Wrap(n) = ((n - MinInt) % Q) + MinInt
  BY DEF Wrap
<1> HIDE DEF P, Q
<1>4. Q \in Nat \ {0}
  BY <1>1
<1>5. ASSUME NEW x \in Int PROVE x % Q \in 0 .. Q - 1
  BY <1>4
<1>6. ASSUME NEW x \in 0 .. Q - 1 PROVE x % Q = x
  BY <1>4
<1>7. Q % Q = 0
  BY <1>4
<1>8. ASSUME NEW n \in Int PROVE Wrap(n) \in Ints
  <2>1. n - MinInt \in Int
    BY <1>1, <1>2
  <2>2. (n - MinInt) % Q \in 0 .. Q - 1
    BY <1>5, <2>1
  <2>. QED  BY <1>1, <1>2, <1>3, <2>2 DEF Ints
<1>9. ASSUME NEW n \in Ints PROVE Wrap(n) = n
  <2>1. n - MinInt \in 0 .. Q - 1 /\ n \in Int
    BY <1>1, <1>2 DEF Ints
  <2>2. (n - MinInt) % Q = n - MinInt
    BY <1>6, <2>1
  <2>. QED  BY <1>1, <1>2, <1>3, <2>1, <2>2
<1>10. Wrap(-MinInt) = MinInt
  <2>1. -MinInt - MinInt = Q
    BY <1>1, <1>2
  <2>. QED  BY <1>1, <1>2, <1>3, <1>7, <2>1
<1>. QED  BY <1>1, <1>2, <1>8, <1>9, <1>10

\* The value SysReadNum accumulates is an int, and the right one unless it
\* overflows.
LEMMA AccumulateIs ==
  ASSUME NEW u, Row(u)
  PROVE  /\ Accumulate(u) \in Ints
         /\ Values(u)[Len(u)] <= MaxInt => Accumulate(u) = Values(u)[Len(u)]
<1> DEFINE L == Len(u)
           V == Values(u)
           D(k, x) == Wrap(x * 10 + u[k] - Zero)
           G == [k \in 1 .. L |-> [x \in Int |-> D(k, x)]]
           F(f) == f = [k \in 0 .. L |-> IF k = 0 THEN 0 ELSE D(k, f[k - 1])]
<1>1. L \in Nat /\ \A k \in 1 .. L : u[k] - Zero \in 0 .. 9 /\ u[k] \in Int
  BY DEF Row, Zero
<1>v. /\ V \in [0 .. L -> Nat] /\ V[0] = 0
      /\ \A k \in 1 .. L : V[k] = 10 * V[k - 1] + (u[k] - Zero)
      /\ \A k \in 0 .. L : V[k] <= V[L]
  BY ValuesIs, ValuesGrow
<1>i. 0 \in Ints /\ Ints \subseteq Int
  BY WrapIs DEF Ints
<1>b. \A k \in 1 .. L : \A x \in Int : D(k, x) \in Ints
  <2> SUFFICES ASSUME NEW k \in 1 .. L, NEW x \in Int PROVE D(k, x) \in Ints
    OBVIOUS
  <2>1. x * 10 + u[k] - Zero \in Int
    BY <1>1 DEF Zero
  <2>. QED  BY <2>1, WrapIs
<1>2. G \in [1 .. L -> [Int -> Int]]
  BY <1>b, <1>i, Zenon
<1>a. \A k \in 1 .. L : \A x \in Int : G[k][x] = D(k, x)
  OBVIOUS
<1>c. ASSUME NEW k \in 1 .. L, V[k] <= MaxInt PROVE D(k, V[k - 1]) = V[k]
  <2>1. k \in 0 .. L /\ k - 1 \in 0 .. L
    BY <1>1
  <2>2. V[k - 1] \in Nat /\ V[k] \in Nat /\ u[k] \in Int
    BY <1>1, <1>v, <2>1, Zenon
  <2>3. V[k] = 10 * V[k - 1] + (u[k] - Zero)
    BY <1>v
  <2>4. V[k - 1] * 10 + u[k] - Zero = V[k]
    <3> DEFINE x == V[k - 1]
               c == u[k]
    <3>1. x \in Int /\ c \in Int /\ V[k] = 10 * x + (c - Zero)
      BY <2>2, <2>3
    <3> HIDE DEF x, c
    <3>2. x * 10 + c - Zero = V[k]
      BY <3>1 DEF Zero
    <3>. QED  BY <3>2 DEF x, c
  <2>5. V[k] \in Ints
    <3> DEFINE y == V[k]
    <3>1. y \in Nat /\ y <= MaxInt
      BY <1>c, <2>2
    <3>2. MinInt \in Int /\ MaxInt \in Nat /\ MinInt = -MaxInt - 1
      BY WrapIs
    <3> HIDE DEF y
    <3>3. y \in Ints
      BY <3>1, <3>2 DEF Ints
    <3>. QED  BY <3>3 DEF y
  <2>. QED  BY <2>4, <2>5, WrapIs
<1> HIDE DEF G, D, V
<1>3. PICK f \in [0 .. L -> Int] : f[0] = 0 /\ \A k \in 1 .. L : f[k] = G[k][f[k - 1]]
  <2>1. 0 \in Int
    OBVIOUS
  <2>2. \E f \in [0 .. L -> Int] : Follows(f, 0, G, L)
    BY <2>1, <1>1, <1>2, RecursionExists, Zenon
  <2>. QED  BY <2>2 DEF Follows
<1>4. ASSUME NEW k \in 1 .. L PROVE f[k] = D(k, f[k - 1])
  <2>1. k - 1 \in 0 .. L
    BY <1>1
  <2>2. f[k - 1] \in Int /\ f[k] = G[k][f[k - 1]]
    BY <2>1, <1>3
  <2>. QED  BY <2>2, <1>a
<1>5. F(f)
  <2>1. f = [k \in 0 .. L |-> f[k]]
    OBVIOUS
  <2>2. \A k \in 0 .. L : k # 0 => k \in 1 .. L
    BY <1>1
  <2>3. \A k \in 0 .. L : f[k] = IF k = 0 THEN 0 ELSE D(k, f[k - 1])
    BY <1>3, <1>4, <2>2
  <2>. QED  BY <2>1, <2>3
<1> DEFINE R == CHOOSE g : F(g)
<1>6. Accumulate(u) = R[L]
  BY DEF Accumulate, D
<1>7. F(R)
  BY <1>5
<1> HIDE DEF R
<1>8. R = [k \in 0 .. L |-> IF k = 0 THEN 0 ELSE D(k, R[k - 1])]
  BY <1>7
<1>9. R[0] = 0 /\ \A k \in 1 .. L : R[k] = D(k, R[k - 1])
  BY <1>1, <1>8
<1> DEFINE T == {k \in 0 .. L : R[k] \in Ints /\ (V[L] <= MaxInt => R[k] = V[k])}
<1>10. 0 \in T
  BY <1>1, <1>9, <1>i, <1>v
<1>11. ASSUME NEW k \in 1 .. L, k - 1 \in T PROVE k \in T
  <2>a. k \in 0 .. L /\ k - 1 \in 0 .. L /\ L \in 0 .. L
    BY <1>1
  <2>b. R[k - 1] \in Ints
    BY <1>11
  <2>1. k \in 0 .. L /\ k - 1 \in 0 .. L /\ R[k - 1] \in Int
    BY <2>a, <2>b, <1>i, Zenon
  <2>2. R[k] \in Ints
    BY <1>9, <1>b, <2>1
  <2>3. ASSUME V[L] <= MaxInt PROVE R[k] = V[k]
    <3>1. V[k] \in Nat /\ V[L] \in Nat /\ V[k] <= V[L]
      BY <1>v, <2>a, Zenon
    <3>a. MaxInt \in Nat
      BY WrapIs
    <3>2. V[k] <= MaxInt
      BY <2>3, <3>1, <3>a
    <3>3. R[k - 1] = V[k - 1]
      BY <1>11, <2>3
    <3>. QED  BY <1>9, <1>c, <3>2, <3>3
  <2>. QED  BY <2>1, <2>2, <2>3
<1> HIDE DEF T
<1>12. \A k \in 0 .. L : k \in T
  BY <1>1, <1>10, <1>11, UpTo, Zenon
<1>13. L \in T
  BY <1>1, <1>12
<1>. QED  BY <1>6, <1>13 DEF T, V

-----------------------------------------------------------------------------
(* Numerals                                                                 *)

\* A line and what follows its sign.
LEMMA UnsignedIs ==
  ASSUME NEW s \in Seq(Int)
  PROVE  /\ Unsigned(s) \in Seq(Int)
         /\ s # <<>> /\ s[1] = Minus =>
              /\ Unsigned(s) = Tail(s) /\ Tail(s) # s /\ Len(s) = Len(Tail(s)) + 1
              /\ \A k \in 2 .. Len(s) : s[k] = Tail(s)[k - 1]
         /\ ~(s # <<>> /\ s[1] = Minus) => Unsigned(s) = s
<1>1. CASE s # <<>> /\ s[1] = Minus
  <2>1. /\ Tail(s) \in Seq(Int) /\ Len(Tail(s)) = Len(s) - 1
        /\ \A i \in 1 .. Len(Tail(s)) : Tail(s)[i] = s[i + 1]
    BY <1>1, HeadTailAre
  <2>2. Tail(s) # s /\ Len(s) = Len(Tail(s)) + 1
    <3> DEFINE t == Tail(s)
    <3>1. Len(t) = Len(s) - 1 /\ Len(s) \in Nat
      BY <2>1
    <3> HIDE DEF t
    <3>2. t # s /\ Len(s) = Len(t) + 1
      BY <3>1
    <3>. QED  BY <3>2 DEF t
  <2>3. ASSUME NEW k \in 2 .. Len(s) PROVE s[k] = Tail(s)[k - 1]
    <3>1. k - 1 \in 1 .. Len(Tail(s)) /\ (k - 1) + 1 = k
      BY <2>1
    <3>2. Tail(s)[k - 1] = s[(k - 1) + 1]
      BY <2>1, <3>1
    <3>. QED  BY <3>1, <3>2
  <2>. QED  BY <1>1, <2>1, <2>2, <2>3, Zenon DEF Unsigned
<1>2. CASE ~(s # <<>> /\ s[1] = Minus)
  BY <1>2 DEF Unsigned
<1>. QED  BY <1>1, <1>2

\* A canonical numeral is "0", or a row without a leading zero after its sign.
LEMMA CanonicalIs ==
  ASSUME NEW s \in Seq(Int)
  PROVE  Canonical(s) <=> s = <<Zero>> \/ Plain(Unsigned(s))
<1> DEFINE u == Unsigned(s)
<1>1. u \in Seq(Int) /\ DOMAIN u = 1 .. Len(u)
  BY UnsignedIs
<1>2. s = <<Zero>> => u = s
  BY DEF Unsigned, Zero, Minus
<1>3. (\A k \in DOMAIN u : IsDigit(u[k])) <=> Row(u)
  BY <1>1, Zenon DEF Row, IsDigit
<1>4. Canonical(s) <=> u # <<>> /\ Row(u) /\ (u[1] = Zero => s = <<Zero>>)
  BY <1>3 DEF Canonical
<1>5. s = <<Zero>> => u # <<>> /\ Row(u)
  <2> SUFFICES ASSUME s = <<Zero>> PROVE s # <<>> /\ Row(s)
    BY <1>2
  <2>. QED  BY DEF Row, Zero
<1> HIDE DEF u
<1>6. Canonical(s) <=> s = <<Zero>> \/ Plain(u)
  BY <1>4, <1>5 DEF Plain
<1>. QED  BY <1>6 DEF u

\* "0" denotes 0.
LEMMA ZeroDenotes ==
  Row(<<Zero>>) /\ Denotes(<<Zero>>) = 0 /\ Unsigned(<<Zero>>) = <<Zero>>
<1> DEFINE z == <<Zero>>
<1>1. Row(z) /\ Len(z) = 1 /\ z[1] = Zero
  BY DEF Row, Zero
<1>2. Unsigned(z) = z
  BY <1>1 DEF Unsigned, Zero, Minus
<1> HIDE DEF z
<1>3. Values(z)[0] = 0 /\ Values(z)[1] = 10 * Values(z)[1 - 1] + (Zero - Zero)
  <2>1. 1 \in 1 .. Len(z)
    BY <1>1
  <2>. QED  BY <1>1, <2>1, ValuesIs
<1>4. Values(z)[1] = 0
  BY <1>3 DEF Zero
<1>. QED  BY <1>1, <1>2, <1>4, Zenon DEF Denotes, z

\* What the numeral of a row denotes, with and without a sign.
LEMMA DenotesIs ==
  ASSUME NEW s \in Seq(Int), Row(Unsigned(s))
  PROVE  /\ Values(Unsigned(s))[Len(Unsigned(s))] \in Nat
         /\ s # <<>> /\ s[1] = Minus => Denotes(s) = -Values(Unsigned(s))[Len(Unsigned(s))]
         /\ ~(s # <<>> /\ s[1] = Minus) => Denotes(s) = Values(s)[Len(s)]
<1>1. Values(Unsigned(s))[Len(Unsigned(s))] \in Nat
  <2>1. Len(Unsigned(s)) \in 0 .. Len(Unsigned(s))
    BY DEF Row
  <2>. QED  BY <2>1, ValuesIs
<1>. QED  BY <1>1, UnsignedIs DEF Denotes

\* Only MinNumeral is the numeral of INT_MIN.
LEMMA OnlyMinNumeral ==
  ASSUME NEW s \in Seq(Int), Canonical(s), Denotes(s) = MinInt
  PROVE  s = MinNumeral
<1>1. ASSUME NEW t \in Seq(Int), Canonical(t), Denotes(t) = MinInt
      PROVE  /\ t # <<>> /\ t[1] = Minus /\ Plain(Unsigned(t))
             /\ Values(Unsigned(t))[Len(Unsigned(t))] = -MinInt
  <2>1. MinInt \in Int /\ MinInt < 0
    BY WrapIs
  <2>2. t # <<Zero>>
    BY <1>1, <2>1, ZeroDenotes
  <2>3. Plain(Unsigned(t))
    BY <1>1, <2>2, CanonicalIs
  <2>4. Row(Unsigned(t))
    BY <2>3 DEF Plain
  <2>5. t # <<>> /\ t[1] = Minus
    <3> SUFFICES ASSUME ~(t # <<>> /\ t[1] = Minus) PROVE FALSE
      OBVIOUS
    <3>1. Unsigned(t) = t
      BY UnsignedIs
    <3>2. Values(t)[Len(t)] \in Nat /\ Denotes(t) = Values(t)[Len(t)]
      BY <2>4, <3>1, DenotesIs
    <3>. QED  BY <1>1, <2>1, <3>2
  <2> DEFINE v == Values(Unsigned(t))[Len(Unsigned(t))]
  <2>6. v \in Nat /\ MinInt = -v
    BY <1>1, <2>4, <2>5, DenotesIs
  <2> HIDE DEF v
  <2>7. v = -MinInt
    BY <2>1, <2>6
  <2>. QED  BY <2>3, <2>5, <2>7 DEF v
<1> DEFINE m == MinNumeral
<1>2. m \in Seq(Int) /\ Canonical(m) /\ Denotes(m) = MinInt
  BY NumeralAssumption
<1> HIDE DEF m
<1>3. Unsigned(s) = Unsigned(m)
  BY <1>1, <1>2, SameRow
<1>4. /\ s # <<>> /\ s[1] = Minus /\ m # <<>> /\ m[1] = Minus
  BY <1>1, <1>2
<1>5. Tail(s) = Tail(m) /\ Len(s) = Len(Tail(s)) + 1 /\ Len(m) = Len(Tail(m)) + 1
  BY <1>2, <1>3, <1>4, UnsignedIs, Zenon
<1>6. ASSUME NEW k \in 1 .. Len(s) PROVE s[k] = m[k]
  <2>1. CASE k = 1
    BY <1>4, <2>1
  <2>2. CASE k # 1
    <3>1. k \in 2 .. Len(s) /\ Len(m) = Len(s)
      BY <1>5, <2>2
    <3>2. s[k] = Tail(s)[k - 1] /\ m[k] = Tail(m)[k - 1]
      BY <1>2, <1>4, <3>1, UnsignedIs
    <3>. QED  BY <1>5, <3>2, Zenon
  <2>. QED  BY <2>1, <2>2
<1>7. Len(s) = Len(m)
  BY <1>5
<1>8. s = m
  BY <1>2, <1>6, <1>7, SameSequence
<1>. QED  BY <1>8 DEF m

\* ToInt returns the number typed exactly when the line is its one numeral and is
\* short enough, and 0 for every other line.
ReadExact(s) ==
  ToInt(s) = IF /\ Canonical(s) /\ Denotes(s) \in Ints
                /\ Len(s) < maxNumLen \/ Denotes(s) = MinInt
             THEN Denotes(s) ELSE 0

\* A short line that is not INT_MIN's numeral and holds digits after its sign.
LEMMA ReadDigits ==
  ASSUME NEW s \in Seq(Int), s # MinNumeral, Len(s) < maxNumLen, Row(Unsigned(s)),
         NEW nega \in BOOLEAN, nega <=> s # <<>> /\ s[1] = Minus,
         NEW num, num = IF nega THEN Wrap(-Accumulate(Unsigned(s)))
                        ELSE Accumulate(Unsigned(s))
  PROVE  (IF checkNumString(num, s) THEN num ELSE 0) =
           IF Canonical(s) /\ Denotes(s) \in Ints THEN Denotes(s) ELSE 0
<1> DEFINE u == Unsigned(s)
           v == Values(u)[Len(u)]
           A == Accumulate(u)
           d == Denotes(s)
<1>1. /\ MinInt \in Int /\ MaxInt \in Nat /\ MinInt = -MaxInt - 1
      /\ \A n \in Ints : Wrap(n) = n
      /\ Wrap(-MinInt) = MinInt
  BY WrapIs
<1>2. A \in Ints /\ (v <= MaxInt => A = v)
  BY AccumulateIs
<1>3. v \in Nat /\ (nega => d = -v) /\ (~nega => u = s /\ d = v)
  BY UnsignedIs, DenotesIs
<1>4. Canonical(s) <=> s = <<Zero>> \/ Plain(u)
  BY CanonicalIs
<1>5. s = <<Zero>> => ~nega /\ d = 0
  <2>1. s = <<Zero>> => ~nega
    BY DEF Zero, Minus
  <2>. QED  BY <2>1, ZeroDenotes
<1>6. Plain(u) => v > 0
  <2> SUFFICES ASSUME Plain(u) PROVE v > 0
    OBVIOUS
  <2>1. Len(u) \in 1 .. Len(u)
    BY DEF Plain, Row
  <2>. QED  BY <2>1, ValuesGrow
<1>7. Canonical(s) => d # MinInt
  BY OnlyMinNumeral
<1>8. \A n \in Nat : n > 0 => (CheckDigits(n, u) <=> Plain(u) /\ v = n)
  BY CheckExact
<1>9. CheckDigits(0, u) => u = <<>>
  <2>1. 0 \in Nat
    OBVIOUS
  <2>. QED  BY <2>1, CheckExact
<1>10. u = <<>> => v = 0
  <2> SUFFICES ASSUME u = <<>> PROVE v = 0
    OBVIOUS
  <2>1. Len(u) = 0
    OBVIOUS
  <2>. QED  BY <2>1, ValuesIs
<1>11. nega => u = Tail(s) /\ \A n \in Nat : ~CheckDigits(n, s)
  BY UnsignedIs, CheckMinus
<1>12. A \in Int /\ \A n : n \in Ints <=> n \in Int /\ MinInt <= n /\ n <= MaxInt
  BY <1>1, <1>2 DEF Ints
<1>n. num = IF nega THEN Wrap(-A) ELSE A
  OBVIOUS
<1> DEFINE chk == checkNumString(num, s)
<1>13. /\ num = 0 => (chk <=> s = <<Zero>>)
       /\ num # 0 /\ num > 0 => (chk <=> CheckDigits(num, s))
       /\ num # 0 /\ ~(num > 0) =>
            (chk <=> s[1] = Minus /\ CheckDigits(IF Wrap(-num) > 0 THEN -num ELSE 0, Tail(s)))
  BY DEF checkNumString
<1> HIDE DEF u, v, A, d, chk
<1>14. CASE ~nega
  <2>1. num = A /\ u = s /\ d = v
    BY <1>3, <1>14, <1>n
  <2>2. CASE num = 0
    <3>1. Canonical(s) /\ d \in Ints => d = 0
      BY <1>2, <1>3, <1>4, <1>5, <1>6, <1>12, <2>1, <2>2
    <3>. QED  BY <2>2, <3>1 DEF chk, d
  <2>3. CASE num > 0 /\ num # 0
    <3>1. num \in Nat
      BY <1>12, <2>1, <2>3
    <3>2. chk <=> Plain(u) /\ v = num
      BY <1>8, <1>13, <2>1, <2>3, <3>1
    <3>3. (IF chk THEN num ELSE 0) = IF Canonical(s) /\ d \in Ints THEN d ELSE 0
      <4>1. CASE chk
        BY <1>2, <1>4, <2>1, <3>2, <4>1
      <4>2. CASE ~chk /\ Canonical(s) /\ d \in Ints
        <5>1. A = v
          BY <1>1, <1>2, <1>12, <2>1, <4>2
        <5>2. s = <<Zero>>
          BY <1>4, <2>1, <3>2, <4>2, <5>1
        <5>. QED  BY <1>5, <2>1, <2>3, <5>1, <5>2
      <4>. QED  BY <4>1, <4>2
    <3>. QED  BY <3>3 DEF chk, d
  <2>4. CASE ~(num > 0) /\ num # 0
    <3>1. num < 0
      BY <1>12, <2>1, <2>4
    <3>2. d \notin Ints /\ u # <<>>
      BY <1>1, <1>2, <1>3, <1>10, <1>12, <2>1, <3>1
    <3>3. ~chk
      BY <1>13, <1>14, <2>1, <2>4, <3>2
    <3>. QED  BY <3>2, <3>3 DEF chk, d
  <2>. QED  BY <2>2, <2>3, <2>4
<1>15. CASE nega
  <2>1. d = -v /\ u = Tail(s) /\ s # <<Zero>> /\ s[1] = Minus
    BY <1>3, <1>5, <1>11, <1>15
  <2>2. Canonical(s) /\ d \in Ints => Plain(u) /\ v > 0 /\ A = v /\ v <= MaxInt
    <3> SUFFICES ASSUME Canonical(s), d \in Ints PROVE Plain(u) /\ v > 0 /\ A = v /\ v <= MaxInt
      OBVIOUS
    <3>1. Plain(u)
      BY <1>4, <2>1
    <3>2. d # MinInt /\ MinInt <= d
      BY <1>7, <1>12
    <3>3. v <= MaxInt
      BY <1>1, <1>3, <2>1, <3>2
    <3>. QED  BY <1>2, <1>6, <3>1, <3>3
  <2>3. CASE A = MinInt
    <3>1. num = MinInt /\ Wrap(-num) = MinInt /\ MinInt < 0
      BY <1>1, <1>15, <1>n, <2>3
    <3>2. u # <<>>
      BY <1>1, <1>2, <1>10, <2>3
    <3>3. num # 0 /\ ~(num > 0) /\ ~(Wrap(-num) > 0)
      BY <1>1, <3>1
    <3>4. ~chk
      BY <1>9, <1>13, <2>1, <3>2, <3>3
    <3>5. ~(Canonical(s) /\ d \in Ints)
      BY <1>1, <2>2, <2>3
    <3>. QED  BY <3>4, <3>5 DEF chk, d
  <2>4. CASE A # MinInt
    <3>1. -A \in Ints /\ num = -A /\ num \in Int
      <4>1. -A \in Ints
        BY <1>1, <1>2, <1>12, <2>4
      <4>2. Wrap(-A) = -A
        BY <1>1, <4>1
      <4>. QED  BY <1>12, <1>15, <1>n, <4>1, <4>2
    <3>2. CASE num = 0
      <4>1. ~(Canonical(s) /\ d \in Ints)
        BY <1>12, <2>2, <3>1, <3>2
      <4>. QED  BY <3>2, <4>1 DEF d
    <3>3. CASE num > 0
      <4>1. num \in Nat /\ num # 0
        BY <3>1, <3>3
      <4>2. ~chk
        BY <1>11, <1>13, <1>15, <3>3, <4>1
      <4>3. ~(Canonical(s) /\ d \in Ints)
        BY <1>12, <2>2, <3>1, <3>3
      <4>. QED  BY <4>2, <4>3 DEF chk, d
    <3>4. CASE num < 0
      <4>1. A \in Nat /\ A > 0 /\ -num = A
        BY <1>12, <3>1, <3>4
      <4>2. Wrap(-num) > 0
        BY <1>1, <1>2, <4>1
      <4>3. chk <=> CheckDigits(A, u)
        BY <1>13, <2>1, <3>1, <3>4, <4>1, <4>2
      <4>4. chk <=> Plain(u) /\ v = A
        BY <1>8, <4>1, <4>3
      <4>5. (IF chk THEN num ELSE 0) = IF Canonical(s) /\ d \in Ints THEN d ELSE 0
        <5>1. CASE chk
          BY <1>4, <2>1, <3>1, <4>4, <5>1
        <5>2. CASE ~chk
          BY <2>2, <4>4, <5>2
        <5>. QED  BY <5>1, <5>2
      <4>. QED  BY <4>5 DEF chk, d
    <3>. QED  BY <3>1, <3>2, <3>3, <3>4
  <2>. QED  BY <2>3, <2>4
<1>. QED  BY <1>14, <1>15

\* ToInt is exact for every line.
LEMMA ReadNumIs ==
  ASSUME NEW s \in Seq(Int)
  PROVE  ReadExact(s)
<1>1. CASE s = MinNumeral
  <2>1. MinInt \in Ints
    BY WrapIs DEF Ints
  <2>. QED  BY <1>1, <2>1, NumeralAssumption DEF ReadExact, ToInt
<1>2. CASE s # MinNumeral
  <2>1. Canonical(s) => Denotes(s) # MinInt
    BY <1>2, OnlyMinNumeral
  <2>2. CASE Len(s) >= maxNumLen
    <3>1. Len(s) \in Nat /\ maxNumLen \in Nat
      BY IntBitsAssumption
    <3>2. ~(Len(s) < maxNumLen)
      BY <2>2, <3>1
    <3>3. ToInt(s) = 0
      BY <1>2, <2>2 DEF ToInt
    <3>. QED  BY <2>1, <3>2, <3>3 DEF ReadExact
  <2>3. CASE ~(Len(s) >= maxNumLen)
    <3> DEFINE nega == s # <<>> /\ s[1] = Minus
               u == Unsigned(s)
               num == IF nega THEN Wrap(-Accumulate(u)) ELSE Accumulate(u)
    <3>1. Len(s) < maxNumLen
      BY <2>3, IntBitsAssumption
    <3>2. ToInt(s) = IF \E k \in DOMAIN u : ~IsDigit(u[k]) THEN 0
                     ELSE IF checkNumString(num, s) THEN num ELSE 0
      BY <1>2, <2>3 DEF ToInt, Unsigned
    <3>3. u \in Seq(Int) /\ ((\E k \in DOMAIN u : ~IsDigit(u[k])) <=> ~Row(u))
      <4>1. u \in Seq(Int) /\ DOMAIN u = 1 .. Len(u)
        BY UnsignedIs
      <4> HIDE DEF u
      <4>. QED  BY <4>1, Zenon DEF Row, IsDigit
    <3>4. nega \in BOOLEAN
      OBVIOUS
    <3>5. CASE Row(u)
      <4>1. (IF checkNumString(num, s) THEN num ELSE 0) =
               IF Canonical(s) /\ Denotes(s) \in Ints THEN Denotes(s) ELSE 0
        <5> HIDE DEF num
        <5>1. num = IF nega THEN Wrap(-Accumulate(u)) ELSE Accumulate(u)
          BY DEF num
        <5>. QED  BY <1>2, <3>1, <3>4, <3>5, <5>1, ReadDigits, Zenon
      <4>. QED  BY <3>1, <3>2, <3>3, <3>5, <4>1 DEF ReadExact
    <3>6. CASE ~Row(u)
      <4>1. ~Canonical(s)
        BY <3>3, <3>6 DEF Canonical
      <4>. QED  BY <3>2, <3>3, <3>6, <4>1 DEF ReadExact
    <3>. QED  BY <3>5, <3>6
  <2>. QED  BY <2>2, <2>3
<1>. QED  BY <1>1, <1>2

\* A digit more at the end of a row.
LEMMA AppendDigit ==
  ASSUME NEW u, Row(u), NEW d \in 0 .. 9, NEW w, w = Append(u, Zero + d)
  PROVE  /\ Row(w) /\ w # <<>>
         /\ Values(w)[Len(w)] = 10 * Values(u)[Len(u)] + d
         /\ Plain(u) \/ (u = <<>> /\ d # 0) => Plain(w)
<1> DEFINE L == Len(u)
           V == Values(u)
           W == Values(w)
<1>1. L \in Nat /\ u \in Seq(Int) /\ Zero + d \in Int /\ Zero + d \in Zero .. Zero + 9
  BY DEF Row, Zero
<1>2. w \in Seq(Int) /\ Len(w) = L + 1 /\ w[L + 1] = Zero + d /\ \A k \in 1 .. L : w[k] = u[k]
  BY <1>1
<1>3. Row(w) /\ w # <<>>
  <2>1. ASSUME NEW k \in 1 .. Len(w) PROVE w[k] \in Zero .. Zero + 9
    <3>1. k = L + 1 \/ k \in 1 .. L
      BY <1>1, <1>2
    <3>. QED  BY <1>1, <1>2, <3>1 DEF Row
  <2>. QED  BY <1>1, <1>2, <2>1 DEF Row
<1>4. /\ V \in [0 .. L -> Nat] /\ V[0] = 0
      /\ \A k \in 1 .. L : V[k] = 10 * V[k - 1] + (u[k] - Zero)
  BY ValuesIs
<1>5. /\ W[0] = 0 /\ \A k \in 1 .. L + 1 : W[k] = 10 * W[k - 1] + (w[k] - Zero)
  BY <1>2, <1>3, ValuesIs, Zenon
<1> HIDE DEF V, W, L
<1> DEFINE T == {k \in 0 .. L : W[k] = V[k]}
<1>6. 0 \in T
  BY <1>1, <1>4, <1>5
<1>7. ASSUME NEW k \in 1 .. L, k - 1 \in T PROVE k \in T
  <2>1. W[k - 1] = V[k - 1] /\ k \in 0 .. L /\ k \in 1 .. L + 1
    BY <1>1, <1>7
  <2>2. W[k] = 10 * V[k - 1] + (u[k] - Zero)
    BY <1>2, <1>5, <2>1
  <2>. QED  BY <1>4, <2>1, <2>2
<1> HIDE DEF T
<1>8. \A k \in 0 .. L : k \in T
  BY <1>1, <1>6, <1>7, UpTo, Zenon
<1>9. W[L] = V[L]
  BY <1>1, <1>8 DEF T
<1>10. W[L + 1] = 10 * V[L] + d
  <2>1. L + 1 \in 1 .. L + 1 /\ (L + 1) - 1 = L /\ (Zero + d) - Zero = d
    BY <1>1 DEF Zero
  <2>2. W[L + 1] = 10 * W[(L + 1) - 1] + (w[L + 1] - Zero)
    BY <1>5, <2>1, Zenon
  <2>. QED  BY <1>2, <1>9, <2>1, <2>2
<1>11. ASSUME Plain(u) \/ (u = <<>> /\ d # 0) PROVE Plain(w)
  <2>1. CASE Plain(u)
    <3>1. 1 \in 1 .. L /\ u[1] # Zero
      BY <1>1, <2>1 DEF Plain, L
    <3>2. w[1] = u[1]
      BY <1>2, <3>1
    <3>. QED  BY <1>3, <3>1, <3>2 DEF Plain
  <2>2. CASE u = <<>> /\ d # 0
    <3>1. L = 0
      BY <2>2 DEF L
    <3>2. w[1] = Zero + d
      BY <1>2, <3>1
    <3>3. w[1] # Zero
      BY <2>2, <3>2 DEF Zero
    <3>. QED  BY <1>3, <3>3 DEF Plain
  <2>. QED  BY <1>11, <2>1, <2>2
<1>12. W[Len(w)] = 10 * V[L] + d
  BY <1>2, <1>10
<1>. QED  BY <1>3, <1>11, <1>12 DEF V, W, L

LEMMA TenthOf ==
  ASSUME NEW n \in Nat
  PROVE  /\ n \div 10 \in Nat /\ n % 10 \in 0 .. 9 /\ n = 10 * (n \div 10) + (n % 10)
         /\ n > 0 => n \div 10 <= n - 1
OBVIOUS

\* The rows SysPrintNum builds.
Rows(f, m) ==
  f = [n \in 0 .. m |-> IF n = 0 THEN <<>> ELSE Append(f[n \div 10], Zero + (n % 10))]

\* There are such rows.
LEMMA RowsExist ==
  ASSUME NEW m \in Nat
  PROVE  \E f : Rows(f, m)
<1> DEFINE Z(x, n) == Append(x, Zero + (n % 10))
           T == {n \in 0 .. m : \E f : Rows(f, n)}
<1>a. \A f, n : Rows(f, n) <=>
        f = [k \in 0 .. n |-> IF k = 0 THEN <<>> ELSE Z(f[k \div 10], k)]
  BY DEF Rows
<1> HIDE DEF Z
<1>1. 0 \in T
  <2> DEFINE f == [k \in 0 .. 0 |-> <<>>]
  <2>1. f = [k \in 0 .. 0 |-> IF k = 0 THEN <<>> ELSE Z(f[k \div 10], k)]
    OBVIOUS
  <2> HIDE DEF f
  <2>2. Rows(f, 0)
    BY <1>a, <2>1, Zenon
  <2>. QED  BY <2>2
<1>2. ASSUME NEW n \in 1 .. m, n - 1 \in T PROVE n \in T
  <2>1. PICK f : Rows(f, n - 1)
    BY <1>2
  <2>2. f = [k \in 0 .. n - 1 |-> IF k = 0 THEN <<>> ELSE Z(f[k \div 10], k)]
    BY <1>a, <2>1
  <2> DEFINE h == [k \in 0 .. n |-> IF k = n THEN Z(f[n \div 10], n) ELSE f[k]]
  <2>3. \A k \in 0 .. n - 1 : f[k] = IF k = 0 THEN <<>> ELSE Z(f[k \div 10], k)
    BY <2>2
  <2>4. \A k \in 0 .. n - 1 : h[k] = f[k]
    OBVIOUS
  <2>5. h[n] = Z(f[n \div 10], n)
    OBVIOUS
  <2>6. ASSUME NEW k \in 0 .. n PROVE h[k] = IF k = 0 THEN <<>> ELSE Z(h[k \div 10], k)
    <3>1. k \in Nat /\ n \in Nat /\ n # 0
      OBVIOUS
    <3>2. CASE k = 0
      <4>1. 0 \in 0 .. n - 1
        OBVIOUS
      <4>. QED  BY <2>3, <2>4, <3>2, <4>1
    <3>3. CASE k # 0
      <4>1. k \div 10 \in 0 .. n - 1
        <5>1. k \div 10 \in Nat /\ k \div 10 <= k - 1
          BY <3>1, <3>3, TenthOf
        <5>. QED  BY <3>1, <5>1
      <4>2. h[k \div 10] = f[k \div 10]
        BY <2>4, <4>1
      <4>3. CASE k = n
        BY <2>5, <3>3, <4>2, <4>3
      <4>4. CASE k # n
        <5>1. k \in 0 .. n - 1
          BY <4>4
        <5>. QED  BY <2>3, <2>4, <3>3, <4>2, <5>1
      <4>. QED  BY <4>3, <4>4
    <3>. QED  BY <3>2, <3>3
  <2>7. h = [k \in 0 .. n |-> h[k]]
    OBVIOUS
  <2> HIDE DEF h
  <2>8. h = [k \in 0 .. n |-> IF k = 0 THEN <<>> ELSE Z(h[k \div 10], k)]
    BY <2>6, <2>7, Zenon
  <2>9. Rows(h, n)
    BY <1>a, <2>8
  <2>. QED  BY <2>9
<1> HIDE DEF T
<1>3. \A n \in 0 .. m : n \in T
  BY <1>1, <1>2, UpTo
<1>. QED  BY <1>3 DEF T

\* They are the rows of the numbers: no leading zero, and the right value.
LEMMA RowsAre ==
  ASSUME NEW m \in Nat, NEW f, Rows(f, m)
  PROVE  \A n \in 1 .. m : Plain(f[n]) /\ Values(f[n])[Len(f[n])] = n
<1> DEFINE Good(n) == /\ Row(f[n]) /\ Values(f[n])[Len(f[n])] = n
                      /\ n = 0 => f[n] = <<>>
                      /\ n # 0 => Plain(f[n])
           T == {n \in 0 .. m : \A k \in 0 .. n : Good(k)}
<1>1. \A n \in 0 .. m : f[n] = IF n = 0 THEN <<>> ELSE Append(f[n \div 10], Zero + (n % 10))
  BY Zenon DEF Rows
<1>2. Good(0)
  <2>1. f[0] = <<>>
    BY <1>1
  <2>2. Row(<<>>) /\ Len(<<>>) = 0
    BY DEF Row
  <2>3. Values(<<>>)[0] = 0
    BY <2>2, ValuesIs
  <2>. QED  BY <2>1, <2>2, <2>3
<1> HIDE DEF Good
<1>3. 0 \in T
  BY <1>2
<1>4. ASSUME NEW n \in 1 .. m, n - 1 \in T PROVE n \in T
  <2> DEFINE q == n \div 10
             d == n % 10
  <2>1. n \in Nat /\ q \in Nat /\ d \in 0 .. 9 /\ n = 10 * q + d /\ q <= n - 1
    BY TenthOf
  <2>2. f[n] = Append(f[q], Zero + d)
    <3>1. n \in 0 .. m /\ n # 0
      OBVIOUS
    <3>. QED  BY <1>1, <3>1, Zenon
  <2> HIDE DEF q, d
  <2>3. \A k \in 0 .. n - 1 : Good(k)
    BY <1>4
  <2>4. Good(q)
    BY <2>1, <2>3
  <2>5. q = 0 => d # 0
    BY <2>1
  <2>6. Plain(f[q]) \/ (f[q] = <<>> /\ d # 0)
    BY <2>4, <2>5 DEF Good
  <2>7. Row(f[q]) /\ Values(f[q])[Len(f[q])] = q
    BY <2>4 DEF Good
  <2>8. Row(f[n]) /\ Values(f[n])[Len(f[n])] = 10 * q + d /\ Plain(f[n])
    <3> DEFINE u == f[q]
               w == f[n]
    <3>1. /\ Row(u) /\ w = Append(u, Zero + d) /\ Values(u)[Len(u)] = q
          /\ Plain(u) \/ (u = <<>> /\ d # 0)
      BY <2>2, <2>6, <2>7
    <3> HIDE DEF u, w
    <3>2. Row(w) /\ Values(w)[Len(w)] = 10 * q + d /\ Plain(w)
      BY <2>1, <3>1, AppendDigit, Zenon
    <3>. QED  BY <3>2 DEF w
  <2>9. Good(n)
    BY <2>1, <2>8 DEF Good
  <2>10. \A k \in 0 .. n : k = n \/ k \in 0 .. n - 1
    BY <2>1
  <2>. QED  BY <2>3, <2>9, <2>10
<1> HIDE DEF T
<1>5. \A n \in 0 .. m : n \in T
  BY <1>3, <1>4, UpTo
<1>6. ASSUME NEW n \in 1 .. m PROVE Plain(f[n]) /\ Values(f[n])[Len(f[n])] = n
  <2>1. Good(n)
    BY <1>5 DEF T
  <2>. QED  BY <2>1 DEF Good
<1>. QED  BY <1>6

\* A row with a sign before it.
LEMMA SignedIs ==
  ASSUME NEW u, Plain(u)
  PROVE  /\ Canonical(u) /\ Denotes(u) = Values(u)[Len(u)]
         /\ Canonical(<<Minus>> \o u) /\ Denotes(<<Minus>> \o u) = -Values(u)[Len(u)]
<1> DEFINE t == <<Minus>> \o u
<1>1. u \in Seq(Int) /\ u # <<>> /\ Row(u) /\ u[1] # Minus
  <2>1. u[1] \in Zero .. Zero + 9
    BY DEF Plain, Row
  <2>. QED  BY <2>1 DEF Plain, Row, Zero, Minus
<1>2. Unsigned(u) = u
  BY <1>1, UnsignedIs
<1>3. Canonical(u) /\ Denotes(u) = Values(u)[Len(u)]
  BY <1>1, <1>2, CanonicalIs DEF Denotes
<1>4. t \in Seq(Int) /\ Len(t) = Len(u) + 1 /\ t[1] = Minus /\ \A k \in 1 .. Len(u) : t[k + 1] = u[k]
  BY <1>1 DEF Minus
<1> HIDE DEF t
<1>a. t # <<>>
  <2>1. Len(t) # 0
    BY <1>1, <1>4
  <2>. QED  BY <2>1
<1>5. t # <<>> /\ Tail(t) \in Seq(Int) /\ Unsigned(t) = Tail(t)
  BY <1>4, <1>a, UnsignedIs, Zenon
<1>6. Len(Tail(t)) = Len(u) /\ \A k \in 1 .. Len(Tail(t)) : Tail(t)[k] = t[k + 1]
  BY <1>1, <1>4, <1>5, HeadTailAre
<1>7. Tail(t) = u
  <2> DEFINE r == Tail(t)
  <2>1. r \in Seq(Int) /\ Len(r) = Len(u) /\ \A k \in 1 .. Len(r) : r[k] = u[k]
    BY <1>4, <1>5, <1>6, Zenon
  <2> HIDE DEF r
  <2>2. r = u
    BY <1>1, <2>1, SameSequence
  <2>. QED  BY <2>2 DEF r
<1>8. Unsigned(t) = u
  BY <1>5, <1>7
<1>9. Canonical(t)
  BY <1>4, <1>8, CanonicalIs
<1>10. Denotes(t) = -Values(u)[Len(u)]
  BY <1>1, <1>4, <1>5, <1>8, DenotesIs
<1>. QED  BY <1>3, <1>9, <1>10 DEF t

\* SysPrintNum prints the one numeral of its argument.
LEMMA PrintNumIs ==
  ASSUME NEW num \in Ints
  PROVE  Canonical(SysPrintNum(num)) /\ Denotes(SysPrintNum(num)) = num
<1>1. /\ MinInt \in Int /\ MaxInt \in Nat /\ MinInt = -MaxInt - 1
  BY WrapIs
<1> DEFINE f == CHOOSE f : Rows(f, MaxInt)
<1>2. SysPrintNum(num) =
        IF num = 0 THEN <<Zero>> ELSE IF num = MinInt THEN MinNumeral
        ELSE IF num < 0 THEN <<Minus>> \o f[-num] ELSE f[num]
  BY DEF SysPrintNum, Rows
<1>3. Rows(f, MaxInt)
  BY <1>1, RowsExist
<1> HIDE DEF f
<1>4. \A n \in 1 .. MaxInt : Plain(f[n]) /\ Values(f[n])[Len(f[n])] = n
  BY <1>1, <1>3, RowsAre
<1>5. CASE num = 0
  <2>1. <<Zero>> \in Seq(Int)
    BY DEF Zero
  <2>. QED  BY <1>2, <1>5, <2>1, ZeroDenotes, CanonicalIs, Zenon
<1>6. CASE num # 0 /\ num = MinInt
  BY <1>2, <1>6, NumeralAssumption
<1>7. CASE num # 0 /\ num # MinInt /\ num < 0
  <2>1. -num \in 1 .. MaxInt /\ -(-num) = num
    BY <1>1, <1>7 DEF Ints
  <2>2. Plain(f[-num]) /\ Values(f[-num])[Len(f[-num])] = -num
    BY <1>4, <2>1
  <2>3. Canonical(<<Minus>> \o f[-num]) /\ Denotes(<<Minus>> \o f[-num]) = -(-num)
    BY <2>2, SignedIs
  <2>. QED  BY <1>2, <1>7, <2>1, <2>3
<1>8. CASE num # 0 /\ ~(num < 0)
  <2>1. num \in 1 .. MaxInt /\ num # MinInt
    BY <1>1, <1>8 DEF Ints
  <2>2. Canonical(f[num]) /\ Denotes(f[num]) = num
    BY <1>4, <2>1, SignedIs
  <2>. QED  BY <1>2, <1>8, <2>1, <2>2
<1>. QED  BY <1>5, <1>6, <1>7, <1>8

-----------------------------------------------------------------------------
(* The system calls                                                         *)

\* What is left of a line at a NUL is a line.
LEMMA CStringIs ==
  ASSUME NEW s \in Seq(Int)
  PROVE  CString(s) \in Seq(Int)
<1> DEFINE nul == {k \in 1 .. Len(s) : s[k] = 0}
           n == IF nul = {} THEN Len(s) ELSE Min(nul) - 1
<1>1. n \in 0 .. Len(s)
  <2>1. CASE nul = {}
    BY <2>1
  <2>2. CASE nul # {}
    <3>1. nul \subseteq Nat
      OBVIOUS
    <3>2. PICK x \in nul : \A y \in nul : <<y, x>> \notin OpToRel(<, Nat)
      BY <2>2, <3>1, NatLessThanWellFounded, WFMin, Zenon
    <3>3. \A y \in nul : x \in Nat /\ y \in Nat /\ ~(y < x)
      BY <3>1, <3>2, Zenon DEF OpToRel
    <3>4. \A y \in nul : x <= y
      BY <3>3
    <3>5. Min(nul) \in nul
      BY <3>2, <3>4, Zenon DEF Min
    <3>6. Min(nul) \in 1 .. Len(s)
      BY <3>5
    <3>. QED  BY <2>2, <3>6
  <2>. QED  BY <2>1, <2>2
<1>2. CString(s) = SubSeq(s, 1, n)
  BY Zenon DEF CString
<1> HIDE DEF n
<1>. QED  BY <1>1, <1>2

\* The step ends the call nm.
Ends(nm) == \E given : call' = [name |-> nm, given |-> given]

LEMMA EndsBy ==
  /\ \A nm, given, r, out : Returns(nm, given, r, out) => Ends(nm)
  /\ \A nm, r : Return(nm, r) => Ends(nm)
  /\ \A nm, how : Stop(nm, how) => Ends(nm)
  /\ \A nm : Fail(nm) => Ends(nm)
BY Zenon DEF Returns, Return, Stop, Fail, Ends

LEMMA OtherCall ==
  ASSUME NEW nm, Ends(nm), nm # "ReadNum", nm # "PrintNum"
  PROVE  NumbersNotMisread'
<1>1. call'.name = nm
  BY DEF Ends
<1>. QED  BY <1>1 DEF NumbersNotMisread

\* Each call leaves its own name, and only ReadNum and PrintNum leave a number.
LEMMA NumbersStep == NumbersNotMisread /\ [Next]_vars => NumbersNotMisread'
<1> SUFFICES ASSUME NumbersNotMisread, [Next]_vars PROVE NumbersNotMisread'
  OBVIOUS
<1>1. CASE UNCHANGED vars
  BY <1>1 DEF vars, NumbersNotMisread
<1>2. CASE Halt
  BY <1>2 DEF Halt, NumbersNotMisread
<1>3. CASE ReadNum
  <2>1. PICK line \in Lines : Returns("ReadNum", line, SysReadNum(line), <<>>)
    BY <1>3 DEF ReadNum
  <2> DEFINE s == CString(line)
  <2>2. call'.name = "ReadNum" /\ call'.given = line /\ r2' = ToInt(s)
    BY <2>1 DEF Returns, SysReadNum
  <2>3. ReadExact(s)
    <3>1. s \in Seq(Int)
      BY SyscallAssumption, CStringIs
    <3>. QED  BY <3>1, ReadNumIs
  <2>4. "ReadNum" # "PrintNum"
    OBVIOUS
  <2>5. CString(call'.given) = s
    BY <2>2
  <2> HIDE DEF s
  <2>. QED  BY <2>2, <2>3, <2>4, <2>5, Zenon DEF NumbersNotMisread, ReadExact
<1>4. CASE PrintNum
  <2>1. PICK num \in Ints : Returns("PrintNum", <<num>>, r2, SysPrintNum(num))
    BY <1>4 DEF PrintNum
  <2>2. call'.name = "PrintNum" /\ call'.given[1] = num /\ printed' = SysPrintNum(num)
    BY <2>1 DEF Returns
  <2>3. Canonical(SysPrintNum(num)) /\ Denotes(SysPrintNum(num)) = num
    BY PrintNumIs
  <2>4. "ReadNum" # "PrintNum"
    OBVIOUS
  <2>. QED  BY <2>2, <2>3, <2>4, Zenon DEF NumbersNotMisread
<1>5. CASE \/ ThreadJoin \/ UnexpectedSyscall \/ WildTable \/ Add \/ RandomNum
           \/ ReadString \/ PrintString \/ ReadChar \/ PrintChar
  <2>1. \/ Ends("ThreadJoin") \/ Ends("Unexpected") \/ Ends("Wild") \/ Ends("Add")
        \/ Ends("RandomNum") \/ Ends("ReadString") \/ Ends("PrintString")
        \/ Ends("ReadChar") \/ Ends("PrintChar")
    BY <1>5, EndsBy, Zenon DEF ThreadJoin, UnexpectedSyscall, WildTable, Add, RandomNum,
       ReadString, PrintString, ReadChar, PrintChar
  <2>. QED  BY <2>1, OtherCall
<1>6. CASE \/ SC_Create \/ SC_Open \/ SC_Close \/ SC_Write \/ SC_Read \/ SC_Seek \/ SC_Remove
  <2>1. CASE SC_Create
    BY <2>1, EndsBy, OtherCall DEF SC_Create
  <2>2. CASE SC_Open
    BY <2>2, EndsBy, OtherCall DEF SC_Open
  <2>3. CASE SC_Close
    BY <2>3, EndsBy, OtherCall DEF SC_Close
  <2>4. CASE SC_Write
    <3>1. Ends("Write")
      BY <2>4, EndsBy, Zenon DEF SC_Write, Ends
    <3>. QED  BY <3>1, OtherCall
  <2>5. CASE SC_Read
    BY <2>5, EndsBy, OtherCall DEF SC_Read
  <2>6. CASE SC_Seek
    BY <2>6, EndsBy, OtherCall DEF SC_Seek
  <2>7. CASE SC_Remove
    BY <2>7, EndsBy, OtherCall DEF SC_Remove
  <2>. QED  BY <1>6, <2>1, <2>2, <2>3, <2>4, <2>5, <2>6, <2>7
<1>. QED  BY <1>1, <1>2, <1>3, <1>4, <1>5, <1>6 DEF Next

\* For ints of any width and for every line, SysReadNum (ksyscall.h:93-153) never
\* returns a number that was not typed, and reads INT_MIN and every int whose
\* numeral is shorter than _maxNumLen; SysPrintNum (ksyscall.h:155-185) prints the
\* one numeral of its argument.
THEOREM NumbersCorrect == Spec => []NumbersNotMisread
<1>1. SyscallInit => NumbersNotMisread
  <2>1. "none" # "ReadNum" /\ "none" # "PrintNum"
    OBVIOUS
  <2>. QED  BY <2>1 DEF SyscallInit, NumbersNotMisread
<1>. QED  BY <1>1, NumbersStep, PTL DEF Spec

=============================================================================
