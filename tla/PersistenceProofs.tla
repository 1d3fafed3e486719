--------------------------- MODULE PersistenceProofs ---------------------------
(***************************************************************************)
(* A start runs every record that was appended whole, once and in order,   *)
(* and so rebuilds the data: for every workload, every cut of the file     *)
(* into chunks, every place an append may stop at, and any number of       *)
(* crashes and starts.                                                     *)
(*                                                                         *)
(* The proof is in five parts.  The first is about bytes: numbers are read *)
(* as they are written, a bulk string is read where it stands, and so      *)
(* RecordRead: try_parse asks for more of every beginning of a record and  *)
(* gives the words of a whole one.  The second says where the records are  *)
(* in the file (FileLayout), hence what is next in a buffer that is the    *)
(* file from a record's beginning on (NextRecord).  The third is about a   *)
(* start: what it loads does not depend on the clock (LoadedIsFresh), and  *)
(* each record makes the same of the data again (LogHolds).  The fourth    *)
(* is the invariant, action by action.  The last is the loader: it reads a *)
(* snapshot that is written in the part of the format it knows - without   *)
(* auxiliary fields - in full (SnapshotRead), so a start loads what the    *)
(* snapshot holds.                                                         *)
(*                                                                         *)
(* What is said of the records holds until a server appends behind a torn  *)
(* one, which is what `spoiled' tells: from there on the file is not the   *)
(* records.  What is said of the loader does not need that.                *)
(***************************************************************************)
EXTENDS Persistence, KeyspaceProofs

Byte == 0..255

-----------------------------------------------------------------------------
(* Numbers, as digits and back.                                            *)

(* h[m] is the value of the first m digits of s.                           *)
Values(h, s) ==
  /\ h \in [0..Len(s) -> Int]
  /\ h[0] = 0
  /\ \A m \in 1..Len(s) : h[m] = 10 * h[m - 1] + s[m] - Zero

(* The fold that reads a number runs over its digits from the left: h are  *)
(* the values of the beginnings of s.                                      *)
LEMMA ValueSteps ==
  ASSUME NEW s \in Seq(Int)
  PROVE  \E h : Values(h, s) /\ ValueOf(s) = h[Len(s)]
<1> DEFINE n == Len(s)
           g == [i \in 1..n |-> [r \in Int |-> 10 * r + s[i] - Zero]]
           B(i, r) == 10 * r + s[i] - Zero
           F(it) == it = [u \in SUBSET DOMAIN s |->
                            IF u = {} THEN 0 ELSE B(Max(u), it[u \ {Max(u)}])]
           f == CHOOSE it : F(it)
<1>1. ValueOf(s) = f[DOMAIN s]
  BY DEF ValueOf, FoldLeft, MapThenFoldSet
<1>2. n \in Nat /\ DOMAIN s = 1..n /\ \A i \in 1..n : s[i] \in Int
  BY LenProperties, ElementOfSeq
<1>3. g \in [1..n -> [Int -> Int]] /\ 0 \in Int
  BY <1>2 DEF Zero
<1>4. /\ \A i \in 1..n : \A r \in Int : g[i][r] = 10 * r + s[i] - Zero
      /\ \A i \in 1..n : \A r \in Int : g[i][r] = B(i, r)
  OBVIOUS
<1> HIDE DEF g, n, B
<1>5. \E it : F(it)
  <2>1. PICK it : Folds(it, 0, g, Int, n)
    BY <1>2, <1>3, FoldExists
  <2>2. ASSUME NEW u \in SUBSET (1..n), u # {}
        PROVE  Max(u) \in 1..n /\ it[u \ {Max(u)}] \in Int
    <3>1. Max(u) \in u
      BY <1>2, <2>2, MaxIsMember
    <3> QED
      BY <2>1, <3>1 DEF Folds
  <2> DEFINE G(u) == IF u = {} THEN 0 ELSE B(Max(u), it[u \ {Max(u)}])
  <2>3. ASSUME NEW u \in SUBSET (1..n)
        PROVE  it[u] = G(u)
    <3>1. CASE u = {}
      BY <2>1, <3>1 DEF Folds
    <3>2. CASE u # {}
      <4>1. it[u] = g[Max(u)][it[u \ {Max(u)}]]
        BY <2>1, <3>2 DEF Folds
      <4> QED
        BY <1>4, <2>2, <3>2, <4>1
    <3> QED
      BY <3>1, <3>2
  <2>4. it = [u \in SUBSET DOMAIN s |-> it[u]]
    BY <1>2, <2>1 DEF Folds
  <2> HIDE DEF G
  <2>5. it = [u \in SUBSET DOMAIN s |-> G(u)]
    BY <1>2, <2>3, <2>4
  <2> QED
    BY <2>5 DEF G
<1>6. F(f)
  BY <1>5
<1> HIDE DEF f
<1>7. f[{}] = 0
  BY <1>6
<1>8. ASSUME NEW m \in 1..n, f[1..(m - 1)] \in Int
      PROVE  f[1..m] = g[m][f[1..(m - 1)]]
  <2>1. /\ 1..m \in SUBSET DOMAIN s /\ 1..m # {}
        /\ Max(1..m) = m /\ (1..m) \ {m} = 1..(m - 1)
    BY <1>2, PrefixSets
  <2>2. f[1..m] = B(m, f[1..(m - 1)])
    BY <1>6, <2>1
  <2> QED
    BY <1>4, <1>8, <2>2
<1>9. PICK h : Runs(h, f, 0, g, Int, n)
  <2>1. Extends(f, 0, g, Int, n)
    BY <1>7, <1>8 DEF Extends
  <2>2. n \in Nat /\ 0 \in Int
    BY <1>2
  <2>3. g \in [1..n -> [Int -> Int]]
    BY <1>3
  <2> QED
    BY <2>1, <2>2, <2>3, FoldRuns
<1> USE DEF Runs
<1>10. \A m \in 1..n : h[m] = 10 * h[m - 1] + s[m] - Zero
  <2>1. \A m \in 1..n : h[m - 1] \in Int
    BY <1>2, <1>9
  <2> QED
    BY <1>4, <1>9, <2>1
<1> QED
  BY <1>1, <1>2, <1>9, <1>10 DEF n, Values

(* No digit is nought.                                                     *)
LEMMA ValueOfEmpty == ValueOf(<<>>) = 0
<1>1. <<>> \in Seq(Int) /\ Len(<<>>) = 0
  BY EmptySeq
<1> QED
  BY <1>1, ValueSteps DEF Values

(* One more digit makes the number ten times as large, and adds the        *)
(* digit.                                                                  *)
LEMMA ValueOfAppend ==
  ASSUME NEW s \in Seq(Int), NEW b \in Int
  PROVE  ValueOf(Append(s, b)) = 10 * ValueOf(s) + b - Zero
<1> DEFINE a == Append(s, b)
           n == Len(s)
<1>1. /\ n \in Nat /\ a \in Seq(Int) /\ Len(a) = n + 1
      /\ \A i \in 1..n : a[i] = s[i]
      /\ a[n + 1] = b
  BY AppendProperties, LenProperties
<1>2. PICK h : Values(h, s) /\ ValueOf(s) = h[n]
  BY ValueSteps
<1> HIDE DEF a
<1>3. PICK g : Values(g, a) /\ ValueOf(a) = g[Len(a)]
  BY <1>1, ValueSteps
<1>4. /\ h[0] = 0 /\ g[0] = 0
      /\ \A m \in 1..n : h[m] = 10 * h[m - 1] + s[m] - Zero
      /\ \A m \in 1..(n + 1) : g[m] = 10 * g[m - 1] + a[m] - Zero
  BY <1>1, <1>2, <1>3 DEF Values
<1> DEFINE N == {m \in Nat : m <= n => g[m] = h[m]}
<1>5. N = Nat
  <2>1. 0 \in N
    BY <1>4
  <2>2. ASSUME NEW m \in N, m + 1 <= n
        PROVE  g[m + 1] = h[m + 1]
    <3>1. m + 1 \in 1..n /\ m + 1 \in 1..(n + 1) /\ (m + 1) - 1 = m /\ g[m] = h[m]
      BY <1>1, <2>2
    <3> HIDE DEF N, n
    <3> QED
      BY <1>1, <1>4, <3>1
  <2>3. \A m \in N : m + 1 \in N
    BY <2>2
  <2> N \in SUBSET Nat
    OBVIOUS
  <2> HIDE DEF N
  <2> QED
    BY <2>1, <2>3, Induction
<1>6. g[n] = h[n]
  BY <1>1, <1>5
<1>7. n + 1 \in 1..(n + 1) /\ (n + 1) - 1 = n
  BY <1>1
<1> HIDE DEF n, N
<1> QED
  BY <1>1, <1>2, <1>3, <1>4, <1>6, <1>7 DEF a

Digit == Zero..(Zero + 9)

(* What division by ten leaves.                                            *)
LEMMA DivideByTen ==
  ASSUME NEW n \in Nat
  PROVE  /\ n \div 10 \in Nat /\ n % 10 \in 0..9
         /\ n = 10 * (n \div 10) + (n % 10)
         /\ n >= 10 => n \div 10 < n
OBVIOUS

(* f has the digits of the numbers up to n.                                *)
Writes10(f, n) ==
  /\ f \in [0..n -> Seq(Digit)]
  /\ \A m \in 0..n : f[m] = IF m < 10 THEN <<Zero + m>>
                                      ELSE Append(f[m \div 10], Zero + (m % 10))

(* There is a function that writes the numbers up to n.                    *)
LEMMA DigitsExist ==
  ASSUME NEW n \in Nat
  PROVE  \E f : Writes10(f, n)
<1> DEFINE N == {m \in Nat : \E f : Writes10(f, m)}
<1>1. 0 \in N
  <2> DEFINE f == [m \in 0..0 |-> <<Zero + m>>]
  <2>1. \A m \in 0..0 : m < 10 /\ Zero + m \in Digit
    BY DEF Zero, Digit
  <2>2. f \in [0..0 -> Seq(Digit)]
    BY <2>1
  <2>3. \A m \in 0..0 : f[m] = <<Zero + m>>
    OBVIOUS
  <2> HIDE DEF f
  <2>4. Writes10(f, 0)
    BY <2>1, <2>2, <2>3 DEF Writes10
  <2> QED
    BY <2>4
<1>2. ASSUME NEW k \in N
      PROVE  k + 1 \in N
  <2>1. PICK f : Writes10(f, k)
    OBVIOUS
  <2> DEFINE e == IF k + 1 < 10 THEN <<Zero + (k + 1)>>
                                ELSE Append(f[(k + 1) \div 10], Zero + ((k + 1) % 10))
             g == [m \in 0..(k + 1) |-> IF m = k + 1 THEN e ELSE f[m]]
  <2>2. \A m \in 0..(k + 1) : m >= 10 => m \div 10 \in 0..k
    <3>1. ASSUME NEW m \in 0..(k + 1), m >= 10
          PROVE  m \div 10 \in 0..k
      BY <3>1, DivideByTen
    <3> QED
      BY <3>1
  <2>3. \A m \in 0..(k + 1) : Zero + (m % 10) \in Digit
    BY DivideByTen DEF Zero, Digit
  <2>4. e \in Seq(Digit)
    <3>1. CASE k + 1 < 10
      <4>1. Zero + (k + 1) \in Digit
        BY <3>1 DEF Zero, Digit
      <4> QED
        BY <3>1, <4>1
    <3>2. CASE k + 1 >= 10
      <4>1. f[(k + 1) \div 10] \in Seq(Digit)
        BY <2>1, <2>2, <3>2 DEF Writes10
      <4>2. Zero + ((k + 1) % 10) \in Digit
        BY <2>3
      <4> QED
        BY <3>2, <4>1, <4>2, AppendProperties
    <3> QED
      BY <3>1, <3>2
  <2> HIDE DEF e
  <2>5. g \in [0..(k + 1) -> Seq(Digit)]
    BY <2>1, <2>4 DEF Writes10
  <2>6. /\ g[k + 1] = e
        /\ \A m \in 0..k : g[m] = f[m]
    OBVIOUS
  <2> HIDE DEF g
  <2>7. ASSUME NEW m \in 0..(k + 1)
        PROVE  g[m] = IF m < 10 THEN <<Zero + m>>
                                ELSE Append(g[m \div 10], Zero + (m % 10))
    <3>1. m >= 10 => g[m \div 10] = f[m \div 10]
      BY <2>2, <2>6
    <3>2. CASE m = k + 1
      BY <2>6, <3>1, <3>2 DEF e
    <3>3. CASE m # k + 1
      <4>1. m \in 0..k
        BY <3>3
      <4>2. f[m] = IF m < 10 THEN <<Zero + m>>
                             ELSE Append(f[m \div 10], Zero + (m % 10))
        BY <2>1, <4>1, Zenon DEF Writes10
      <4> QED
        BY <2>6, <3>1, <4>1, <4>2
    <3> QED
      BY <3>2, <3>3
  <2>8. Writes10(g, k + 1)
    BY <2>5, <2>7 DEF Writes10
  <2> QED
    BY <2>8
<1>3. N = Nat
  <2> N \in SUBSET Nat
    OBVIOUS
  <2> HIDE DEF N
  <2> QED
    BY <1>1, <1>2, Induction
<1> QED
  BY <1>3

(* Two functions that write numbers agree on those that both write.        *)
LEMMA DigitsUnique ==
  ASSUME NEW n \in Nat, NEW f, Writes10(f, n), NEW l \in Nat, NEW g, Writes10(g, l)
  PROVE  \A m \in 0..n : m \in 0..l => f[m] = g[m]
<1> DEFINE N == {k \in Nat : \A m \in 0..k : m <= n /\ m <= l => f[m] = g[m]}
<1>0. /\ \A m \in 0..n : f[m] = IF m < 10 THEN <<Zero + m>>
                                      ELSE Append(f[m \div 10], Zero + (m % 10))
      /\ \A m \in 0..l : g[m] = IF m < 10 THEN <<Zero + m>>
                                      ELSE Append(g[m \div 10], Zero + (m % 10))
  BY Zenon DEF Writes10
<1>1. 0 \in N
  <2>1. 0 \in 0..n /\ 0 \in 0..l /\ \A m \in 0..0 : m = 0
    OBVIOUS
  <2>2. f[0] = <<Zero + 0>> /\ g[0] = <<Zero + 0>>
    <3>1. 0 < 10
      OBVIOUS
    <3> QED
      BY <1>0, <2>1, <3>1, Zenon
  <2> QED
    BY <2>1, <2>2
<1>2. ASSUME NEW k \in N, k + 1 <= n, k + 1 <= l
      PROVE  f[k + 1] = g[k + 1]
  <2>1. k + 1 \in 0..n /\ k + 1 \in 0..l
    BY <1>2
  <2>2. k + 1 >= 10 => f[(k + 1) \div 10] = g[(k + 1) \div 10]
    <3>1. SUFFICES ASSUME k + 1 >= 10
                   PROVE  f[(k + 1) \div 10] = g[(k + 1) \div 10]
      OBVIOUS
    <3>2. (k + 1) \div 10 \in 0..k
      BY <3>1, DivideByTen
    <3>3. (k + 1) \div 10 <= n /\ (k + 1) \div 10 <= l
      BY <1>2, <3>2
    <3> QED
      BY <3>2, <3>3
  <2>3. /\ f[k + 1] = IF k + 1 < 10 THEN <<Zero + (k + 1)>>
                       ELSE Append(f[(k + 1) \div 10], Zero + ((k + 1) % 10))
        /\ g[k + 1] = IF k + 1 < 10 THEN <<Zero + (k + 1)>>
                       ELSE Append(g[(k + 1) \div 10], Zero + ((k + 1) % 10))
    BY <1>0, <2>1, Zenon
  <2>4. k + 1 < 10 \/ k + 1 >= 10
    OBVIOUS
  <2> QED
    BY <2>2, <2>3, <2>4
<1>3. N = Nat
  <2>1. ASSUME NEW k \in N
        PROVE  k + 1 \in N
    <3>1. ASSUME NEW m \in 0..(k + 1), m <= n, m <= l
          PROVE  f[m] = g[m]
      <4>1. CASE m = k + 1
        BY <1>2, <3>1, <4>1
      <4>2. CASE m # k + 1
        <5>1. m \in 0..k
          BY <4>2
        <5> QED
          BY <3>1, <5>1
      <4> QED
        BY <4>1, <4>2
    <3> QED
      BY <3>1
  <2> N \in SUBSET Nat
    OBVIOUS
  <2> HIDE DEF N
  <2> QED
    BY <1>1, <2>1, Induction
<1>4. ASSUME NEW m \in 0..n, m \in 0..l
      PROVE  f[m] = g[m]
  <2>1. m \in N /\ m \in 0..m
    BY <1>3
  <2> QED
    BY <1>4, <2>1
<1> QED
  BY <1>4

(* The recursive function that writes numbers is defined for all of them.  *)
LEMMA DigitsDefined ==
  /\ Digits \in [Nat -> Seq(Digit)]
  /\ \A n \in Nat : Digits[n] = IF n < 10 THEN <<Zero + n>>
                                ELSE Append(Digits[n \div 10], Zero + (n % 10))
<1> DEFINE B(f, n) == IF n < 10 THEN <<Zero + n>>
                                ELSE Append(f[n \div 10], Zero + (n % 10))
           h(n) == CHOOSE f : Writes10(f, n)
           F(f) == f = [n \in Nat |-> B(f, n)]
           g == [n \in Nat |-> h(n)[n]]
<1>1. \A n \in Nat : Writes10(h(n), n)
  BY DigitsExist
<1> HIDE DEF h
<1>2. \A n \in Nat : h(n)[n] \in Seq(Digit) /\ h(n)[n] = B(h(n), n)
  <2>1. \A n \in Nat : n \in 0..n
    OBVIOUS
  <2> QED
    BY <1>1, <2>1 DEF Writes10
<1>3. ASSUME NEW n \in Nat
      PROVE  B(h(n), n) = B(g, n)
  <2>1. SUFFICES ASSUME n >= 10
                 PROVE  h(n)[n \div 10] = g[n \div 10]
    OBVIOUS
  <2> DEFINE q == n \div 10
  <2>2. q \in Nat /\ q \in 0..n /\ q \in 0..q
    BY <2>1, DivideByTen
  <2>3. Writes10(h(n), n) /\ Writes10(h(q), q)
    BY <1>1, <2>2
  <2> HIDE DEF q
  <2>4. h(n)[q] = h(q)[q]
    BY <2>2, <2>3, DigitsUnique
  <2> QED
    BY <2>2, <2>4 DEF q
<1>4. g \in [Nat -> Seq(Digit)] /\ \A n \in Nat : g[n] = B(g, n)
  BY <1>2, <1>3, Zenon
<1>5. F(g)
  <2>1. g = [n \in Nat |-> g[n]]
    OBVIOUS
  <2> HIDE DEF g
  <2> QED
    BY <1>4, <2>1
<1> HIDE DEF g
<1>6. F(Digits)
  BY <1>5 DEF Digits
<1>7. \A n \in Nat : Digits[n] = B(Digits, n)
  BY <1>6
<1>8. ASSUME NEW n \in Nat
      PROVE  Digits[n] = g[n]
  <2> DEFINE N == {k \in Nat : \A m \in 0..k : Digits[m] = g[m]}
  <2>1. 0 \in N
    BY <1>4, <1>7
  <2>2. ASSUME NEW k \in N
        PROVE  k + 1 \in N
    <3>1. Digits[k + 1] = g[k + 1]
      <4>1. Digits[k + 1] = B(Digits, k + 1) /\ g[k + 1] = B(g, k + 1)
        <5>1. k + 1 \in Nat
          OBVIOUS
        <5> HIDE DEF B
        <5> QED
          BY <1>4, <1>7, <5>1
      <4>2. k + 1 >= 10 => (k + 1) \div 10 \in 0..k
        BY DivideByTen
      <4>3. k + 1 >= 10 => Digits[(k + 1) \div 10] = g[(k + 1) \div 10]
        BY <4>2
      <4> QED
        BY <4>1, <4>3
    <3>2. \A m \in 0..(k + 1) : m = k + 1 \/ m \in 0..k
      OBVIOUS
    <3> QED
      BY <3>1, <3>2
  <2>3. N = Nat
    <3> N \in SUBSET Nat
      OBVIOUS
    <3> HIDE DEF N
    <3> QED
      BY <2>1, <2>2, Induction
  <2> QED
    BY <2>3
<1>9. Digits = [n \in Nat |-> Digits[n]]
  <2>1. Digits = [n \in Nat |-> B(Digits, n)]
    BY <1>6
  <2> HIDE DEF B
  <2> QED
    BY <2>1
<1>10. Digits \in [Nat -> Seq(Digit)]
  BY <1>4, <1>8, <1>9
<1> QED
  BY <1>7, <1>10

(* What is written in digits is read as the same number.                   *)
LEMMA DecimalReads ==
  ASSUME NEW n \in Nat
  PROVE  /\ Decimal(n) \in Seq(Digit) /\ Decimal(n) # <<>>
         /\ IsNumber(Decimal(n)) /\ NumberIn(Decimal(n)) = n
<1> DEFINE R(m) == Digits[m] # <<>> /\ ValueOf(Digits[m]) = m
           N == {k \in Nat : \A m \in 0..k : R(m)}
<1>1. ASSUME NEW m \in Nat, m < 10
      PROVE  R(m)
  <2>1. Digits[m] = Append(<<>>, Zero + m) /\ <<>> \in Seq(Int) /\ Zero + m \in Int
    <3>1. Digits[m] = <<Zero + m>>
      BY <1>1, DigitsDefined
    <3>2. <<Zero + m>> = Append(<<>>, Zero + m)
      OBVIOUS
    <3> QED
      BY <3>1, <3>2, EmptySeq DEF Zero
  <2>2. ValueOf(Digits[m]) = 10 * 0 + (Zero + m) - Zero
    BY <2>1, ValueOfAppend, ValueOfEmpty
  <2> QED
    BY <2>1, <2>2, AppendProperties DEF Zero
<1>2. ASSUME NEW m \in Nat, m >= 10, R(m \div 10)
      PROVE  R(m)
  <2> DEFINE q == m \div 10
             b == Zero + (m % 10)
  <2>1. q \in Nat /\ m = 10 * q + (m % 10) /\ b \in Int /\ m % 10 \in 0..9
    BY DivideByTen DEF Zero
  <2>2. Digits[m] = Append(Digits[q], b)
    <3>1. ~(m < 10)
      BY <1>2
    <3> QED
      BY <3>1, DigitsDefined, Zenon
  <2>3. Digits[q] \in Seq(Int)
    <3>1. Digits[q] \in Seq(Digit)
      BY <2>1, DigitsDefined
    <3>2. Digit \subseteq Int
      BY DEF Digit, Zero
    <3> QED
      BY <3>1, <3>2, SeqMonotonic
  <2>4. ValueOf(Digits[q]) = q
    BY <1>2
  <2> HIDE DEF q
  <2>5. b - Zero = m % 10
    BY <2>1 DEF Zero
  <2> HIDE DEF b
  <2>6. ValueOf(Append(Digits[q], b)) = 10 * q + b - Zero
    BY <2>1, <2>3, <2>4, ValueOfAppend
  <2>7. 10 * q + b - Zero = m
    BY <2>1, <2>5 DEF Zero
  <2> QED
    BY <2>1, <2>2, <2>3, <2>6, <2>7, AppendProperties
<1>3. N = Nat
  <2>1. 0 \in N
    BY <1>1
  <2>2. ASSUME NEW k \in N
        PROVE  k + 1 \in N
    <3>1. R(k + 1)
      <4>1. CASE k + 1 < 10
        BY <1>1, <4>1
      <4>2. CASE k + 1 >= 10
        <5>1. (k + 1) \div 10 \in 0..k
          BY <4>2, DivideByTen
        <5>2. R((k + 1) \div 10)
          BY <5>1
        <5> QED
          BY <1>2, <4>2, <5>2
      <4> QED
        BY <4>1, <4>2
    <3>2. \A m \in 0..(k + 1) : m = k + 1 \/ m \in 0..k
      OBVIOUS
    <3> HIDE DEF R
    <3> QED
      BY <3>1, <3>2
  <2> N \in SUBSET Nat
    OBVIOUS
  <2> HIDE DEF N
  <2> QED
    BY <2>1, <2>2, Induction
<1>4. R(n)
  <2>1. n \in N /\ n \in 0..n
    <3> HIDE DEF N
    <3> QED
      BY <1>3
  <2> HIDE DEF R
  <2> QED
    BY <2>1
<1>5. Decimal(n) = Digits[n] /\ Digits[n] \in Seq(Digit)
  BY DigitsDefined DEF Decimal
<1> DEFINE t == Digits[n]
<1>6. t \in Seq(Digit) /\ t # <<>> /\ ValueOf(t) = n
  BY <1>4, <1>5
<1> HIDE DEF t
<1>7. IsDigits(t) /\ Head(t) # Minus
  <2>1. /\ \A i \in DOMAIN t : t[i] \in Digit
        /\ Head(t) \in Digit
    BY <1>6, HeadTailProperties
  <2> QED
    BY <1>6, <2>1 DEF IsDigits, Digit, Minus, Zero
<1>8. IsNumber(t) /\ NumberIn(t) = n
  BY <1>6, <1>7 DEF IsNumber, NumberIn
<1> QED
  BY <1>5, <1>6, <1>8 DEF t

-----------------------------------------------------------------------------
(* Flattened sequences.                                                    *)

(* f[m] are the first m of s, one behind the other.                        *)
Flows(f, s, A) ==
  /\ f \in [0..Len(s) -> Seq(A)]
  /\ f[0] = <<>>
  /\ \A m \in 1..Len(s) : f[m] = f[m - 1] \o s[m]

(* A sequence of sequences flows into one, part by part.                   *)
LEMMA FlowExists ==
  ASSUME NEW A, NEW s \in Seq(Seq(A))
  PROVE  \E f : Flows(f, s, A)
<1> DEFINE P == {u \in Seq(Seq(A)) : \E f : Flows(f, u, A)}
<1>1. <<>> \in P
  <2> DEFINE f == [m \in 0..0 |-> <<>>]
  <2>1. <<>> \in Seq(Seq(A)) /\ <<>> \in Seq(A) /\ Len(<<>>) = 0
    BY EmptySeq
  <2>2. Flows(f, <<>>, A)
    BY <2>1 DEF Flows
  <2> QED
    BY <2>1, <2>2
<1>2. ASSUME NEW u \in P, NEW e \in Seq(A)
      PROVE  Append(u, e) \in P
  <2> DEFINE n == Len(u)
             a == Append(u, e)
  <2>1. PICK f : Flows(f, u, A)
    OBVIOUS
  <2>2. /\ n \in Nat /\ a \in Seq(Seq(A)) /\ Len(a) = n + 1
        /\ \A i \in 1..n : a[i] = u[i]
        /\ a[n + 1] = e
    BY AppendProperties, LenProperties
  <2>3. /\ f \in [0..n -> Seq(A)] /\ f[0] = <<>>
        /\ \A m \in 1..n : f[m] = f[m - 1] \o u[m]
    BY <2>1 DEF Flows
  <2> HIDE DEF n, a
  <2> DEFINE g == [m \in 0..(n + 1) |-> IF m = n + 1 THEN f[n] \o e ELSE f[m]]
  <2>4. g \in [0..(n + 1) -> Seq(A)]
    <3>1. f[n] \o e \in Seq(A)
      <4>1. f[n] \in Seq(A)
        BY <2>2, <2>3
      <4> QED
        BY <4>1, ConcatProperties
    <3>2. \A m \in 0..(n + 1) : m # n + 1 => f[m] \in Seq(A)
      BY <2>2, <2>3
    <3> QED
      BY <3>1, <3>2
  <2>5. /\ g[n + 1] = f[n] \o e
        /\ \A m \in 0..n : g[m] = f[m]
    BY <2>2
  <2> HIDE DEF g
  <2>6. ASSUME NEW m \in 1..(n + 1)
        PROVE  g[m] = g[m - 1] \o a[m]
    <3>1. m - 1 \in 0..n /\ (m = n + 1 \/ (m \in 1..n /\ m \in 0..n))
      BY <2>2
    <3>2. m = n + 1 => m - 1 = n
      BY <2>2
    <3> QED
      BY <2>2, <2>3, <2>5, <3>1, <3>2
  <2>7. g[0] = <<>>
    BY <2>2, <2>3, <2>5
  <2>8. Flows(g, a, A)
    BY <2>2, <2>4, <2>6, <2>7 DEF Flows
  <2> QED
    BY <2>2, <2>8 DEF a
<1>3. P = Seq(Seq(A))
  <2> P \in SUBSET Seq(Seq(A))
    OBVIOUS
  <2> HIDE DEF P
  <2> QED
    BY <1>1, <1>2, SeqInduction
<1> QED
  BY <1>3

(* FlattenSeq is that flow.                                                *)
LEMMA FlattenFlows ==
  ASSUME NEW A, NEW s \in Seq(Seq(A))
  PROVE  \E f : Flows(f, s, A) /\ FlattenSeq(s) = f[Len(s)]
<1> DEFINE n == Len(s)
<1>1. PICK f : Flows(f, s, A)
  BY FlowExists
<1>2. /\ n \in Nat /\ \A i \in 1..n : s[i] \in Seq(A)
      /\ f \in [0..n -> Seq(A)] /\ f[0] = <<>>
      /\ \A m \in 1..n : f[m] = f[m - 1] \o s[m]
  BY <1>1, LenProperties, ElementOfSeq DEF Flows
<1>3. CASE n = 0
  <2>1. s = <<>>
    BY <1>3, EmptySequence
  <2> QED
    BY <1>1, <1>2, <1>3, <2>1 DEF FlattenSeq
<1>4. CASE n # 0
  <2> DEFINE B(g, i) == IF i = 1 THEN s[i] ELSE g[i - 1] \o s[i]
             F(g) == g = [i \in 1..n |-> B(g, i)]
             h == [i \in 1..n |-> f[i]]
             c == CHOOSE g : F(g)
  <2>1. FlattenSeq(s) = c[n]
    BY <1>4 DEF FlattenSeq
  <2> HIDE DEF n
  <2>2. ASSUME NEW i \in 1..n
        PROVE  f[i] = B(h, i)
    <3>1. CASE i = 1
      <4>1. f[1] = <<>> \o s[1] /\ s[1] \in Seq(A)
        <5>1. 1 \in 1..n /\ 1 - 1 = 0
          BY <3>1
        <5> QED
          BY <1>2, <5>1
      <4> QED
        BY <3>1, <4>1, ConcatEmptySeq
    <3>2. CASE i # 1
      <4>1. i - 1 \in 1..n
        BY <1>2, <3>2
      <4>2. h[i - 1] = f[i - 1]
        BY <4>1
      <4> QED
        BY <1>2, <3>2, <4>2
    <3> QED
      BY <3>1, <3>2
  <2>3. F(h)
    <3>1. \A i \in 1..n : f[i] = B(h, i)
      BY <2>2
    <3> QED
      BY <3>1, Zenon
  <2> HIDE DEF h
  <2>4. F(c)
    BY <2>3
  <2> HIDE DEF c
  <2>5. \A i \in 1..n : c[i] = B(c, i)
    BY <2>4
  <2> DEFINE N == {m \in Nat : m \in 1..n => c[m] = f[m]}
  <2>6. ASSUME NEW m \in N, m + 1 \in 1..n
        PROVE  c[m + 1] = f[m + 1]
    <3>1. c[m + 1] = B(c, m + 1) /\ (m + 1) - 1 = m
      BY <2>5, <2>6
    <3>2. CASE m = 0
      <4>1. c[1] = s[1] /\ 1 \in 1..n /\ 1 - 1 = 0
        BY <2>6, <3>1, <3>2
      <4>2. f[1] = <<>> \o s[1] /\ s[1] \in Seq(A)
        BY <1>2, <4>1
      <4> QED
        BY <3>2, <4>1, <4>2, ConcatEmptySeq
    <3>3. CASE m # 0
      <4>1. m \in 1..n /\ m + 1 # 1
        BY <1>2, <2>6, <3>3
      <4>2. c[m] = f[m] /\ c[m + 1] = c[m] \o s[m + 1]
        BY <3>1, <4>1
      <4>3. f[m + 1] = f[m] \o s[m + 1]
        BY <1>2, <2>6, <3>1
      <4> QED
        BY <4>2, <4>3
    <3> QED
      BY <3>2, <3>3
  <2>7. N = Nat
    <3>1. 0 \in N
      OBVIOUS
    <3>2. \A m \in N : m + 1 \in N
      BY <2>6
    <3> N \in SUBSET Nat
      OBVIOUS
    <3> HIDE DEF N
    <3> QED
      BY <3>1, <3>2, Induction
  <2>8. n \in 1..n
    BY <1>2, <1>4
  <2>9. c[n] = f[n]
    BY <1>2, <2>7, <2>8
  <2> QED
    BY <1>1, <2>1, <2>9 DEF n
<1> QED
  BY <1>3, <1>4

(* Nothing flattened is nothing.                                           *)
LEMMA FlattenOfEmpty == FlattenSeq(<<>>) = <<>>
<1>1. Len(<<>>) = 0
  BY EmptySeq
<1> QED
  BY <1>1 DEF FlattenSeq

(* a begins with s.                                                        *)
BeginsAs(a, s) == Len(s) <= Len(a) /\ \A i \in 1..Len(s) : a[i] = s[i]

(* What they flow into begins alike.                                       *)
LEMMA FlowsSame ==
  ASSUME NEW A, NEW s \in Seq(Seq(A)), NEW a \in Seq(Seq(A)), BeginsAs(a, s),
         NEW f, Flows(f, s, A), NEW g, Flows(g, a, A)
  PROVE  g[Len(s)] = f[Len(s)]
<1> DEFINE n == Len(s)
           l == Len(a)
           N == {m \in Nat : m <= n => g[m] = f[m]}
<1>1. n \in Nat /\ l \in Nat /\ n <= l /\ \A i \in 1..n : a[i] = s[i]
  BY LenProperties DEF BeginsAs
<1>2. /\ g[0] = f[0]
      /\ \A m \in 1..n : f[m] = f[m - 1] \o s[m]
      /\ \A m \in 1..l : g[m] = g[m - 1] \o a[m]
  BY DEF Flows
<1> HIDE DEF n, l
<1>3. 0 \in N
  BY <1>2
<1>4. ASSUME NEW m \in N, m + 1 <= n
      PROVE  g[m + 1] = f[m + 1]
  <2>1. m + 1 \in 1..n /\ m + 1 \in 1..l /\ (m + 1) - 1 = m /\ g[m] = f[m]
    BY <1>1, <1>4
  <2> QED
    BY <1>1, <1>2, <2>1
<1>5. N = Nat
  <2>1. \A m \in N : m + 1 \in N
    BY <1>4
  <2> N \in SUBSET Nat
    OBVIOUS
  <2> HIDE DEF N
  <2> QED
    BY <1>3, <2>1, Induction
<1>6. n \in N
  BY <1>1, <1>5
<1>7. n <= n
  BY <1>1
<1> QED
  BY <1>6, <1>7 DEF n

(* A part appended stands behind the others.                               *)
LEMMA FlattenOfAppend ==
  ASSUME NEW A, NEW s \in Seq(Seq(A)), NEW e \in Seq(A)
  PROVE  /\ FlattenSeq(s) \in Seq(A)
         /\ FlattenSeq(Append(s, e)) = FlattenSeq(s) \o e
<1> DEFINE a == Append(s, e)
           n == Len(s)
<1>1. /\ n \in Nat /\ a \in Seq(Seq(A)) /\ Len(a) = n + 1
      /\ \A i \in 1..n : a[i] = s[i]
      /\ a[n + 1] = e
  BY AppendProperties, LenProperties
<1>2. PICK f : Flows(f, s, A) /\ FlattenSeq(s) = f[n]
  BY FlattenFlows
<1> HIDE DEF a
<1>3. PICK g : Flows(g, a, A) /\ FlattenSeq(a) = g[Len(a)]
  BY <1>1, FlattenFlows
<1>4. g[n] = f[n]
  <2>1. BeginsAs(a, s)
    BY <1>1 DEF BeginsAs
  <2> QED
    BY <1>1, <1>2, <1>3, <2>1, FlowsSame
<1>5. n + 1 \in 1..Len(a) /\ (n + 1) - 1 = n /\ n \in 0..n
  BY <1>1
<1>6. g[n + 1] = g[n] \o e
  BY <1>1, <1>3, <1>5 DEF Flows
<1>7. f[n] \in Seq(A)
  BY <1>2, <1>5 DEF Flows
<1> QED
  BY <1>1, <1>2, <1>3, <1>4, <1>6, <1>7 DEF a

-----------------------------------------------------------------------------
(* Where the parts of a record stand.                                      *)

(* t stands in r from p on.                                                *)
At(r, p, t) ==
  /\ p + Len(t) <= Len(r) + 1
  /\ \A i \in 1..Len(t) : r[p + i - 1] = t[i]

(* What stands in r stands at the same place in a longer one.              *)
LEMMA AtGrows ==
  ASSUME NEW A, NEW r \in Seq(A), NEW x \in Seq(A), NEW t \in Seq(A),
         NEW p \in Nat \ {0}, At(r, p, t)
  PROVE  At(r \o x, p, t)
<1>1. /\ Len(r \o x) = Len(r) + Len(x)
      /\ \A j \in 1..Len(r) : (r \o x)[j] = r[j]
      /\ Len(r) \in Nat /\ Len(x) \in Nat /\ Len(t) \in Nat
  <2>1. Len(r) \in Nat /\ Len(x) \in Nat /\ Len(t) \in Nat
    BY LenProperties
  <2>2. /\ Len(r \o x) = Len(r) + Len(x)
        /\ \A i \in 1..(Len(r) + Len(x)) :
             (r \o x)[i] = IF i <= Len(r) THEN r[i] ELSE x[i - Len(r)]
    BY ConcatProperties
  <2> QED
    BY <2>1, <2>2
<1>2. \A i \in 1..Len(t) : p + i - 1 \in 1..Len(r) /\ r[p + i - 1] = t[i]
  BY <1>1 DEF At
<1> QED
  BY <1>1, <1>2 DEF At

(* Bytes put in front move it.                                             *)
LEMMA AtShift ==
  ASSUME NEW A, NEW r \in Seq(A), NEW x \in Seq(A), NEW t \in Seq(A),
         NEW p \in Nat \ {0}, At(r, p, t)
  PROVE  At(x \o r, Len(x) + p, t)
<1>1. Len(r) \in Nat /\ Len(x) \in Nat /\ Len(t) \in Nat
  BY LenProperties
<1>2. /\ Len(x \o r) = Len(x) + Len(r)
      /\ \A i \in 1..(Len(x) + Len(r)) :
           (x \o r)[i] = IF i <= Len(x) THEN x[i] ELSE r[i - Len(x)]
  BY ConcatProperties
<1>3. \A i \in 1..Len(t) : p + i - 1 \in 1..Len(r) /\ r[p + i - 1] = t[i]
  BY <1>1 DEF At
<1>4. ASSUME NEW i \in 1..Len(t)
      PROVE  (x \o r)[Len(x) + p + i - 1] = t[i]
  <2> DEFINE j == Len(x) + p + i - 1
  <2>1. j \in 1..(Len(x) + Len(r)) /\ ~(j <= Len(x)) /\ j - Len(x) = p + i - 1
    BY <1>1, <1>3
  <2> HIDE DEF j
  <2>2. (x \o r)[j] = r[j - Len(x)]
    BY <1>2, <2>1
  <2> QED
    BY <1>3, <2>1, <2>2 DEF j
<1>5. Len(x) + p + Len(t) <= Len(x \o r) + 1
  BY <1>1, <1>2 DEF At
<1> QED
  BY <1>4, <1>5 DEF At

(* A sequence stands at its own beginning.                                 *)
LEMMA AtSelf ==
  ASSUME NEW A, NEW t \in Seq(A)
  PROVE  At(t, 1, t)
<1>1. Len(t) \in Nat
  BY LenProperties
<1>2. \A i \in 1..Len(t) : 1 + i - 1 = i
  BY <1>1
<1> QED
  BY <1>1, <1>2 DEF At

(* What is appended stands behind what was there.                          *)
LEMMA AtEnd ==
  ASSUME NEW A, NEW x \in Seq(A), NEW t \in Seq(A)
  PROVE  At(x \o t, Len(x) + 1, t)
<1>1. 1 \in Nat \ {0}
  OBVIOUS
<1> QED
  BY <1>1, AtSelf, AtShift

(* Where two stand, the first does, and the second behind it.              *)
LEMMA AtParts ==
  ASSUME NEW A, NEW r \in Seq(A), NEW s \in Seq(A), NEW t \in Seq(A),
         NEW p \in Nat, At(r, p, s \o t)
  PROVE  At(r, p, s) /\ At(r, p + Len(s), t)
<1>1. Len(r) \in Nat /\ Len(s) \in Nat /\ Len(t) \in Nat
  BY LenProperties
<1>2. /\ Len(s \o t) = Len(s) + Len(t)
      /\ \A i \in 1..(Len(s) + Len(t)) :
           (s \o t)[i] = IF i <= Len(s) THEN s[i] ELSE t[i - Len(s)]
  BY ConcatProperties
<1>3. /\ p + (Len(s) + Len(t)) <= Len(r) + 1
      /\ \A i \in 1..(Len(s) + Len(t)) : r[p + i - 1] = (s \o t)[i]
  BY <1>2 DEF At
<1>4. At(r, p, s)
  <2>1. \A i \in 1..Len(s) : i \in 1..(Len(s) + Len(t)) /\ i <= Len(s)
    BY <1>1
  <2>2. p + Len(s) <= Len(r) + 1
    BY <1>1, <1>3
  <2>3. \A i \in 1..Len(s) : r[p + i - 1] = s[i]
    BY <1>2, <1>3, <2>1
  <2> QED
    BY <2>2, <2>3 DEF At
<1>5. At(r, p + Len(s), t)
  <2>1. p + Len(s) + Len(t) <= Len(r) + 1
    BY <1>1, <1>3
  <2>2. ASSUME NEW i \in 1..Len(t)
        PROVE  r[p + Len(s) + i - 1] = t[i]
    <3> DEFINE j == Len(s) + i
    <3>1. /\ j \in 1..(Len(s) + Len(t)) /\ ~(j <= Len(s)) /\ j - Len(s) = i
          /\ p + j - 1 = p + Len(s) + i - 1
      BY <1>1
    <3> HIDE DEF j
    <3> QED
      BY <1>2, <1>3, <3>1
  <2> QED
    BY <2>1, <2>2 DEF At
<1> QED
  BY <1>4, <1>5

(* The m-th of the flattened stands behind the first m - 1 of them.        *)
LEMMA FlowsAt ==
  ASSUME NEW A, NEW s \in Seq(Seq(A)), NEW f, Flows(f, s, A), NEW i \in 1..Len(s)
  PROVE  At(f[Len(s)], Len(f[i - 1]) + 1, s[i])
<1> DEFINE n == Len(s)
           p == Len(f[i - 1]) + 1
           N == {m \in Nat : m \in i..n => At(f[m], p, s[i])}
<1>1. /\ n \in Nat /\ i \in 1..n /\ \A m \in 1..n : s[m] \in Seq(A)
      /\ \A m \in 0..n : f[m] \in Seq(A)
      /\ \A m \in 1..n : f[m] = f[m - 1] \o s[m]
  BY LenProperties, ElementOfSeq DEF Flows
<1>2. p \in Nat \ {0} /\ s[i] \in Seq(A)
  <2>1. f[i - 1] \in Seq(A)
    BY <1>1
  <2> QED
    BY <1>1, <2>1, LenProperties
<1> HIDE DEF n
<1>3. ASSUME NEW m \in N, m + 1 \in i..n
      PROVE  At(f[m + 1], p, s[i])
  <2>1. m + 1 \in 1..n /\ (m + 1) - 1 = m /\ m \in 0..n
    BY <1>1, <1>3
  <2>2. f[m + 1] = f[m] \o s[m + 1] /\ f[m] \in Seq(A) /\ s[m + 1] \in Seq(A)
    BY <1>1, <2>1
  <2>3. CASE m + 1 = i
    <3>1. p = Len(f[m]) + 1
      BY <2>1, <2>3
    <3>2. At(f[m] \o s[m + 1], Len(f[m]) + 1, s[m + 1])
      BY <2>2, AtEnd
    <3> QED
      BY <2>2, <2>3, <3>1, <3>2
  <2>4. CASE m + 1 # i
    <3>1. At(f[m], p, s[i])
      <4>1. m \in i..n
        BY <1>1, <1>3, <2>1, <2>4
      <4> HIDE DEF p
      <4> QED
        BY <4>1
    <3> HIDE DEF p
    <3> QED
      BY <1>2, <2>2, <3>1, AtGrows
  <2> QED
    BY <2>3, <2>4
<1>4. N = Nat
  <2>1. 0 \in N
    BY <1>1
  <2>2. \A m \in N : m + 1 \in N
    BY <1>3
  <2> N \in SUBSET Nat
    OBVIOUS
  <2> HIDE DEF N
  <2> QED
    BY <2>1, <2>2, Induction
<1>5. n \in N /\ n \in i..n
  <2> HIDE DEF N
  <2> QED
    BY <1>1, <1>4
<1> HIDE DEF p
<1> QED
  BY <1>5 DEF n, p

(* A bulk string, and the line that says how many there are.               *)
Piece(w) == <<Dollar>> \o Decimal(Len(w)) \o CrLf \o w \o CrLf

(* The line end is the bytes 13 and 10.                                    *)
LEMMA CrLfType ==
  CrLf \in Seq(Byte) /\ Len(CrLf) = 2 /\ CrLf[1] = 13 /\ CrLf[2] = 10
<1>1. 13 \in Byte /\ 10 \in Byte
  BY DEF Byte
<1>2. CrLf \in Seq(Byte)
  BY <1>1 DEF CrLf
<1> QED
  BY <1>2 DEF CrLf

(* A number is written in bytes.                                           *)
LEMMA DecimalType == ASSUME NEW n \in Nat PROVE Decimal(n) \in Seq(Byte)
<1>1. Digit \subseteq Byte
  BY DEF Digit, Byte, Zero
<1> QED
  BY <1>1, DecimalReads, SeqMonotonic

(* A line of a mark and a number.                                          *)
LineOf(mark, n) == <<mark>> \o Decimal(n) \o CrLf

LineAt(r, p, mark, n) ==
  /\ r[p] = mark
  /\ At(r, p + 1, Decimal(n))
  /\ r[p + 1 + Len(Decimal(n))] = 13
  /\ r[p + 2 + Len(Decimal(n))] = 10

(* A line is the mark, the digits and the line end.                        *)
LEMMA LineType ==
  ASSUME NEW mark \in Byte, NEW n \in Nat
  PROVE  LineOf(mark, n) \in Seq(Byte) /\ Len(LineOf(mark, n)) = Len(Decimal(n)) + 3
<1>1. <<mark>> \in Seq(Byte) /\ Len(<<mark>>) = 1
  OBVIOUS
<1>2. Decimal(n) \in Seq(Byte)
  BY DecimalType
<1>3. /\ <<mark>> \o Decimal(n) \in Seq(Byte)
      /\ Len(<<mark>> \o Decimal(n)) = 1 + Len(Decimal(n))
  BY <1>1, <1>2, ConcatProperties
<1>4. /\ <<mark>> \o Decimal(n) \o CrLf \in Seq(Byte)
      /\ Len(<<mark>> \o Decimal(n) \o CrLf) = Len(<<mark>> \o Decimal(n)) + 2
  <2> DEFINE x == <<mark>> \o Decimal(n)
  <2>1. x \in Seq(Byte)
    BY <1>3
  <2> HIDE DEF x
  <2>2. x \o CrLf \in Seq(Byte) /\ Len(x \o CrLf) = Len(x) + Len(CrLf)
    BY <2>1, CrLfType, ConcatProperties
  <2> QED
    BY <2>2, CrLfType DEF x
<1>5. Len(Decimal(n)) \in Nat
  BY <1>2, LenProperties
<1> QED
  BY <1>3, <1>4, <1>5 DEF LineOf

(* The parts of a line, where it stands.                                   *)
LEMMA LineStands ==
  ASSUME NEW mark \in Byte, NEW n \in Nat, NEW r \in Seq(Byte), NEW p \in Nat,
         At(r, p, LineOf(mark, n))
  PROVE  LineAt(r, p, mark, n)
<1> DEFINE d == Decimal(n)
           m == <<mark>>
<1>1. m \in Seq(Byte) /\ Len(m) = 1 /\ m[1] = mark
  OBVIOUS
<1>2. d \in Seq(Byte) /\ Len(d) \in Nat
  BY DecimalType, LenProperties
<1>3. m \o d \in Seq(Byte) /\ Len(m \o d) = 1 + Len(d)
  BY <1>1, <1>2, ConcatProperties
<1>4. At(r, p, (m \o d) \o CrLf)
  BY DEF LineOf
<1> HIDE DEF m, d
<1>5. At(r, p, m \o d) /\ At(r, p + Len(m \o d), CrLf)
  BY <1>3, <1>4, CrLfType, AtParts
<1>6. At(r, p, m) /\ At(r, p + Len(m), d)
  BY <1>1, <1>2, <1>5, AtParts
<1>7. r[p] = mark
  <2>1. 1 \in 1..Len(m) /\ p + 1 - 1 = p
    BY <1>1
  <2> QED
    BY <1>1, <1>6, <2>1 DEF At
<1>8. r[p + 1 + Len(d)] = 13 /\ r[p + 2 + Len(d)] = 10
  <2> DEFINE q == p + Len(m \o d)
  <2>1. 1 \in 1..Len(CrLf) /\ 2 \in 1..Len(CrLf)
    BY CrLfType
  <2>2. q + 1 - 1 = p + 1 + Len(d) /\ q + 2 - 1 = p + 2 + Len(d)
    BY <1>2, <1>3
  <2>3. r[q + 1 - 1] = CrLf[1] /\ r[q + 2 - 1] = CrLf[2]
    BY <1>5, <2>1 DEF At
  <2> HIDE DEF q
  <2> QED
    BY <2>2, <2>3, CrLfType
<1> QED
  BY <1>1, <1>6, <1>7, <1>8 DEF LineAt, m, d

(* The bulk string w at p, to which q is the place behind.                 *)
PieceAt(r, p, w, q) ==
  /\ LineAt(r, p, Dollar, Len(w))
  /\ At(r, p + 3 + Len(Decimal(Len(w))), w)
  /\ q = p + 5 + Len(Decimal(Len(w))) + Len(w)
  /\ q <= Len(r) + 1

(* A bulk string is its length's line, its bytes and a line end.           *)
LEMMA PieceType ==
  ASSUME NEW w \in Seq(Byte)
  PROVE  /\ Piece(w) \in Seq(Byte)
         /\ Len(Piece(w)) = Len(Decimal(Len(w))) + Len(w) + 5
         /\ Piece(w) = LineOf(Dollar, Len(w)) \o w \o CrLf
<1> DEFINE h == LineOf(Dollar, Len(w))
<1>1. Len(w) \in Nat /\ Dollar \in Byte
  BY LenProperties DEF Dollar, Byte
<1>2. h \in Seq(Byte) /\ Len(h) = Len(Decimal(Len(w))) + 3
  BY <1>1, LineType
<1>3. Piece(w) = h \o w \o CrLf
  BY DEF Piece, LineOf
<1> HIDE DEF h
<1>4. h \o w \in Seq(Byte) /\ Len(h \o w) = Len(h) + Len(w)
  BY <1>2, ConcatProperties
<1>5. h \o w \o CrLf \in Seq(Byte) /\ Len(h \o w \o CrLf) = Len(h \o w) + 2
  <2> DEFINE x == h \o w
  <2>1. x \in Seq(Byte)
    BY <1>4
  <2> HIDE DEF x
  <2>2. x \o CrLf \in Seq(Byte) /\ Len(x \o CrLf) = Len(x) + Len(CrLf)
    BY <2>1, CrLfType, ConcatProperties
  <2> QED
    BY <2>2, CrLfType DEF x
<1>6. Len(Decimal(Len(w))) \in Nat
  BY <1>1, DecimalType, LenProperties
<1> QED
  BY <1>1, <1>2, <1>3, <1>4, <1>5, <1>6 DEF h

(* The parts of a bulk string, where it stands.                            *)
LEMMA PieceStands ==
  ASSUME NEW w \in Seq(Byte), NEW r \in Seq(Byte), NEW p \in Nat, At(r, p, Piece(w))
  PROVE  PieceAt(r, p, w, p + Len(Piece(w)))
<1> DEFINE h == LineOf(Dollar, Len(w))
           l == Len(Decimal(Len(w)))
<1>1. Len(w) \in Nat /\ Dollar \in Byte
  BY LenProperties DEF Dollar, Byte
<1>2. l \in Nat
  BY <1>1, DecimalType, LenProperties
<1>3. h \in Seq(Byte) /\ Len(h) = l + 3
  BY <1>1, LineType
<1>4. Piece(w) = (h \o w) \o CrLf /\ Len(Piece(w)) = l + Len(w) + 5
  BY PieceType
<1> HIDE DEF h
<1>5. h \o w \in Seq(Byte)
  BY <1>3, ConcatProperties
<1>6. At(r, p, h \o w)
  BY <1>4, <1>5, CrLfType, AtParts, ZenonT(40)
<1>7. At(r, p, h) /\ At(r, p + Len(h), w)
  BY <1>3, <1>6, AtParts
<1>8. LineAt(r, p, Dollar, Len(w))
  BY <1>1, <1>7, LineStands DEF h
<1>9. p + Len(h) = p + 3 + l
  BY <1>2, <1>3
<1>10. p + Len(Piece(w)) = p + 5 + l + Len(w) /\ p + Len(Piece(w)) <= Len(r) + 1
  BY <1>1, <1>2, <1>4 DEF At
<1> QED
  BY <1>7, <1>8, <1>9, <1>10 DEF PieceAt

(* P[i] is the place behind the i-th of the words in r, which encodes them.*)
Laid(words, r, P) ==
  /\ r \in Seq(Byte)
  /\ P \in [0..Len(words) -> Nat \ {0}]
  /\ LineAt(r, 1, Star, Len(words))
  /\ P[0] = 4 + Len(Decimal(Len(words)))
  /\ P[Len(words)] = Len(r) + 1
  /\ \A i \in 1..Len(words) : PieceAt(r, P[i - 1], words[i], P[i])

(* encode_array puts the words one behind the other after their count.     *)
LEMMA Layout ==
  ASSUME NEW words \in Seq(Seq(Byte))
  PROVE  \E P : Laid(words, Encode(words), P)
<1> DEFINE n == Len(words)
           h == LineOf(Star, n)
           s == [i \in DOMAIN words |-> Piece(words[i])]
           r == Encode(words)
<1>1. n \in Nat /\ DOMAIN words = 1..n /\ \A i \in 1..n : words[i] \in Seq(Byte)
  BY LenProperties, ElementOfSeq
<1>2. s \in Seq(Seq(Byte)) /\ Len(s) = n /\ \A i \in 1..n : s[i] = Piece(words[i])
  <2>1. \A i \in 1..n : Piece(words[i]) \in Seq(Byte)
    BY <1>1, PieceType
  <2>2. s = [i \in 1..n |-> Piece(words[i])]
    BY <1>1
  <2>3. s \in [1..n -> Seq(Byte)]
    BY <2>1, <2>2
  <2> QED
    BY <1>1, <2>2, <2>3
<1>3. h \in Seq(Byte) /\ Len(h) = Len(Decimal(n)) + 3
  <2>1. Star \in Byte
    BY DEF Star, Byte
  <2> QED
    BY <1>1, <2>1, LineType
<1>4. r = h \o FlattenSeq(s)
  BY DEF Encode, LineOf, Piece
<1>5. PICK f : Flows(f, s, Byte) /\ FlattenSeq(s) = f[n]
  BY <1>2, FlattenFlows
<1> HIDE DEF s, r
<1>6. /\ f \in [0..n -> Seq(Byte)] /\ f[0] = <<>>
      /\ \A m \in 1..n : f[m] = f[m - 1] \o s[m]
  BY <1>2, <1>5 DEF Flows
<1> HIDE DEF h
<1>7. r \in Seq(Byte) /\ Len(r) = Len(h) + Len(f[n])
  <2>1. f[n] \in Seq(Byte)
    BY <1>1, <1>6
  <2> QED
    <3>1. r = h \o f[n]
      BY <1>4, <1>5
    <3> QED
      BY <1>3, <2>1, <3>1, ConcatProperties
<1> DEFINE P == [i \in 0..n |-> Len(h) + (Len(f[i]) + 1)]
<1>8. Len(h) \in Nat /\ \A i \in 0..n : Len(f[i]) \in Nat
  BY <1>3, <1>6, LenProperties
<1>9. /\ P \in [0..n -> Nat \ {0}]
      /\ \A i \in 0..n : P[i] = Len(h) + (Len(f[i]) + 1)
  BY <1>8
<1> HIDE DEF P, n
<1>10. P[0] = 4 + Len(Decimal(n)) /\ P[n] = Len(r) + 1
  <2>1. Len(f[0]) = 0 /\ 0 \in 0..n /\ n \in 0..n
    BY <1>1, <1>6, EmptySeq
  <2>2. Len(Decimal(n)) \in Nat
    BY <1>1, DecimalType, LenProperties
  <2> QED
    <3>1. P[0] = Len(h) + (0 + 1) /\ P[n] = Len(h) + (Len(f[n]) + 1)
      BY <1>9, <2>1
    <3>2. Len(f[n]) \in Nat
      BY <1>8, <2>1
    <3>3. P[0] = 4 + Len(Decimal(n))
      BY <1>3, <2>2, <3>1
    <3>4. P[n] = Len(r) + 1
      BY <1>7, <1>8, <3>1, <3>2
    <3> QED
      BY <3>3, <3>4
<1>11. LineAt(r, 1, Star, n)
  <2>1. At(h, 1, h)
    BY <1>3, AtSelf
  <2>2. At(r, 1, h)
    <3>1. f[n] \in Seq(Byte) /\ 1 \in Nat \ {0}
      BY <1>1, <1>6
    <3> QED
      BY <1>3, <1>4, <1>5, <2>1, <3>1, AtGrows
  <2>3. Star \in Byte /\ 1 \in Nat
    BY DEF Star, Byte
  <2> QED
    BY <1>1, <1>7, <2>2, <2>3, LineStands DEF h
<1>12. ASSUME NEW i \in 1..n
       PROVE  PieceAt(r, P[i - 1], words[i], P[i])
  <2> DEFINE p == Len(f[i - 1]) + 1
             w == words[i]
  <2>1. /\ i \in 0..n /\ i - 1 \in 0..n /\ w \in Seq(Byte) /\ s[i] = Piece(w)
        /\ f[i - 1] \in Seq(Byte) /\ f[i] = f[i - 1] \o Piece(w)
    <3>1. i \in 0..n /\ i - 1 \in 0..n
      BY <1>1
    <3> QED
      BY <1>1, <1>2, <1>6, <3>1
  <2>2. p \in Nat \ {0} /\ Piece(w) \in Seq(Byte) /\ Len(Piece(w)) \in Nat
    <3>1. Len(f[i - 1]) \in Nat
      BY <1>8, <2>1
    <3> HIDE DEF w
    <3>2. Piece(w) \in Seq(Byte)
      BY <2>1, PieceType
    <3> QED
      BY <3>1, <3>2, LenProperties
  <2>3. At(f[n], p, Piece(w))
    BY <1>2, <1>5, <2>1, FlowsAt
  <2>4. f[n] \in Seq(Byte)
    BY <1>1, <1>6
  <2>5. At(r, Len(h) + p, Piece(w))
    <3> HIDE DEF p, w
    <3> QED
      BY <1>3, <1>4, <1>5, <2>2, <2>3, <2>4, AtShift
  <2>6. P[i - 1] = Len(h) + p
    BY <1>9, <2>1
  <2>7. P[i] = P[i - 1] + Len(Piece(w))
    <3> HIDE DEF w, p
    <3>1. Len(f[i]) = Len(f[i - 1]) + Len(Piece(w))
      BY <2>1, <2>2, ConcatProperties
    <3>2. P[i] = Len(h) + (Len(f[i]) + 1) /\ P[i - 1] = Len(h) + (Len(f[i - 1]) + 1)
      BY <1>9, <2>1
    <3>3. Len(f[i - 1]) \in Nat
      BY <1>8, <2>1
    <3> QED
      BY <1>8, <2>2, <3>1, <3>2, <3>3
  <2>8. P[i - 1] \in Nat
    BY <1>9, <2>1
  <2> HIDE DEF p, w
  <2>9. PieceAt(r, P[i - 1], w, P[i - 1] + Len(Piece(w)))
    BY <1>7, <2>1, <2>5, <2>6, <2>8, PieceStands
  <2> QED
    BY <2>7, <2>9 DEF w
<1> QED
  BY <1>7, <1>9, <1>10, <1>11, <1>12 DEF Laid, r, n

-----------------------------------------------------------------------------
(* What the reader makes of a record of which it has the beginning.        *)

(* Where find(CRLF) may stop: the two bytes, one by one.                   *)
LEMMA EndsAt ==
  ASSUME NEW b \in Seq(Byte), NEW j \in 1..(Len(b) - 1)
  PROVE  (SubSeq(b, j, j + 1) = CrLf) <=> (b[j] = 13 /\ b[j + 1] = 10)
<1> DEFINE s == SubSeq(b, j, j + 1)
<1>1. Len(b) \in Nat
  BY LenProperties
<1>2. j \in Int /\ j + 1 \in Int /\ \A i \in j..(j + 1) : b[i] \in Byte
  BY <1>1, ElementOfSeq
<1>3. s \in Seq(Byte) /\ Len(s) = 2 /\ s[1] = b[j] /\ s[2] = b[j + 1]
  <2>1. /\ s \in Seq(Byte)
        /\ Len(s) = IF j <= j + 1 THEN j + 1 - j + 1 ELSE 0
        /\ \A i \in 1..(j + 1 - j + 1) : s[i] = b[j + i - 1]
    BY <1>2, SubSeqProperties
  <2>2. 1 \in 1..(j + 1 - j + 1) /\ 2 \in 1..(j + 1 - j + 1)
        /\ j + 1 - 1 = j /\ j + 2 - 1 = j + 1 /\ j <= j + 1 /\ j + 1 - j + 1 = 2
    BY <1>2
  <2> HIDE DEF s
  <2>3. s[1] = b[j + 1 - 1] /\ s[2] = b[j + 2 - 1]
    BY <2>1, <2>2
  <2> QED
    BY <2>1, <2>2, <2>3
<1> HIDE DEF s
<1>4. s = CrLf => s[1] = 13 /\ s[2] = 10
  BY CrLfType
<1>5. s[1] = 13 /\ s[2] = 10 => s = CrLf
  <2>1. SUFFICES ASSUME s[1] = 13, s[2] = 10 PROVE s = CrLf
    OBVIOUS
  <2>2. \A i \in 1..Len(s) : s[i] = CrLf[i]
    <3>1. \A i \in 1..2 : i = 1 \/ i = 2
      OBVIOUS
    <3> QED
      BY <1>3, <2>1, <3>1, CrLfType
  <2> QED
    BY <1>3, <2>2, CrLfType, SeqEqual
<1> QED
  BY <1>3, <1>4, <1>5 DEF s

(* find(CRLF) stops at the first 13 that a 10 follows.                     *)
LEMMA LineEndIs ==
  ASSUME NEW b \in Seq(Byte), NEW i \in Nat \ {0}, NEW e \in i..(Len(b) - 1),
         b[e] = 13, b[e + 1] = 10, \A j \in i..(e - 1) : b[j] # 13
  PROVE  LineEnd(b, i) = e
<1> DEFINE S == {j \in i..(Len(b) - 1) : SubSeq(b, j, j + 1) = CrLf}
<1>1. Len(b) \in Nat
  BY LenProperties
<1>2. e \in S
  <2>1. e \in 1..(Len(b) - 1)
    BY <1>1
  <2> QED
    BY <2>1, EndsAt
<1>3. \A j \in S : e <= j
  <2>1. SUFFICES ASSUME NEW j \in i..(Len(b) - 1), SubSeq(b, j, j + 1) = CrLf, j < e
                 PROVE  FALSE
    BY <1>1
  <2>2. j \in 1..(Len(b) - 1) /\ j \in i..(e - 1)
    BY <1>1, <2>1
  <2> QED
    BY <2>1, <2>2, EndsAt
<1>4. S \subseteq Int
  BY <1>1
<1>5. LineEnd(b, i) = CHOOSE j \in S : \A h \in S : j <= h
  BY <1>2 DEF LineEnd
<1> HIDE DEF S
<1>6. \A j \in S : (\A h \in S : j <= h) => j = e
  BY <1>2, <1>3, <1>4
<1> QED
  BY <1>2, <1>3, <1>5, <1>6

(* find(CRLF) finds nothing where there is no 13 before the last byte.     *)
LEMMA NoLineEnd ==
  ASSUME NEW b \in Seq(Byte), NEW i \in Nat \ {0},
         \A j \in i..(Len(b) - 1) : b[j] # 13
  PROVE  LineEnd(b, i) = 0
<1>1. \A j \in i..(Len(b) - 1) : j \in 1..(Len(b) - 1)
  BY LenProperties
<1>2. \A j \in i..(Len(b) - 1) : SubSeq(b, j, j + 1) # CrLf
  BY <1>1, EndsAt
<1> QED
  BY <1>2 DEF LineEnd

(* b is the beginning of r, or r the beginning of b.                       *)
Agrees(b, r) == \A j \in 1..Len(b) : j <= Len(r) => b[j] = r[j]

(* A buffer that agrees with r holds what stands in r as far as it         *)
(* reaches.                                                                *)
LEMMA AgreesAt ==
  ASSUME NEW b \in Seq(Byte), NEW r \in Seq(Byte), Agrees(b, r),
         NEW t \in Seq(Byte), NEW p \in Nat \ {0}, At(r, p, t), p + Len(t) <= Len(b) + 1
  PROVE  SubSeq(b, p, p + Len(t) - 1) = t
<1> DEFINE n == Len(t)
           q == p + n - 1
           s == SubSeq(b, p, q)
<1>1. n \in Nat /\ Len(b) \in Nat /\ Len(r) \in Nat
  BY LenProperties
<1>2. p + n <= Len(r) + 1 /\ \A i \in 1..n : r[p + i - 1] = t[i]
  BY DEF At
<1>3. ASSUME NEW i \in 1..n
      PROVE  b[p + i - 1] = t[i] /\ p + i - 1 \in 1..Len(b)
  <2> DEFINE j == p + i - 1
  <2>1. j \in 1..Len(b) /\ j <= Len(r)
    BY <1>1, <1>2
  <2> HIDE DEF j
  <2>2. b[j] = r[j]
    BY <2>1 DEF Agrees
  <2> QED
    BY <1>2, <2>1, <2>2 DEF j
<1>4. p \in Int /\ q \in Int /\ q - p + 1 = n /\ \A i \in p..q : b[i] \in Byte
  <2>1. \A i \in p..q : i \in 1..Len(b)
    BY <1>1
  <2> QED
    BY <1>1, <2>1, ElementOfSeq
<1> HIDE DEF q, n
<1>5. /\ s \in Seq(Byte)
      /\ Len(s) = IF p <= q THEN q - p + 1 ELSE 0
      /\ \A i \in 1..(q - p + 1) : s[i] = b[p + i - 1]
  BY <1>4, SubSeqProperties
<1>6. Len(s) = n
  BY <1>1, <1>4, <1>5
<1> HIDE DEF s
<1>7. \A i \in 1..Len(s) : s[i] = t[i]
  BY <1>3, <1>4, <1>5, <1>6
<1>8. s = t
  BY <1>5, <1>6, <1>7, SeqEqual DEF n
<1> QED
  BY <1>8 DEF s, q, n

(* What a line at p, that ends at e, is read as from i on.                 *)
ReadsLine(b, i, p, e, mark, n) ==
  /\ Len(b) >= p => b[p] = mark
  /\ Len(b) > e => LineEnd(b, i) = e /\ SubSeq(b, p + 1, e - 1) = Decimal(n)
  /\ Len(b) <= e => LineEnd(b, i) = 0

(* A buffer that holds the whole of a line is read as the line's number,   *)
(* and one that ends inside it holds no line end.                          *)
LEMMA LineRead ==
  ASSUME NEW b \in Seq(Byte), NEW r \in Seq(Byte), Agrees(b, r),
         NEW mark, mark # 13, NEW n \in Nat, NEW p \in Nat \ {0}, LineAt(r, p, mark, n),
         NEW e, e = p + 1 + Len(Decimal(n)), e + 1 <= Len(r),
         NEW i \in {p, p + 1}
  PROVE  ReadsLine(b, i, p, e, mark, n)
<1> DEFINE d == Decimal(n)
           l == Len(b)
<1>1. /\ d \in Seq(Byte) /\ Len(d) \in Nat /\ l \in Nat /\ Len(r) \in Nat
      /\ \A j \in 1..Len(d) : d[j] # 13
  <2>1. \A j \in 1..Len(d) : d[j] \in Digit
    BY DecimalReads, ElementOfSeq
  <2>2. 13 \notin Digit
    BY DEF Digit, Zero
  <2>3. \A j \in 1..Len(d) : d[j] # 13
    BY <2>1, <2>2, Zenon
  <2> QED
    BY <2>3, DecimalType, LenProperties
<1>2. \A j \in 1..l : j <= e + 1 => b[j] = r[j]
  BY <1>1 DEF Agrees
<1>3. r[p] = mark /\ At(r, p + 1, d) /\ r[e] = 13 /\ r[e + 1] = 10
  <2>1. p + 2 + Len(d) = e + 1
    BY <1>1
  <2> QED
    BY <2>1 DEF LineAt
<1> HIDE DEF d
<1>4. e \in Nat /\ p < e /\ e = p + 1 + Len(d)
  BY <1>1 DEF d
<1>5. \A j \in i..(e - 1) : r[j] # 13
  <2>1. SUFFICES ASSUME NEW j \in i..(e - 1) PROVE r[j] # 13
    OBVIOUS
  <2>2. CASE j = p
    BY <1>3, <2>2
  <2>3. CASE j # p
    <3> DEFINE k == j - p
    <3>1. k \in 1..Len(d) /\ (p + 1) + k - 1 = j
      BY <1>1, <1>4, <2>1, <2>3
    <3>2. r[(p + 1) + k - 1] = d[k]
      BY <1>3, <3>1 DEF At
    <3> HIDE DEF k
    <3> QED
      BY <1>1, <3>1, <3>2
  <2> QED
    BY <2>2, <2>3
<1>6. l >= p => b[p] = mark
  <2>1. l >= p => p \in 1..l
    BY <1>1
  <2>2. p <= e + 1
    BY <1>4
  <2> QED
    BY <1>2, <1>3, <2>1, <2>2
<1>7. CASE l > e
  <2>1. LineEnd(b, i) = e
    <3>1. e \in i..(l - 1) /\ i \in Nat \ {0}
      BY <1>1, <1>4, <1>7
    <3>2. b[e] = 13 /\ b[e + 1] = 10
      <4>1. e \in 1..l /\ e + 1 \in 1..l /\ e <= e + 1
        BY <1>1, <1>4, <1>7
      <4> QED
        BY <1>2, <1>3, <4>1
    <3>3. \A j \in i..(e - 1) : b[j] # 13
      <4>1. \A j \in i..(e - 1) : j \in 1..l /\ j <= e + 1
        BY <1>1, <1>4, <1>7, <3>1
      <4> QED
        BY <1>2, <1>5, <4>1
    <3> QED
      BY <3>1, <3>2, <3>3, LineEndIs
  <2>2. SubSeq(b, p + 1, e - 1) = d
    <3> DEFINE q == p + 1
    <3>1. q \in Nat \ {0} /\ q + Len(d) <= l + 1 /\ q + Len(d) - 1 = e - 1
      BY <1>1, <1>4, <1>7
    <3>2. At(r, q, d)
      BY <1>3
    <3> HIDE DEF q
    <3>3. SubSeq(b, q, q + Len(d) - 1) = d
      BY <1>1, <3>1, <3>2, AgreesAt
    <3> QED
      BY <3>1, <3>3 DEF q
  <2> QED
    BY <1>1, <1>4, <1>6, <1>7, <2>1, <2>2 DEF d, ReadsLine
<1>8. CASE l <= e
  <2>1. i \in Nat \ {0}
    BY <1>4
  <2>2. \A j \in i..(l - 1) : b[j] # 13
    <3>1. \A j \in i..(l - 1) : j \in 1..l /\ j <= e + 1 /\ j \in i..(e - 1)
      BY <1>1, <1>4, <1>8, <2>1
    <3> QED
      BY <1>2, <1>5, <3>1
  <2>3. LineEnd(b, i) = 0
    BY <2>1, <2>2, NoLineEnd
  <2>4. ~(l > e)
    BY <1>1, <1>4, <1>8
  <2> QED
    BY <1>6, <2>3, <2>4 DEF ReadsLine
<1>9. l > e \/ l <= e
  BY <1>1, <1>4
<1> QED
  BY <1>7, <1>8, <1>9

(* parse_array reads a bulk string that is there whole, and asks for more  *)
(* where it is cut.                                                        *)
LEMMA ItemRead ==
  ASSUME NEW b \in Seq(Byte), NEW r \in Seq(Byte), Agrees(b, r),
         NEW w \in Seq(Byte), NEW p \in Nat \ {0}, NEW q, PieceAt(r, p, w, q), NEW ws
  PROVE  /\ q <= Len(b) + 1 => Item(b, Found(ws, p)) = Found(Append(ws, w), q)
         /\ p <= Len(b) + 1 /\ Len(b) + 1 < q => Item(b, Found(ws, p)) = More
<1> DEFINE n == Len(w)
           d == Decimal(n)
           e == p + 1 + Len(d)
           end == LineEnd(b, p + 1)
           text == SubSeq(b, p + 1, end - 1)
           last == end + 1 + NumberIn(text)
           s == Found(ws, p)
<1>1. n \in Nat /\ Len(d) \in Nat /\ Len(b) \in Nat /\ Len(r) \in Nat
  BY DecimalType, LenProperties
<1>2. /\ LineAt(r, p, Dollar, n) /\ At(r, p + 3 + Len(d), w)
      /\ q = p + 5 + Len(d) + n /\ q <= Len(r) + 1
  BY DEF PieceAt
<1>3. IsNumber(d) /\ NumberIn(d) = n
  BY <1>1, DecimalReads
<1>4. s.kind = "items" /\ s.pos = p /\ s.words = ws
  BY DEF Found
<1> HIDE DEF d, n
<1>5. /\ Len(b) >= p => b[p] = Dollar
      /\ Len(b) > e => end = e /\ SubSeq(b, p + 1, e - 1) = d
      /\ Len(b) <= e => end = 0
  <2>1. e + 1 <= Len(r)
    BY <1>1, <1>2
  <2>2. Dollar # 13 /\ p + 1 \in {p, p + 1}
    BY DEF Dollar
  <2>3. e = p + 1 + Len(Decimal(n))
    BY DEF d
  <2> DEFINE i == p + 1
  <2>4. i \in {p, p + 1} /\ LineAt(r, p, Dollar, n)
    BY <1>2
  <2> HIDE DEF e, i
  <2>5. ReadsLine(b, i, p, e, Dollar, n)
    BY <1>1, <2>1, <2>2, <2>3, <2>4, LineRead
  <2> QED
    BY <2>5 DEF d, i, ReadsLine
<1>6. Item(b, s) = IF p > Len(b) THEN More
                   ELSE IF b[p] # Dollar THEN Malformed
                   ELSE IF end = 0 THEN More
                   ELSE IF ~IsNumber(text) THEN Raised
                   ELSE IF NumberIn(text) = -1
                     THEN Found(Append(s.words, Null), end + 2)
                   ELSE IF Len(b) < last + 2 THEN More
                   ELSE Found(Append(s.words, SubSeq(b, end + 2, last)), last + 3)
  BY <1>4 DEF Item
<1>7. CASE p > Len(b)
  <2>1. ~(q <= Len(b) + 1)
    BY <1>1, <1>2, <1>7
  <2> QED
    BY <1>6, <1>7, <2>1
<1>8. CASE p <= Len(b) /\ Len(b) <= e
  <2>1. ~(q <= Len(b) + 1) /\ ~(p > Len(b))
    BY <1>1, <1>2, <1>8
  <2>2. end = 0 /\ b[p] = Dollar
    BY <1>1, <1>5, <1>8
  <2> QED
    BY <1>6, <2>1, <2>2
<1>9. CASE Len(b) > e
  <2>1. end = e /\ text = d /\ b[p] = Dollar /\ ~(p > Len(b)) /\ e # 0
    BY <1>1, <1>5, <1>9
  <2>2. IsNumber(text) /\ NumberIn(text) = n /\ n # -1 /\ last = e + 1 + n
    <3>1. n # -1
      BY <1>1
    <3> HIDE DEF end, text, e
    <3> QED
      BY <1>3, <2>1, <3>1
  <2>3. Item(b, s) = IF Len(b) < e + 1 + n + 2 THEN More
                     ELSE Found(Append(s.words, SubSeq(b, e + 2, e + 1 + n)), e + 1 + n + 3)
    <3> HIDE DEF end, text, last, e, s
    <3> QED
      BY <1>6, <2>1, <2>2
  <2>4. CASE Len(b) + 1 < q
    <3>1. Len(b) < e + 1 + n + 2 /\ ~(q <= Len(b) + 1)
      BY <1>1, <1>2, <2>4
    <3> QED
      BY <2>3, <3>1
  <2>5. CASE q <= Len(b) + 1
    <3>1. ~(Len(b) < e + 1 + n + 2) /\ ~(Len(b) + 1 < q) /\ e + 1 + n + 3 = q
      BY <1>1, <1>2, <2>5
    <3>2. SubSeq(b, e + 2, e + 1 + n) = w
      <4> DEFINE k == p + 3 + Len(d)
      <4>1. /\ k \in Nat \ {0} /\ k + Len(w) <= Len(b) + 1
            /\ k = e + 2 /\ k + Len(w) - 1 = e + 1 + n
        BY <1>1, <1>2, <2>5 DEF n
      <4>2. At(r, k, w)
        BY <1>2
      <4> HIDE DEF k
      <4>3. SubSeq(b, k, k + Len(w) - 1) = w
        BY <4>1, <4>2, AgreesAt
      <4> QED
        BY <4>1, <4>3
    <3>3. s.words = ws
      BY <1>4
    <3>4. Item(b, s) = Found(Append(ws, w), q)
      <4> HIDE DEF s, e
      <4> QED
        BY <2>3, <3>1, <3>2, <3>3
    <3> QED
      BY <3>1, <3>4
  <2>6. q <= Len(b) + 1 \/ Len(b) + 1 < q
    BY <1>1, <1>2
  <2> QED
    BY <2>4, <2>5, <2>6
<1>10. p > Len(b) \/ (p <= Len(b) /\ Len(b) <= e) \/ Len(b) > e
  BY <1>1
<1> QED
  BY <1>7, <1>8, <1>9, <1>10

(* The bulk strings are read one by one, as far as b goes.                 *)
Scanned(words, b, P, m) ==
  IF P[m] <= Len(b) + 1 THEN Found(SubSeq(words, 1, m), P[m]) ELSE More

(* The fold of parse_array takes the words one by one.                     *)
LEMMA ScanStep ==
  ASSUME NEW words \in Seq(Seq(Byte)), NEW r, NEW P, Laid(words, r, P),
         NEW b \in Seq(Byte), Agrees(b, r), NEW m \in 1..Len(words)
  PROVE  Scanned(words, b, P, m) = Item(b, Scanned(words, b, P, m - 1))
<1> DEFINE p == P[m - 1]
           q == P[m]
           w == words[m]
           ws == SubSeq(words, 1, m - 1)
           l == Len(b)
<1>1. /\ Len(words) \in Nat /\ l \in Nat /\ r \in Seq(Byte)
      /\ P \in [0..Len(words) -> Nat \ {0}] /\ w \in Seq(Byte)
      /\ PieceAt(r, p, w, q)
  BY LenProperties, ElementOfSeq DEF Laid
<1>2. p \in Nat \ {0} /\ q \in Nat
  <2>1. m - 1 \in 0..Len(words) /\ m \in 0..Len(words)
    BY <1>1
  <2> QED
    BY <1>1, <2>1
<1>3. p < q
  <2>1. Len(w) \in Nat
    BY <1>1, LenProperties
  <2>2. Len(Decimal(Len(w))) \in Nat
    BY <2>1, DecimalType, LenProperties
  <2>3. q = p + 5 + Len(Decimal(Len(w))) + Len(w)
    BY <1>1 DEF PieceAt
  <2> HIDE DEF p, q, w
  <2> QED
    BY <1>2, <2>1, <2>2, <2>3
<1>4. Append(ws, w) = SubSeq(words, 1, m)
  <2>1. m \in 1..Len(words) /\ 1 \in 1..Len(words) /\ m \in 1..Len(words)
    BY <1>1
  <2>2. SubSeq(words, 1, m) = SubSeq(words, 1, m - 1) \o <<words[m]>>
    BY <2>1, SubSeqRecursiveSecond
  <2>3. ws \in Seq(Seq(Byte))
    <3>1. \A i \in 1..(m - 1) : words[i] \in Seq(Byte)
      BY <1>1, ElementOfSeq
    <3>2. 1 \in Int /\ m - 1 \in Int
      OBVIOUS
    <3> QED
      BY <3>1, <3>2, SubSeqProperties
  <2> HIDE DEF ws, w
  <2>4. Append(ws, w) = ws \o <<w>>
    BY <1>1, <2>3
  <2> QED
    BY <2>2, <2>4 DEF ws, w
<1>5. /\ Scanned(words, b, P, m) = IF q <= l + 1 THEN Found(Append(ws, w), q) ELSE More
      /\ Scanned(words, b, P, m - 1) = IF p <= l + 1 THEN Found(ws, p) ELSE More
  BY <1>4 DEF Scanned
<1> HIDE DEF p, q, w, ws
<1>6. /\ q <= l + 1 => Item(b, Found(ws, p)) = Found(Append(ws, w), q)
      /\ p <= l + 1 /\ l + 1 < q => Item(b, Found(ws, p)) = More
  BY <1>1, <1>2, ItemRead
<1>7. Item(b, More) = More
  BY DEF Item, More
<1> HIDE DEF l
<1>8. CASE q <= l + 1
  <2>1. p <= l + 1
    BY <1>1, <1>2, <1>3, <1>8
  <2> QED
    BY <1>5, <1>6, <1>8, <2>1
<1>9. CASE p <= l + 1 /\ l + 1 < q
  <2>1. ~(q <= l + 1)
    BY <1>1, <1>2, <1>9
  <2> QED
    BY <1>5, <1>6, <1>9, <2>1
<1>10. CASE l + 1 < p
  <2>1. ~(q <= l + 1) /\ ~(p <= l + 1)
    BY <1>1, <1>2, <1>3, <1>10
  <2> QED
    BY <1>5, <1>7, <2>1
<1>11. q <= l + 1 \/ (p <= l + 1 /\ l + 1 < q) \/ l + 1 < p
  BY <1>1, <1>2, <1>3
<1> QED
  BY <1>8, <1>9, <1>10, <1>11

(* Places grow.                                                            *)
LEMMA HeaderFirst ==
  ASSUME NEW words \in Seq(Seq(Byte)), NEW r, NEW P, Laid(words, r, P)
  PROVE  P[0] <= Len(r) + 1
<1> DEFINE n == Len(words)
           N == {m \in Nat : m <= n => P[0] <= P[m]}
<1>1. /\ n \in Nat /\ P \in [0..n -> Nat \ {0}] /\ P[n] = Len(r) + 1
      /\ \A i \in 1..n : PieceAt(r, P[i - 1], words[i], P[i]) /\ words[i] \in Seq(Byte)
  BY LenProperties, ElementOfSeq DEF Laid
<1> HIDE DEF n
<1>2. \A i \in 0..n : P[i] \in Nat
  BY <1>1
<1>3. ASSUME NEW m \in N, m + 1 <= n
      PROVE  P[0] <= P[m + 1]
  <2>1. m + 1 \in 1..n /\ (m + 1) - 1 = m /\ P[0] <= P[m] /\ 0 \in 0..n /\ m \in 0..n
    BY <1>1, <1>3
  <2> DEFINE w == words[m + 1]
  <2>2. w \in Seq(Byte) /\ PieceAt(r, P[m], w, P[m + 1])
    BY <1>1, <2>1
  <2> HIDE DEF w
  <2>3. Len(w) \in Nat
    BY <2>2, LenProperties
  <2>4. Len(Decimal(Len(w))) \in Nat
    BY <2>3, DecimalType, LenProperties
  <2>5. P[m + 1] = P[m] + 5 + Len(Decimal(Len(w))) + Len(w)
    BY <2>2 DEF PieceAt
  <2>6. P[0] \in Nat /\ P[m] \in Nat
    BY <1>2, <2>1
  <2> QED
    BY <2>1, <2>3, <2>4, <2>5, <2>6
<1>4. N = Nat
  <2>1. 0 \in N
    <3>1. 0 \in 0..n
      BY <1>1
    <3>2. P[0] \in Nat
      BY <1>2, <3>1
    <3> QED
      BY <3>2
  <2>2. \A m \in N : m + 1 \in N
    BY <1>3
  <2> N \in SUBSET Nat
    OBVIOUS
  <2> HIDE DEF N
  <2> QED
    BY <2>1, <2>2, Induction
<1>5. n \in N
  <2> HIDE DEF N
  <2> QED
    BY <1>1, <1>4
<1>6. n <= n
  BY <1>1
<1> QED
  BY <1>1, <1>5, <1>6

(* What encode_array wrote, try_parse reads: the beginning of a record is  *)
(* never taken for anything, whatever its length, and a whole one gives    *)
(* its words and leaves what follows.                                      *)
THEOREM RecordRead ==
  ASSUME NEW words \in Seq(Seq(Byte)), words # <<>>,
         NEW b \in Seq(Byte), Agrees(b, Encode(words))
  PROVE  /\ Encode(words) \in Seq(Byte) /\ Len(Encode(words)) > 0
         /\ Len(b) < Len(Encode(words)) => TryParse(b) = More
         /\ Len(b) >= Len(Encode(words)) =>
              TryParse(b) = Parsed(words, SubSeq(b, Len(Encode(words)) + 1, Len(b)))
<1> DEFINE r == Encode(words)
           n == Len(words)
           l == Len(b)
           e == 2 + Len(Decimal(n))
<1> HIDE DEF r
<1>1. PICK P : Laid(words, r, P)
  BY Layout DEF r
<1>2. /\ n \in Nat /\ n > 0 /\ l \in Nat /\ r \in Seq(Byte) /\ Agrees(b, r)
      /\ Len(r) \in Nat /\ Len(Decimal(n)) \in Nat
  <2>1. n \in Nat /\ n > 0
    BY EmptySeq
  <2>2. Len(Decimal(n)) \in Nat
    BY <2>1, DecimalType, LenProperties
  <2>3. r \in Seq(Byte)
    BY <1>1 DEF Laid
  <2> QED
    BY <2>1, <2>2, <2>3, LenProperties DEF r
<1>3. /\ P \in [0..n -> Nat \ {0}] /\ LineAt(r, 1, Star, n)
      /\ P[0] = e + 2 /\ P[n] = Len(r) + 1 /\ e \in Nat \ {0} /\ e + 1 <= Len(r)
  <2>1. P[0] = 4 + Len(Decimal(n)) /\ P[0] <= Len(r) + 1
    BY <1>1, HeaderFirst DEF Laid
  <2>2. P[0] = e + 2 /\ e + 1 <= Len(r) /\ e \in Nat \ {0}
    BY <1>2, <2>1
  <2> QED
    BY <1>1, <2>2 DEF Laid
<1>4. ReadsLine(b, 1, 1, e, Star, n)
  <2>1. 1 \in Nat \ {0} /\ 1 \in {1, 1 + 1} /\ e = 1 + 1 + Len(Decimal(n)) /\ Star # 13
    BY <1>2 DEF Star
  <2> HIDE DEF e, n
  <2> QED
    BY <1>2, <1>3, <2>1, LineRead
<1>5. IsNumber(Decimal(n)) /\ NumberIn(Decimal(n)) = n
  BY <1>2, DecimalReads
<1> HIDE DEF n, e
<1>6. /\ l >= 1 => b[1] = Star
      /\ l > e => LineEnd(b, 1) = e /\ SubSeq(b, 2, e - 1) = Decimal(n)
      /\ l <= e => LineEnd(b, 1) = 0
  <2>1. 1 + 1 = 2
    OBVIOUS
  <2> QED
    BY <1>4, <2>1 DEF ReadsLine
<1>7. CASE b = <<>>
  <2>1. l = 0
    BY <1>7
  <2>2. TryParse(b) = More
    BY <1>7 DEF TryParse
  <2> QED
    BY <1>2, <1>3, <2>1, <2>2 DEF r
<1>8. CASE b # <<>>
  <2>1. l >= 1 /\ Head(b) = b[1]
    BY <1>2, <1>8, EmptySeq
  <2>2. TryParse(b) = ParseArray(b)
    BY <1>6, <1>8, <2>1 DEF TryParse
  <2>3. CASE l <= e
    <3>1. ParseArray(b) = More
      BY <1>6, <2>3 DEF ParseArray
    <3>2. l < Len(r) /\ ~(l >= Len(r)) /\ Len(r) > 0
      BY <1>2, <1>3, <2>3
    <3> QED
      BY <1>2, <2>2, <3>1, <3>2 DEF r
  <2>4. CASE l > e
    <3> DEFINE end == LineEnd(b, 1)
               text == SubSeq(b, 2, end - 1)
               B(f, m) == IF m = 0 THEN Found(<<>>, end + 2) ELSE Item(b, f[m - 1])
               G(f) == f = [m \in 0..NumberIn(text) |-> B(f, m)]
               c == CHOOSE f : G(f)
               all == c[NumberIn(text)]
               S(m) == Scanned(words, b, P, m)
               h == [m \in 0..n |-> S(m)]
    <3>1. ParseArray(b) = IF end = 0 THEN More
                          ELSE IF ~IsNumber(text) THEN Raised
                          ELSE IF NumberIn(text) <= 0
                            THEN Parsed(<<>>, SubSeq(b, end + 2, Len(b)))
                          ELSE IF all.kind # "items" THEN all
                          ELSE Parsed(all.words, SubSeq(b, all.pos, Len(b)))
      BY DEF ParseArray
    <3>2. end = e /\ text = Decimal(n) /\ end # 0
      <4>1. end = e /\ SubSeq(b, 2, e - 1) = Decimal(n)
        BY <1>6, <2>4
      <4> HIDE DEF end
      <4> QED
        BY <1>3, <4>1
    <3> HIDE DEF end, text
    <3>3. IsNumber(text) /\ NumberIn(text) = n /\ ~(n <= 0)
      BY <1>2, <1>5, <3>2
    <3>4. S(0) = Found(<<>>, end + 2)
      <4>1. P[0] <= l + 1
        BY <1>2, <1>3, <2>4
      <4>2. SubSeq(words, 1, 0) = <<>>
        BY SubSeqEmpty
      <4> QED
        BY <1>3, <3>2, <4>1, <4>2 DEF Scanned
    <3>5. \A m \in 1..n : S(m) = Item(b, S(m - 1))
      BY <1>1, <1>2, ScanStep DEF n
    <3> HIDE DEF S
    <3>6. ASSUME NEW m \in 0..n
          PROVE  S(m) = B(h, m)
      <4>1. CASE m = 0
        BY <3>4, <4>1
      <4>2. CASE m # 0
        <5>1. m \in 1..n /\ m - 1 \in 0..n
          BY <1>2, <4>2
        <5> QED
          BY <3>5, <4>2, <5>1
      <4> QED
        BY <4>1, <4>2
    <3>7. G(h)
      <4>1. \A m \in 0..NumberIn(text) : S(m) = B(h, m)
        BY <3>3, <3>6
      <4>2. h = [m \in 0..NumberIn(text) |-> S(m)]
        BY <3>3
      <4> HIDE DEF h, B
      <4> QED
        BY <4>1, <4>2, Zenon
    <3> HIDE DEF h
    <3>8. G(c)
      BY <3>7
    <3> HIDE DEF c
    <3>9. \A m \in 0..n : c[m] = B(c, m)
      <4> HIDE DEF B
      <4> QED
        BY <3>3, <3>8
    <3> DEFINE N == {m \in Nat : m <= n => c[m] = S(m)}
    <3>10. N = Nat
      <4>1. 0 \in N
        <5>1. 0 \in 0..n
          BY <1>2
        <5>2. c[0] = S(0)
          BY <3>4, <3>9, <5>1
        <5> QED
          BY <5>2
      <4>2. ASSUME NEW m \in N, m + 1 <= n
            PROVE  c[m + 1] = S(m + 1)
        <5>1. m + 1 \in 1..n /\ m + 1 \in 0..n /\ (m + 1) - 1 = m /\ m + 1 # 0 /\ c[m] = S(m)
          BY <1>2, <4>2
        <5>2. c[m + 1] = Item(b, c[m])
          BY <3>9, <5>1
        <5>3. S(m + 1) = Item(b, S(m))
          BY <3>5, <5>1
        <5> QED
          BY <5>1, <5>2, <5>3
      <4>3. \A m \in N : m + 1 \in N
        BY <4>2
      <4> N \in SUBSET Nat
        OBVIOUS
      <4> HIDE DEF N
      <4> QED
        BY <4>1, <4>3, Induction
    <3>11. all = S(n)
      <4>1. n \in N
        <5> HIDE DEF N
        <5> QED
          BY <1>2, <3>10
      <4>2. n <= n
        BY <1>2
      <4> QED
        BY <3>3, <4>1, <4>2
    <3>12. all = IF Len(r) <= l THEN Found(words, Len(r) + 1) ELSE More
      <4>1. SubSeq(words, 1, n) = words
        BY SubSeqFull DEF n
      <4>2. (Len(r) + 1 <= l + 1) = (Len(r) <= l)
        BY <1>2
      <4>3. S(n) = IF Len(r) + 1 <= l + 1 THEN Found(words, Len(r) + 1) ELSE More
        BY <1>3, <4>1 DEF S, Scanned
      <4> HIDE DEF all
      <4> QED
        BY <3>11, <4>2, <4>3, Zenon
    <3> HIDE DEF all
    <3>13. ParseArray(b) = IF all.kind # "items" THEN all
                           ELSE Parsed(all.words, SubSeq(b, all.pos, Len(b)))
      BY <3>1, <3>2, <3>3
    <3>14. CASE Len(r) <= l
      <4>1. all.kind = "items" /\ all.words = words /\ all.pos = Len(r) + 1
        BY <3>12, <3>14 DEF Found
      <4>2. l >= Len(r) /\ ~(l < Len(r)) /\ Len(r) > 0
        BY <1>2, <1>3, <3>14
      <4> QED
        BY <1>2, <2>2, <3>13, <4>1, <4>2 DEF r
    <3>15. CASE ~(Len(r) <= l)
      <4>1. all = More /\ all.kind # "items"
        BY <3>12, <3>15 DEF More
      <4>2. ~(l >= Len(r)) /\ Len(r) > 0
        BY <1>2, <1>3, <3>15
      <4> QED
        BY <1>2, <2>2, <3>13, <4>1, <4>2 DEF r
    <3> QED
      BY <3>14, <3>15
  <2>5. l <= e \/ l > e
    BY <1>2, <1>3
  <2> QED
    BY <2>3, <2>4, <2>5
<1> QED
  BY <1>7, <1>8

-----------------------------------------------------------------------------
(* Where the reader stands.                                                *)

(* How long the first i of s are together.                                 *)
LengthOf(s, i) == Len(FlattenSeq(SubSeq(s, 1, i)))

(* How far the parts reach, and where each stands.                         *)
LEMMA Lengths ==
  ASSUME NEW A, NEW s \in Seq(Seq(A))
  PROVE  /\ FlattenSeq(s) \in Seq(A)
         /\ LengthOf(s, 0) = 0
         /\ LengthOf(s, Len(s)) = Len(FlattenSeq(s))
         /\ \A i \in 0..Len(s) : LengthOf(s, i) \in Nat
         /\ \A i \in 1..Len(s) :
              /\ LengthOf(s, i) = LengthOf(s, i - 1) + Len(s[i])
              /\ At(FlattenSeq(s), LengthOf(s, i - 1) + 1, s[i])
<1> DEFINE n == Len(s)
<1>1. PICK f : Flows(f, s, A) /\ FlattenSeq(s) = f[n]
  BY FlattenFlows
<1>2. /\ n \in Nat /\ \A i \in 1..n : s[i] \in Seq(A)
      /\ \A i \in 0..n : f[i] \in Seq(A)
      /\ f[0] = <<>>
      /\ \A i \in 1..n : f[i] = f[i - 1] \o s[i]
  BY <1>1, LenProperties, ElementOfSeq DEF Flows
<1>3. ASSUME NEW i \in 0..n
      PROVE  LengthOf(s, i) = Len(f[i])
  <2> DEFINE u == SubSeq(s, 1, i)
  <2>1. /\ i \in Int /\ 1 \in Int /\ i <= n
        /\ \A j \in 1..i : j \in 1..n /\ s[j] \in Seq(A)
    BY <1>2
  <2>2. /\ u \in Seq(Seq(A))
        /\ Len(u) = IF 1 <= i THEN i - 1 + 1 ELSE 0
        /\ \A j \in 1..(i - 1 + 1) : u[j] = s[1 + j - 1]
    BY <2>1, SubSeqProperties
  <2>3. Len(u) = i /\ \A j \in 1..i : s[j] = u[j]
    BY <1>2, <2>1, <2>2
  <2> HIDE DEF u
  <2>4. u \in Seq(Seq(A)) /\ s \in Seq(Seq(A))
    BY <2>2
  <2>5. PICK h : Flows(h, u, A) /\ FlattenSeq(u) = h[Len(u)]
    BY <2>2, FlattenFlows
  <2>6. f[Len(u)] = h[Len(u)]
    <3>1. /\ u \in Seq(Seq(A)) /\ s \in Seq(Seq(A))
          /\ BeginsAs(s, u)
          /\ Flows(h, u, A) /\ Flows(f, s, A)
      BY <1>1, <2>1, <2>3, <2>4, <2>5 DEF BeginsAs
    <3>2. \A g : Flows(g, s, A) => g[Len(u)] = h[Len(u)]
      BY <3>1, FlowsSame
    <3> QED
      BY <3>1, <3>2
  <2> QED
    BY <2>3, <2>5, <2>6 DEF LengthOf, u
<1>4. LengthOf(s, 0) = 0 /\ FlattenSeq(s) \in Seq(A)
  <2>1. 0 \in 0..n /\ n \in 0..n /\ Len(<<>>) = 0
    BY <1>2
  <2> QED
    BY <1>1, <1>2, <1>3, <2>1
<1>5. LengthOf(s, n) = Len(FlattenSeq(s))
  <2>1. n \in 0..n
    BY <1>2
  <2> QED
    BY <1>1, <1>3, <2>1
<1>6. \A i \in 0..n : LengthOf(s, i) \in Nat
  BY <1>2, <1>3, LenProperties
<1>7. ASSUME NEW i \in 1..n
      PROVE  /\ LengthOf(s, i) = LengthOf(s, i - 1) + Len(s[i])
             /\ At(FlattenSeq(s), LengthOf(s, i - 1) + 1, s[i])
  <2>1. i \in 0..n /\ i - 1 \in 0..n
    BY <1>2
  <2>2. LengthOf(s, i) = Len(f[i]) /\ LengthOf(s, i - 1) = Len(f[i - 1])
    BY <1>3, <2>1
  <2>3. Len(f[i]) = Len(f[i - 1]) + Len(s[i])
    <3>1. f[i] = f[i - 1] \o s[i] /\ f[i - 1] \in Seq(A) /\ s[i] \in Seq(A)
      BY <1>2, <2>1
    <3> QED
      BY <3>1, ConcatProperties
  <2>4. At(f[n], Len(f[i - 1]) + 1, s[i])
    BY <1>1, FlowsAt
  <2> QED
    BY <1>1, <2>2, <2>3, <2>4
<1> QED
  BY <1>4, <1>5, <1>6, <1>7

(* The first i of s do not change when one is appended.                    *)
LEMMA LengthsStay ==
  ASSUME NEW A, NEW s \in Seq(A), NEW e \in A, NEW i \in 0..Len(s)
  PROVE  LengthOf(Append(s, e), i) = LengthOf(s, i)
<1> DEFINE a == Append(s, e)
<1>1. /\ Len(s) \in Nat /\ a \in Seq(A) /\ Len(a) = Len(s) + 1
      /\ \A j \in 1..Len(s) : a[j] = s[j] /\ s[j] \in A
  BY AppendProperties, LenProperties, ElementOfSeq
<1>2. i \in Int /\ 1 \in Int /\ \A j \in 1..i : a[j] \in A /\ s[j] \in A /\ a[j] = s[j]
  BY <1>1
<1> HIDE DEF a
<1>3. /\ SubSeq(a, 1, i) \in Seq(A)
      /\ Len(SubSeq(a, 1, i)) = IF 1 <= i THEN i - 1 + 1 ELSE 0
      /\ \A j \in 1..(i - 1 + 1) : SubSeq(a, 1, i)[j] = a[1 + j - 1]
  BY <1>2, SubSeqProperties
<1>4. /\ SubSeq(s, 1, i) \in Seq(A)
      /\ Len(SubSeq(s, 1, i)) = IF 1 <= i THEN i - 1 + 1 ELSE 0
      /\ \A j \in 1..(i - 1 + 1) : SubSeq(s, 1, i)[j] = s[1 + j - 1]
  BY <1>2, SubSeqProperties
<1>5. Len(SubSeq(a, 1, i)) = Len(SubSeq(s, 1, i))
      /\ \A j \in 1..Len(SubSeq(a, 1, i)) : SubSeq(a, 1, i)[j] = SubSeq(s, 1, i)[j]
  <2>1. Len(SubSeq(a, 1, i)) = i /\ Len(SubSeq(s, 1, i)) = i
    BY <1>1, <1>3, <1>4
  <2>2. \A j \in 1..i : 1 + j - 1 = j /\ j \in 1..(i - 1 + 1)
    BY <1>2
  <2> QED
    BY <1>2, <1>3, <1>4, <2>1, <2>2
<1>6. SubSeq(a, 1, i) = SubSeq(s, 1, i)
  BY <1>3, <1>4, <1>5, SeqEqual
<1> QED
  BY <1>6 DEF LengthOf, a

(* What is left of a slice.                                                *)
LEMMA SliceOfSlice ==
  ASSUME NEW A, NEW s \in Seq(A), NEW p \in Nat, NEW q \in Nat, p <= q, q <= Len(s),
         NEW n \in Nat, p + n <= q
  PROVE  /\ SubSeq(s, p + 1, q) \in Seq(A)
         /\ Len(SubSeq(s, p + 1, q)) = q - p
         /\ \A i \in 1..(q - p) : SubSeq(s, p + 1, q)[i] = s[p + i]
         /\ SubSeq(SubSeq(s, p + 1, q), n + 1, q - p) = SubSeq(s, p + n + 1, q)
<1> DEFINE u == SubSeq(s, p + 1, q)
           v == SubSeq(u, n + 1, q - p)
           w == SubSeq(s, p + n + 1, q)
<1>1. /\ Len(s) \in Nat
      /\ \A i \in 1..Len(s) : s[i] \in A
  BY LenProperties, ElementOfSeq
<1>2. /\ u \in Seq(A) /\ Len(u) = q - p
      /\ \A i \in 1..(q - p) : u[i] = s[p + i]
  <2>1. p + 1 \in Int /\ q \in Int /\ \A i \in (p + 1)..q : s[i] \in A
    BY <1>1
  <2>2. /\ u \in Seq(A)
        /\ Len(u) = IF p + 1 <= q THEN q - (p + 1) + 1 ELSE 0
        /\ \A i \in 1..(q - (p + 1) + 1) : u[i] = s[(p + 1) + i - 1]
    BY <2>1, SubSeqProperties
  <2>3. \A i \in 1..(q - p) : i \in 1..(q - (p + 1) + 1) /\ (p + 1) + i - 1 = p + i
    OBVIOUS
  <2>4. Len(u) = q - p
    BY <2>2
  <2> HIDE DEF u
  <2> QED
    BY <2>2, <2>3, <2>4
<1> HIDE DEF u
<1>3. /\ v \in Seq(A) /\ Len(v) = q - p - n
      /\ \A i \in 1..(q - p - n) : v[i] = u[n + i]
  <2>1. n + 1 \in Int /\ q - p \in Int /\ \A i \in (n + 1)..(q - p) : u[i] \in A
    BY <1>2, ElementOfSeq
  <2>2. /\ v \in Seq(A)
        /\ Len(v) = IF n + 1 <= q - p THEN q - p - (n + 1) + 1 ELSE 0
        /\ \A i \in 1..(q - p - (n + 1) + 1) : v[i] = u[(n + 1) + i - 1]
    BY <2>1, SubSeqProperties
  <2>3. \A i \in 1..(q - p - n) : i \in 1..(q - p - (n + 1) + 1) /\ (n + 1) + i - 1 = n + i
    OBVIOUS
  <2>4. Len(v) = q - p - n
    BY <2>2
  <2> HIDE DEF v
  <2> QED
    BY <2>2, <2>3, <2>4
<1>4. /\ w \in Seq(A) /\ Len(w) = q - p - n
      /\ \A i \in 1..(q - p - n) : w[i] = s[p + n + i]
  <2>1. p + n + 1 \in Int /\ q \in Int /\ \A i \in (p + n + 1)..q : s[i] \in A
    BY <1>1
  <2>2. /\ w \in Seq(A)
        /\ Len(w) = IF p + n + 1 <= q THEN q - (p + n + 1) + 1 ELSE 0
        /\ \A i \in 1..(q - (p + n + 1) + 1) : w[i] = s[(p + n + 1) + i - 1]
    BY <2>1, SubSeqProperties
  <2>3. \A i \in 1..(q - p - n) : /\ i \in 1..(q - (p + n + 1) + 1)
                                  /\ (p + n + 1) + i - 1 = p + n + i
    OBVIOUS
  <2>4. Len(w) = q - p - n
    BY <2>2
  <2> HIDE DEF w
  <2> QED
    BY <2>2, <2>3, <2>4
<1> HIDE DEF v, w
<1>5. \A i \in 1..(q - p - n) : v[i] = w[i]
  <2>1. \A i \in 1..(q - p - n) : n + i \in 1..(q - p) /\ p + (n + i) = p + n + i
    OBVIOUS
  <2> QED
    BY <1>2, <1>3, <1>4, <2>1
<1>6. v = w
  BY <1>3, <1>4, <1>5, SeqEqual
<1> QED
  BY <1>2, <1>6 DEF u, v, w

-----------------------------------------------------------------------------
(* The file and its reader.                                                *)

(* The records as they are written.                                        *)
Encodings == [i \in DOMAIN records |-> Encode(WordsOf(records[i].cmd))]

(* How long the first r records are.                                       *)
Begin(r) == LengthOf(Encodings, r)

(* What is known of a record: its command, and the data when it was        *)
(* written, with the keys that a replay of it gives back.                  *)
LogRecord == [cmd : Workload, data : [Key -> Value \cup {None}], clean : SUBSET Key]

(* The types of what the invariant relates; TypeOK follows.                *)
LifeTypeOK ==
  /\ WellFormed(db)
  /\ now \in Nat
  /\ stage \in {"down", "loading", "serving", "failed"}
  /\ snapshot \in Snapshots
  /\ log \in Seq(Byte)
  /\ chunk \in ChunkSizes
  /\ pending \in Workload \cup {None}
  /\ pending # None => stage = "serving"
  /\ records \in Seq(LogRecord)
  /\ clean \in SUBSET Key

(* What an append that fails leaves behind the complete records.           *)
Partial(t) ==
  \/ t = <<>>
  \/ \E cmd \in Workload : /\ Agrees(t, Encode(WordsOf(cmd)))
                           /\ Len(t) < Len(Encode(WordsOf(cmd)))

(* The file is the records, and at most the beginning of one more.         *)
FileHolds == \E t \in Seq(Byte) : log = Whole \o t /\ Partial(t)

(* The reader has run the first records, and its buffer is the file from   *)
(* the next one on, as far as it has read.                                 *)
ReadHolds ==
  /\ replayed \in Seq(Workload)
  /\ Len(replayed) <= Len(records)
  /\ \A i \in 1..Len(replayed) : replayed[i] = records[i].cmd
  /\ offset \in Nat
  /\ Begin(Len(replayed)) <= offset
  /\ offset <= Len(log)
  /\ buf = SubSeq(log, Begin(Len(replayed)) + 1, offset)
  /\ stage = "serving" => offset = 0 /\ replayed = <<>>

(* The assumptions on the commands, and that a record has a length.        *)
LEMMA WordsRead ==
  ASSUME NEW cmd \in Workload
  PROVE  /\ cmd \in Command /\ cmd # None
         /\ WordsOf(cmd) \in Seq(Seq(Byte)) /\ WordsOf(cmd) # <<>>
         /\ CommandOf(WordsOf(cmd)) = cmd
         /\ Encode(WordsOf(cmd)) \in Seq(Byte) /\ Len(Encode(WordsOf(cmd))) \in Nat \ {0}
<1>1. /\ cmd \in Command /\ cmd # None
      /\ WordsOf(cmd) \in Seq(Seq(Byte)) /\ WordsOf(cmd) # <<>>
      /\ CommandOf(WordsOf(cmd)) = cmd
  BY LogInputs DEF Byte
<1>2. <<>> \in Seq(Byte) /\ Agrees(<<>>, Encode(WordsOf(cmd)))
  BY DEF Agrees
<1>3. Encode(WordsOf(cmd)) \in Seq(Byte) /\ Len(Encode(WordsOf(cmd))) > 0
  BY <1>1, <1>2, RecordRead
<1>4. Len(Encode(WordsOf(cmd))) \in Nat
  BY <1>3, LenProperties
<1> QED
  BY <1>1, <1>3, <1>4

(* The records' encodings, one for each.                                   *)
LEMMA Encoded ==
  ASSUME LifeTypeOK
  PROVE  /\ Len(records) \in Nat
         /\ \A i \in 1..Len(records) : /\ records[i] \in LogRecord
                                       /\ records[i].cmd \in Workload
                                       /\ records[i].clean \subseteq Key
                                       /\ Encodings[i] = Encode(WordsOf(records[i].cmd))
         /\ Encodings \in Seq(Seq(Byte))
         /\ Len(Encodings) = Len(records)
         /\ Whole = FlattenSeq(Encodings)
<1>1. /\ records \in Seq(LogRecord) /\ Len(records) \in Nat
      /\ DOMAIN records = 1..Len(records)
      /\ \A i \in 1..Len(records) : records[i] \in LogRecord
  BY LenProperties, ElementOfSeq DEF LifeTypeOK
<1>2. \A i \in 1..Len(records) : records[i].cmd \in Workload /\ records[i].clean \subseteq Key
  BY <1>1 DEF LogRecord
<1>3. \A i \in 1..Len(records) : Encode(WordsOf(records[i].cmd)) \in Seq(Byte)
  BY <1>2, WordsRead
<1>4. /\ Encodings = [i \in 1..Len(records) |-> Encode(WordsOf(records[i].cmd))]
      /\ \A i \in 1..Len(records) : Encodings[i] = Encode(WordsOf(records[i].cmd))
  BY <1>1 DEF Encodings
<1>5. Encodings \in [1..Len(records) -> Seq(Byte)]
  BY <1>3, <1>4
<1>6. Encodings \in Seq(Seq(Byte)) /\ Len(Encodings) = Len(records)
  <2> HIDE DEF Encodings
  <2> QED
    BY <1>1, <1>5, IsASeq, LenProperties
<1>7. Whole = FlattenSeq(Encodings)
  BY DEF Whole, Encodings
<1> QED
  BY <1>1, <1>2, <1>4, <1>6, <1>7

(* Where the records stand in the file.                                    *)
LEMMA FileLayout ==
  ASSUME LifeTypeOK, NEW t \in Seq(Byte), log = Whole \o t
  PROVE  /\ Whole \in Seq(Byte) /\ Len(Whole) \in Nat /\ Len(t) \in Nat
         /\ Len(log) = Len(Whole) + Len(t) /\ Len(log) \in Nat
         /\ Begin(0) = 0 /\ Begin(Len(records)) = Len(Whole)
         /\ \A i \in 0..Len(records) : Begin(i) \in Nat
         /\ \A i \in 1..Len(records) :
              /\ Begin(i) = Begin(i - 1) + Len(Encodings[i])
              /\ At(log, Begin(i - 1) + 1, Encodings[i])
         /\ At(log, Len(Whole) + 1, t)
<1> DEFINE s == Encodings
<1>1. /\ s \in Seq(Seq(Byte)) /\ Len(s) = Len(records) /\ Whole = FlattenSeq(s)
      /\ Len(records) \in Nat
  BY Encoded
<1> HIDE DEF s
<1>2. /\ FlattenSeq(s) \in Seq(Byte)
      /\ LengthOf(s, 0) = 0
      /\ LengthOf(s, Len(s)) = Len(FlattenSeq(s))
      /\ \A i \in 0..Len(s) : LengthOf(s, i) \in Nat
      /\ \A i \in 1..Len(s) :
           /\ LengthOf(s, i) = LengthOf(s, i - 1) + Len(s[i])
           /\ At(FlattenSeq(s), LengthOf(s, i - 1) + 1, s[i])
  BY <1>1, Lengths
<1>3. \A i : Begin(i) = LengthOf(s, i)
  BY DEF Begin, s
<1>4. Whole \in Seq(Byte) /\ Len(Whole) \in Nat /\ Len(t) \in Nat
  BY <1>1, <1>2, LenProperties
<1>5. Len(log) = Len(Whole) + Len(t)
  BY <1>4, ConcatProperties
<1>6. At(log, Len(Whole) + 1, t)
  BY <1>4, AtEnd
<1>7. ASSUME NEW i \in 1..Len(s)
      PROVE  At(log, LengthOf(s, i - 1) + 1, s[i])
  <2> DEFINE p == LengthOf(s, i - 1) + 1
  <2>1. p \in Nat \ {0} /\ At(Whole, p, s[i]) /\ s[i] \in Seq(Byte)
    <3>1. i - 1 \in 0..Len(s)
      BY <1>1
    <3>2. LengthOf(s, i - 1) \in Nat
      BY <1>2, <3>1
    <3>3. p \in Nat \ {0}
      BY <3>2
    <3>4. s[i] \in Seq(Byte)
      BY <1>1, ElementOfSeq
    <3>5. At(Whole, p, s[i])
      BY <1>1, <1>2
    <3> QED
      BY <3>3, <3>4, <3>5
  <2> HIDE DEF p
  <2>2. At(Whole \o t, p, s[i])
    BY <1>4, <2>1, AtGrows
  <2> QED
    BY <2>2 DEF p
<1> QED
  BY <1>1, <1>2, <1>3, <1>4, <1>5, <1>6, <1>7 DEF s

(* A buffer that begins with t agrees with what t agrees with.             *)
LEMMA AgreesFrom ==
  ASSUME NEW b \in Seq(Byte), NEW t \in Seq(Byte), Len(b) <= Len(t),
         \A j \in 1..Len(b) : b[j] = t[j], NEW r, Agrees(t, r)
  PROVE  Agrees(b, r)
<1>1. Len(b) \in Nat /\ Len(t) \in Nat /\ \A j \in 1..Len(b) : j \in 1..Len(t)
  BY LenProperties
<1> QED
  BY <1>1 DEF Agrees

(* The fields of a command read.                                           *)
LEMMA FieldsOfParsed ==
  ASSUME NEW words, NEW rest
  PROVE  /\ Parsed(words, rest).kind = "command"
         /\ Parsed(words, rest).words = words
         /\ Parsed(words, rest).rest = rest
BY DEF Parsed

(* What the reader makes of its buffer: the next record, and nothing of a  *)
(* part of one.                                                            *)
LEMMA NextRecord ==
  ASSUME LifeTypeOK, FileHolds, ReadHolds
  PROVE  LET n == Len(replayed) + 1
             cmd == records[n].cmd
         IN  /\ buf \in Seq(Byte)
             /\ \/ TryParse(buf) = More
                \/ /\ n \in 1..Len(records)
                   /\ TryParse(buf).kind = "command"
                   /\ TryParse(buf).words = WordsOf(cmd)
                   /\ TryParse(buf).rest = SubSeq(log, Begin(n) + 1, offset)
                   /\ Begin(n) <= offset
             /\ TryParse(buf) = More /\ offset = Len(log) => Len(replayed) = Len(records)
<1> DEFINE n == Len(replayed) + 1
           r == Len(replayed)
           p == Begin(r)
<1>1. PICK t \in Seq(Byte) : log = Whole \o t /\ Partial(t)
  BY DEF FileHolds
<1>2. /\ Len(Whole) \in Nat /\ Len(t) \in Nat
      /\ Len(log) = Len(Whole) + Len(t) /\ Len(log) \in Nat
      /\ Begin(0) = 0 /\ Begin(Len(records)) = Len(Whole)
      /\ \A i \in 0..Len(records) : Begin(i) \in Nat
      /\ \A i \in 1..Len(records) :
           /\ Begin(i) = Begin(i - 1) + Len(Encodings[i])
           /\ At(log, Begin(i - 1) + 1, Encodings[i])
      /\ At(log, Len(Whole) + 1, t)
  BY <1>1, FileLayout
<1>3. /\ r \in Nat /\ r <= Len(records) /\ Len(records) \in Nat
      /\ p <= offset /\ offset <= Len(log) /\ offset \in Nat
      /\ buf = SubSeq(log, p + 1, offset) /\ log \in Seq(Byte)
  BY Encoded, LenProperties DEF ReadHolds, LifeTypeOK
<1>4. p \in Nat
  <2>1. r \in 0..Len(records)
    BY <1>3
  <2> QED
    BY <1>2, <2>1
<1> HIDE DEF p, r
<1>5. /\ buf \in Seq(Byte) /\ Len(buf) = offset - p
      /\ \A j \in 1..(offset - p) : buf[j] = log[p + j]
      /\ \A m \in Nat : p + m <= offset =>
           SubSeq(buf, m + 1, offset - p) = SubSeq(log, p + m + 1, offset)
  <2>1. /\ 0 \in Nat /\ p + 0 <= offset
    BY <1>3, <1>4
  <2> QED
    BY <1>3, <1>4, <2>1, SliceOfSlice
<1>6. CASE r < Len(records)
  <2> DEFINE cmd == records[n].cmd
             e == Encode(WordsOf(cmd))
  <2>1. n \in 1..Len(records) /\ n - 1 = r
    BY <1>3, <1>6 DEF r
  <2>2. /\ cmd \in Workload /\ Encodings[n] = e
        /\ WordsOf(cmd) \in Seq(Seq(Byte)) /\ WordsOf(cmd) # <<>>
        /\ e \in Seq(Byte) /\ Len(e) \in Nat
    BY <2>1, Encoded, WordsRead
  <2> HIDE DEF cmd, n
  <2>3. Begin(n) = p + Len(e) /\ At(log, p + 1, e)
    BY <1>2, <2>1, <2>2 DEF p
  <2> HIDE DEF e
  <2>4. /\ p + 1 + Len(e) <= Len(log) + 1
        /\ \A j \in 1..Len(e) : log[p + j] = e[j]
    <3>1. \A j \in 1..Len(e) : p + 1 + j - 1 = p + j
      BY <1>4, <2>2
    <3> QED
      BY <2>3, <3>1 DEF At
  <2>5. Agrees(buf, e)
    <3>1. ASSUME NEW j \in 1..Len(buf), j <= Len(e)
          PROVE  buf[j] = e[j]
      <4>1. j \in 1..(offset - p) /\ j \in 1..Len(e)
        BY <1>3, <1>4, <1>5, <2>2, <3>1
      <4> QED
        BY <1>5, <2>4, <4>1
    <3> QED
      BY <3>1 DEF Agrees
  <2>6. /\ Len(buf) < Len(e) => TryParse(buf) = More
        /\ Len(buf) >= Len(e) =>
             TryParse(buf) = Parsed(WordsOf(cmd), SubSeq(buf, Len(e) + 1, Len(buf)))
    BY <1>5, <2>2, <2>5, RecordRead DEF e
  <2>7. CASE Len(buf) < Len(e)
    <3>1. TryParse(buf) = More /\ offset # Len(log)
      BY <1>2, <1>3, <1>4, <1>5, <2>2, <2>4, <2>6, <2>7
    <3> QED
      BY <1>5, <3>1
  <2>8. CASE Len(buf) >= Len(e)
    <3>1. p + Len(e) <= offset /\ Begin(n) <= offset /\ Begin(n) + 1 = p + Len(e) + 1
      BY <1>3, <1>4, <1>5, <2>2, <2>3, <2>8
    <3>2. SubSeq(buf, Len(e) + 1, Len(buf)) = SubSeq(log, Begin(n) + 1, offset)
      BY <1>5, <2>2, <3>1
    <3>3. /\ TryParse(buf).kind = "command" /\ TryParse(buf).words = WordsOf(cmd)
          /\ TryParse(buf).rest = SubSeq(log, Begin(n) + 1, offset)
      <4> DEFINE w == WordsOf(cmd)
                 x == SubSeq(log, Begin(n) + 1, offset)
      <4>1. TryParse(buf) = Parsed(w, x)
        BY <2>6, <2>8, <3>2
      <4> HIDE DEF w, x
      <4>2. TryParse(buf).kind = "command" /\ TryParse(buf).words = w /\ TryParse(buf).rest = x
        BY <4>1, FieldsOfParsed
      <4> QED
        BY <4>2 DEF w, x
    <3>4. TryParse(buf) # More
      BY <3>3 DEF More
    <3> QED
      BY <1>5, <2>1, <3>1, <3>3, <3>4 DEF cmd, n
  <2>9. Len(buf) < Len(e) \/ Len(buf) >= Len(e)
    BY <1>3, <1>4, <1>5, <2>2
  <2> QED
    BY <2>7, <2>8, <2>9
<1>7. CASE r = Len(records)
  <2>1. p = Len(Whole) /\ Len(buf) <= Len(t) /\ Len(buf) \in Nat
    <3>1. p = Len(Whole)
      BY <1>2, <1>7 DEF p
    <3>2. Len(buf) = offset - p /\ offset <= p + Len(t)
      BY <1>2, <1>3, <1>5, <3>1
    <3>3. Len(buf) \in Nat
      BY <1>5, LenProperties
    <3> QED
      BY <1>2, <1>3, <1>4, <3>1, <3>2, <3>3
  <2>2. \A j \in 1..Len(buf) : buf[j] = t[j]
    <3>1. \A j \in 1..Len(t) : log[p + 1 + j - 1] = t[j]
      BY <1>2, <2>1 DEF At
    <3>2. \A j \in 1..Len(buf) : /\ j \in 1..Len(t) /\ p + 1 + j - 1 = p + j
                                 /\ j \in 1..(offset - p)
      BY <1>2, <1>4, <1>5, <2>1
    <3> QED
      BY <1>5, <3>1, <3>2
  <2>3. TryParse(buf) = More
    <3>1. CASE t = <<>>
      <4>1. Len(t) = 0
        BY <3>1
      <4>2. Len(buf) = 0
        BY <1>2, <2>1, <4>1
      <4>3. buf = <<>>
        BY <1>5, <4>2, EmptySequence
      <4> QED
        BY <4>3 DEF TryParse
    <3>2. ASSUME NEW cmd \in Workload, Agrees(t, Encode(WordsOf(cmd))),
                 Len(t) < Len(Encode(WordsOf(cmd)))
          PROVE  TryParse(buf) = More
      <4> DEFINE e == Encode(WordsOf(cmd))
      <4>1. /\ WordsOf(cmd) \in Seq(Seq(Byte)) /\ WordsOf(cmd) # <<>>
            /\ Len(e) \in Nat
        BY WordsRead
      <4>2. Agrees(buf, e)
        BY <1>5, <2>1, <2>2, <3>2, AgreesFrom
      <4>3. Len(buf) < Len(e) => TryParse(buf) = More
        BY <1>5, <4>1, <4>2, RecordRead
      <4>4. Len(buf) < Len(e)
        BY <1>2, <2>1, <3>2, <4>1
      <4> QED
        BY <4>3, <4>4
    <3> QED
      BY <1>1, <3>1, <3>2 DEF Partial
  <2> QED
    BY <1>5, <1>7, <2>3 DEF r
<1> QED
  BY <1>3, <1>6, <1>7

-----------------------------------------------------------------------------
(* What a start loads.                                                     *)

(* What a start may load: no key has a deadline.                           *)
Fresh == {d \in DB : WellFormed(d) /\ \A k \in Key : d.expires[k] = None}

(* A pair of a snapshot is loaded by a SET.                                *)
Setting(item) == CommandOf(<<SetWord, item[1], item[2]>>)

PlainSet(cmd) == cmd \in Command /\ cmd.op = "SET" /\ cmd.ttl = None

(* A SET without a deadline writes its value and no deadline.              *)
LEMMA FreshSets ==
  ASSUME NEW d \in Fresh, NEW t \in Nat, NEW cmd, PlainSet(cmd)
  PROVE  /\ Dispatch(d, t, cmd).db \in Fresh
         /\ Dispatch(d, t, cmd).db.data = [d.data EXCEPT ![cmd.key] = StrOf(cmd.val)]
<1> DEFINE e == Dispatch(d, t, cmd).db
           g == [d EXCEPT !.data[cmd.key] = StrOf(cmd.val), !.expires[cmd.key] = None]
<1>1. /\ cmd.key \in Key /\ cmd \in Command /\ WellFormed(d) /\ d \in DB
      /\ \A k \in Key : d.expires[k] = None
  BY ArgumentTypes DEF PlainSet, Writers, Fresh
<1>2. WellFormed(e) /\ e \in DB
  BY <1>1, DispatchKeeps DEF WellFormed
<1>3. e = Bump(g, cmd.key)
  BY DEF PlainSet, Dispatch, Set, Result
<1>4. g.data = [d.data EXCEPT ![cmd.key] = StrOf(cmd.val)]
      /\ g.expires = [d.expires EXCEPT ![cmd.key] = None]
  BY <1>1 DEF DB
<1> HIDE DEF g
<1>5. Bump(g, cmd.key).data = g.data /\ Bump(g, cmd.key).expires = g.expires
  <2>1. g = [d EXCEPT !.data[cmd.key] = StrOf(cmd.val), !.expires[cmd.key] = None]
    BY DEF g
  <2> QED
    BY <1>1, <2>1 DEF Bump, DB
<1>6. \A k \in Key : e.expires[k] = None
  BY <1>1, <1>3, <1>4, <1>5 DEF DB
<1> QED
  BY <1>2, <1>3, <1>4, <1>5, <1>6 DEF Fresh

(* The file as a start at t would load it.                                 *)
LoadedAt(file, t) ==
  IF file = None THEN EmptyDB
  ELSE FoldLeft(LAMBDA d, item :
                  Dispatch(d, t, CommandOf(<<SetWord, item[1], item[2]>>)).db,
                EmptyDB, LoadRdb(file).items)

(* h[m] is what the first m pairs of s load at t.                          *)
LoadSteps(h, s, t) ==
  /\ h \in [0..Len(s) -> Fresh]
  /\ h[0] = EmptyDB
  /\ \A m \in 1..Len(s) : h[m] = Dispatch(h[m - 1], t, Setting(s[m])).db

(* The fold of a start runs the pairs of the snapshot one by one.          *)
LEMMA LoadRuns ==
  ASSUME NEW I, NEW s \in Seq(I), \A x \in I : PlainSet(Setting(x)), NEW t \in Nat
  PROVE  \E h : /\ LoadSteps(h, s, t)
                /\ h[Len(s)] = FoldLeft(LAMBDA d, item :
                     Dispatch(d, t, CommandOf(<<SetWord, item[1], item[2]>>)).db,
                     EmptyDB, s)
<1> DEFINE n == Len(s)
           B(i, r) == Dispatch(r, t, CommandOf(<<SetWord, s[i][1], s[i][2]>>)).db
           g == [i \in 1..n |-> [r \in Fresh |-> B(i, r)]]
           F(it) == it = [u \in SUBSET DOMAIN s |->
                            IF u = {} THEN EmptyDB ELSE B(Max(u), it[u \ {Max(u)}])]
           f == CHOOSE it : F(it)
<1>1. f[DOMAIN s] = FoldLeft(LAMBDA d, item :
                     Dispatch(d, t, CommandOf(<<SetWord, item[1], item[2]>>)).db,
                     EmptyDB, s)
  BY DEF FoldLeft, MapThenFoldSet
<1>2. n \in Nat /\ DOMAIN s = 1..n /\ \A i \in 1..n : s[i] \in I
  BY LenProperties, ElementOfSeq
<1>3. \A i, r : B(i, r) = Dispatch(r, t, Setting(s[i])).db
  BY DEF Setting
<1>4. EmptyDB \in Fresh
  <2>1. WellFormed(EmptyDB)
    BY EmptyIsWellFormed
  <2> QED
    BY <2>1 DEF Fresh, WellFormed, EmptyDB
<1>5. g \in [1..n -> [Fresh -> Fresh]]
  <2>1. \A i \in 1..n : \A r \in Fresh : B(i, r) \in Fresh
    <3>1. SUFFICES ASSUME NEW i \in 1..n, NEW r \in Fresh
                   PROVE  B(i, r) \in Fresh
      OBVIOUS
    <3>2. PlainSet(Setting(s[i]))
      BY <1>2
    <3>3. Dispatch(r, t, Setting(s[i])).db \in Fresh
      BY <3>2, FreshSets
    <3>4. B(i, r) = Dispatch(r, t, Setting(s[i])).db
      BY DEF Setting
    <3> QED
      BY <3>3, <3>4
  <2> HIDE DEF B
  <2> QED
    BY <2>1
<1>6. \A i \in 1..n : \A r \in Fresh : g[i][r] = B(i, r)
  OBVIOUS
<1> HIDE DEF g, n, B
<1>7. \E it : F(it)
  <2>1. PICK it : Folds(it, EmptyDB, g, Fresh, n)
    BY <1>2, <1>4, <1>5, FoldExists
  <2>2. ASSUME NEW u \in SUBSET (1..n), u # {}
        PROVE  Max(u) \in 1..n /\ it[u \ {Max(u)}] \in Fresh
    <3>1. Max(u) \in u
      BY <1>2, <2>2, MaxIsMember
    <3> QED
      BY <2>1, <3>1 DEF Folds
  <2> DEFINE G(u) == IF u = {} THEN EmptyDB ELSE B(Max(u), it[u \ {Max(u)}])
  <2>3. ASSUME NEW u \in SUBSET (1..n)
        PROVE  it[u] = G(u)
    <3>1. CASE u = {}
      BY <2>1, <3>1 DEF Folds
    <3>2. CASE u # {}
      <4>1. it[u] = g[Max(u)][it[u \ {Max(u)}]]
        BY <2>1, <3>2 DEF Folds
      <4> QED
        BY <1>6, <2>2, <3>2, <4>1
    <3> QED
      BY <3>1, <3>2
  <2>4. it = [u \in SUBSET DOMAIN s |-> it[u]]
    BY <1>2, <2>1 DEF Folds
  <2> HIDE DEF G
  <2>5. it = [u \in SUBSET DOMAIN s |-> G(u)]
    BY <1>2, <2>3, <2>4
  <2> QED
    BY <2>5 DEF G
<1>8. F(f)
  BY <1>7
<1> HIDE DEF f
<1>9. f[{}] = EmptyDB
  BY <1>8
<1>10. ASSUME NEW m \in 1..n, f[1..(m - 1)] \in Fresh
       PROVE  f[1..m] = g[m][f[1..(m - 1)]]
  <2>1. /\ 1..m \in SUBSET DOMAIN s /\ 1..m # {}
        /\ Max(1..m) = m /\ (1..m) \ {m} = 1..(m - 1)
    BY <1>2, PrefixSets
  <2>2. f[1..m] = B(m, f[1..(m - 1)])
    BY <1>8, <2>1
  <2> QED
    BY <1>6, <1>10, <2>2
<1>11. PICK h : Runs(h, f, EmptyDB, g, Fresh, n)
  <2>1. Extends(f, EmptyDB, g, Fresh, n)
    BY <1>9, <1>10 DEF Extends
  <2> QED
    BY <1>2, <1>4, <1>5, <2>1, FoldRuns
<1>12. ASSUME NEW m \in 1..n
       PROVE  h[m] = Dispatch(h[m - 1], t, Setting(s[m])).db
  <2>1. h[m - 1] \in Fresh
    <3>1. m - 1 \in 0..n
      BY <1>2
    <3> QED
      BY <1>11, <3>1 DEF Runs
  <2>2. h[m] = g[m][h[m - 1]]
    BY <1>11 DEF Runs
  <2> QED
    BY <1>3, <1>6, <2>1, <2>2
<1> QED
  BY <1>1, <1>2, <1>11, <1>12 DEF n, Runs, LoadSteps

(* The clock does not matter to what is loaded, and nothing expires.       *)
LEMMA LoadedIsFresh ==
  ASSUME NEW s \in Snapshots, s.file = None \/ LoadRdb(s.file).ok, NEW t \in Nat
  PROVE  /\ LoadedAt(s.file, t) \in Fresh
         /\ LoadedAt(s.file, t).data = LoadedAt(s.file, 0).data
<1>1. CASE s.file = None
  <2>1. EmptyDB \in Fresh
    BY EmptyIsWellFormed DEF Fresh, WellFormed, EmptyDB
  <2> QED
    BY <1>1, <2>1 DEF LoadedAt
<1>2. CASE s.file # None
  <2> DEFINE items == LoadRdb(s.file).items
             I == ToSet(items)
             n == Len(items)
  <2>1. LoadRdb(s.file).ok
    BY <1>2
  <2>2. items \in Seq(I) /\ \A x \in I : PlainSet(Setting(x))
    BY <1>2, <2>1, SnapshotInputs DEF PlainSet, Setting
  <2> HIDE DEF items, I
  <2>3. PICK h : LoadSteps(h, items, t) /\ h[n] = LoadedAt(s.file, t)
    BY <1>2, <2>2, LoadRuns DEF LoadedAt, items
  <2>4. PICK g : LoadSteps(g, items, 0) /\ g[n] = LoadedAt(s.file, 0)
    <3>1. 0 \in Nat
      OBVIOUS
    <3> QED
      BY <1>2, <2>2, <3>1, LoadRuns DEF LoadedAt, items
  <2>5. n \in Nat /\ \A m \in 1..n : items[m] \in I
    BY <2>2, LenProperties, ElementOfSeq
  <2> HIDE DEF n
  <2>6. /\ h \in [0..n -> Fresh] /\ g \in [0..n -> Fresh]
        /\ h[0] = EmptyDB /\ g[0] = EmptyDB
        /\ \A m \in 1..n : h[m] = Dispatch(h[m - 1], t, Setting(items[m])).db
        /\ \A m \in 1..n : g[m] = Dispatch(g[m - 1], 0, Setting(items[m])).db
    BY <2>3, <2>4 DEF LoadSteps, n
  <2> DEFINE N == {m \in Nat : m <= n => h[m].data = g[m].data}
  <2>7. 0 \in N
    BY <2>6
  <2>8. ASSUME NEW m \in N, m + 1 <= n
        PROVE  h[m + 1].data = g[m + 1].data
    <3> DEFINE cmd == Setting(items[m + 1])
    <3>1. m \in 0..n /\ m + 1 \in 1..n /\ (m + 1) - 1 = m /\ h[m].data = g[m].data
      BY <2>5, <2>8
    <3>2. PlainSet(cmd) /\ h[m] \in Fresh /\ g[m] \in Fresh
      BY <2>2, <2>5, <2>6, <3>1
    <3>3. h[m + 1] = Dispatch(h[m], t, cmd).db /\ g[m + 1] = Dispatch(g[m], 0, cmd).db
      BY <2>6, <3>1
    <3> HIDE DEF cmd
    <3> DEFINE x == h[m]
               y == g[m]
    <3>4. x \in Fresh /\ y \in Fresh /\ x.data = y.data /\ 0 \in Nat
      BY <3>1, <3>2
    <3>5. h[m + 1].data = Dispatch(x, t, cmd).db.data
          /\ g[m + 1].data = Dispatch(y, 0, cmd).db.data
      BY <3>3
    <3> HIDE DEF x, y
    <3>6. Dispatch(x, t, cmd).db.data = [x.data EXCEPT ![cmd.key] = StrOf(cmd.val)]
      BY <3>2, <3>4, FreshSets
    <3>7. \A z \in Nat : Dispatch(y, z, cmd).db.data = [y.data EXCEPT ![cmd.key] = StrOf(cmd.val)]
      BY <3>2, <3>4, FreshSets
    <3> QED
      BY <3>4, <3>5, <3>6, <3>7
  <2>9. N = Nat
    <3>1. \A m \in N : m + 1 \in N
      BY <2>8
    <3> N \in SUBSET Nat
      OBVIOUS
    <3> HIDE DEF N
    <3> QED
      BY <2>7, <3>1, Induction
  <2>10. h[n].data = g[n].data
    <3>1. n \in N /\ n <= n
      <4> HIDE DEF N
      <4> QED
        BY <2>5, <2>9
    <3> QED
      BY <3>1
  <2>11. h[n] \in Fresh
    BY <2>5, <2>6
  <2> QED
    BY <2>3, <2>4, <2>10, <2>11 DEF n
<1> QED
  BY <1>1, <1>2

(* What Start loads, at its clock.                                         *)
LEMMA LoadedNow == Loaded = LoadedAt(snapshot.file, now)
BY DEF Loaded, LoadedAt

-----------------------------------------------------------------------------
(* The data.                                                               *)

(* The keys the first n records rebuild, and what they rebuild.            *)
Rebuilt(n) == IF n = 0 THEN Key ELSE records[n].clean
Was(n, k) == IF n = 0 THEN LoadedAt(snapshot.file, 0).data[k] ELSE records[n].data[k]

(* Each record settles a clean key, or makes of what was rebuilt before    *)
(* what it made of it when it was written.                                 *)
LogHolds ==
  \A n \in 1..Len(records) : \A k \in records[n].clean :
    IF Settles(records[n].cmd) /\ records[n].cmd.key = k
      THEN records[n].data[k] = SettledAs(records[n].cmd)
      ELSE /\ k \in Rebuilt(n - 1)
           /\ Rebuilds(Was(n - 1, k), records[n].cmd, records[n].data[k], k)

(* The data served agree with the records, and so do the data behind a     *)
(* write that waits to be appended, once it is.                            *)
ServeHolds ==
  /\ clean \subseteq Rebuilt(Len(records))
  /\ stage = "serving" /\ pending = None =>
       \A k \in clean : db.expires[k] = None /\ db.data[k] = Was(Len(records), k)
  /\ stage = "serving" /\ pending # None =>
       \A k \in CleanAfter(clean, pending) :
         /\ k \in Key
         /\ db.expires[k] = None
         /\ IF Settles(pending) /\ pending.key = k THEN db.data[k] = SettledAs(pending)
            ELSE k \in clean /\ Rebuilds(Was(Len(records), k), pending, db.data[k], k)

(* A start has rebuilt what the records it has run rebuild.                *)
StartHolds ==
  LET n == Len(replayed)
  IN  /\ stage = "loading" \/ (stage = "failed" /\ n > 0) =>
           \A k \in Rebuilt(n) : db.expires[k] = None /\ db.data[k] = Was(n, k)
      /\ stage = "failed" /\ n > 0 => \A k \in Rebuilt(n) : replayed[n].key # k

(* The parts together.                                                     *)
Holds == LifeTypeOK /\ FileHolds /\ ReadHolds /\ LogHolds /\ ServeHolds /\ StartHolds

(* Nothing is said of a file that was appended to behind a torn record.    *)
IInv == spoiled \in BOOLEAN /\ (~spoiled => Holds)

(* A server that never ran has no records and no file.                     *)
LEMMA InitHolds == Init => IInv
<1> SUFFICES ASSUME Init PROVE IInv
  OBVIOUS
<1> USE DEF Init
<1>1. LifeTypeOK
  <2>1. WellFormed(db)
    BY EmptyIsWellFormed
  <2>2. records \in Seq(LogRecord) /\ log \in Seq(Byte) /\ now \in Nat
    OBVIOUS
  <2> QED
    BY <2>1, <2>2 DEF LifeTypeOK
<1>2. FileHolds
  <2>1. Whole = <<>>
    <3>1. [i \in DOMAIN records |-> Encode(WordsOf(records[i].cmd))] = <<>>
      OBVIOUS
    <3> QED
      BY <3>1, FlattenOfEmpty DEF Whole
  <2>2. <<>> \in Seq(Byte) /\ log = Whole \o <<>>
    BY <2>1
  <2> QED
    BY <2>2 DEF FileHolds, Partial
<1>3. ReadHolds
  <2>1. Len(replayed) = 0 /\ Len(records) = 0 /\ Len(log) = 0 /\ offset = 0
    OBVIOUS
  <2>2. PICK t \in Seq(Byte) : log = Whole \o t
    BY <1>2 DEF FileHolds
  <2>3. Begin(0) = 0
    BY <1>1, <2>2, FileLayout
  <2>4. SubSeq(log, 1, 0) = <<>>
    BY SubSeqEmpty
  <2>5. replayed \in Seq(Workload)
    OBVIOUS
  <2> QED
    BY <2>1, <2>3, <2>4, <2>5 DEF ReadHolds
<1>4. LogHolds
  BY DEF LogHolds
<1>5. ServeHolds /\ StartHolds
  BY DEF ServeHolds, StartHolds, Rebuilt
<1> QED
  BY <1>1, <1>2, <1>3, <1>4, <1>5 DEF IInv, Holds

-----------------------------------------------------------------------------
(* The steps.  First what a step keeps that leaves a part alone.           *)

(* A step that leaves the file and the snapshot alone.                     *)
LEMMA FileStays ==
  ASSUME FileHolds, LogHolds, UNCHANGED <<log, records, snapshot>>
  PROVE  /\ FileHolds' /\ LogHolds'
         /\ \A i : (Begin(i))' = Begin(i)
<1>1. Encodings' = Encodings /\ Whole' = Whole
  BY DEF Encodings, Whole
<1>2. FileHolds'
  BY <1>1 DEF FileHolds
<1>3. \A i : (Begin(i))' = Begin(i)
  BY <1>1 DEF Begin
<1>4. LogHolds'
  BY DEF LogHolds, Rebuilt, Was
<1> QED
  BY <1>2, <1>3, <1>4

(* A step that leaves the reader alone, too.                               *)
LEMMA ReadStays ==
  ASSUME FileHolds, LogHolds, ReadHolds,
         UNCHANGED <<log, records, snapshot, offset, buf, replayed>>,
         stage' = "serving" => stage = "serving"
  PROVE  FileHolds' /\ LogHolds' /\ ReadHolds'
<1>1. FileHolds' /\ LogHolds' /\ \A i : (Begin(i))' = Begin(i)
  BY FileStays
<1> QED
  BY <1>1 DEF ReadHolds

(* Nothing is before the first record.                                     *)
LEMMA BeginsAtNought == \A s : LengthOf(s, 0) = 0
<1>1. \A s : SubSeq(s, 1, 0) = <<>>
  BY SubSeqEmpty
<1>2. Len(<<>>) = 0
  BY EmptySeq
<1> QED
  BY <1>1, <1>2, FlattenOfEmpty DEF LengthOf

(* A reader that has read nothing.                                         *)
LEMMA ReadAfresh ==
  ASSUME LifeTypeOK', offset' = 0, buf' = <<>>, replayed' = <<>>
  PROVE  ReadHolds'
<1>1. (Begin(0))' = 0
  BY BeginsAtNought DEF Begin
<1>2. SubSeq(log', 1, 0) = <<>>
  BY SubSeqEmpty
<1>3. Len(records') \in Nat /\ Len(log') \in Nat
  <2>1. records' \in Seq(LogRecord) /\ log' \in Seq(Byte)
    BY DEF LifeTypeOK
  <2> QED
    BY <2>1, LenProperties
<1>4. Len(replayed') = 0 /\ replayed' \in Seq(Workload)
  OBVIOUS
<1> QED
  BY <1>1, <1>2, <1>3, <1>4 DEF ReadHolds

(* A start loads the snapshot and reads from the beginning.                *)
LEMMA StartStep ==
  ASSUME Holds, Start
  PROVE  Holds'
<1> USE DEF Start
<1>1. LifeTypeOK /\ FileHolds /\ LogHolds /\ ReadHolds /\ pending = None
  BY DEF Holds, LifeTypeOK
<1>2. Loads => /\ Loaded \in Fresh
               /\ \A k \in Key : Loaded.data[k] = LoadedAt(snapshot.file, 0).data[k]
  BY <1>1, LoadedNow, LoadedIsFresh DEF Loads, LifeTypeOK
<1>3. LifeTypeOK'
  <2>1. WellFormed(db')
    BY <1>2, EmptyIsWellFormed DEF Fresh
  <2>2. stage' \in {"down", "loading", "serving", "failed"}
    OBVIOUS
  <2> QED
    BY <1>1, <2>1, <2>2 DEF LifeTypeOK
<1>4. FileHolds' /\ LogHolds'
  BY <1>1, FileStays
<1>5. ReadHolds'
  BY <1>3, ReadAfresh
<1>6. ServeHolds'
  BY DEF Holds, ServeHolds, Rebuilt
<1>7. StartHolds'
  <2>1. Len(replayed') = 0 /\ (Rebuilt(0))' = Key
    BY DEF Rebuilt
  <2>2. \A k : (Was(0, k))' = LoadedAt(snapshot.file, 0).data[k]
    BY DEF Was
  <2>3. stage' = "loading" => Loads /\ db' = Loaded
    OBVIOUS
  <2>4. stage' = "loading" =>
          \A k \in Key : db'.expires[k] = None /\ db'.data[k] = (Was(0, k))'
    BY <1>2, <2>2, <2>3 DEF Fresh
  <2> QED
    BY <2>1, <2>4 DEF StartHolds
<1> QED
  BY <1>3, <1>4, <1>5, <1>6, <1>7 DEF Holds

(* A chunk read is the next slice of the file.                             *)
LEMMA FeedStep ==
  ASSUME Holds, Feed
  PROVE  Holds'
<1> DEFINE p == Begin(Len(replayed))
           n == Lesser(chunk, Len(log) - offset)
<1>1. LifeTypeOK /\ FileHolds /\ LogHolds /\ ReadHolds
  BY DEF Holds
<1>2. /\ buf' = buf \o SubSeq(log, offset + 1, offset + n) /\ offset' = offset + n
      /\ offset < Len(log) /\ stage = "loading"
      /\ UNCHANGED <<db, now, stage, snapshot, log, chunk, pending, replayed,
                     records, clean, spoiled>>
  BY DEF Feed
<1>3. LifeTypeOK'
  BY <1>1, <1>2 DEF LifeTypeOK
<1>4. FileHolds' /\ LogHolds' /\ \A i : (Begin(i))' = Begin(i)
  BY <1>1, <1>2, FileStays
<1>5. /\ p \in Nat /\ p <= offset /\ offset \in Nat /\ offset <= Len(log)
      /\ Len(log) \in Nat /\ log \in Seq(Byte)
      /\ buf = SubSeq(log, p + 1, offset)
  <2>1. PICK t \in Seq(Byte) : log = Whole \o t
    BY <1>1 DEF FileHolds
  <2>2. Len(replayed) \in 0..Len(records)
    BY <1>1, Encoded, LenProperties DEF ReadHolds
  <2>3. p \in Nat /\ Len(log) \in Nat
    BY <1>1, <2>1, <2>2, FileLayout
  <2> QED
    BY <1>1, <2>3 DEF ReadHolds, LifeTypeOK
<1>6. n \in Nat /\ offset + n <= Len(log)
  <2>1. chunk \in Nat
    BY <1>1, LogInputs DEF LifeTypeOK
  <2> QED
    BY <1>2, <1>5, <2>1 DEF Lesser
<1> HIDE DEF n, p
<1>7. buf' = SubSeq(log, p + 1, offset + n)
  <2> DEFINE q == offset + n
  <2>1. p + 1 \in 1..(Len(log) + 1) /\ offset \in ((p + 1) - 1)..Len(log)
        /\ q \in offset..Len(log)
    BY <1>5, <1>6
  <2> HIDE DEF q
  <2>2. SubSeq(log, p + 1, offset) \o SubSeq(log, offset + 1, q) = SubSeq(log, p + 1, q)
    BY <1>5, <2>1, ConcatAdjacentSubSeq
  <2> QED
    BY <1>2, <1>5, <2>2 DEF q
<1>8. ReadHolds'
  <2>1. offset' \in Nat /\ p <= offset' /\ offset' <= Len(log')
    BY <1>2, <1>5, <1>6
  <2>2. buf' = SubSeq(log', p + 1, offset') /\ (Begin(Len(replayed)))' = p
    BY <1>2, <1>4, <1>7 DEF p
  <2>3. stage' # "serving"
    BY <1>2
  <2> QED
    BY <1>1, <1>2, <2>1, <2>2, <2>3 DEF ReadHolds
<1>9. ServeHolds' /\ StartHolds'
  BY <1>2 DEF Holds, ServeHolds, StartHolds, Rebuilt, Was
<1> QED
  BY <1>3, <1>4, <1>8, <1>9 DEF Holds

(* The command that is next in the buffer is the next record's, and        *)
(* running it gives the clean keys what they had when it was written.      *)
LEMMA ReplayStep ==
  ASSUME Holds, Replay
  PROVE  Holds'
<1> DEFINE r == Len(replayed)
           n == r + 1
           cmd == records[n].cmd
           d == Dispatch(db, now, cmd)
<1>1. LifeTypeOK /\ FileHolds /\ LogHolds /\ ReadHolds
  BY DEF Holds
<1>2. /\ stage = "loading" /\ TryParse(buf).kind = "command"
      /\ UNCHANGED <<now, snapshot, log, chunk, offset, pending, records, clean, spoiled>>
  BY DEF Replay
<1>3. /\ n \in 1..Len(records) /\ TryParse(buf).words = WordsOf(cmd)
      /\ TryParse(buf).rest = SubSeq(log, Begin(n) + 1, offset)
      /\ Begin(n) <= offset
  <2>1. TryParse(buf) # More
    BY <1>2 DEF More
  <2> QED
    BY <1>1, <2>1, NextRecord
<1>4. /\ cmd \in Workload /\ cmd \in Command /\ records[n] \in LogRecord
      /\ WordsOf(cmd) # <<>> /\ CommandOf(WordsOf(cmd)) = cmd
      /\ Len(records) \in Nat /\ records[n].clean \subseteq Key
      /\ r \in Nat /\ n # 0 /\ n - 1 = r
  <2>1. r \in Nat
    BY <1>1, LenProperties DEF ReadHolds
  <2>2. n # 0 /\ n - 1 = r
    BY <2>1
  <2> HIDE DEF r, n
  <2> QED
    BY <1>1, <1>3, <2>1, <2>2, Encoded, WordsRead
<1>5. /\ buf' = SubSeq(log, Begin(n) + 1, offset)
      /\ db' = d.db
      /\ stage' = IF d.reply = Raise THEN "failed" ELSE stage
      /\ replayed' = Append(replayed, cmd)
  <2> HIDE DEF n, cmd
  <2> QED
    BY <1>3, <1>4 DEF Replay
<1>6. /\ replayed' \in Seq(Workload) /\ Len(replayed') = n
      /\ \A i \in 1..n : replayed'[i] = records[i].cmd
  <2>1. replayed \in Seq(Workload) /\ \A i \in 1..r : replayed[i] = records[i].cmd
    BY <1>1 DEF ReadHolds
  <2>2. /\ replayed' \in Seq(Workload) /\ Len(replayed') = r + 1
        /\ \A i \in 1..r : replayed'[i] = replayed[i]
        /\ replayed'[r + 1] = cmd
    BY <1>4, <1>5, <2>1, AppendProperties
  <2>3. \A i \in 1..n : i \in 1..r \/ i = r + 1
    BY <1>4
  <2> QED
    BY <2>1, <2>2, <2>3
<1> HIDE DEF r, n, cmd, d
<1>7. LifeTypeOK'
  <2>1. WellFormed(db')
    BY <1>1, <1>4, <1>5, DispatchKeeps DEF d, LifeTypeOK
  <2>2. stage' \in {"down", "loading", "serving", "failed"} /\ pending = None
    BY <1>1, <1>2, <1>5 DEF LifeTypeOK
  <2> QED
    BY <1>1, <1>2, <2>1, <2>2 DEF LifeTypeOK
<1>8. FileHolds' /\ LogHolds' /\ \A i : (Begin(i))' = Begin(i)
  BY <1>1, <1>2, FileStays
<1>9. stage' \in {"loading", "failed"} /\ (stage' = "failed" => d.reply = Raise)
  BY <1>2, <1>5
<1>10. ReadHolds'
  <2>1. offset' \in Nat /\ offset' <= Len(log') /\ log' = log /\ offset' = offset
    BY <1>1, <1>2 DEF ReadHolds
  <2>2. (Begin(Len(replayed)))' = Begin(n)
    BY <1>6, <1>8
  <2>3. Len(replayed') <= Len(records') /\ records' = records
    BY <1>2, <1>3, <1>4, <1>6
  <2>4. buf' = SubSeq(log', Begin(n) + 1, offset')
    BY <1>5, <2>1
  <2>5. \A i \in 1..Len(replayed') : replayed'[i] = records'[i].cmd
    BY <1>6, <2>3
  <2> QED
    BY <1>3, <1>6, <1>9, <2>1, <2>2, <2>3, <2>4, <2>5 DEF ReadHolds
<1>11. ServeHolds'
  BY <1>2, <1>9 DEF Holds, ServeHolds, Rebuilt
<1>12. ASSUME NEW k \in records[n].clean
       PROVE  /\ db'.expires[k] = None /\ db'.data[k] = records[n].data[k]
              /\ stage' = "failed" => cmd.key # k
  <2>1. k \in Key /\ WellFormed(db) /\ now \in Nat
    BY <1>1, <1>4 DEF LifeTypeOK
  <2>2. CASE Settles(cmd) /\ cmd.key = k
    <3>1. /\ d.db.data[k] = SettledAs(cmd) /\ d.db.expires[k] = None
          /\ d.reply \notin {Error, Raise}
      BY <2>1, <2>2, Settled DEF d
    <3>2. records[n].data[k] = SettledAs(cmd)
      BY <1>1, <1>3, <2>2 DEF LogHolds, cmd
    <3> QED
      BY <1>5, <1>9, <3>1, <3>2
  <2>3. CASE ~(Settles(cmd) /\ cmd.key = k)
    <3>1. k \in Rebuilt(r) /\ Rebuilds(Was(r, k), cmd, records[n].data[k], k)
      BY <1>1, <1>3, <1>4, <2>3 DEF LogHolds, cmd
    <3>2. db.expires[k] = None /\ db.data[k] = Was(r, k)
      BY <1>2, <3>1 DEF Holds, StartHolds, r
    <3>3. /\ Dispatch(db, now, cmd).db.data[k] = records[n].data[k]
          /\ Dispatch(db, now, cmd).db.expires[k] = None
          /\ cmd.key = k => Dispatch(db, now, cmd).reply # Raise
      BY <2>1, <3>1, <3>2, Zenon DEF Rebuilds
    <3> QED
      BY <1>5, <1>9, <3>3 DEF d
  <2> QED
    BY <2>2, <2>3
<1>13. StartHolds'
  <2>1. /\ \A i : (Rebuilt(i))' = Rebuilt(i)
        /\ \A i, k : (Was(i, k))' = Was(i, k)
    BY <1>2 DEF Rebuilt, Was
  <2>2. Rebuilt(n) = records[n].clean /\ \A k : Was(n, k) = records[n].data[k]
    BY <1>4 DEF Rebuilt, Was
  <2>3. replayed'[n] = cmd
    <3>1. n \in 1..n
      BY <1>3
    <3> QED
      BY <1>6, <3>1 DEF cmd
  <2>4. \A k \in Rebuilt(n) : /\ db'.expires[k] = None /\ db'.data[k] = Was(n, k)
                              /\ stage' = "failed" => replayed'[n].key # k
    BY <1>12, <2>2, <2>3
  <2> QED
    BY <1>6, <2>1, <2>4 DEF StartHolds
<1> QED
  BY <1>7, <1>8, <1>10, <1>11, <1>13 DEF Holds

(* The reader never raises.                                                *)
LEMMA RaisesStep ==
  ASSUME Holds, ReplayRaises
  PROVE  FALSE
<1>1. TryParse(buf) = More \/ TryParse(buf).kind = "command"
  BY NextRecord DEF Holds
<1>2. TryParse(buf) \in {Malformed, Raised}
  BY DEF ReplayRaises
<1> QED
  BY <1>1, <1>2 DEF More, Malformed, Raised

(* A start that found the end of the file serves: no whole record is left  *)
(* in the buffer, so it has run them all.                                  *)
LEMMA ServeStep ==
  ASSUME Holds, Serve
  PROVE  Holds'
<1>1. LifeTypeOK /\ FileHolds /\ LogHolds /\ ReadHolds /\ ServeHolds
  BY DEF Holds
<1>2. /\ stage = "loading" /\ TryParse(buf) = More /\ offset = Len(log)
      /\ stage' = "serving" /\ offset' = 0 /\ buf' = <<>> /\ replayed' = <<>>
      /\ UNCHANGED <<db, now, snapshot, log, chunk, pending, records, clean, spoiled>>
  BY DEF Serve, Exhausted
<1>3. LifeTypeOK' /\ pending = None
  BY <1>1, <1>2 DEF LifeTypeOK
<1>4. FileHolds' /\ LogHolds'
  BY <1>1, <1>2, FileStays
<1>5. ReadHolds'
  BY <1>2, <1>3, ReadAfresh
<1>6. Len(replayed) = Len(records)
  BY <1>1, <1>2, NextRecord
<1>7. \A k \in Rebuilt(Len(records)) :
        db.expires[k] = None /\ db.data[k] = Was(Len(records), k)
  BY <1>2, <1>6 DEF Holds, StartHolds
<1>8. /\ (Rebuilt(Len(records)))' = Rebuilt(Len(records))
      /\ \A k : (Was(Len(records), k))' = Was(Len(records), k)
  BY <1>2 DEF Rebuilt, Was
<1>9. ServeHolds'
  BY <1>1, <1>2, <1>3, <1>7, <1>8 DEF ServeHolds
<1>10. StartHolds'
  BY <1>2 DEF StartHolds
<1> QED
  BY <1>3, <1>4, <1>5, <1>9, <1>10 DEF Holds

(* A crash keeps the file and the snapshot, and loses a write not          *)
(* appended.                                                               *)
LEMMA CrashStep ==
  ASSUME Holds, Crash
  PROVE  Holds'
<1>1. LifeTypeOK /\ FileHolds /\ LogHolds /\ ReadHolds /\ ServeHolds
  BY DEF Holds
<1>2. /\ stage' = "down" /\ db' = EmptyDB /\ pending' = None
      /\ UNCHANGED <<now, snapshot, log, chunk, offset, buf, replayed, records,
                     clean, spoiled>>
  BY DEF Crash, Dies
<1>3. LifeTypeOK'
  BY <1>1, <1>2, EmptyIsWellFormed DEF LifeTypeOK
<1>4. FileHolds' /\ LogHolds' /\ ReadHolds'
  BY <1>1, <1>2, ReadStays
<1>5. ServeHolds' /\ StartHolds'
  BY <1>1, <1>2 DEF ServeHolds, StartHolds, Rebuilt
<1> QED
  BY <1>3, <1>4, <1>5 DEF Holds

(* Time passes, and no clean key has a deadline.                           *)
LEMMA TickStep ==
  ASSUME Holds, Tick \/ UNCHANGED vars
  PROVE  Holds'
<1>1. LifeTypeOK /\ FileHolds /\ LogHolds /\ ReadHolds /\ ServeHolds /\ StartHolds
  BY DEF Holds
<1>2. /\ now' = now + 1 \/ now' = now
      /\ UNCHANGED <<db, stage, snapshot, log, chunk, offset, buf, pending, replayed,
                     records, clean, spoiled>>
  BY DEF Tick, vars
<1>3. LifeTypeOK'
  BY <1>1, <1>2 DEF LifeTypeOK
<1>4. FileHolds' /\ LogHolds' /\ ReadHolds'
  BY <1>1, <1>2, ReadStays
<1>5. /\ \A n : (Rebuilt(n))' = Rebuilt(n)
      /\ \A n, k : (Was(n, k))' = Was(n, k)
  BY <1>2 DEF Rebuilt, Was
<1>6. ServeHolds' /\ StartHolds'
  BY <1>1, <1>2, <1>5 DEF ServeHolds, StartHolds
<1> QED
  BY <1>3, <1>4, <1>6 DEF Holds

(* A write is made and waits to be appended: its record, once written,     *)
(* rebuilds what it made.                                                  *)
LEMMA ExecuteStep ==
  ASSUME Holds, NEW cmd \in Workload, Execute(cmd)
  PROVE  Holds'
<1> DEFINE r == Dispatch(db, now, cmd)
<1>1. LifeTypeOK /\ FileHolds /\ LogHolds /\ ReadHolds /\ ServeHolds
  BY DEF Holds
<1>2. /\ stage = "serving" /\ pending = None
      /\ IF r.reply = Raise THEN stage' = "down" /\ db' = EmptyDB
                            ELSE db' = r.db /\ stage' = stage
      /\ pending' = IF PassedOn(cmd, r.reply) THEN cmd ELSE None
      /\ UNCHANGED <<now, snapshot, log, chunk, offset, buf, replayed, records,
                     clean, spoiled>>
  BY DEF Execute, MayExecute, Dies
<1>3. cmd \in Command /\ cmd # None /\ WellFormed(db) /\ now \in Nat
  BY <1>1, WordsRead DEF LifeTypeOK
<1>4. WellFormed(r.db)
  BY <1>3, DispatchKeeps
<1>5. \A k \in clean : k \in Key /\ db.expires[k] = None /\ db.data[k] = Was(Len(records), k)
  BY <1>1, <1>2 DEF ServeHolds, LifeTypeOK
<1>6. r.reply = Raise => ~PassedOn(cmd, r.reply)
  BY DEF PassedOn
<1>7. PassedOn(cmd, r.reply) =>
        \A k \in CleanAfter(clean, cmd) :
          /\ k \in Key
          /\ r.db.expires[k] = None
          /\ IF Settles(cmd) /\ cmd.key = k THEN r.db.data[k] = SettledAs(cmd)
             ELSE k \in clean /\ Rebuilds(Was(Len(records), k), cmd, r.db.data[k], k)
  <2> SUFFICES ASSUME PassedOn(cmd, r.reply), NEW k \in CleanAfter(clean, cmd)
               PROVE  /\ k \in Key
                      /\ r.db.expires[k] = None
                      /\ IF Settles(cmd) /\ cmd.key = k THEN r.db.data[k] = SettledAs(cmd)
                         ELSE k \in clean /\ Rebuilds(Was(Len(records), k), cmd, r.db.data[k], k)
    OBVIOUS
  <2>1. cmd.key \in Key
    BY <1>3, ArgumentTypes DEF PassedOn, WriteCommands, Writers
  <2>2. k \in Key
    BY <1>5, <2>1 DEF CleanAfter
  <2>3. CASE Settles(cmd) /\ cmd.key = k
    BY <1>3, <2>2, <2>3, Settled
  <2>4. CASE ~(Settles(cmd) /\ cmd.key = k)
    <3>1. r.db.expires[k] = None /\ k \in clean /\ Rebuilds(db.data[k], cmd, r.db.data[k], k)
      BY <1>3, <1>5, <2>2, <2>4, CleanIsRebuilt
    <3>2. db.data[k] = Was(Len(records), k)
      BY <1>5, <3>1
    <3> QED
      BY <2>2, <2>4, <3>1, <3>2
  <2> QED
    BY <2>3, <2>4
<1>8. ASSUME ~PassedOn(cmd, r.reply), r.reply # Raise, NEW k \in clean
      PROVE  r.db.expires[k] = None /\ r.db.data[k] = Was(Len(records), k)
  BY <1>3, <1>5, <1>8, NotWritten
<1> HIDE DEF r
<1>9. LifeTypeOK'
  <2>1. WellFormed(db')
    BY <1>2, <1>4, EmptyIsWellFormed
  <2>2. stage' \in {"down", "loading", "serving", "failed"}
    BY <1>2
  <2>3. pending' \in Workload \cup {None} /\ (pending' # None => stage' = "serving")
    BY <1>2, <1>6
  <2> QED
    BY <1>1, <1>2, <2>1, <2>2, <2>3 DEF LifeTypeOK
<1>10. FileHolds' /\ LogHolds' /\ ReadHolds'
  BY <1>1, <1>2, ReadStays
<1>11. ServeHolds'
  <2>1. /\ \A n : (Rebuilt(n))' = Rebuilt(n)
        /\ \A n, k : (Was(n, k))' = Was(n, k)
    BY <1>2 DEF Rebuilt, Was
  <2>2. clean' \subseteq (Rebuilt(Len(records)))'
    BY <1>1, <1>2, <2>1 DEF ServeHolds
  <2>3. CASE stage' = "serving"
    <3>1. r.reply # Raise /\ db' = r.db
      BY <1>2, <2>3
    <3>2. CASE pending' = None
      <4>1. ~PassedOn(cmd, r.reply)
        BY <1>2, <1>3, <3>2
      <4> QED
        BY <1>2, <1>8, <2>1, <2>2, <3>1, <3>2, <4>1 DEF ServeHolds
    <3>3. CASE pending' # None
      <4>1. PassedOn(cmd, r.reply) /\ pending' = cmd
        BY <1>2, <3>3
      <4> QED
        BY <1>2, <1>7, <2>1, <2>2, <3>1, <3>3, <4>1 DEF ServeHolds
    <3> QED
      BY <3>2, <3>3
  <2>4. CASE stage' # "serving"
    BY <2>2, <2>4 DEF ServeHolds
  <2> QED
    BY <2>3, <2>4
<1>12. StartHolds'
  BY <1>2 DEF StartHolds
<1> QED
  BY <1>9, <1>10, <1>11, <1>12 DEF Holds

(* What is not appended makes its key unclean unless it leaves it as it    *)
(* was.                                                                    *)
LEMMA ExecuteOnlyStep ==
  ASSUME Holds, NEW cmd \in Workload, ExecuteOnly(cmd)
  PROVE  Holds'
<1> DEFINE r == Dispatch(db, now, cmd)
<1>1. LifeTypeOK /\ FileHolds /\ LogHolds /\ ReadHolds /\ ServeHolds
  BY DEF Holds
<1>2. /\ stage = "serving" /\ pending = None
      /\ IF r.reply = Raise THEN stage' = "down" /\ db' = EmptyDB
                            ELSE db' = r.db /\ stage' = stage
      /\ clean' = clean \ Changed(db, r.db)
      /\ UNCHANGED <<now, snapshot, log, chunk, offset, buf, pending, replayed,
                     records, spoiled>>
  BY DEF ExecuteOnly, MayExecute, Dies
<1>3. cmd \in Command /\ WellFormed(db) /\ now \in Nat
  BY <1>1, WordsRead DEF LifeTypeOK
<1>4. WellFormed(r.db)
  BY <1>3, DispatchKeeps
<1> HIDE DEF r
<1>5. LifeTypeOK'
  <2>1. WellFormed(db')
    BY <1>2, <1>4, EmptyIsWellFormed
  <2>2. stage' \in {"down", "loading", "serving", "failed"} /\ pending' = None
    BY <1>2
  <2>3. clean' \in SUBSET Key
    BY <1>1, <1>2 DEF LifeTypeOK
  <2> QED
    BY <1>1, <1>2, <2>1, <2>2, <2>3 DEF LifeTypeOK
<1>6. FileHolds' /\ LogHolds' /\ ReadHolds'
  BY <1>1, <1>2, ReadStays
<1>7. ServeHolds'
  <2>1. /\ \A n : (Rebuilt(n))' = Rebuilt(n)
        /\ \A n, k : (Was(n, k))' = Was(n, k)
    BY <1>2 DEF Rebuilt, Was
  <2>2. clean' \subseteq Rebuilt(Len(records))
    BY <1>1, <1>2 DEF ServeHolds
  <2>3. ASSUME stage' = "serving", NEW k \in clean'
        PROVE  db'.expires[k] = None /\ db'.data[k] = Was(Len(records), k)
    <3>1. k \in clean /\ k \in Key /\ k \notin Changed(db, r.db) /\ db' = r.db
      BY <1>1, <1>2, <2>3 DEF LifeTypeOK
    <3>2. db.expires[k] = None /\ db.data[k] = Was(Len(records), k)
      BY <1>1, <1>2, <3>1 DEF ServeHolds
    <3> QED
      BY <3>1, <3>2 DEF Changed
  <2> QED
    BY <1>2, <2>1, <2>2, <2>3 DEF ServeHolds
<1>8. StartHolds'
  BY <1>2 DEF StartHolds
<1> QED
  BY <1>5, <1>6, <1>7, <1>8 DEF Holds

(* Without a torn record the file is the records.                          *)
LEMMA FileIsWhole ==
  ASSUME LifeTypeOK, FileHolds, ~Torn
  PROVE  log = Whole /\ Whole \in Seq(Byte)
<1>1. PICK t \in Seq(Byte) : log = Whole \o t
  BY DEF FileHolds
<1>2. /\ Whole \in Seq(Byte) /\ Len(Whole) \in Nat /\ Len(t) \in Nat
      /\ Len(log) = Len(Whole) + Len(t)
  BY <1>1, FileLayout
<1>3. Len(t) = 0
  BY <1>2 DEF Torn
<1>4. t = <<>>
  BY <1>3, EmptySequence
<1> QED
  BY <1>1, <1>2, <1>4, ConcatEmptySeq

(* The record appended is the last, and the file is the records again.     *)
LEMMA AppendStep ==
  ASSUME Holds, AppendToAof, ~spoiled'
  PROVE  Holds'
<1> DEFINE cmd == pending
           l == Len(records)
           e == Encode(WordsOf(cmd))
           rec == [cmd |-> pending, data |-> db.data, clean |-> clean']
<1>1. LifeTypeOK /\ FileHolds /\ LogHolds /\ ReadHolds /\ ServeHolds
  BY DEF Holds
<1>2. /\ stage = "serving" /\ cmd # None /\ ~Torn
      /\ log' = log \o e /\ pending' = None /\ clean' = CleanAfter(clean, cmd)
      /\ records' = Append(records, rec)
      /\ UNCHANGED <<db, now, stage, snapshot, chunk, offset, buf, replayed>>
  BY DEF AppendToAof
<1>3. /\ cmd \in Workload /\ e \in Seq(Byte) /\ WellFormed(db)
      /\ l \in Nat /\ records \in Seq(LogRecord)
  BY <1>1, <1>2, WordsRead, Encoded DEF LifeTypeOK
<1>4. \A k \in clean' :
        /\ k \in Key
        /\ db.expires[k] = None
        /\ IF Settles(cmd) /\ cmd.key = k THEN db.data[k] = SettledAs(cmd)
           ELSE k \in clean /\ Rebuilds(Was(l, k), cmd, db.data[k], k)
  BY <1>1, <1>2 DEF ServeHolds
<1>5. rec \in LogRecord /\ rec.cmd = cmd /\ rec.data = db.data /\ rec.clean = clean'
  <2>1. clean' \in SUBSET Key
    BY <1>4
  <2>2. db.data \in [Key -> Value \cup {None}]
    BY <1>3 DEF WellFormed, DB
  <2> HIDE DEF cmd
  <2> QED
    BY <1>3, <2>1, <2>2 DEF LogRecord, cmd
<1> HIDE DEF rec
<1>6. /\ records' \in Seq(LogRecord) /\ Len(records') = l + 1
      /\ \A i \in 1..l : records'[i] = records[i]
      /\ records'[l + 1] = rec
  BY <1>2, <1>3, <1>5, AppendProperties
<1> HIDE DEF l, e, cmd
<1>7. LifeTypeOK'
  <2>1. log' \in Seq(Byte)
    <3>1. log \in Seq(Byte)
      BY <1>1 DEF LifeTypeOK
    <3> QED
      BY <1>2, <1>3, <3>1, ConcatProperties
  <2>2. clean' \in SUBSET Key
    BY <1>4
  <2> QED
    BY <1>1, <1>2, <1>6, <2>1, <2>2 DEF LifeTypeOK
<1>8. Encodings' = Append(Encodings, e)
  <2>1. /\ Encodings \in Seq(Seq(Byte)) /\ Len(Encodings) = l
        /\ \A i \in 1..l : Encodings[i] = Encode(WordsOf(records[i].cmd))
    BY <1>1, Encoded DEF l
  <2>2. DOMAIN records' = 1..(l + 1)
    BY <1>6, LenProperties
  <2>3. Encodings' = [i \in 1..(l + 1) |-> Encode(WordsOf(records'[i].cmd))]
    BY <2>2 DEF Encodings
  <2> DEFINE a == Append(Encodings, e)
  <2>4. /\ a \in Seq(Seq(Byte)) /\ Len(a) = l + 1 /\ a[l + 1] = e
        /\ \A i \in 1..l : a[i] = Encodings[i]
    BY <1>3, <2>1, AppendProperties
  <2> HIDE DEF a
  <2>5. a = [i \in 1..(l + 1) |-> a[i]]
    BY <1>3, <2>4, LenProperties
  <2>6. ASSUME NEW i \in 1..(l + 1)
        PROVE  a[i] = Encode(WordsOf(records'[i].cmd))
    <3>1. CASE i \in 1..l
      BY <1>6, <2>1, <2>4, <3>1
    <3>2. CASE i = l + 1
      <4>1. records'[i].cmd = cmd
        BY <1>5, <1>6, <3>2
      <4> QED
        BY <2>4, <3>2, <4>1 DEF e
    <3> QED
      BY <1>3, <3>1, <3>2
  <2> QED
    BY <2>3, <2>5, <2>6 DEF a
<1>9. Whole' = Whole \o e /\ Whole \in Seq(Byte) /\ log = Whole
  <2>1. Whole' = FlattenSeq(Encodings')
    BY DEF Whole, Encodings
  <2>2. Encodings \in Seq(Seq(Byte)) /\ Whole = FlattenSeq(Encodings)
    BY <1>1, Encoded
  <2> HIDE DEF Encodings
  <2>3. FlattenSeq(Append(Encodings, e)) = FlattenSeq(Encodings) \o e
    BY <1>3, <2>2, FlattenOfAppend
  <2> QED
    BY <1>1, <1>2, <1>8, <2>1, <2>2, <2>3, FileIsWhole
<1>10. FileHolds'
  <2>1. log' = Whole' /\ log' \in Seq(Byte)
    BY <1>2, <1>7, <1>9 DEF LifeTypeOK
  <2>2. log' = Whole' \o <<>> /\ <<>> \in Seq(Byte)
    BY <2>1, ConcatEmptySeq
  <2> QED
    BY <2>2 DEF FileHolds, Partial
<1>11. offset' = 0 /\ replayed' = <<>> /\ buf' = <<>>
  <2>1. offset = 0 /\ replayed = <<>> /\ buf = SubSeq(log, Begin(Len(replayed)) + 1, offset)
    BY <1>1, <1>2 DEF ReadHolds
  <2>2. Len(replayed) = 0 /\ Begin(0) = 0
    BY <2>1, BeginsAtNought DEF Begin
  <2>3. SubSeq(log, 1, 0) = <<>>
    BY SubSeqEmpty
  <2> QED
    BY <1>2, <2>1, <2>2, <2>3
<1>12. ReadHolds'
  BY <1>7, <1>11, ReadAfresh
<1>13. /\ \A i \in 0..l : (Rebuilt(i))' = Rebuilt(i)
       /\ \A i \in 0..l : \A k : (Was(i, k))' = Was(i, k)
  <2>1. \A i \in 0..l : i = 0 \/ i \in 1..l
    BY <1>3
  <2> QED
    BY <1>2, <1>6, <2>1 DEF Rebuilt, Was
<1>14. LogHolds'
  <2> SUFFICES ASSUME NEW i \in 1..Len(records'), NEW k \in records'[i].clean
               PROVE  IF Settles(records'[i].cmd) /\ records'[i].cmd.key = k
                        THEN records'[i].data[k] = SettledAs(records'[i].cmd)
                        ELSE /\ k \in (Rebuilt(i - 1))'
                             /\ Rebuilds((Was(i - 1, k))', records'[i].cmd,
                                         records'[i].data[k], k)
    BY DEF LogHolds
  <2>1. i - 1 \in 0..l /\ (i \in 1..l \/ i = l + 1)
    BY <1>3, <1>6
  <2>2. (Rebuilt(i - 1))' = Rebuilt(i - 1) /\ (Was(i - 1, k))' = Was(i - 1, k)
    BY <1>13, <2>1
  <2>3. CASE i \in 1..l
    <3>1. records'[i] = records[i]
      BY <1>6, <2>3
    <3> QED
      BY <1>1, <2>2, <2>3, <3>1 DEF LogHolds, l
  <2>4. CASE i = l + 1
    <3>1. records'[i] = rec /\ k \in clean' /\ i - 1 = l
      BY <1>3, <1>5, <1>6, <2>4
    <3>2. k \in clean => k \in Rebuilt(l)
      BY <1>1 DEF ServeHolds, l
    <3> QED
      BY <1>4, <1>5, <2>2, <3>1, <3>2
  <2> QED
    BY <2>1, <2>3, <2>4
<1>15. ServeHolds'
  <2>1. (Rebuilt(Len(records)))' = clean'
    BY <1>3, <1>5, <1>6 DEF Rebuilt
  <2>2. \A k : (Was(Len(records), k))' = db'.data[k]
    BY <1>2, <1>3, <1>5, <1>6 DEF Was
  <2> QED
    BY <1>2, <1>4, <2>1, <2>2 DEF ServeHolds
<1>16. StartHolds'
  BY <1>2 DEF StartHolds
<1> QED
  BY <1>7, <1>10, <1>12, <1>14, <1>15, <1>16 DEF Holds

(* An append that stops leaves the beginning of a record behind the whole  *)
(* ones.                                                                   *)
LEMMA AppendFailsStep ==
  ASSUME Holds, NEW n \in Cuts, AppendFails(n)
  PROVE  Holds'
<1> DEFINE cmd == pending
           e == Encode(WordsOf(cmd))
           t == SubSeq(e, 1, n)
<1>1. LifeTypeOK /\ FileHolds /\ LogHolds /\ ReadHolds /\ ServeHolds
  BY DEF Holds
<1>2. /\ stage = "serving" /\ cmd # None /\ ~Torn /\ n < Len(e)
      /\ log' = log \o t /\ stage' = "down" /\ db' = EmptyDB /\ pending' = None
      /\ UNCHANGED <<now, snapshot, chunk, offset, buf, replayed, records, clean, spoiled>>
  BY DEF AppendFails, Dies
<1>3. cmd \in Workload /\ e \in Seq(Byte) /\ n \in Nat /\ Len(e) \in Nat
  BY <1>1, <1>2, WordsRead, LogInputs DEF LifeTypeOK
<1> HIDE DEF cmd, e
<1>4. t \in Seq(Byte) /\ Len(t) = n /\ \A i \in 1..n : t[i] = e[i]
  <2>1. /\ 0 \in Nat /\ 0 <= n /\ n <= Len(e) /\ 0 + 0 <= n /\ 0 + 1 = 1 /\ n - 0 = n
        /\ \A i \in 1..n : 0 + i = i
    BY <1>2, <1>3
  <2>2. /\ SubSeq(e, 0 + 1, n) \in Seq(Byte)
        /\ Len(SubSeq(e, 0 + 1, n)) = n - 0
        /\ \A i \in 1..(n - 0) : SubSeq(e, 0 + 1, n)[i] = e[0 + i]
    BY <1>3, <2>1, SliceOfSlice
  <2> QED
    BY <2>1, <2>2
<1> HIDE DEF t
<1>5. Partial(t)
  <2>1. Agrees(t, e) /\ Len(t) < Len(e)
    BY <1>2, <1>4 DEF Agrees
  <2> QED
    BY <1>3, <2>1 DEF Partial, e
<1>6. LifeTypeOK'
  <2>1. log' \in Seq(Byte)
    <3>1. log \in Seq(Byte)
      BY <1>1 DEF LifeTypeOK
    <3> QED
      BY <1>2, <1>4, <3>1, ConcatProperties
  <2> QED
    BY <1>1, <1>2, <2>1, EmptyIsWellFormed DEF LifeTypeOK
<1>7. FileHolds'
  <2>1. Whole' = Whole /\ log = Whole
    BY <1>1, <1>2, FileIsWhole DEF Whole
  <2>2. log' = Whole' \o t
    BY <1>2, <2>1
  <2> QED
    BY <1>4, <1>5, <2>2 DEF FileHolds
<1>8. offset' = 0 /\ replayed' = <<>> /\ buf' = <<>>
  <2>1. offset = 0 /\ replayed = <<>> /\ buf = SubSeq(log, Begin(Len(replayed)) + 1, offset)
    BY <1>1, <1>2 DEF ReadHolds
  <2>2. Len(replayed) = 0 /\ Begin(0) = 0
    BY <2>1, BeginsAtNought DEF Begin
  <2>3. SubSeq(log, 1, 0) = <<>>
    BY SubSeqEmpty
  <2> QED
    BY <1>2, <2>1, <2>2, <2>3
<1>9. ReadHolds'
  BY <1>6, <1>8, ReadAfresh
<1>10. LogHolds'
  BY <1>1, <1>2 DEF LogHolds, Rebuilt, Was
<1>11. ServeHolds' /\ StartHolds'
  BY <1>1, <1>2 DEF ServeHolds, StartHolds, Rebuilt
<1> QED
  BY <1>6, <1>7, <1>9, <1>10, <1>11 DEF Holds

-----------------------------------------------------------------------------
(* The invariant, and what follows from it.                                *)

(* Every step keeps the invariant, or spoils the file.                     *)
LEMMA NextHolds == IInv /\ [Next]_vars => IInv'
<1> SUFFICES ASSUME IInv, [Next]_vars PROVE IInv'
  OBVIOUS
<1>1. spoiled \in BOOLEAN /\ (~spoiled => Holds)
  BY DEF IInv
<1>2. CASE AppendToAof
  <2>1. spoiled' \in BOOLEAN /\ (~spoiled' => ~spoiled)
    BY <1>1, <1>2 DEF AppendToAof
  <2>2. ~spoiled' => Holds'
    BY <1>1, <1>2, <2>1, AppendStep
  <2> QED
    BY <2>1, <2>2 DEF IInv
<1>3. ASSUME spoiled' = spoiled, Holds => Holds'
      PROVE  IInv'
  BY <1>1, <1>3 DEF IInv
<1>4. CASE Start
  BY <1>3, <1>4, StartStep DEF Start
<1>5. CASE Feed
  BY <1>3, <1>5, FeedStep DEF Feed
<1>6. CASE Replay
  BY <1>3, <1>6, ReplayStep DEF Replay
<1>7. CASE ReplayRaises
  BY <1>3, <1>7, RaisesStep DEF ReplayRaises
<1>8. CASE Serve
  BY <1>3, <1>8, ServeStep DEF Serve
<1>9. ASSUME NEW cmd \in Workload, Execute(cmd)
      PROVE  IInv'
  BY <1>3, <1>9, ExecuteStep DEF Execute
<1>10. ASSUME NEW cmd \in Workload, ExecuteOnly(cmd)
       PROVE  IInv'
  BY <1>3, <1>10, ExecuteOnlyStep DEF ExecuteOnly
<1>11. ASSUME NEW n \in Cuts, AppendFails(n)
       PROVE  IInv'
  BY <1>3, <1>11, AppendFailsStep DEF AppendFails
<1>12. CASE Crash
  BY <1>3, <1>12, CrashStep DEF Crash
<1>13. CASE Tick \/ UNCHANGED vars
  BY <1>3, <1>13, TickStep DEF Tick, vars
<1> QED
  BY <1>2, <1>4, <1>5, <1>6, <1>7, <1>8, <1>9, <1>10, <1>11, <1>12, <1>13 DEF Next

(* The file, its reader, the records and the data agree in every state,    *)
(* until a server appends behind a torn record.                            *)
THEOREM Invariance == Spec => []IInv
<1>1. Init => IInv
  BY InitHolds
<1>2. IInv /\ [Next]_vars => IInv'
  BY NextHolds
<1> QED
  BY <1>1, <1>2, PTL DEF Spec

(* The invariant types the variables.                                      *)
LEMMA HoldsTypes == IInv => (~spoiled => TypeOK)
<1> SUFFICES ASSUME IInv, ~spoiled PROVE TypeOK
  OBVIOUS
<1>1. LifeTypeOK /\ FileHolds /\ ReadHolds /\ spoiled \in BOOLEAN
  BY DEF IInv, Holds
<1>2. db \in DB /\ log \in Seq(0..255) /\ clean \subseteq Key
  BY <1>1 DEF LifeTypeOK, WellFormed, Byte
<1>3. buf \in Seq(0..255)
  BY <1>1, NextRecord DEF Byte
<1>4. offset \in 0..Len(log)
  <2>1. Len(log) \in Nat
    BY <1>2, LenProperties
  <2> QED
    BY <1>1, <2>1 DEF ReadHolds
<1>5. replayed \in Seq(Command)
  <2>1. Workload \subseteq Command /\ replayed \in Seq(Workload)
    BY <1>1, LogInputs DEF ReadHolds
  <2> QED
    BY <2>1, SeqMonotonic
<1>6. records \in Seq(Record)
  <2>1. LogRecord \subseteq Record
    BY LogInputs DEF LogRecord, Record
  <2> QED
    BY <1>1, <2>1, SeqMonotonic DEF LifeTypeOK
<1> QED
  BY <1>1, <1>2, <1>3, <1>4, <1>5, <1>6 DEF TypeOK, LifeTypeOK

(* The data, the file, the buffer of replay_aof and the commands it runs   *)
(* keep their types over starts, crashes and appends that stop.            *)
THEOREM TypeCorrect == Spec => [](~spoiled => TypeOK)
<1>1. IInv => (~spoiled => TypeOK)
  BY HoldsTypes
<1> QED
  BY <1>1, Invariance, PTL

(* The invariant says what replay_aof runs.                                *)
LEMMA HoldsReplays == IInv => ReplaysTheLog
<1> SUFFICES ASSUME IInv, ~spoiled
             PROVE  /\ stage \in {"loading", "failed"} => IsPrefix(replayed, Logged)
                    /\ Exhausted => replayed = Logged
                    /\ TryParse(buf) \notin {Malformed, Raised}
  BY DEF ReplaysTheLog
<1> DEFINE r == Len(replayed)
           l == Len(records)
           s == Logged
<1>1. LifeTypeOK /\ FileHolds /\ ReadHolds
  BY DEF IInv, Holds
<1>2. /\ r \in Nat /\ l \in Nat /\ r <= l /\ replayed \in Seq(Workload)
      /\ \A i \in 1..r : replayed[i] = records[i].cmd
      /\ \A i \in 1..l : records[i].cmd \in Workload
  BY <1>1, Encoded, LenProperties DEF ReadHolds
<1>3. /\ s \in Seq(Workload) /\ Len(s) = l
      /\ \A i \in 1..l : s[i] = records[i].cmd
  <2>1. DOMAIN records = 1..l
    BY <1>1, LenProperties DEF LifeTypeOK
  <2>2. s = [i \in 1..l |-> records[i].cmd]
    BY <2>1 DEF Logged
  <2>3. s \in [1..l -> Workload]
    BY <1>2, <2>2
  <2> HIDE DEF s
  <2>4. s \in Seq(Workload) /\ Len(s) = l
    BY <1>2, <2>3, LenProperties
  <2> QED
    BY <2>2, <2>4
<1> HIDE DEF r, l, s
<1>4. SubSeq(replayed, 1, r) = SubSeq(s, 1, r)
  <2>1. SubSeq(replayed, 1, r) = replayed
    BY <1>2, SubSeqFull DEF r
  <2>2. /\ 1 \in Int /\ r \in Int /\ r - 1 + 1 = r
        /\ \A i \in 1..r : 1 + i - 1 = i /\ i \in 1..l /\ s[i] \in Workload
    BY <1>2, <1>3
  <2>3. /\ SubSeq(s, 1, r) \in Seq(Workload)
        /\ Len(SubSeq(s, 1, r)) = IF 1 <= r THEN r - 1 + 1 ELSE 0
        /\ \A i \in 1..(r - 1 + 1) : SubSeq(s, 1, r)[i] = s[1 + i - 1]
    BY <2>2, SubSeqProperties
  <2> DEFINE u == SubSeq(s, 1, r)
  <2>4. u \in Seq(Workload) /\ Len(u) = r /\ \A i \in 1..r : u[i] = s[i]
    BY <1>2, <2>2, <2>3
  <2> HIDE DEF u
  <2>5. \A i \in 1..r : u[i] = replayed[i]
    BY <1>2, <1>3, <2>2, <2>4
  <2>6. u = replayed
    BY <1>2, <2>4, <2>5, SeqEqual DEF r
  <2> QED
    BY <2>1, <2>6 DEF u
<1>5. IsPrefix(replayed, Logged)
  BY <1>2, <1>3, <1>4 DEF IsPrefix, r, s
<1>6. Exhausted => replayed = Logged
  <2>1. SUFFICES ASSUME Exhausted PROVE replayed = s
    BY DEF s
  <2>2. r = l
    BY <1>1, <2>1, NextRecord DEF Exhausted, r, l
  <2>3. \A i \in 1..r : replayed[i] = s[i]
    BY <1>2, <1>3, <2>2
  <2> QED
    BY <1>2, <1>3, <2>2, <2>3, SeqEqual DEF r
<1>7. TryParse(buf) \notin {Malformed, Raised}
  <2>1. TryParse(buf) = More \/ TryParse(buf).kind = "command"
    BY <1>1, NextRecord
  <2> QED
    BY <2>1 DEF More, Malformed, Raised
<1> QED
  BY <1>5, <1>6, <1>7

(* However the file is cut into chunks and wherever an append stopped, a   *)
(* start runs the complete records, each once and in order.                *)
THEOREM ReplaysEveryRecord == Spec => []ReplaysTheLog
<1>1. IInv => ReplaysTheLog
  BY HoldsReplays
<1> QED
  BY <1>1, Invariance, PTL

(* The invariant says what the data are during a replay.                   *)
LEMMA HoldsRebuilds == IInv => ReplayRebuilds
<1> DEFINE n == Len(replayed)
<1> SUFFICES ASSUME IInv, ~spoiled, n > 0, stage \in {"loading", "failed"},
                    NEW k \in records[n].clean
             PROVE  /\ db.data[k] = records[n].data[k]
                    /\ stage = "failed" => replayed[n].key # k
  BY DEF ReplayRebuilds
<1>1. StartHolds /\ ReadHolds
  BY DEF IInv, Holds
<1>2. n \in Nat /\ n # 0
  BY <1>1, LenProperties DEF ReadHolds
<1>3. Rebuilt(n) = records[n].clean /\ Was(n, k) = records[n].data[k]
  BY <1>2 DEF Rebuilt, Was
<1> QED
  BY <1>1, <1>2, <1>3 DEF StartHolds

(* Each command replayed gives every clean key the value it had when the   *)
(* record was written, and does not end the start.                         *)
THEOREM ReplayRebuildsTheData == Spec => []ReplayRebuilds
<1>1. IInv => ReplayRebuilds
  BY HoldsRebuilds
<1> QED
  BY <1>1, Invariance, PTL

-----------------------------------------------------------------------------
(* Numbers in bytes, as snapshots have them.                               *)

(* The value of bytes behind z, the most significant first.                *)
Behind(z, s) == FoldLeft(LAMBDA v, b : 256 * v + b, z, s)

(* h[m] is the value of z and the first m bytes of s.                      *)
Joins(h, z, s, T) ==
  /\ h \in [0..Len(s) -> T]
  /\ h[0] = z
  /\ \A m \in 1..Len(s) : h[m] = 256 * h[m - 1] + s[m]

LEMMA BehindSteps ==
  ASSUME NEW T \in SUBSET Int, NEW s \in Seq(Byte), NEW z \in T,
         \A r \in T : \A b \in Byte : 256 * r + b \in T
  PROVE  \E h : Joins(h, z, s, T) /\ Behind(z, s) = h[Len(s)]
<1> DEFINE n == Len(s)
           B(i, r) == 256 * r + s[i]
           g == [i \in 1..n |-> [r \in T |-> B(i, r)]]
           F(it) == it = [u \in SUBSET DOMAIN s |->
                            IF u = {} THEN z ELSE B(Max(u), it[u \ {Max(u)}])]
           f == CHOOSE it : F(it)
<1>1. Behind(z, s) = f[DOMAIN s]
  BY DEF Behind, FoldLeft, MapThenFoldSet
<1>2. n \in Nat /\ DOMAIN s = 1..n /\ \A i \in 1..n : s[i] \in Byte
  BY LenProperties, ElementOfSeq
<1>3. g \in [1..n -> [T -> T]]
  BY <1>2
<1>4. \A i \in 1..n : \A r \in T : g[i][r] = B(i, r)
  OBVIOUS
<1> HIDE DEF g, n, B
<1>5. \E it : F(it)
  <2>1. PICK it : Folds(it, z, g, T, n)
    BY <1>2, <1>3, FoldExists
  <2>2. ASSUME NEW u \in SUBSET (1..n), u # {}
        PROVE  Max(u) \in 1..n /\ it[u \ {Max(u)}] \in T
    <3>1. Max(u) \in u
      BY <1>2, <2>2, MaxIsMember
    <3> QED
      BY <2>1, <3>1 DEF Folds
  <2> DEFINE G(u) == IF u = {} THEN z ELSE B(Max(u), it[u \ {Max(u)}])
  <2>3. ASSUME NEW u \in SUBSET (1..n)
        PROVE  it[u] = G(u)
    <3>1. CASE u = {}
      BY <2>1, <3>1 DEF Folds
    <3>2. CASE u # {}
      <4>1. it[u] = g[Max(u)][it[u \ {Max(u)}]]
        BY <2>1, <3>2 DEF Folds
      <4> QED
        BY <1>4, <2>2, <3>2, <4>1
    <3> QED
      BY <3>1, <3>2
  <2>4. it = [u \in SUBSET DOMAIN s |-> it[u]]
    BY <1>2, <2>1 DEF Folds
  <2> HIDE DEF G
  <2>5. it = [u \in SUBSET DOMAIN s |-> G(u)]
    BY <1>2, <2>3, <2>4
  <2> QED
    BY <2>5 DEF G
<1>6. F(f)
  BY <1>5
<1> HIDE DEF f
<1>7. f[{}] = z
  BY <1>6
<1>8. ASSUME NEW m \in 1..n, f[1..(m - 1)] \in T
      PROVE  f[1..m] = g[m][f[1..(m - 1)]]
  <2>1. /\ 1..m \in SUBSET DOMAIN s /\ 1..m # {}
        /\ Max(1..m) = m /\ (1..m) \ {m} = 1..(m - 1)
    BY <1>2, PrefixSets
  <2>2. f[1..m] = B(m, f[1..(m - 1)])
    BY <1>6, <2>1
  <2> QED
    BY <1>4, <1>8, <2>2
<1>9. PICK h : Runs(h, f, z, g, T, n)
  <2>1. Extends(f, z, g, T, n)
    BY <1>7, <1>8 DEF Extends
  <2> QED
    BY <1>2, <1>3, <2>1, FoldRuns
<1>10. \A m \in 1..n : h[m] = 256 * h[m - 1] + s[m]
  <2>1. \A m \in 1..n : h[m - 1] \in T
    BY <1>2, <1>9 DEF Runs
  <2>2. \A m \in 1..n : h[m] = B(m, h[m - 1])
    BY <1>4, <1>9, <2>1 DEF Runs
  <2> QED
    BY <2>2 DEF B
<1> QED
  BY <1>1, <1>2, <1>9, <1>10 DEF n, Joins, Runs

LEMMA BytesAreNumbers == \A b \in Byte : b \in Nat /\ b \in Int
BY DEF Byte

(* Bytes are a natural number, the most significant first, and four of     *)
(* them are this one.                                                      *)
LEMMA BigEndianRead ==
  ASSUME NEW s \in Seq(Byte)
  PROVE  /\ BigEndian(s) \in Nat
         /\ Len(s) = 4 =>
              BigEndian(s) = 256 * (256 * (256 * s[1] + s[2]) + s[3]) + s[4]
<1>1. BigEndian(s) = Behind(0, s)
  BY DEF BigEndian, Behind, FoldLeft, MapThenFoldSet
<1>2. Nat \in SUBSET Int /\ 0 \in Nat /\ \A r \in Nat : \A b \in Byte : 256 * r + b \in Nat
  BY DEF Byte
<1>3. PICK h : Joins(h, 0, s, Nat) /\ Behind(0, s) = h[Len(s)]
  BY <1>2, BehindSteps
<1>4. Len(s) \in Nat /\ \A i \in 1..Len(s) : s[i] \in Byte
  BY LenProperties, ElementOfSeq
<1>5. ASSUME Len(s) = 4
      PROVE  h[4] = 256 * (256 * (256 * s[1] + s[2]) + s[3]) + s[4]
  <2>1. /\ h[0] = 0 /\ h[1] = 256 * h[0] + s[1] /\ h[2] = 256 * h[1] + s[2]
        /\ h[3] = 256 * h[2] + s[3] /\ h[4] = 256 * h[3] + s[4]
    <3> DEFINE J(r, b) == 256 * r + b
    <3>1. h[0] = 0 /\ \A m \in 1..4 : h[m] = J(h[m - 1], s[m])
      BY <1>3, <1>5 DEF Joins
    <3>2. /\ 1 - 1 = 0 /\ 2 - 1 = 1 /\ 3 - 1 = 2 /\ 4 - 1 = 3
          /\ 1 \in 1..4 /\ 2 \in 1..4 /\ 3 \in 1..4 /\ 4 \in 1..4
      OBVIOUS
    <3> HIDE DEF J
    <3>3. /\ h[0] = 0 /\ h[1] = J(h[0], s[1]) /\ h[2] = J(h[1], s[2])
          /\ h[3] = J(h[2], s[3]) /\ h[4] = J(h[3], s[4])
      BY <3>1, <3>2, Zenon
    <3> QED
      BY <3>3 DEF J
  <2>2. s[1] \in Int /\ s[2] \in Int /\ s[3] \in Int /\ s[4] \in Int
    <3>1. 1 \in 1..4 /\ 2 \in 1..4 /\ 3 \in 1..4 /\ 4 \in 1..4
      OBVIOUS
    <3> QED
      BY <1>4, <1>5, <3>1, BytesAreNumbers, Zenon
  <2> QED
    BY <2>1, <2>2
<1>6. h[Len(s)] \in Nat
  BY <1>3, <1>4 DEF Joins
<1> QED
  BY <1>1, <1>3, <1>5, <1>6

(* A byte as a signed one.                                                 *)
Signed(b) == IF b >= 128 THEN b - 256 ELSE b

LEMMA SignedType == \A b \in Byte : Signed(b) \in Int
BY DEF Byte, Signed

(* One, two or four bytes, the least significant first, the last with the  *)
(* sign.                                                                   *)
LEMMA SignedLittleRead ==
  ASSUME NEW s \in Seq(Byte)
  PROVE  /\ Len(s) = 1 => SignedLittle(s) = Signed(s[1])
         /\ Len(s) = 2 => SignedLittle(s) = 256 * Signed(s[2]) + s[1]
         /\ Len(s) = 4 => SignedLittle(s) =
                            256 * (256 * (256 * Signed(s[4]) + s[3]) + s[2]) + s[1]
<1> DEFINE n == Len(s)
           low == Reverse(Front(s))
           z == Signed(s[n])
<1>1. n \in Nat /\ \A i \in 1..n : s[i] \in Byte
  BY LenProperties, ElementOfSeq
<1>2. SUFFICES ASSUME n > 0
               PROVE  /\ n = 1 => SignedLittle(s) = Signed(s[1])
                      /\ n = 2 => SignedLittle(s) = 256 * Signed(s[2]) + s[1]
                      /\ n = 4 => SignedLittle(s) =
                                    256 * (256 * (256 * Signed(s[4]) + s[3]) + s[2]) + s[1]
  BY <1>1
<1>3. s # <<>> /\ n - 1 \in Nat /\ n \in 1..n
  <2>1. s # <<>>
    BY <1>2, EmptySeq
  <2>2. n \in Nat
    BY <1>1
  <2> HIDE DEF n
  <2> QED
    BY <1>2, <2>1, <2>2
<1>4. SignedLittle(s) = Behind(z, low)
  BY <1>3 DEF SignedLittle, Behind, FoldLeft, MapThenFoldSet, Last, Signed
<1>5. /\ Front(s) \in Seq(Byte) /\ Len(Front(s)) = n - 1
      /\ \A i \in 1..(n - 1) : Front(s)[i] = s[i]
  <2> DEFINE k == n - 1
  <2>1. 1 \in Int /\ k \in Nat /\ (IF 1 <= k THEN k - 1 + 1 ELSE 0) = k
    <3> HIDE DEF n
    <3> QED
      BY <1>3
  <2>2. \A i \in 1..k : s[i] \in Byte /\ 1 + i - 1 = i
    BY <1>1
  <2>3. Front(s) = SubSeq(s, 1, k)
    BY DEF Front
  <2> HIDE DEF k
  <2>4. /\ SubSeq(s, 1, k) \in Seq(Byte)
        /\ Len(SubSeq(s, 1, k)) = IF 1 <= k THEN k - 1 + 1 ELSE 0
        /\ \A i \in 1..(k - 1 + 1) : SubSeq(s, 1, k)[i] = s[1 + i - 1]
    BY <2>1, <2>2, SubSeqProperties
  <2>5. k - 1 + 1 = k
    BY <2>1
  <2> QED
    BY <2>1, <2>2, <2>3, <2>4, <2>5 DEF k
<1>6. /\ low \in Seq(Byte) /\ Len(low) = n - 1
      /\ \A i \in 1..(n - 1) : low[i] = s[n - i]
  <2> DEFINE f == Front(s)
             k == n - 1
  <2>1. k \in Nat /\ f \in Seq(Byte) /\ Len(f) = k /\ \A i \in 1..k : f[i] = s[i]
    BY <1>1, <1>2, <1>5
  <2>2. low = [i \in 1..k |-> f[(k - i) + 1]]
    BY <2>1 DEF Reverse
  <2>3. \A i \in 1..k : (k - i) + 1 \in 1..k /\ (k - i) + 1 = n - i
    BY <1>1, <2>1
  <2> HIDE DEF low, f, k
  <2>4. \A i \in 1..k : low[i] = s[n - i] /\ low[i] \in Byte
    <3>1. \A i \in 1..k : low[i] = f[(k - i) + 1]
      BY <2>2
    <3>2. \A i \in 1..k : f[(k - i) + 1] = s[n - i] /\ f[(k - i) + 1] \in Byte
      BY <2>1, <2>3, ElementOfSeq
    <3> QED
      BY <3>1, <3>2
  <2>5. low \in [1..k -> Byte]
    BY <2>2, <2>4
  <2> QED
    BY <2>1, <2>4, <2>5, IsASeq, LenProperties DEF k
<1>7. z \in Int
  <2>1. s[n] \in Byte
    BY <1>1, <1>3
  <2> QED
    BY <2>1, SignedType
<1> HIDE DEF low
<1>8. PICK h : Joins(h, z, low, Int) /\ Behind(z, low) = h[Len(low)]
  <2>1. Int \in SUBSET Int /\ \A r \in Int : \A b \in Byte : 256 * r + b \in Int
    BY DEF Byte
  <2> HIDE DEF z
  <2> QED
    BY <1>6, <1>7, <2>1, BehindSteps
<1>9. /\ h[0] = z /\ Behind(z, low) = h[n - 1]
      /\ \A m \in 1..(n - 1) : h[m] = 256 * h[m - 1] + s[n - m]
  BY <1>6, <1>8 DEF Joins
<1>10. CASE n = 1
  BY <1>4, <1>9, <1>10
<1>11. CASE n = 2
  <2>1. h[1] = 256 * h[0] + s[1]
    BY <1>9, <1>11
  <2> QED
    BY <1>4, <1>9, <1>11, <2>1
<1>12. CASE n = 4
  <2>1. h[1] = 256 * h[0] + s[3] /\ h[2] = 256 * h[1] + s[2] /\ h[3] = 256 * h[2] + s[1]
    <3>1. \A m \in 1..3 : h[m] = 256 * h[m - 1] + s[4 - m]
      BY <1>9, <1>12
    <3> QED
      BY <3>1
  <2> QED
    BY <1>4, <1>9, <1>12, <2>1
<1> QED
  BY <1>10, <1>11, <1>12

-----------------------------------------------------------------------------
(* The format of snapshots, as its description has it.                     *)

(* n without its last byte, and without its last three.                    *)
Shifted(n) == n \div 256
High(n) == Shifted(Shifted(Shifted(n)))

(* n in four bytes, the most significant first, or last: with the modulus  *)
(* of a negative number too.                                               *)
BigFour(n) == <<High(n) % 256, Shifted(Shifted(n)) % 256, Shifted(n) % 256, n % 256>>
LittleFour(n) == <<n % 256, Shifted(n) % 256, Shifted(Shifted(n)) % 256, High(n) % 256>>

(* The ways to write a length, in 6, 14 or 32 bits.                        *)
TwoBytes(n) == <<64 + Shifted(n), n % 256>>

LengthBytes(n) ==
  {l \in Seq(Byte) :
     \/ n \in 0..63 /\ l = <<n>>
     \/ Shifted(n) \in 0..63 /\ l = TwoBytes(n)
     \/ High(n) \in 0..255 /\ \E x \in 128..191 : l = <<x>> \o BigFour(n)}

(* The ways to write a string: with its length, or as an integer of 8, 16  *)
(* or 32 bits, behind a code that has no length.                           *)
SignedBytes == -128..127
InOne(n) == <<192>> \o <<n % 256>>
InTwo(n) == <<193>> \o <<n % 256, Shifted(n) % 256>>
InFour(n) == <<194>> \o LittleFour(n)

StringBytes(w) ==
  {s \in Seq(Byte) :
     \/ \E l \in LengthBytes(Len(w)) : s = l \o w
     \/ \E n \in Int :
          /\ w = Decimal(n)
          /\ \/ n \in SignedBytes /\ s = InOne(n)
             \/ Shifted(n) \in SignedBytes /\ s = InTwo(n)
             \/ High(n) \in SignedBytes /\ s = InFour(n)}

LEMMA Shifts ==
  ASSUME NEW n \in Int
  PROVE  /\ Shifted(n) \in Int /\ n % 256 \in Byte /\ n % 256 \in 0..255
         /\ n = 256 * Shifted(n) + (n % 256)
         /\ n \in Nat => Shifted(n) \in Nat
BY DEF Shifted, Byte

(* A number of one byte is its own remainder.                              *)
LEMMA SmallRemainder ==
  ASSUME NEW n \in 0..255
  PROVE  n % 256 = n
OBVIOUS

(* So is one byte with a sign, when the sign is read.                      *)
LEMMA SignedRemainder ==
  ASSUME NEW n \in -128..127
  PROVE  Signed(n % 256) = n
BY DEF Signed

(* What stands in data is a slice of it.                                   *)
LEMMA SliceAt ==
  ASSUME NEW data \in Seq(Byte), NEW p \in Nat \ {0}, NEW w \in Seq(Byte), At(data, p, w)
  PROVE  /\ Bytes(data, p, Len(w)) = w
         /\ p + Len(w) <= Len(data) + 1
         /\ \A i \in 1..Len(w) : data[p + i - 1] = w[i]
<1>1. Len(data) \in Nat /\ Len(w) \in Nat /\ p + Len(w) <= Len(data) + 1
  BY LenProperties DEF At
<1>2. Agrees(data, data)
  BY DEF Agrees
<1>3. SubSeq(data, p, p + Len(w) - 1) = w
  BY <1>1, <1>2, AgreesAt
<1>4. (IF p + Len(w) - 1 < Len(data) THEN p + Len(w) - 1 ELSE Len(data)) = p + Len(w) - 1
  BY <1>1
<1> QED
  BY <1>1, <1>3, <1>4 DEF Bytes, At

(* So are its first bytes.                                                 *)
LEMMA FirstAt ==
  ASSUME NEW data \in Seq(Byte), NEW p \in Nat \ {0}, NEW w \in Seq(Byte), At(data, p, w)
  PROVE  /\ Len(data) \in Nat /\ Len(w) \in Nat
         /\ Len(w) >= 1 => data[p] = w[1] /\ p <= Len(data) /\ ~(p > Len(data))
         /\ Len(w) >= 2 => data[p + 1] = w[2] /\ p < Len(data)
<1>1. Len(data) \in Nat /\ Len(w) \in Nat
  BY LenProperties
<1>2. p + Len(w) <= Len(data) + 1 /\ \A i \in 1..Len(w) : data[p + i - 1] = w[i]
  BY SliceAt
<1>3. p + 1 - 1 = p /\ p + 2 - 1 = p + 1
  OBVIOUS
<1>4. ASSUME Len(w) >= 1
      PROVE  data[p] = w[1] /\ p <= Len(data) /\ ~(p > Len(data))
  <2>1. 1 \in 1..Len(w)
    BY <1>1, <1>4
  <2>2. data[p + 1 - 1] = w[1]
    BY <1>2, <2>1
  <2> QED
    BY <1>1, <1>2, <1>3, <1>4, <2>2
<1>5. ASSUME Len(w) >= 2
      PROVE  data[p + 1] = w[2] /\ p < Len(data)
  <2>1. 2 \in 1..Len(w)
    BY <1>1, <1>5
  <2>2. data[p + 2 - 1] = w[2]
    BY <1>2, <2>1
  <2> QED
    BY <1>1, <1>2, <1>3, <1>5, <2>2
<1> QED
  BY <1>1, <1>4, <1>5

LEMMA FirstByte ==
  ASSUME NEW data \in Seq(Byte), NEW p \in Nat \ {0}, NEW w \in Seq(Byte), At(data, p, w),
         Len(w) \in Nat \ {0}
  PROVE  data[p] = w[1] /\ ~(p > Len(data))
<1>1. Len(w) >= 1
  OBVIOUS
<1> QED
  BY <1>1, FirstAt

(* Four bytes of a number give it back.                                    *)
LEMMA BigFourRead ==
  ASSUME NEW n \in Nat, High(n) \in 0..255
  PROVE  BigFour(n) \in Seq(Byte) /\ Len(BigFour(n)) = 4 /\ BigEndian(BigFour(n)) = n
<1> DEFINE s1 == Shifted(n)
           s2 == Shifted(s1)
           s3 == Shifted(s2)
           x == n % 256
           y == s1 % 256
           z == s2 % 256
           b == <<s3 % 256, z, y, x>>
<1>1. b = BigFour(n) /\ s3 = High(n)
  BY DEF BigFour, High
<1>2. s1 \in Int /\ x \in Byte /\ n = 256 * s1 + x
  <2>1. n \in Int
    OBVIOUS
  <2> QED
    BY <2>1, Shifts
<1>3. s2 \in Int /\ y \in Byte /\ s1 = 256 * s2 + y
  <2>1. s1 \in Int
    BY <1>2
  <2> HIDE DEF s1
  <2> QED
    BY <2>1, SMT DEF Shifted, Byte
<1>4. s3 \in Int /\ z \in Byte /\ s2 = 256 * s3 + z
  <2>1. s2 \in Int
    BY <1>3
  <2> HIDE DEF s2
  <2> QED
    BY <2>1, SMT DEF Shifted, Byte
<1> HIDE DEF s1, s2, s3, x, y, z
<1>5. s3 \in 0..255
  BY <1>1
<1>6. s3 % 256 = s3 /\ s3 \in Byte
  BY <1>5, SmallRemainder DEF Byte
<1>7. b \in Seq(Byte) /\ Len(b) = 4 /\ b[1] = s3 /\ b[2] = z /\ b[3] = y /\ b[4] = x
  BY <1>2, <1>3, <1>4, <1>6
<1> HIDE DEF b
<1>8. BigEndian(b) = 256 * (256 * (256 * s3 + z) + y) + x
  BY <1>7, BigEndianRead
<1>9. BigEndian(b) = n
  BY <1>2, <1>3, <1>4, <1>8, BytesAreNumbers
<1> QED
  BY <1>1, <1>7, <1>9

(* _read_length reads each of the ways, and leaves what follows.           *)
LEMMA ShortLength ==
  ASSUME NEW n \in 0..63
  PROVE  /\ <<n>> \in Seq(Byte) /\ Len(<<n>>) = 1
         /\ \A data \in Seq(Byte), p \in Nat \ {0} :
              At(data, p, <<n>>) => ReadLength(data, p) = Field(n, p + 1) /\ data[p] \div 64 = 0
<1> DEFINE l == <<n>>
<1>1. n \in Byte /\ n \div 64 = 0
  BY DEF Byte
<1>2. l \in Seq(Byte) /\ Len(l) = 1 /\ l[1] = n
  BY <1>1
<1> HIDE DEF l
<1>3. ASSUME NEW data \in Seq(Byte), NEW p \in Nat \ {0}, At(data, p, l)
      PROVE  ReadLength(data, p) = Field(n, p + 1) /\ data[p] \div 64 = 0
  <2>1. data[p] = n /\ ~(p > Len(data))
    <3>1. Len(l) \in Nat \ {0}
      BY <1>2
    <3>2. data[p] = l[1] /\ ~(p > Len(data))
      BY <1>2, <1>3, <3>1, FirstByte
    <3> QED
      BY <1>2, <3>2
  <2> QED
    BY <1>1, <2>1 DEF ReadLength
<1> QED
  BY <1>2, <1>3 DEF l

LEMMA TwoByteLength ==
  ASSUME NEW n \in Nat, Shifted(n) \in 0..63
  PROVE  /\ TwoBytes(n) \in Seq(Byte) /\ Len(TwoBytes(n)) = 2
         /\ \A data \in Seq(Byte), p \in Nat \ {0} :
              At(data, p, TwoBytes(n)) =>
                ReadLength(data, p) = Field(n, p + 2) /\ data[p] \div 64 = 1
<1> DEFINE l == TwoBytes(n)
           x == Shifted(n)
           y == n % 256
<1>1. y \in Byte /\ n = 256 * x + y
  <2>1. n \in Int
    OBVIOUS
  <2> QED
    BY <2>1, Shifts
<1>2. l = <<64 + x, y>>
  BY DEF TwoBytes
<1>3. x \in 0..63
  OBVIOUS
<1> HIDE DEF x, y, l
<1>4. 64 + x \in Byte /\ (64 + x) \div 64 = 1 /\ (64 + x) % 64 = x
  BY <1>3 DEF Byte
<1>5. l \in Seq(Byte) /\ Len(l) = 2 /\ l[1] = 64 + x /\ l[2] = y
  BY <1>1, <1>2, <1>4
<1>6. ASSUME NEW data \in Seq(Byte), NEW p \in Nat \ {0}, At(data, p, l)
      PROVE  ReadLength(data, p) = Field(n, p + 2) /\ data[p] \div 64 = 1
  <2>1. data[p] = 64 + x /\ data[p + 1] = y /\ ~(p > Len(data)) /\ p < Len(data)
    <3>1. Len(l) >= 1 /\ Len(l) >= 2
      BY <1>5
    <3> QED
      BY <1>5, <1>6, <3>1, FirstAt
  <2>2. 1 # 0
    OBVIOUS
  <2> QED
    BY <1>1, <1>4, <2>1, <2>2 DEF ReadLength
<1> QED
  BY <1>5, <1>6 DEF l

LEMMA FourByteLength ==
  ASSUME NEW n \in Nat, High(n) \in 0..255, NEW x \in 128..191
  PROVE  LET l == <<x>> \o BigFour(n)
         IN  /\ l \in Seq(Byte) /\ Len(l) = 5
             /\ \A data \in Seq(Byte), p \in Nat \ {0} :
                  At(data, p, l) => ReadLength(data, p) = Field(n, p + 5) /\ data[p] \div 64 = 2
<1> DEFINE h == <<x>>
           b == BigFour(n)
           l == h \o b
<1>1. b \in Seq(Byte) /\ Len(b) = 4 /\ BigEndian(b) = n
  BY BigFourRead
<1>2. x \in Byte /\ x \div 64 = 2
  BY DEF Byte
<1>3. h \in Seq(Byte) /\ Len(h) = 1 /\ h[1] = x
  BY <1>2
<1> HIDE DEF h, b
<1>4. l \in Seq(Byte) /\ Len(l) = 5
  <2>1. l \in Seq(Byte) /\ Len(l) = Len(h) + Len(b)
    BY <1>1, <1>3, ConcatProperties
  <2>2. Len(h) + Len(b) = 5
    BY <1>1, <1>3
  <2> QED
    BY <2>1, <2>2
<1>5. ASSUME NEW data \in Seq(Byte), NEW p \in Nat \ {0}, At(data, p, l)
      PROVE  ReadLength(data, p) = Field(n, p + 5) /\ data[p] \div 64 = 2
  <2>1. At(data, p, h) /\ At(data, p + 1, b)
    <3>1. p \in Nat
      OBVIOUS
    <3> QED
      BY <1>1, <1>3, <1>5, <3>1, AtParts
  <2>2. data[p] = x /\ ~(p > Len(data))
    <3>1. Len(h) \in Nat \ {0}
      BY <1>3
    <3>2. data[p] = h[1] /\ ~(p > Len(data))
      BY <1>3, <2>1, <3>1, FirstByte
    <3> QED
      BY <1>3, <3>2
  <2>3. Bytes(data, p + 1, 4) = b
    <3> DEFINE q == p + 1
    <3>1. q \in Nat \ {0} /\ At(data, q, b)
      BY <2>1
    <3> HIDE DEF q
    <3>2. Bytes(data, q, Len(b)) = b
      BY <1>1, <3>1, SliceAt
    <3> QED
      BY <1>1, <3>2 DEF q
  <2>4. 2 # 0 /\ 2 # 1
    OBVIOUS
  <2> QED
    BY <1>1, <1>2, <2>2, <2>3, <2>4 DEF ReadLength
<1> QED
  BY <1>4, <1>5 DEF h, b

LEMMA LengthRead ==
  ASSUME NEW n \in Nat, NEW l \in LengthBytes(n)
  PROVE  /\ l \in Seq(Byte) /\ Len(l) \in Nat \ {0}
         /\ \A data \in Seq(Byte), p \in Nat \ {0} :
              At(data, p, l) => /\ ReadLength(data, p) = Field(n, p + Len(l))
                                /\ data[p] \div 64 # 3
<1>1. CASE n \in 0..63 /\ l = <<n>>
  <2>1. 1 \in Nat \ {0} /\ 0 # 3
    OBVIOUS
  <2> QED
    BY <1>1, <2>1, ShortLength
<1>2. CASE Shifted(n) \in 0..63 /\ l = TwoBytes(n)
  <2>1. 2 \in Nat \ {0} /\ 1 # 3
    OBVIOUS
  <2> QED
    BY <1>2, <2>1, TwoByteLength
<1>3. CASE \E x \in 128..191 : High(n) \in 0..255 /\ l = <<x>> \o BigFour(n)
  <2>1. PICK x \in 128..191 : High(n) \in 0..255 /\ l = <<x>> \o BigFour(n)
    BY <1>3
  <2>2. 5 \in Nat \ {0} /\ 2 # 3
    OBVIOUS
  <2> DEFINE m == <<x>> \o BigFour(n)
  <2>3. /\ m \in Seq(Byte) /\ Len(m) = 5
        /\ \A data \in Seq(Byte), p \in Nat \ {0} :
             At(data, p, m) => ReadLength(data, p) = Field(n, p + 5) /\ data[p] \div 64 = 2
    BY <2>1, FourByteLength
  <2>4. l = m
    BY <2>1
  <2> HIDE DEF m
  <2> QED
    BY <2>2, <2>3, <2>4
<1> QED
  BY <1>1, <1>2, <1>3 DEF LengthBytes

(* One, two or four bytes of a number, read with their sign, give it back. *)
LEMMA SignedByteRead ==
  ASSUME NEW n \in -128..127
  PROVE  /\ <<n % 256>> \in Seq(Byte) /\ Len(<<n % 256>>) = 1
         /\ SignedLittle(<<n % 256>>) = n
<1> DEFINE x == n % 256
           t == <<x>>
<1>1. x \in Byte /\ Signed(x) = n
  <2>1. n \in Int
    OBVIOUS
  <2>2. x \in Byte
    BY <2>1, Shifts
  <2>3. Signed(x) = n
    BY SignedRemainder
  <2> QED
    BY <2>2, <2>3
<1> HIDE DEF x
<1>2. t \in Seq(Byte) /\ Len(t) = 1 /\ t[1] = x
  BY <1>1
<1> HIDE DEF t
<1>3. SignedLittle(t) = n
  BY <1>1, <1>2, SignedLittleRead
<1> QED
  BY <1>2, <1>3 DEF t, x

LEMMA SignedTwoRead ==
  ASSUME NEW n \in Int, Shifted(n) \in -128..127
  PROVE  LET t == <<n % 256, Shifted(n) % 256>>
         IN  t \in Seq(Byte) /\ Len(t) = 2 /\ SignedLittle(t) = n
<1> DEFINE x == n % 256
           y == Shifted(n)
           r == y % 256
           t == <<x, r>>
<1>1. x \in Byte /\ n = 256 * y + x
  BY Shifts
<1>2. y \in -128..127
  OBVIOUS
<1> HIDE DEF x, y
<1>3. r \in Byte /\ Signed(r) = y
  <2>1. y \in Int
    BY <1>2
  <2>2. r \in Byte
    BY <2>1, Shifts
  <2>3. Signed(r) = y
    BY <1>2, SignedRemainder
  <2> QED
    BY <2>2, <2>3
<1> HIDE DEF r
<1>4. t \in Seq(Byte) /\ Len(t) = 2 /\ t[1] = x /\ t[2] = r
  BY <1>1, <1>3
<1> HIDE DEF t
<1>5. SignedLittle(t) = 256 * Signed(t[2]) + t[1]
  BY <1>4, SignedLittleRead
<1> QED
  BY <1>1, <1>3, <1>4, <1>5 DEF t, x, y, r

LEMMA SignedFourRead ==
  ASSUME NEW n \in Int, High(n) \in -128..127
  PROVE  LET t == LittleFour(n)
         IN  t \in Seq(Byte) /\ Len(t) = 4 /\ SignedLittle(t) = n
<1> DEFINE s1 == Shifted(n)
           s2 == Shifted(s1)
           s3 == Shifted(s2)
           x == n % 256
           y == s1 % 256
           z == s2 % 256
           r == s3 % 256
           t == <<x, y, z, r>>
<1>1. t = LittleFour(n) /\ s3 = High(n)
  BY DEF LittleFour, High
<1>2. s1 \in Int /\ x \in Byte /\ n = 256 * s1 + x
  BY Shifts
<1>3. s2 \in Int /\ y \in Byte /\ s1 = 256 * s2 + y
  <2>1. s1 \in Int
    BY <1>2
  <2> HIDE DEF s1
  <2> QED
    BY <2>1, SMT DEF Shifted, Byte
<1>4. s3 \in Int /\ z \in Byte /\ s2 = 256 * s3 + z
  <2>1. s2 \in Int
    BY <1>3
  <2> HIDE DEF s2
  <2> QED
    BY <2>1, SMT DEF Shifted, Byte
<1> HIDE DEF s1, s2, s3, x, y, z
<1>5. s3 \in -128..127
  BY <1>1
<1>6. r \in Byte /\ Signed(r) = s3
  <2>1. r \in Byte
    BY <1>4, Shifts
  <2>2. Signed(r) = s3
    BY <1>5, SignedRemainder
  <2> QED
    BY <2>1, <2>2
<1> HIDE DEF r
<1>7. t \in Seq(Byte) /\ Len(t) = 4 /\ t[1] = x /\ t[2] = y /\ t[3] = z /\ t[4] = r
  BY <1>2, <1>3, <1>4, <1>6
<1> HIDE DEF t
<1>8. SignedLittle(t) = 256 * (256 * (256 * s3 + z) + y) + x
  BY <1>6, <1>7, SignedLittleRead
<1>9. SignedLittle(t) = n
  BY <1>2, <1>3, <1>4, <1>8, BytesAreNumbers
<1> QED
  BY <1>1, <1>7, <1>9

(* _read_string_raw reads a string behind its length.                      *)
LEMMA PlainString ==
  ASSUME NEW w \in Seq(Byte), NEW l \in LengthBytes(Len(w))
  PROVE  LET s == l \o w
         IN  /\ s \in Seq(Byte) /\ Len(s) \in Nat \ {0}
             /\ \A data \in Seq(Byte), p \in Nat \ {0} :
                  At(data, p, s) => ReadString(data, p) = Field(w, p + Len(s))
<1> DEFINE s == l \o w
           n == Len(w)
<1>1. n \in Nat
  BY LenProperties
<1>2. /\ l \in Seq(Byte) /\ Len(l) \in Nat \ {0}
      /\ \A data \in Seq(Byte), p \in Nat \ {0} :
           At(data, p, l) => /\ ReadLength(data, p) = Field(n, p + Len(l))
                             /\ data[p] \div 64 # 3
  BY <1>1, LengthRead
<1>3. s \in Seq(Byte) /\ Len(s) = Len(l) + n
  BY <1>2, ConcatProperties
<1>4. Len(s) \in Nat \ {0}
  BY <1>1, <1>2, <1>3
<1>5. ASSUME NEW data \in Seq(Byte), NEW p \in Nat \ {0}, At(data, p, s)
      PROVE  ReadString(data, p) = Field(w, p + Len(s))
  <2> DEFINE q == p + Len(l)
  <2>1. At(data, p, l) /\ At(data, q, w)
    <3>1. p \in Nat
      OBVIOUS
    <3> QED
      BY <1>2, <1>5, <3>1, AtParts
  <2>2. q \in Nat \ {0} /\ p + Len(s) = q + n
    BY <1>1, <1>2, <1>3
  <2>3. ReadLength(data, p) = Field(n, q) /\ data[p] \div 64 # 3
    BY <1>2, <2>1
  <2>4. ~(p = 0 \/ p > Len(data))
    <3>1. Len(l) >= 1
      BY <1>2
    <3> QED
      BY <1>2, <2>1, <3>1, FirstAt
  <2> HIDE DEF q, s
  <2>5. Bytes(data, q, n) = w
    BY <2>1, <2>2, SliceAt
  <2>6. ReadString(data, p) = Field(w, q + n)
    <3>1. Field(n, q).val = n /\ Field(n, q).pos = q
      BY DEF Field
    <3>2. q # 0
      BY <2>2
    <3> QED
      BY <2>3, <2>4, <2>5, <3>1, <3>2 DEF ReadString
  <2> QED
    BY <2>2, <2>6
<1> QED
  BY <1>3, <1>4, <1>5

(* And an integer behind the byte that has its width.                      *)
LEMMA IntegerString ==
  ASSUME NEW c \in 0..2, NEW t \in Seq(Byte), Len(t) = 2 ^ c
  PROVE  LET s == <<192 + c>> \o t
         IN  /\ s \in Seq(Byte) /\ Len(s) \in Nat \ {0}
             /\ \A data \in Seq(Byte), p \in Nat \ {0} :
                  At(data, p, s) =>
                    ReadString(data, p) = Field(Decimal(SignedLittle(t)), p + Len(s))
<1> DEFINE h == <<192 + c>>
           s == h \o t
           n == Len(t)
<1>1. 192 + c \in Byte /\ (192 + c) \div 64 = 3 /\ (192 + c) % 64 = c /\ ~(c > 2)
  BY DEF Byte
<1>2. h \in Seq(Byte) /\ Len(h) = 1 /\ h[1] = 192 + c
  BY <1>1
<1>3. n \in Nat
  BY LenProperties
<1> HIDE DEF h
<1>4. s \in Seq(Byte) /\ Len(s) = 1 + n
  <2>1. s \in Seq(Byte) /\ Len(s) = Len(h) + n
    BY <1>2, ConcatProperties
  <2> QED
    BY <1>2, <2>1
<1>5. Len(s) \in Nat \ {0}
  BY <1>3, <1>4
<1>6. ASSUME NEW data \in Seq(Byte), NEW p \in Nat \ {0}, At(data, p, s)
      PROVE  ReadString(data, p) = Field(Decimal(SignedLittle(t)), p + Len(s))
  <2> DEFINE q == p + 1
  <2>1. At(data, p, h) /\ At(data, q, t)
    <3>1. p \in Nat
      OBVIOUS
    <3> QED
      BY <1>2, <1>6, <3>1, AtParts
  <2>2. q \in Nat \ {0} /\ p + Len(s) = p + n + 1
    BY <1>3, <1>4
  <2>3. data[p] = 192 + c /\ ~(p = 0 \/ p > Len(data))
    <3>1. Len(h) \in Nat \ {0}
      BY <1>2
    <3>2. data[p] = h[1] /\ ~(p > Len(data))
      BY <1>2, <2>1, <3>1, FirstByte
    <3>3. p # 0
      OBVIOUS
    <3> QED
      BY <1>2, <3>2, <3>3
  <2>4. Bytes(data, q, n) = t
    <3> HIDE DEF q
    <3> QED
      BY <2>1, <2>2, SliceAt
  <2> HIDE DEF s
  <2>5. /\ data[p] \div 64 = 3 /\ data[p] % 64 = c /\ ~(c > 2)
        /\ ~(p = 0 \/ p > Len(data)) /\ Bytes(data, p + 1, 2 ^ c) = t /\ 2 ^ c = n
    BY <1>1, <2>3, <2>4
  <2>6. ReadString(data, p) = Field(Decimal(SignedLittle(t)), p + n + 1)
    BY <2>5 DEF ReadString
  <2> QED
    BY <2>2, <2>6
<1> QED
  BY <1>4, <1>5, <1>6 DEF h

(* Any way to write a string is read as that string.                       *)
LEMMA StringRead ==
  ASSUME NEW w \in Seq(Byte), NEW s \in StringBytes(w)
  PROVE  /\ s \in Seq(Byte) /\ Len(s) \in Nat \ {0}
         /\ \A data \in Seq(Byte), p \in Nat \ {0} :
              At(data, p, s) => ReadString(data, p) = Field(w, p + Len(s))
<1> DEFINE Reads(c) ==
      /\ c \in Seq(Byte) /\ Len(c) \in Nat \ {0}
      /\ \A data \in Seq(Byte), p \in Nat \ {0} :
           At(data, p, c) => ReadString(data, p) = Field(w, p + Len(c))
<1> SUFFICES Reads(s)
  OBVIOUS
<1>0. ASSUME NEW c \in 0..2, NEW t \in Seq(Byte), Len(t) = 2 ^ c,
             NEW n \in Int, SignedLittle(t) = n, w = Decimal(n)
      PROVE  Reads(<<192 + c>> \o t)
  <2> DEFINE s0 == <<192 + c>> \o t
             v == Decimal(SignedLittle(t))
  <2>1. /\ s0 \in Seq(Byte) /\ Len(s0) \in Nat \ {0}
        /\ \A data \in Seq(Byte), p \in Nat \ {0} :
             At(data, p, s0) => ReadString(data, p) = Field(v, p + Len(s0))
    BY <1>0, IntegerString
  <2>2. v = w
    BY <1>0
  <2> HIDE DEF s0, v
  <2>3. Reads(s0)
    BY <2>1, <2>2
  <2> QED
    BY <2>3 DEF s0
<1>1. CASE \E l \in LengthBytes(Len(w)) : s = l \o w
  BY <1>1, PlainString
<1> HIDE DEF Reads
<1>2. ASSUME NEW n \in Int, w = Decimal(n), n \in SignedBytes, s = InOne(n)
      PROVE  Reads(s)
  <2>1. n \in -128..127 /\ w = Decimal(n) /\ s = <<192>> \o <<n % 256>>
    BY <1>2 DEF SignedBytes, InOne
  <2> DEFINE t == <<n % 256>>
             h == <<192 + 0>>
  <2>2. t \in Seq(Byte) /\ Len(t) = 1 /\ SignedLittle(t) = n /\ n \in Int
    <3>1. n \in Int
      BY <2>1
    <3> QED
      BY <2>1, <3>1, SignedByteRead
  <2>3. h \o t = s
    <3>1. h = <<192>>
      OBVIOUS
    <3> QED
      BY <2>1, <3>1
  <2>4. 0 \in 0..2 /\ 2 ^ 0 = 1
    OBVIOUS
  <2> HIDE DEF t
  <2>5. Reads(<<192 + 0>> \o t)
    BY <1>0, <2>1, <2>2, <2>4
  <2> QED
    BY <2>3, <2>5
<1>3. ASSUME NEW n \in Int, w = Decimal(n), Shifted(n) \in SignedBytes, s = InTwo(n)
      PROVE  Reads(s)
  <2>1. Shifted(n) \in -128..127 /\ w = Decimal(n) /\ s = <<193>> \o <<n % 256, Shifted(n) % 256>>
    BY <1>3 DEF SignedBytes, InTwo
  <2> DEFINE t == <<n % 256, Shifted(n) % 256>>
             h == <<192 + 1>>
  <2>2. t \in Seq(Byte) /\ Len(t) = 2 /\ SignedLittle(t) = n
    BY <2>1, SignedTwoRead
  <2>3. h \o t = s
    <3>1. h = <<193>>
      OBVIOUS
    <3> QED
      BY <2>1, <3>1
  <2>4. 1 \in 0..2 /\ 2 ^ 1 = 2
    OBVIOUS
  <2> HIDE DEF t
  <2>5. Reads(<<192 + 1>> \o t)
    BY <1>0, <2>1, <2>2, <2>4
  <2> QED
    BY <2>3, <2>5
<1>4. ASSUME NEW n \in Int, w = Decimal(n), High(n) \in SignedBytes, s = InFour(n)
      PROVE  Reads(s)
  <2>1. High(n) \in -128..127 /\ w = Decimal(n) /\ s = <<194>> \o LittleFour(n)
    BY <1>4 DEF SignedBytes, InFour
  <2> DEFINE t == LittleFour(n)
             h == <<192 + 2>>
  <2>2. t \in Seq(Byte) /\ Len(t) = 4 /\ SignedLittle(t) = n
    BY <2>1, SignedFourRead
  <2>3. h \o t = s
    <3>1. h = <<194>>
      OBVIOUS
    <3> QED
      BY <2>1, <3>1
  <2>4. 2 \in 0..2 /\ 2 ^ 2 = 4
    OBVIOUS
  <2> HIDE DEF t
  <2>5. Reads(<<192 + 2>> \o t)
    BY <1>0, <2>1, <2>2, <2>4
  <2> QED
    BY <2>3, <2>5
<1>5. \/ \E l \in LengthBytes(Len(w)) : s = l \o w
      \/ \E n \in Int : /\ w = Decimal(n)
                        /\ \/ n \in SignedBytes /\ s = InOne(n)
                           \/ Shifted(n) \in SignedBytes /\ s = InTwo(n)
                           \/ High(n) \in SignedBytes /\ s = InFour(n)
  BY DEF StringBytes
<1> QED
  BY <1>1, <1>2, <1>3, <1>4, <1>5

-----------------------------------------------------------------------------
(* The loop of _parse_body.                                                *)

(* One turn, at p; f is what the rest of the file gives.                   *)
Turn(data, f, p) ==
  IF p = 0 \/ p > Len(data) THEN Unreadable
  ELSE CASE data[p] = OpEof -> [ok |-> TRUE, items |-> <<>>]
         [] data[p] = OpSelectDb -> f[ReadLength(data, p + 1).pos]
         [] data[p] = OpResizeDb ->
              LET first == ReadLength(data, p + 1)
              IN  f[IF first.pos = 0 THEN 0 ELSE ReadLength(data, first.pos).pos]
         [] OTHER ->
              LET type == p + (CASE data[p] = OpExpireTimeMs -> 9
                                 [] data[p] = OpExpireTime -> 5
                                 [] OTHER -> 0)
                  key == ReadString(data, type + 1)
                  value == ReadString(data, key.pos)
                  rest == f[value.pos]
              IN  IF type > Len(data) \/ value.pos = 0 THEN Unreadable
                  ELSE IF data[type] # TypeString THEN Unreadable
                  ELSE [rest EXCEPT !.items = << <<key.val, value.val>> >> \o @]

(* A function that takes every turn.                                       *)
Loops(data, f) == f = [p \in Nat |-> Turn(data, f, p)]

Looped(data) == CHOOSE f : Loops(data, f)

LEMMA ParsedByTurns ==
  ASSUME NEW data, NEW start
  PROVE  ParseBody(data, start) = Looped(data)[start]
BY DEF ParseBody, Looped, Loops, Turn

(* Slices of bytes are bytes.                                              *)
LEMMA BytesType ==
  ASSUME NEW data \in Seq(Byte), NEW p \in Nat \ {0}, NEW n \in Int
  PROVE  Bytes(data, p, n) \in Seq(Byte)
<1> DEFINE e == IF p + n - 1 < Len(data) THEN p + n - 1 ELSE Len(data)
<1>1. Len(data) \in Nat
  BY LenProperties
<1>2. e \in Int /\ e <= Len(data)
  BY <1>1
<1> HIDE DEF e
<1>3. \A i \in p..e : data[i] \in Byte
  <2>1. \A i \in p..e : i \in 1..Len(data)
    BY <1>1, <1>2
  <2> QED
    BY <2>1, ElementOfSeq
<1>4. SubSeq(data, p, e) \in Seq(Byte)
  <2>1. p \in Int
    OBVIOUS
  <2> QED
    BY <1>2, <1>3, <2>1, SubSeqProperties
<1> QED
  BY <1>4 DEF e, Bytes

(* Whatever the bytes are, reading goes forward, or ends.                  *)
LEMMA LengthAdvances ==
  ASSUME NEW data \in Seq(Byte), NEW p \in Nat \ {0}
  PROVE  /\ ReadLength(data, p).val \in Nat \/ ReadLength(data, p).pos = 0
         /\ ReadLength(data, p).pos \in Nat
         /\ ReadLength(data, p).pos = 0 \/ ReadLength(data, p).pos > p
<1> DEFINE r == ReadLength(data, p)
           b == data[p]
           low == b % 64
           four == BigEndian(Bytes(data, p + 1, 4))
<1>1. four \in Nat
  <2>1. p + 1 \in Nat \ {0} /\ 4 \in Int
    OBVIOUS
  <2>2. Bytes(data, p + 1, 4) \in Seq(Byte)
    BY <2>1, BytesType
  <2> QED
    BY <2>2, BigEndianRead
<1>2. Len(data) \in Nat
  BY LenProperties
<1>3. /\ NoField.pos = 0
      /\ \A v, q : Field(v, q).val = v /\ Field(v, q).pos = q
  BY DEF NoField, Field
<1>4. CASE p > Len(data)
  <2>1. r = NoField
    BY <1>4 DEF ReadLength
  <2> HIDE DEF r
  <2>2. r.pos = 0 /\ 0 \in Nat
    BY <1>3, <2>1
  <2> QED
    BY <2>2 DEF r
<1>5. CASE p <= Len(data)
  <2>1. b \in Byte
    <3>1. p \in 1..Len(data)
      BY <1>2, <1>5
    <3> QED
      BY <3>1, ElementOfSeq
  <2>2. b \in Nat /\ low \in Nat
    <3>1. \A c \in Byte : c \in Nat /\ c % 64 \in Nat
      BY DEF Byte
    <3> HIDE DEF b
    <3> QED
      BY <2>1, <3>1
  <2>3. ASSUME p < Len(data)
        PROVE  256 * low + data[p + 1] \in Nat
    <3>1. p + 1 \in 1..Len(data)
      BY <1>2, <2>3
    <3>2. data[p + 1] \in Nat
      BY <3>1, ElementOfSeq, BytesAreNumbers
    <3> HIDE DEF low
    <3> QED
      BY <2>2, <3>2
  <2>4. ~(p > Len(data))
    BY <1>2, <1>5
  <2>5. \/ r = Field(b, p + 1)
        \/ p < Len(data) /\ r = Field(256 * low + data[p + 1], p + 2)
        \/ r = Field(four, p + 5)
        \/ r = NoField
    <3> DEFINE d == b \div 64
    <3>1. r = CASE d = 0 -> Field(b, p + 1)
                [] d = 1 /\ p < Len(data) -> Field(256 * low + data[p + 1], p + 2)
                [] d = 2 -> Field(four, p + 5)
                [] OTHER -> NoField
      BY <2>4 DEF ReadLength
    <3> HIDE DEF r, d, b, low, four
    <3>2. d = 0 \/ (d = 1 /\ p < Len(data)) \/ d = 2
            \/ ~(d = 0 \/ (d = 1 /\ p < Len(data)) \/ d = 2)
      OBVIOUS
    <3> QED
      BY <3>1, <3>2
  <2> HIDE DEF r, b, low, four
  <2>6. CASE r = Field(b, p + 1)
    <3>1. r.val \in Nat /\ r.pos = p + 1
      BY <1>3, <2>2, <2>6
    <3> QED
      BY <3>1 DEF r
  <2>7. CASE p < Len(data) /\ r = Field(256 * low + data[p + 1], p + 2)
    <3>1. r.val \in Nat /\ r.pos = p + 2
      BY <1>3, <2>3, <2>7
    <3> QED
      BY <3>1 DEF r
  <2>8. CASE r = Field(four, p + 5)
    <3>1. r.val \in Nat /\ r.pos = p + 5
      BY <1>1, <1>3, <2>8
    <3> QED
      BY <3>1 DEF r
  <2>9. CASE r = NoField
    <3>1. r.pos = 0
      BY <1>3, <2>9
    <3> QED
      BY <3>1 DEF r
  <2> QED
    BY <2>5, <2>6, <2>7, <2>8, <2>9
<1> QED
  BY <1>2, <1>4, <1>5

(* The low bits of a byte that names an integer's width.                   *)
LEMMA FewBytes ==
  ASSUME NEW b \in Byte, ~(b % 64 > 2)
  PROVE  b % 64 = 0 \/ b % 64 = 1 \/ b % 64 = 2
<1> DEFINE m == b % 64
<1>1. b \in Int
  BY DEF Byte
<1>2. m \in 0..63
  BY <1>1
<1> HIDE DEF m
<1>3. ~(m > 2) => m = 0 \/ m = 1 \/ m = 2
  BY <1>2
<1> QED
  BY <1>3 DEF m

LEMMA StringAdvances ==
  ASSUME NEW data \in Seq(Byte), NEW p \in Nat
  PROVE  /\ ReadString(data, p).pos \in Nat
         /\ ReadString(data, p).pos = 0 \/ ReadString(data, p).pos > p
<1> DEFINE r == ReadString(data, p)
           n == 2 ^ (data[p] % 64)
           length == ReadLength(data, p)
<1>1. /\ NoField.pos = 0 /\ 0 \in Nat
      /\ \A v, q : Field(v, q).val = v /\ Field(v, q).pos = q
  BY DEF NoField, Field
<1>2. CASE p = 0 \/ p > Len(data)
  <2>1. r = NoField
    BY <1>2 DEF ReadString
  <2> QED
    BY <1>1, <2>1
<1>3. CASE ~(p = 0 \/ p > Len(data)) /\ data[p] \div 64 = 3
  <2>1. r = IF data[p] % 64 > 2 THEN NoField
            ELSE Field(Decimal(SignedLittle(Bytes(data, p + 1, n))), p + n + 1)
    BY <1>3 DEF ReadString
  <2>2. CASE data[p] % 64 > 2
    <3>1. r = NoField
      BY <2>1, <2>2
    <3> QED
      BY <1>1, <3>1
  <2>3. CASE ~(data[p] % 64 > 2)
    <3>1. n \in {1, 2, 4}
      <4>1. Len(data) \in Nat
        BY LenProperties
      <4>2. p \in 1..Len(data)
        BY <1>3, <4>1
      <4>3. data[p] \in Byte
        BY <4>2, ElementOfSeq
      <4>4. data[p] % 64 = 0 \/ data[p] % 64 = 1 \/ data[p] % 64 = 2
        BY <2>3, <4>3, FewBytes
      <4>5. 2 ^ 0 = 1 /\ 2 ^ 1 = 2
        BY SMT
      <4>6. 2 ^ 2 = 4
        BY SMT
      <4> QED
        BY <4>4, <4>5, <4>6
    <3> HIDE DEF n
    <3>2. r.pos = p + n + 1
      BY <1>1, <2>1, <2>3
    <3> HIDE DEF r
    <3>3. r.pos \in Nat /\ r.pos > p
      BY <3>1, <3>2
    <3> QED
      BY <3>3 DEF r
  <2> QED
    BY <2>2, <2>3
<1>4. CASE ~(p = 0 \/ p > Len(data)) /\ data[p] \div 64 # 3
  <2>1. r = IF length.pos = 0 THEN NoField
            ELSE Field(Bytes(data, length.pos, length.val), length.pos + length.val)
    BY <1>4 DEF ReadString
  <2>2. /\ length.val \in Nat \/ length.pos = 0
        /\ length.pos \in Nat
        /\ length.pos = 0 \/ length.pos > p
    <3>1. p \in Nat \ {0}
      BY <1>4
    <3> QED
      BY <3>1, LengthAdvances
  <2> HIDE DEF length
  <2>3. CASE length.pos = 0
    <3>1. r = NoField
      BY <2>1, <2>3
    <3> QED
      BY <1>1, <3>1
  <2>4. CASE length.pos # 0
    <3>1. r.pos = length.pos + length.val
      BY <1>1, <2>1, <2>4
    <3> HIDE DEF r
    <3>2. r.pos \in Nat /\ r.pos > p
      BY <2>2, <2>4, <3>1
    <3> QED
      BY <3>2 DEF r
  <2> QED
    BY <2>3, <2>4
<1> QED
  BY <1>2, <1>3, <1>4

(* A turn depends only on what comes behind it, and on 0, for no place.    *)
LEMMA TurnIsLocal ==
  ASSUME NEW data \in Seq(Byte), NEW p \in Nat, NEW f, NEW g,
         f[0] = g[0], \A q \in Nat : q > p => f[q] = g[q]
  PROVE  Turn(data, f, p) = Turn(data, g, p)
<1>1. CASE p = 0 \/ p > Len(data)
  BY <1>1 DEF Turn
<1>2. CASE ~(p = 0 \/ p > Len(data))
  <2> DEFINE first == ReadLength(data, p + 1)
             second == ReadLength(data, first.pos)
             type == p + (CASE data[p] = OpExpireTimeMs -> 9
                            [] data[p] = OpExpireTime -> 5
                            [] OTHER -> 0)
             key == ReadString(data, type + 1)
             value == ReadString(data, key.pos)
             q1 == first.pos
             q2 == IF first.pos = 0 THEN 0 ELSE second.pos
             q3 == value.pos
  <2>1. q1 \in Nat /\ (q1 = 0 \/ q1 > p)
    <3>1. p + 1 \in Nat \ {0}
      OBVIOUS
    <3>2. q1 \in Nat /\ (q1 = 0 \/ q1 > p + 1)
      BY <3>1, LengthAdvances
    <3> HIDE DEF q1
    <3> QED
      BY <3>2
  <2>2. q2 \in Nat /\ (q2 = 0 \/ q2 > p)
    <3>1. CASE first.pos = 0
      BY <3>1
    <3>2. CASE first.pos # 0
      <4>1. first.pos \in Nat \ {0} /\ first.pos > p
        BY <2>1, <3>2
      <4> HIDE DEF first
      <4>2. second.pos \in Nat /\ (second.pos = 0 \/ second.pos > first.pos)
        BY <4>1, LengthAdvances
      <4>3. q2 = second.pos
        BY <3>2
      <4> HIDE DEF second, q2
      <4> QED
        BY <4>1, <4>2, <4>3
    <3> QED
      BY <3>1, <3>2
  <2>3. q3 \in Nat /\ (q3 = 0 \/ q3 > p)
    <3>1. type + 1 \in Nat /\ type + 1 > p
      OBVIOUS
    <3> HIDE DEF type
    <3>2. key.pos \in Nat /\ (key.pos = 0 \/ key.pos > type + 1)
      BY <3>1, StringAdvances
    <3> HIDE DEF key
    <3>3. value.pos \in Nat /\ (value.pos = 0 \/ value.pos > key.pos)
      BY <3>2, StringAdvances
    <3>4. key.pos = 0 => value.pos = 0
      BY DEF ReadString, NoField
    <3>5. type \in Int
      BY DEF type
    <3> HIDE DEF value
    <3> QED
      BY <3>1, <3>2, <3>3, <3>4, <3>5
  <2> HIDE DEF q1, q2, q3
  <2>4. f[q1] = g[q1] /\ f[q2] = g[q2] /\ f[q3] = g[q3]
    BY <2>1, <2>2, <2>3
  <2> DEFINE T(h) ==
        CASE data[p] = OpEof -> [ok |-> TRUE, items |-> <<>>]
          [] data[p] = OpSelectDb -> h[q1]
          [] data[p] = OpResizeDb -> h[q2]
          [] OTHER -> IF type > Len(data) \/ value.pos = 0 THEN Unreadable
                      ELSE IF data[type] # TypeString THEN Unreadable
                      ELSE [h[q3] EXCEPT !.items = << <<key.val, value.val>> >> \o @]
  <2>5. Turn(data, f, p) = T(f) /\ Turn(data, g, p) = T(g)
    BY <1>2 DEF Turn, q1, q2, q3
  <2> HIDE DEF type, value, key
  <2>6. T(f) = T(g)
    BY <2>4
  <2> QED
    BY <2>5, <2>6
<1> QED
  BY <1>1, <1>2

(* There is such a function: it is found from the end of the file back.    *)
LEMMA LoopExists ==
  ASSUME NEW data \in Seq(Byte)
  PROVE  \E f : Loops(data, f)
<1> DEFINE n == Len(data)
           Upto(f, k) == /\ f = [p \in Nat |-> f[p]]
                         /\ \A p \in Nat : p = 0 \/ p + k > n => f[p] = Turn(data, f, p)
           N == {k \in Nat : \E f : Upto(f, k)}
<1>1. n \in Nat
  BY LenProperties
<1>2. \A f : Turn(data, f, 0) = Unreadable
  BY DEF Turn
<1>3. \A p, f : p > n => Turn(data, f, p) = Unreadable
  BY DEF Turn
<1> HIDE DEF n
<1>4. 0 \in N
  <2> DEFINE f == [p \in Nat |-> Unreadable]
  <2>1. f = [p \in Nat |-> f[p]]
    OBVIOUS
  <2>2. \A p \in Nat : f[p] = Unreadable
    OBVIOUS
  <2> HIDE DEF f
  <2>3. \A p \in Nat : p = 0 \/ p + 0 > n => f[p] = Turn(data, f, p)
    BY <1>1, <1>2, <1>3, <2>2
  <2>4. Upto(f, 0)
    BY <2>1, <2>3
  <2> HIDE DEF Upto
  <2> QED
    BY <2>4
<1>5. ASSUME NEW k \in N
      PROVE  k + 1 \in N
  <2>1. PICK f : Upto(f, k)
    OBVIOUS
  <2>2. CASE k >= n
    <3>1. Upto(f, k + 1)
      BY <1>1, <2>1, <2>2
    <3> HIDE DEF Upto
    <3> QED
      BY <3>1
  <2>3. CASE k < n
    <3> DEFINE m == n - k
               g == [p \in Nat |-> IF p = m THEN Turn(data, f, m) ELSE f[p]]
    <3>1. m \in Nat /\ m # 0
      BY <1>1, <2>3
    <3>2. \A p \in Nat : p + (k + 1) > n => p = m \/ p > m
      BY <1>1, <2>3
    <3>3. \A p \in Nat : p > m => p + k > n
      BY <1>1, <2>3
    <3> HIDE DEF m
    <3>4. g = [p \in Nat |-> g[p]]
      OBVIOUS
    <3>5. g[m] = Turn(data, f, m) /\ \A p \in Nat : p # m => g[p] = f[p]
      BY <3>1
    <3> HIDE DEF g
    <3>6. 0 \in Nat /\ g[0] = f[0]
      BY <3>1, <3>5
    <3>7. ASSUME NEW p \in Nat, p = m \/ p > m
          PROVE  g[p] = Turn(data, g, p)
      <4>1. \A q \in Nat : q > p => q # m
        BY <3>1, <3>7
      <4>2. \A q \in Nat : q > p => f[q] = g[q]
        BY <3>5, <4>1
      <4>3. Turn(data, f, p) = Turn(data, g, p)
        BY <3>6, <4>2, TurnIsLocal
      <4>4. g[p] = Turn(data, f, p)
        <5>1. CASE p = m
          BY <3>5, <5>1
        <5>2. CASE p > m
          <6>1. p # m
            BY <3>1, <5>2
          <6> QED
            BY <2>1, <3>3, <3>5, <5>2, <6>1
        <5> QED
          BY <3>7, <5>1, <5>2
      <4> QED
        BY <4>3, <4>4
    <3>8. g[0] = Turn(data, g, 0)
      BY <1>2, <2>1, <3>6
    <3>9. Upto(g, k + 1)
      BY <3>2, <3>4, <3>7, <3>8
    <3> HIDE DEF Upto
    <3> QED
      BY <3>9
  <2> QED
    BY <1>1, <2>2, <2>3
<1>6. N = Nat
  <2> N \in SUBSET Nat
    OBVIOUS
  <2> HIDE DEF N
  <2> QED
    BY <1>4, <1>5, Induction
<1>7. PICK f : Upto(f, n)
  <2>1. n \in N
    BY <1>1, <1>6
  <2> HIDE DEF Upto
  <2> QED
    BY <2>1
<1>8. \A p \in Nat : p = 0 \/ p + n > n
  BY <1>1
<1>9. \A p \in Nat : f[p] = Turn(data, f, p)
  BY <1>7, <1>8
<1>10. f = [p \in Nat |-> f[p]]
  BY <1>7
<1>11. [p \in Nat |-> f[p]] = [p \in Nat |-> Turn(data, f, p)]
  BY <1>9
<1>12. Loops(data, f)
  BY <1>10, <1>11 DEF Loops
<1> QED
  BY <1>12

LEMMA TurnsTaken ==
  ASSUME NEW data \in Seq(Byte), NEW p \in Nat
  PROVE  Looped(data)[p] = Turn(data, Looped(data), p)
<1> DEFINE f == Looped(data)
<1>1. Loops(data, f)
  BY LoopExists DEF Looped
<1> HIDE DEF f
<1> QED
  BY <1>1 DEF Loops, f

-----------------------------------------------------------------------------
(* The sections of a snapshot.                                             *)

AnyLength == UNION {LengthBytes(n) : n \in Nat}

(* What the loader passes over: the number of a database, and how large    *)
(* its tables are.                                                         *)
Skipped ==
  {s \in Seq(Byte) :
     \/ \E l \in AnyLength : s = <<OpSelectDb>> \o l
     \/ \E l, m \in AnyLength : s = <<OpResizeDb>> \o (l \o m)}

(* An expiry time, in seconds or milliseconds, or none.                    *)
ExpiryBytes ==
       {<<>>}
  \cup {<<OpExpireTime>> \o t : t \in {u \in Seq(Byte) : Len(u) = 4}}
  \cup {<<OpExpireTimeMs>> \o t : t \in {u \in Seq(Byte) : Len(u) = 8}}

PairWords == Seq(Byte) \X Seq(Byte)

PairBytes(item) ==
  {s \in Seq(Byte) :
     \E e \in ExpiryBytes, k \in StringBytes(item[1]), v \in StringBytes(item[2]) :
       s = e \o (<<TypeString>> \o (k \o v))}

(* s is a section that says found.                                         *)
Section(s, found) ==
  \/ s \in Skipped /\ found = <<>>
  \/ \E item \in PairWords : s \in PairBytes(item) /\ found = <<item>>

LEMMA Codes ==
  /\ {OpEof, OpSelectDb, OpResizeDb, OpExpireTime, OpExpireTimeMs, TypeString} \subseteq Byte
  /\ OpEof # OpSelectDb /\ OpEof # OpResizeDb /\ OpSelectDb # OpResizeDb
  /\ \A x \in {OpExpireTime, OpExpireTimeMs, TypeString} :
       x # OpEof /\ x # OpSelectDb /\ x # OpResizeDb
  /\ OpExpireTime # OpExpireTimeMs
  /\ TypeString # OpExpireTime /\ TypeString # OpExpireTimeMs
BY DEF Byte, OpEof, OpSelectDb, OpResizeDb, OpExpireTime, OpExpireTimeMs, TypeString

(* A code stands in front of what it announces.                            *)
LEMMA CodeFirst ==
  ASSUME NEW data \in Seq(Byte), NEW p \in Nat \ {0}, NEW c \in Byte,
         NEW t \in Seq(Byte), At(data, p, <<c>> \o t)
  PROVE  /\ data[p] = c /\ ~(p = 0 \/ p > Len(data))
         /\ At(data, p + 1, t) /\ p + 1 \in Nat \ {0}
         /\ <<c>> \o t \in Seq(Byte) /\ Len(<<c>> \o t) = 1 + Len(t)
<1> DEFINE l == <<c>>
<1>1. l \in Seq(Byte) /\ Len(l) = 1 /\ l[1] = c
  OBVIOUS
<1> HIDE DEF l
<1>2. At(data, p, l) /\ At(data, p + Len(l), t)
  <2>1. p \in Nat /\ At(data, p, l \o t)
    BY DEF l
  <2> QED
    BY <1>1, <2>1, AtParts
<1>3. data[p] = l[1] /\ ~(p > Len(data))
  <2>1. Len(l) >= 1 => data[p] = l[1] /\ p <= Len(data) /\ ~(p > Len(data))
    BY <1>1, <1>2, FirstAt
  <2> QED
    BY <1>1, <2>1
<1>4. l \o t \in Seq(Byte) /\ Len(l \o t) = Len(l) + Len(t)
  BY <1>1, ConcatProperties
<1> QED
  BY <1>1, <1>2, <1>3, <1>4 DEF l

(* Where a length is read.                                                 *)
LEMMA AnyLengthRead ==
  ASSUME NEW l \in AnyLength
  PROVE  /\ l \in Seq(Byte) /\ Len(l) \in Nat \ {0}
         /\ \A data \in Seq(Byte), p \in Nat \ {0} :
              At(data, p, l) => ReadLength(data, p).pos = p + Len(l)
<1>1. PICK n \in Nat : l \in LengthBytes(n)
  BY DEF AnyLength
<1>2. \A v, q : Field(v, q).pos = q
  BY DEF Field
<1> QED
  BY <1>1, <1>2, LengthRead

(* The loop takes what follows for what it read at s.                      *)
Passes(s) ==
  /\ s \in Seq(Byte)
  /\ \A data \in Seq(Byte), p \in Nat \ {0} :
       At(data, p, s) => Looped(data)[p] = Looped(data)[p + Len(s)]

(* The loader passes over what says no pair.                               *)
LEMMA SkippedRead ==
  ASSUME NEW s \in Skipped
  PROVE  Passes(s)
<1>1. ASSUME NEW l \in AnyLength, s = <<OpSelectDb>> \o l
      PROVE  Passes(s)
  <2>1. l \in Seq(Byte) /\ Len(l) \in Nat /\ OpSelectDb \in Byte
    BY AnyLengthRead, Codes
  <2>2. s \in Seq(Byte)
    BY <1>1, <2>1
  <2>3. ASSUME NEW data \in Seq(Byte), NEW p \in Nat \ {0}, At(data, p, s)
        PROVE  Looped(data)[p] = Looped(data)[p + Len(s)]
    <3>1. /\ data[p] = OpSelectDb /\ ~(p = 0 \/ p > Len(data))
          /\ At(data, p + 1, l) /\ p + 1 \in Nat \ {0}
          /\ Len(s) = 1 + Len(l)
      BY <1>1, <2>1, <2>3, CodeFirst
    <3>2. ReadLength(data, p + 1).pos = p + 1 + Len(l)
      BY <2>1, <3>1, AnyLengthRead
    <3>3. p + 1 + Len(l) = p + Len(s)
      BY <2>1, <3>1
    <3>4. Looped(data)[p] = Turn(data, Looped(data), p)
      BY TurnsTaken
    <3> DEFINE f == Looped(data)
    <3> HIDE DEF f
    <3>5. Turn(data, f, p) = f[ReadLength(data, p + 1).pos]
      BY <3>1, Codes DEF Turn
    <3> QED
      BY <3>2, <3>3, <3>4, <3>5 DEF f
  <2> QED
    BY <2>2, <2>3 DEF Passes
<1>2. ASSUME NEW l \in AnyLength, NEW m \in AnyLength, s = <<OpResizeDb>> \o (l \o m)
      PROVE  Passes(s)
  <2>1. /\ l \in Seq(Byte) /\ Len(l) \in Nat /\ m \in Seq(Byte) /\ Len(m) \in Nat
        /\ OpResizeDb \in Byte
    BY AnyLengthRead, Codes
  <2>2. l \o m \in Seq(Byte) /\ Len(l \o m) = Len(l) + Len(m)
    BY <2>1, ConcatProperties
  <2>3. s \in Seq(Byte)
    BY <1>2, <2>1, <2>2
  <2>4. ASSUME NEW data \in Seq(Byte), NEW p \in Nat \ {0}, At(data, p, s)
        PROVE  Looped(data)[p] = Looped(data)[p + Len(s)]
    <3>1. /\ data[p] = OpResizeDb /\ ~(p = 0 \/ p > Len(data))
          /\ At(data, p + 1, l \o m) /\ p + 1 \in Nat \ {0}
          /\ Len(s) = 1 + Len(l \o m)
      <4> DEFINE t == l \o m
      <4>1. t \in Seq(Byte) /\ s = <<OpResizeDb>> \o t
        BY <1>2, <2>2
      <4> HIDE DEF t
      <4>2. At(data, p, <<OpResizeDb>> \o t)
        BY <2>4, <4>1
      <4>3. /\ data[p] = OpResizeDb /\ ~(p = 0 \/ p > Len(data))
            /\ At(data, p + 1, t) /\ p + 1 \in Nat \ {0}
            /\ Len(<<OpResizeDb>> \o t) = 1 + Len(t)
        BY <2>1, <4>1, <4>2, CodeFirst
      <4> QED
        BY <4>1, <4>3 DEF t
    <3> DEFINE q == p + 1
               r == q + Len(l)
    <3>2. q \in Nat \ {0} /\ q \in Nat /\ r \in Nat \ {0} /\ r # 0
      BY <2>1
    <3>3. At(data, q, l) /\ At(data, r, m)
      <4> HIDE DEF q
      <4>1. At(data, q, l \o m)
        BY <3>1 DEF q
      <4> QED
        BY <2>1, <3>2, <4>1, AtParts
    <3>4. r + Len(m) = p + Len(s)
      BY <2>1, <2>2, <3>1
    <3> HIDE DEF q, r
    <3>5. ReadLength(data, q).pos = r /\ ReadLength(data, r).pos = r + Len(m)
      BY <2>1, <3>2, <3>3, AnyLengthRead DEF r
    <3>6. Looped(data)[p] = Turn(data, Looped(data), p)
      BY TurnsTaken
    <3> DEFINE f == Looped(data)
    <3> HIDE DEF f
    <3>7. Turn(data, f, p) = f[IF ReadLength(data, q).pos = 0 THEN 0
                               ELSE ReadLength(data, ReadLength(data, q).pos).pos]
      BY <3>1, Codes DEF Turn, q
    <3>8. Turn(data, f, p) = f[r + Len(m)]
      BY <3>2, <3>5, <3>7
    <3> QED
      BY <3>4, <3>6, <3>8 DEF f
  <2> QED
    BY <2>3, <2>4 DEF Passes
<1>3. \/ \E l \in AnyLength : s = <<OpSelectDb>> \o l
      \/ \E l, m \in AnyLength : s = <<OpResizeDb>> \o (l \o m)
  BY DEF Skipped
<1> QED
  BY <1>1, <1>2, <1>3

(* Where the type of a pair stands, with an expiry time before it.         *)
LEMMA ExpiryRead ==
  ASSUME NEW e \in ExpiryBytes, NEW t \in Seq(Byte)
  PROVE  /\ e \in Seq(Byte) /\ Len(e) \in Nat
         /\ \A data \in Seq(Byte), p \in Nat \ {0} :
              At(data, p, e \o (<<TypeString>> \o t)) =>
                /\ At(data, p + Len(e), <<TypeString>> \o t)
                /\ ~(p = 0 \/ p > Len(data))
                /\ data[p] # OpEof /\ data[p] # OpSelectDb /\ data[p] # OpResizeDb
                /\ (CASE data[p] = OpExpireTimeMs -> 9
                      [] data[p] = OpExpireTime -> 5
                      [] OTHER -> 0) = Len(e)
<1> DEFINE x == <<TypeString>> \o t
           Stands(data, p) ==
             /\ At(data, p + Len(e), x)
             /\ ~(p = 0 \/ p > Len(data))
             /\ data[p] # OpEof /\ data[p] # OpSelectDb /\ data[p] # OpResizeDb
             /\ (CASE data[p] = OpExpireTimeMs -> 9
                   [] data[p] = OpExpireTime -> 5
                   [] OTHER -> 0) = Len(e)
<1>1. x \in Seq(Byte) /\ TypeString \in Byte
  BY Codes
<1>2. CASE e = <<>>
  <2>1. e \in Seq(Byte) /\ Len(e) = 0 /\ e \o x = x
    BY <1>1, <1>2, ConcatEmptySeq
  <2>2. ASSUME NEW data \in Seq(Byte), NEW p \in Nat \ {0}, At(data, p, x)
        PROVE  Stands(data, p)
    <3>1. data[p] = TypeString /\ ~(p = 0 \/ p > Len(data))
      BY <1>1, <2>2, CodeFirst
    <3>2. p + Len(e) = p
      BY <2>1
    <3>3. data[p] # OpExpireTimeMs /\ data[p] # OpExpireTime
          /\ data[p] # OpEof /\ data[p] # OpSelectDb /\ data[p] # OpResizeDb
      BY <3>1, Codes
    <3> HIDE DEF x
    <3> QED
      BY <2>1, <2>2, <3>1, <3>2, <3>3
  <2> HIDE DEF Stands, x
  <2>3. \A data \in Seq(Byte), p \in Nat \ {0} : At(data, p, e \o x) => Stands(data, p)
    BY <2>1, <2>2
  <2> QED
    BY <2>1, <2>3 DEF Stands, x
<1>3. ASSUME NEW c \in {OpExpireTime, OpExpireTimeMs}, NEW u \in Seq(Byte),
             e = <<c>> \o u,
             Len(u) = IF c = OpExpireTime THEN 4 ELSE 8
      PROVE  /\ e \in Seq(Byte) /\ Len(e) \in Nat
             /\ \A data \in Seq(Byte), p \in Nat \ {0} :
                  At(data, p, e \o x) => Stands(data, p)
  <2>1. c \in Byte /\ c # OpEof /\ c # OpSelectDb /\ c # OpResizeDb
        /\ OpExpireTime # OpExpireTimeMs
    BY Codes
  <2>2. e \in Seq(Byte) /\ Len(e) = 1 + Len(u)
    <3> DEFINE l == <<c>>
    <3>1. l \in Seq(Byte) /\ Len(l) = 1 /\ e = l \o u
      BY <1>3, <2>1
    <3> HIDE DEF l
    <3>2. l \o u \in Seq(Byte) /\ Len(l \o u) = Len(l) + Len(u)
      BY <3>1, ConcatProperties
    <3> QED
      BY <3>1, <3>2
  <2>3. /\ c = OpExpireTime => Len(e) = 5
        /\ c = OpExpireTimeMs => Len(e) = 9
        /\ Len(e) \in Nat
    <3>1. Len(u) \in Nat
      BY LenProperties
    <3>2. CASE c = OpExpireTime
      BY <1>3, <2>1, <2>2, <3>2
    <3>3. CASE c = OpExpireTimeMs
      BY <1>3, <2>1, <2>2, <3>3
    <3> QED
      BY <1>3, <2>1, <3>2, <3>3
  <2> HIDE DEF x
  <2>4. ASSUME NEW data \in Seq(Byte), NEW p \in Nat \ {0}, At(data, p, e \o x)
        PROVE  Stands(data, p)
    <3>1. p \in Nat
      OBVIOUS
    <3>2. At(data, p, e) /\ At(data, p + Len(e), x)
      BY <1>1, <2>2, <2>4, <3>1, AtParts
    <3>3. At(data, p, <<c>> \o u)
      BY <1>3, <3>2
    <3>4. data[p] = c /\ ~(p = 0 \/ p > Len(data))
      BY <2>1, <3>3, CodeFirst
    <3>5. (CASE data[p] = OpExpireTimeMs -> 9
             [] data[p] = OpExpireTime -> 5
             [] OTHER -> 0) = Len(e)
      <4>1. CASE c = OpExpireTime
        BY <2>1, <2>3, <3>4, <4>1
      <4>2. CASE c = OpExpireTimeMs
        BY <2>1, <2>3, <3>4, <4>2
      <4> QED
        BY <4>1, <4>2
    <3> QED
      BY <2>1, <3>2, <3>4, <3>5
  <2> QED
    BY <2>2, <2>3, <2>4
<1>4. \/ e = <<>>
      \/ \E u \in Seq(Byte) : Len(u) = 4 /\ e = <<OpExpireTime>> \o u
      \/ \E u \in Seq(Byte) : Len(u) = 8 /\ e = <<OpExpireTimeMs>> \o u
  BY DEF ExpiryBytes
<1>5. CASE e # <<>>
  <2>1. PICK c \in {OpExpireTime, OpExpireTimeMs}, u \in Seq(Byte) :
          /\ e = <<c>> \o u
          /\ Len(u) = IF c = OpExpireTime THEN 4 ELSE 8
    <3>1. OpExpireTime # OpExpireTimeMs
      BY Codes
    <3> QED
      BY <1>4, <1>5, <3>1
  <2>2. /\ e \in Seq(Byte) /\ Len(e) \in Nat
        /\ \A data \in Seq(Byte), p \in Nat \ {0} :
             At(data, p, e \o x) => Stands(data, p)
    BY <1>3, <2>1
  <2> HIDE DEF x
  <2> QED
    BY <2>2 DEF x
<1> QED
  BY <1>2, <1>5

(* What the rest of a file gives, with a pair in front.                    *)
Led(item, rest) == [rest EXCEPT !.items = <<item>> \o @]

(* What a file gives that can be read to its end.                          *)
WasRead(items) == [ok |-> TRUE, items |-> items]

LEMMA LedItems ==
  ASSUME NEW item, NEW items
  PROVE  Led(item, WasRead(items)) = WasRead(<<item>> \o items)
<1> DEFINE x == <<item>> \o items
           S == {items, x}
           r == [ok |-> TRUE, items |-> items]
           e == [r EXCEPT !.items = x]
<1>1. r \in [ok : BOOLEAN, items : S] /\ r.ok = TRUE /\ r.items = items
  OBVIOUS
<1>2. Led(item, r) = e /\ x \in S
  BY <1>1 DEF Led
<1> HIDE DEF r, x, S
<1>3. e \in [ok : BOOLEAN, items : S] /\ e.ok = TRUE /\ e.items = x
  BY <1>1, <1>2
<1> HIDE DEF e
<1>4. e = [ok |-> TRUE, items |-> x]
  BY <1>3
<1> QED
  BY <1>2, <1>4 DEF WasRead, r, x

(* A pair is read, in front of what follows.                               *)
LEMMA PairRead ==
  ASSUME NEW item \in PairWords, NEW s \in PairBytes(item)
  PROVE  /\ s \in Seq(Byte)
         /\ \A data \in Seq(Byte), p \in Nat \ {0} :
              At(data, p, s) => Looped(data)[p] = Led(item, Looped(data)[p + Len(s)])
<1>1. item = <<item[1], item[2]>> /\ item[1] \in Seq(Byte) /\ item[2] \in Seq(Byte)
  BY DEF PairWords
<1>2. PICK e \in ExpiryBytes, k \in StringBytes(item[1]), v \in StringBytes(item[2]) :
        s = e \o (<<TypeString>> \o (k \o v))
  BY DEF PairBytes
<1> DEFINE t == k \o v
           x == <<TypeString>> \o t
<1>3. k \in Seq(Byte) /\ Len(k) \in Nat /\ v \in Seq(Byte) /\ Len(v) \in Nat
  BY <1>1, StringRead
<1>4. t \in Seq(Byte) /\ Len(t) = Len(k) + Len(v)
  BY <1>3, ConcatProperties
<1>5. TypeString \in Byte
  BY Codes
<1>6. s = e \o x
  BY <1>2
<1> HIDE DEF t
<1>7. x \in Seq(Byte) /\ Len(x) = 1 + Len(t)
  BY <1>4, <1>5
<1>8. e \in Seq(Byte) /\ Len(e) \in Nat
  BY <1>4, ExpiryRead
<1> HIDE DEF x
<1>9. s \in Seq(Byte) /\ Len(s) = Len(e) + (1 + (Len(k) + Len(v)))
  <2>1. e \o x \in Seq(Byte) /\ Len(e \o x) = Len(e) + Len(x)
    BY <1>7, <1>8, ConcatProperties
  <2> QED
    BY <1>3, <1>4, <1>6, <1>7, <2>1
<1>10. ASSUME NEW data \in Seq(Byte), NEW p \in Nat \ {0}, At(data, p, s)
       PROVE  Looped(data)[p] = Led(item, Looped(data)[p + Len(s)])
  <2> DEFINE q == p + Len(e)
             code == CASE data[p] = OpExpireTimeMs -> 9
                       [] data[p] = OpExpireTime -> 5
                       [] OTHER -> 0
  <2>1. At(data, p, e \o (<<TypeString>> \o t))
    BY <1>6, <1>10 DEF x
  <2>2. /\ At(data, q, <<TypeString>> \o t)
        /\ ~(p = 0 \/ p > Len(data))
        /\ data[p] # OpEof /\ data[p] # OpSelectDb /\ data[p] # OpResizeDb
        /\ code = Len(e)
    BY <1>4, <2>1, ExpiryRead
  <2> HIDE DEF code
  <2>3. p + code = q /\ q \in Nat \ {0}
    BY <1>8, <2>2
  <2>4. p + Len(s) = q + 1 + Len(k) + Len(v)
    BY <1>3, <1>8, <1>9
  <2> HIDE DEF q
  <2> DEFINE a == q + 1
             b == a + Len(k)
  <2>5. data[q] = TypeString /\ ~(q > Len(data)) /\ At(data, a, t) /\ a \in Nat \ {0}
    BY <1>4, <1>5, <2>2, <2>3, CodeFirst
  <2> HIDE DEF a
  <2>6. At(data, a, k) /\ At(data, b, v)
    <3>1. a \in Nat /\ At(data, a, k \o v)
      BY <2>5 DEF t
    <3> QED
      BY <1>3, <3>1, AtParts
  <2>7. b \in Nat \ {0} /\ b + Len(v) # 0
    BY <1>3, <2>5
  <2> HIDE DEF b
  <2>8. ReadString(data, a) = Field(item[1], a + Len(k))
    BY <1>1, <2>5, <2>6, StringRead
  <2>9. ReadString(data, b) = Field(item[2], b + Len(v))
    BY <1>1, <2>6, <2>7, StringRead
  <2>10. ReadString(data, a).val = item[1] /\ ReadString(data, a).pos = b
    BY <2>8 DEF b, Field
  <2>11. ReadString(data, b).val = item[2] /\ ReadString(data, b).pos = b + Len(v)
    BY <2>9 DEF Field
  <2> DEFINE f == Looped(data)
             rest == f[b + Len(v)]
  <2>12. f[p] = Turn(data, f, p)
    BY TurnsTaken
  <2> HIDE DEF f
  <2>13. Turn(data, f, p) =
           LET type == p + code
               key == ReadString(data, type + 1)
               value == ReadString(data, key.pos)
           IN  IF type > Len(data) \/ value.pos = 0 THEN Unreadable
               ELSE IF data[type] # TypeString THEN Unreadable
               ELSE [f[value.pos] EXCEPT !.items = << <<key.val, value.val>> >> \o @]
    BY <2>2 DEF Turn, code
  <2>14. Turn(data, f, p) = [rest EXCEPT !.items = << <<item[1], item[2]>> >> \o @]
    BY <2>3, <2>5, <2>7, <2>10, <2>11, <2>13 DEF a
  <2>15. b + Len(v) = p + Len(s)
    BY <1>3, <2>3, <2>4 DEF a, b
  <2> QED
    BY <1>1, <2>12, <2>14, <2>15 DEF f, Led
<1> QED
  BY <1>9, <1>10

-----------------------------------------------------------------------------
(* A whole snapshot.                                                       *)

RedisMagic == <<82, 69, 68, 73, 83>>

(* The part of the format that the loader knows: the word REDIS and a      *)
(* version of four bytes; the sections, auxiliary fields not among them;   *)
(* and the end, with whatever follows it.  items are the pairs of the      *)
(* sections, in their order.                                               *)
Written(file, items) ==
  \E version \in {v \in Seq(Byte) : Len(v) = 4}, tail \in Seq(Byte),
     parts \in Seq(Seq(Byte)), founds \in Seq(Seq(PairWords)) :
    /\ Len(founds) = Len(parts)
    /\ \A i \in 1..Len(parts) : Section(parts[i], founds[i])
    /\ file = (RedisMagic \o version) \o (FlattenSeq(parts) \o (<<OpEof>> \o tail))
    /\ items = FlattenSeq(founds)

(* What stands in a part stands in the whole.                              *)
LEMMA AtWithin ==
  ASSUME NEW A, NEW r \in Seq(A), NEW s \in Seq(A), NEW t \in Seq(A),
         NEW p \in Nat \ {0}, NEW q \in Nat \ {0}, At(r, p, s), At(s, q, t)
  PROVE  At(r, p + q - 1, t)
<1>1. Len(r) \in Nat /\ Len(s) \in Nat /\ Len(t) \in Nat
  BY LenProperties
<1>2. /\ p + Len(s) <= Len(r) + 1 /\ q + Len(t) <= Len(s) + 1
      /\ \A i \in 1..Len(s) : r[p + i - 1] = s[i]
      /\ \A i \in 1..Len(t) : s[q + i - 1] = t[i]
  BY DEF At
<1>3. ASSUME NEW i \in 1..Len(t)
      PROVE  r[p + q - 1 + i - 1] = t[i]
  <2> DEFINE j == q + i - 1
  <2>1. j \in 1..Len(s) /\ p + j - 1 = p + q - 1 + i - 1
    BY <1>1, <1>2
  <2>2. s[j] = t[i]
    BY <1>2
  <2> HIDE DEF j
  <2> QED
    BY <1>2, <2>1, <2>2
<1>4. p + q - 1 + Len(t) <= Len(r) + 1
  BY <1>1, <1>2
<1> QED
  BY <1>3, <1>4 DEF At

(* Joining is associative.                                                 *)
Joined(s, t) == s \o t

LEMMA Rejoined ==
  ASSUME NEW A, NEW s \in Seq(A), NEW t \in Seq(A), NEW u \in Seq(A)
  PROVE  Joined(Joined(s, t), u) = Joined(s, Joined(t, u))
BY ConcatAssociative DEF Joined

(* The items of a section stand in front of those that follow.             *)
LEMMA SectionRead ==
  ASSUME NEW s \in Seq(Byte), NEW found \in Seq(PairWords), Section(s, found),
         NEW data \in Seq(Byte), NEW p \in Nat \ {0}, At(data, p, s),
         NEW items \in Seq(PairWords),
         Looped(data)[p + Len(s)] = WasRead(items)
  PROVE  Looped(data)[p] = WasRead(found \o items)
<1>1. CASE s \in Skipped /\ found = <<>>
  <2>1. Looped(data)[p] = Looped(data)[p + Len(s)]
    BY <1>1, SkippedRead DEF Passes
  <2>2. found \o items = items
    BY <1>1, ConcatEmptySeq
  <2> QED
    BY <2>1, <2>2
<1>2. ASSUME NEW item \in PairWords, s \in PairBytes(item), found = <<item>>
      PROVE  Looped(data)[p] = WasRead(found \o items)
  <2>1. Looped(data)[p] = Led(item, Looped(data)[p + Len(s)])
    BY <1>2, PairRead
  <2>2. Led(item, WasRead(items)) = WasRead(<<item>> \o items)
    BY LedItems
  <2> QED
    BY <1>2, <2>1, <2>2
<1> QED
  BY <1>1, <1>2 DEF Section

(* The loader reads a snapshot that is written so, without auxiliary       *)
(* fields, in full: each pair under any encoding of its lengths and        *)
(* integers, in the order of the file, and nothing else; an expiry time    *)
(* does not show in what is read (rdb.py:20-135).                          *)
THEOREM SnapshotRead ==
  ASSUME NEW file, NEW items, Written(file, items)
  PROVE  /\ LoadRdb(file) = [ok |-> TRUE, items |-> items]
         /\ items \in Seq(PairWords)
<1>1. PICK version \in {v \in Seq(Byte) : Len(v) = 4}, tail \in Seq(Byte),
           parts \in Seq(Seq(Byte)), founds \in Seq(Seq(PairWords)) :
        /\ Len(founds) = Len(parts)
        /\ \A i \in 1..Len(parts) : Section(parts[i], founds[i])
        /\ file = (RedisMagic \o version) \o (FlattenSeq(parts) \o (<<OpEof>> \o tail))
        /\ items = FlattenSeq(founds)
  BY DEF Written
<1> DEFINE b == FlattenSeq(parts)
           n == Len(parts)
           z == <<OpEof>> \o tail
           h == RedisMagic \o version
           P(j) == 10 + LengthOf(parts, j)
           D == Looped(file)
<1>2. RedisMagic \in Seq(Byte) /\ Len(RedisMagic) = 5
  BY DEF RedisMagic, Byte
<1>3. h \in Seq(Byte) /\ Len(h) = 9
  <2>1. version \in Seq(Byte) /\ Len(version) = 4
    OBVIOUS
  <2>2. h \in Seq(Byte) /\ Len(h) = Len(RedisMagic) + Len(version)
    BY <1>2, <2>1, ConcatProperties
  <2> QED
    BY <1>2, <2>1, <2>2
<1>4. b \in Seq(Byte) /\ z \in Seq(Byte)
  <2>1. OpEof \in Byte
    BY Codes
  <2> QED
    BY <2>1, Lengths
<1>5. /\ n \in Nat /\ \A i \in 1..n : parts[i] \in Seq(Byte) /\ founds[i] \in Seq(PairWords)
      /\ \A i \in 0..n : LengthOf(parts, i) \in Nat
      /\ LengthOf(parts, 0) = 0 /\ LengthOf(parts, n) = Len(b)
      /\ \A i \in 1..n : /\ LengthOf(parts, i) = LengthOf(parts, i - 1) + Len(parts[i])
                         /\ At(b, LengthOf(parts, i - 1) + 1, parts[i])
  BY <1>1, Lengths, LenProperties, ElementOfSeq
<1> HIDE DEF n, b, z, h
<1>6. file = h \o (b \o z) /\ b \o z \in Seq(Byte) /\ file \in Seq(Byte)
  BY <1>1, <1>3, <1>4 DEF h, b, z
<1>7. At(file, 10, b) /\ At(file, 10 + Len(b), z)
  <2>1. At(file, Len(h) + 1, b \o z)
    BY <1>3, <1>6, AtEnd
  <2>2. 10 \in Nat /\ Len(h) + 1 = 10
    BY <1>3
  <2> QED
    BY <1>4, <1>6, <2>1, <2>2, AtParts
<1>8. SubSeq(file, 1, 5) = RedisMagic
  <2>1. At(h, 1, RedisMagic)
    <3>1. At(RedisMagic, 1, RedisMagic) /\ 1 \in Nat \ {0}
      BY <1>2, AtSelf
    <3> QED
      BY <1>2, <3>1, AtGrows DEF h
  <2>2. At(file, 1, RedisMagic)
    <3>1. 1 \in Nat \ {0}
      OBVIOUS
    <3> QED
      BY <1>2, <1>3, <1>6, <2>1, <3>1, AtGrows
  <2>3. Agrees(file, file) /\ 1 \in Nat \ {0}
    BY DEF Agrees
  <2>4. 1 + Len(RedisMagic) <= Len(file) + 1
    BY <2>2 DEF At
  <2>5. SubSeq(file, 1, 1 + Len(RedisMagic) - 1) = RedisMagic
    BY <1>2, <1>6, <2>2, <2>3, <2>4, AgreesAt
  <2> QED
    BY <1>2, <2>5
<1>9. D[P(n)] = WasRead(<<>>)
  <2> DEFINE p == 10 + Len(b)
  <2>1. p \in Nat \ {0} /\ p \in Nat /\ P(n) = p
    BY <1>4, <1>5, LenProperties
  <2>2. At(file, p, <<OpEof>> \o tail)
    BY <1>7 DEF z
  <2> HIDE DEF p, P
  <2>3. file[p] = OpEof /\ ~(p = 0 \/ p > Len(file))
    <3>1. OpEof \in Byte
      BY Codes
    <3> QED
      BY <1>6, <2>1, <2>2, <3>1, CodeFirst
  <2>4. D[p] = Turn(file, D, p)
    BY <1>6, <2>1, TurnsTaken
  <2> HIDE DEF D
  <2>5. Turn(file, D, p) = WasRead(<<>>)
    BY <2>3, Codes DEF Turn, WasRead
  <2> QED
    BY <2>1, <2>4, <2>5
<1>10. PICK f : Flows(f, founds, PairWords) /\ FlattenSeq(founds) = f[Len(founds)]
  BY FlattenFlows
<1>11. /\ f[0] = <<>> /\ items = f[n]
       /\ \A m \in 0..n : f[m] \in Seq(PairWords)
       /\ \A m \in 1..n : f[m] = f[m - 1] \o founds[m]
  BY <1>1, <1>10 DEF Flows, n
<1> DEFINE From(j) == \E its \in Seq(PairWords) :
             D[P(j)] = WasRead(its) /\ f[j] \o its = items
           N == {k \in Nat : k <= n => From(n - k)}
<1> HIDE DEF D
<1>12. From(n)
  <2>1. <<>> \in Seq(PairWords) /\ n \in 0..n
    BY <1>5
  <2>2. f[n] \o <<>> = f[n]
    BY <1>11, <2>1, ConcatEmptySeq
  <2> QED
    BY <1>9, <1>11, <2>1, <2>2
<1>13. ASSUME NEW j \in 1..n, From(j)
       PROVE  From(j - 1)
  <2>1. PICK its \in Seq(PairWords) : D[P(j)] = WasRead(its) /\ f[j] \o its = items
    BY <1>13
  <2> DEFINE p == P(j - 1)
             s == parts[j]
             found == founds[j]
  <2>2. s \in Seq(Byte) /\ found \in Seq(PairWords)
    BY <1>5
  <2>10. Section(s, found)
    BY <1>1 DEF n
  <2>11. Len(s) \in Nat
    BY <2>2, LenProperties
  <2>3. f[j - 1] \in Seq(PairWords) /\ f[j] = f[j - 1] \o found
    <3>1. j - 1 \in 0..n
      BY <1>5
    <3> QED
      BY <1>11, <3>1
  <2>4. /\ LengthOf(parts, j - 1) \in Nat
        /\ At(b, LengthOf(parts, j - 1) + 1, s)
        /\ LengthOf(parts, j) = LengthOf(parts, j - 1) + Len(s)
    <3>1. j - 1 \in 0..n
      BY <1>5
    <3> QED
      BY <1>5, <3>1
  <2> HIDE DEF s, found
  <2>5. p \in Nat \ {0} /\ P(j) = p + Len(s)
    BY <2>4, <2>11
  <2>6. At(file, p, s)
    <3> DEFINE q == LengthOf(parts, j - 1) + 1
    <3>1. 10 \in Nat \ {0} /\ q \in Nat \ {0} /\ 10 + q - 1 = p
      BY <2>4
    <3>2. At(b, q, s)
      BY <2>4
    <3> HIDE DEF q, p, P
    <3>3. At(file, 10 + q - 1, s)
      BY <1>4, <1>6, <1>7, <2>2, <3>1, <3>2, AtWithin
    <3> QED
      BY <3>1, <3>3
  <2> HIDE DEF P, p
  <2>7. Looped(file)[p + Len(s)] = WasRead(its)
    BY <2>1, <2>5 DEF D
  <2>8. D[p] = WasRead(found \o its)
    <3>1. p \in Nat \ {0} /\ its \in Seq(PairWords) /\ file \in Seq(Byte)
      BY <1>6, <2>5
    <3>2. Looped(file)[p] = WasRead(found \o its)
      BY <2>2, <2>6, <2>7, <2>10, <3>1, SectionRead
    <3> QED
      BY <3>2 DEF D
  <2>9. f[j - 1] \o (found \o its) = items /\ found \o its \in Seq(PairWords)
    <3> DEFINE g == f[j - 1]
    <3>0. g \in Seq(PairWords) /\ found \in Seq(PairWords) /\ its \in Seq(PairWords)
      BY <2>2, <2>3
    <3> HIDE DEF g, found
    <3>1. (g \o found) \o its = g \o (found \o its)
      <4>1. Joined(Joined(g, found), its) = Joined(g, Joined(found, its))
        BY <3>0, Rejoined
      <4> QED
        BY <4>1 DEF Joined
    <3>2. found \o its \in Seq(PairWords)
      BY <3>0, ConcatProperties
    <3> QED
      BY <2>1, <2>3, <3>1, <3>2 DEF g
  <2> QED
    BY <2>8, <2>9 DEF p
<1> HIDE DEF From
<1>14. N = Nat
  <2>1. 0 \in N
    <3>1. n - 0 = n
      BY <1>5
    <3> QED
      BY <1>12, <3>1
  <2>2. ASSUME NEW k \in N
        PROVE  k + 1 \in N
    <3>1. ASSUME k + 1 <= n
          PROVE  From(n - (k + 1))
      <4>1. n - k \in 1..n /\ (n - k) - 1 = n - (k + 1) /\ k <= n
        BY <1>5, <3>1
      <4>2. From(n - k)
        BY <4>1
      <4> QED
        BY <1>13, <4>1, <4>2
    <3> QED
      BY <3>1
  <2> N \in SUBSET Nat
    OBVIOUS
  <2> HIDE DEF N
  <2> QED
    BY <2>1, <2>2, Induction
<1>15. From(0)
  <2>1. n \in N /\ n <= n /\ n - n = 0
    <3> HIDE DEF N
    <3> QED
      BY <1>5, <1>14
  <2>2. From(n - n)
    BY <2>1
  <2> QED
    BY <2>1, <2>2
<1>16. PICK its \in Seq(PairWords) : D[P(0)] = WasRead(its) /\ f[0] \o its = items
  BY <1>15 DEF From
<1>17. items = its /\ P(0) = 10
  <2>1. <<>> \o its = its
    BY ConcatEmptySeq
  <2>2. 10 + 0 = 10
    OBVIOUS
  <2> QED
    BY <1>5, <1>11, <1>16, <2>1, <2>2
<1>18. LoadRdb(file) = D[10]
  <2>1. LoadRdb(file) = ParseBody(file, 10)
    BY <1>8 DEF LoadRdb, RedisMagic
  <2> QED
    BY <2>1, ParsedByTurns DEF D
<1> QED
  BY <1>16, <1>17, <1>18 DEF WasRead

(* There are such files: one with any short key and value, in the shortest *)
(* form.                                                                   *)
LEMMA OnePairWritten ==
  ASSUME NEW version \in Seq(Byte), Len(version) = 4, NEW k \in Seq(Byte), NEW v \in Seq(Byte),
         Len(k) \in 0..63, Len(v) \in 0..63
  PROVE  Written((RedisMagic \o version) \o
                   ((<<TypeString>> \o ((<<Len(k)>> \o k) \o (<<Len(v)>> \o v)))
                      \o (<<OpEof>> \o <<>>)),
                 << <<k, v>> >>)
<1> DEFINE item == <<k, v>>
           s == <<TypeString>> \o ((<<Len(k)>> \o k) \o (<<Len(v)>> \o v))
           parts == Append(<<>>, s)
           founds == Append(<<>>, <<item>>)
<1>1. ASSUME NEW w \in Seq(Byte), Len(w) \in 0..63
      PROVE  <<Len(w)>> \o w \in StringBytes(w)
  <2> DEFINE l == <<Len(w)>>
  <2>1. l \in Seq(Byte)
    BY <1>1 DEF Byte
  <2>2. l \in LengthBytes(Len(w))
    BY <1>1, <2>1 DEF LengthBytes
  <2>3. l \o w \in Seq(Byte)
    BY <2>1
  <2> HIDE DEF l
  <2>4. l \o w \in StringBytes(w)
    BY <2>2, <2>3 DEF StringBytes
  <2> QED
    BY <2>4 DEF l
<1>2. item \in PairWords /\ item[1] = k /\ item[2] = v
  BY DEF PairWords
<1>3. s \in PairBytes(item) /\ s \in Seq(Byte)
  <2> DEFINE a == <<Len(k)>> \o k
             b == <<Len(v)>> \o v
             t == <<TypeString>> \o (a \o b)
  <2>1. a \in StringBytes(k) /\ b \in StringBytes(v)
    BY <1>1
  <2>2. a \in Seq(Byte) /\ b \in Seq(Byte) /\ TypeString \in Byte
    BY <2>1, Codes DEF StringBytes
  <2>3. s = t
    OBVIOUS
  <2> HIDE DEF a, b, s, item
  <2>4. t \in Seq(Byte) /\ <<>> \in ExpiryBytes
    BY <2>2 DEF ExpiryBytes
  <2> HIDE DEF t
  <2>5. t = <<>> \o t
    BY <2>4, ConcatEmptySeq
  <2>6. t = <<>> \o (<<TypeString>> \o (a \o b))
    BY <2>5 DEF t
  <2>7. t \in PairBytes(item)
    BY <1>2, <2>1, <2>4, <2>6 DEF PairBytes
  <2> QED
    BY <2>3, <2>4, <2>7
<1> HIDE DEF s, item
<1>4. /\ parts \in Seq(Seq(Byte)) /\ Len(parts) = 1 /\ parts[1] = s
      /\ founds \in Seq(Seq(PairWords)) /\ Len(founds) = 1 /\ founds[1] = <<item>>
  BY <1>2, <1>3
<1>5. FlattenSeq(parts) = s /\ FlattenSeq(founds) = <<item>>
  <2>1. <<>> \in Seq(Seq(Byte)) /\ <<>> \in Seq(Seq(PairWords)) /\ <<item>> \in Seq(PairWords)
    BY <1>2
  <2>2. FlattenSeq(parts) = FlattenSeq(<<>>) \o s
    BY <1>3, <2>1, FlattenOfAppend
  <2>3. FlattenSeq(founds) = FlattenSeq(<<>>) \o <<item>>
    BY <2>1, FlattenOfAppend
  <2>4. <<>> \o s = s /\ <<>> \o <<item>> = <<item>>
    BY <1>3, <2>1, ConcatEmptySeq
  <2> QED
    BY <2>2, <2>3, <2>4, FlattenOfEmpty
<1> HIDE DEF parts, founds
<1>6. \A i \in 1..Len(parts) : Section(parts[i], founds[i])
  BY <1>2, <1>3, <1>4 DEF Section
<1>7. version \in {u \in Seq(Byte) : Len(u) = 4} /\ <<>> \in Seq(Byte)
  OBVIOUS
<1>8. Written((RedisMagic \o version) \o (s \o (<<OpEof>> \o <<>>)), <<item>>)
  BY <1>4, <1>5, <1>6, <1>7 DEF Written
<1> QED
  BY <1>8 DEF s, item

-----------------------------------------------------------------------------
(* What a start loads from a snapshot of which one knows what it says.     *)

(* data are what items set: nothing under a key that is in none of them,   *)
(* and under any other the value of the last one with it.                  *)
SetBy(data, items, n) ==
  \A k \in Key :
    \/ data[k] = None /\ \A i \in 1..n : Setting(items[i]).key # k
    \/ \E i \in 1..n : /\ Setting(items[i]).key = k
                       /\ data[k] = StrOf(Setting(items[i]).val)
                       /\ \A j \in (i + 1)..n : Setting(items[j]).key # k

(* What is said of a snapshot: that it cannot be read; or what it holds,   *)
(* and then there is no file and no data, or one that is written in the    *)
(* part of the format that the loader knows and sets them.                 *)
Described(s) ==
  IF s.holds = None THEN s.file # None /\ ~LoadRdb(s.file).ok
  ELSE /\ s.holds = [k \in Key |-> s.holds[k]]
       /\ IF s.file = None THEN \A k \in Key : s.holds[k] = None
          ELSE \E items : Written(s.file, items) /\ SetBy(s.holds, items, Len(items))

(* The items that are loaded set what they say.                            *)
LEMMA LoadsWhatIsSet ==
  ASSUME NEW I, NEW s \in Seq(I), \A x \in I : PlainSet(Setting(x)), NEW t \in Nat,
         NEW h, LoadSteps(h, s, t)
  PROVE  SetBy(h[Len(s)].data, s, Len(s)) /\ h[Len(s)] \in Fresh
<1> DEFINE n == Len(s)
           N == {m \in Nat : m <= n => SetBy(h[m].data, s, m)}
<1>1. /\ n \in Nat /\ \A m \in 1..n : s[m] \in I
      /\ h \in [0..n -> Fresh] /\ h[0] = EmptyDB
      /\ \A m \in 1..n : h[m] = Dispatch(h[m - 1], t, Setting(s[m])).db
  BY LenProperties, ElementOfSeq DEF LoadSteps
<1> HIDE DEF n
<1>2. SetBy(h[0].data, s, 0)
  BY <1>1 DEF SetBy, EmptyDB
<1>3. ASSUME NEW m \in Nat, m + 1 <= n, SetBy(h[m].data, s, m)
      PROVE  SetBy(h[m + 1].data, s, m + 1)
  <2> DEFINE d == h[m]
             cmd == Setting(s[m + 1])
             e == h[m + 1]
  <2>1. m \in 0..n /\ m + 1 \in 1..n /\ (m + 1) - 1 = m
    BY <1>1, <1>3
  <2>2. d \in Fresh /\ PlainSet(cmd) /\ e = Dispatch(d, t, cmd).db
    BY <1>1, <2>1
  <2>3. SetBy(d.data, s, m)
    BY <1>3
  <2>4. cmd = Setting(s[m + 1])
    OBVIOUS
  <2> HIDE DEF d, cmd, e
  <2>5. e.data = [d.data EXCEPT ![cmd.key] = StrOf(cmd.val)]
    <3>1. d \in Fresh /\ PlainSet(cmd)
      BY <2>2
    <3>2. Dispatch(d, t, cmd).db.data = [d.data EXCEPT ![cmd.key] = StrOf(cmd.val)]
      BY <3>1, FreshSets
    <3> QED
      BY <2>2, <3>2
  <2>6. d.data = [k \in Key |-> d.data[k]]
    BY <2>2 DEF Fresh, DB
  <2>7. ASSUME NEW k \in Key
        PROVE  \/ e.data[k] = None /\ \A i \in 1..(m + 1) : Setting(s[i]).key # k
               \/ \E i \in 1..(m + 1) :
                    /\ Setting(s[i]).key = k
                    /\ e.data[k] = StrOf(Setting(s[i]).val)
                    /\ \A j \in (i + 1)..(m + 1) : Setting(s[j]).key # k
    <3>1. CASE cmd.key = k
      <4>1. e.data[k] = StrOf(cmd.val)
        BY <2>5, <2>6, <3>1
      <4>2. m + 1 \in 1..(m + 1) /\ \A j \in ((m + 1) + 1)..(m + 1) : FALSE
        OBVIOUS
      <4> QED
        BY <2>4, <3>1, <4>1, <4>2
    <3>2. CASE cmd.key # k
      <4>1. e.data[k] = d.data[k]
        BY <2>5, <2>6, <3>2
      <4>2. \A i \in 1..(m + 1) : i \in 1..m \/ i = m + 1
        OBVIOUS
      <4>3. CASE d.data[k] = None /\ \A i \in 1..m : Setting(s[i]).key # k
        BY <2>4, <3>2, <4>1, <4>2, <4>3
      <4>4. ASSUME NEW i \in 1..m, Setting(s[i]).key = k,
                   d.data[k] = StrOf(Setting(s[i]).val),
                   \A j \in (i + 1)..m : Setting(s[j]).key # k
            PROVE  \E l \in 1..(m + 1) :
                     /\ Setting(s[l]).key = k
                     /\ e.data[k] = StrOf(Setting(s[l]).val)
                     /\ \A j \in (l + 1)..(m + 1) : Setting(s[j]).key # k
        <5>1. i \in 1..(m + 1) /\ \A j \in (i + 1)..(m + 1) : j \in (i + 1)..m \/ j = m + 1
          OBVIOUS
        <5>2. \A j \in (i + 1)..(m + 1) : Setting(s[j]).key # k
          BY <2>4, <3>2, <4>4, <5>1
        <5> QED
          BY <4>1, <4>4, <5>1, <5>2
      <4> QED
        BY <2>3, <4>3, <4>4 DEF SetBy
    <3> QED
      BY <3>1, <3>2
  <2>8. SetBy(e.data, s, m + 1)
    BY <2>7 DEF SetBy
  <2> QED
    BY <2>8 DEF e
<1>4. N = Nat
  <2>1. 0 \in N
    BY <1>2
  <2>2. ASSUME NEW m \in N
        PROVE  m + 1 \in N
    <3>1. m + 1 <= n => m <= n
      BY <1>1
    <3> HIDE DEF SetBy
    <3> QED
      BY <1>3, <3>1
  <2> N \in SUBSET Nat
    OBVIOUS
  <2> HIDE DEF N
  <2> QED
    BY <2>1, <2>2, Induction
<1>5. SetBy(h[n].data, s, n)
  <2>1. n \in N /\ n <= n
    <3> HIDE DEF N
    <3> QED
      BY <1>1, <1>4
  <2> HIDE DEF SetBy
  <2> QED
    BY <2>1
<1>6. h[n] \in Fresh
  BY <1>1
<1> QED
  BY <1>5, <1>6 DEF n

(* Only one value is the last.                                             *)
LEMMA SetOnce ==
  ASSUME NEW d, NEW e, NEW s, NEW n \in Nat, SetBy(d, s, n), SetBy(e, s, n), NEW k \in Key
  PROVE  d[k] = e[k]
<1>1. ASSUME NEW i \in 1..n, NEW j \in 1..n,
             Setting(s[i]).key = k, Setting(s[j]).key = k,
             \A l \in (i + 1)..n : Setting(s[l]).key # k,
             \A l \in (j + 1)..n : Setting(s[l]).key # k
      PROVE  i = j
  <2>1. ~(i < j) /\ ~(j < i)
    <3>1. (i < j => j \in (i + 1)..n) /\ (j < i => i \in (j + 1)..n)
      OBVIOUS
    <3> QED
      BY <1>1, <3>1
  <2> QED
    BY <2>1
<1> QED
  BY <1>1 DEF SetBy

(* So a start loads what the snapshot holds.                               *)
LEMMA DescribedLoads ==
  ASSUME NEW s \in Snapshots, Described(s), NEW t \in Nat
  PROVE  IF s.holds = None THEN s.file # None /\ ~LoadRdb(s.file).ok
         ELSE /\ s.file = None \/ LoadRdb(s.file).ok
              /\ LoadedAt(s.file, t).data = s.holds
              /\ \A k \in Key : LoadedAt(s.file, t).expires[k] = None
<1>1. CASE s.holds = None
  BY <1>1 DEF Described
<1>2. CASE s.holds # None /\ s.file = None
  <2>1. s.holds = [k \in Key |-> None]
    <3>1. s.holds = [k \in Key |-> s.holds[k]] /\ \A k \in Key : s.holds[k] = None
      BY <1>2 DEF Described
    <3>2. [k \in Key |-> s.holds[k]] = [k \in Key |-> None]
      BY <3>1
    <3> QED
      BY <3>1, <3>2
  <2>2. LoadedAt(s.file, t) = EmptyDB
    BY <1>2 DEF LoadedAt
  <2> QED
    BY <1>2, <2>1, <2>2 DEF EmptyDB
<1>3. CASE s.holds # None /\ s.file # None
  <2>1. PICK items : Written(s.file, items) /\ SetBy(s.holds, items, Len(items))
    BY <1>3 DEF Described
  <2>2. LoadRdb(s.file).ok /\ LoadRdb(s.file).items = items
    BY <2>1, SnapshotRead
  <2> DEFINE I == ToSet(items)
  <2>3. items \in Seq(I) /\ \A x \in I : PlainSet(Setting(x))
    BY <1>3, <2>2, SnapshotInputs DEF PlainSet, Setting
  <2> HIDE DEF I
  <2>4. PICK h : LoadSteps(h, items, t) /\ h[Len(items)] = LoadedAt(s.file, t)
    BY <1>3, <2>2, <2>3, LoadRuns DEF LoadedAt
  <2> DEFINE d == LoadedAt(s.file, t)
  <2>5. SetBy(d.data, items, Len(items)) /\ d \in Fresh
    BY <2>3, <2>4, LoadsWhatIsSet
  <2> HIDE DEF d
  <2>6. d.data = [k \in Key |-> d.data[k]] /\ \A k \in Key : d.expires[k] = None
    BY <2>5 DEF Fresh, DB
  <2>7. s.holds = [k \in Key |-> s.holds[k]]
    BY <1>3 DEF Described
  <2>8. \A k \in Key : d.data[k] = s.holds[k]
    <3>1. Len(items) \in Nat
      BY <2>3, LenProperties
    <3> QED
      BY <2>1, <2>5, <3>1, SetOnce
  <2>9. d.data = s.holds
    <3>1. [k \in Key |-> d.data[k]] = [k \in Key |-> s.holds[k]]
      BY <2>8
    <3> QED
      BY <2>6, <2>7, <3>1
  <2> QED
    BY <1>3, <2>2, <2>6, <2>9 DEF d
<1> QED
  BY <1>1, <1>2, <1>3

-----------------------------------------------------------------------------
(* Before a start reads the file, the data are those of the snapshot.  This *)
(* does not need a file that is as it was written.                         *)

Begun ==
  /\ now \in Nat /\ snapshot \in Snapshots
  /\ log \in Seq(Byte) /\ chunk \in ChunkSizes /\ offset \in Nat
  /\ pending \in Workload \cup {None}
  /\ stage \in {"loading", "failed"} /\ offset = 0 =>
       /\ buf = <<>>
       /\ IF Loads THEN stage = "loading" /\ \E t \in Nat : db = LoadedAt(snapshot.file, t)
          ELSE stage = "failed"

LEMMA BegunHolds == Init => Begun
<1> SUFFICES ASSUME Init PROVE Begun
  OBVIOUS
<1>1. <<>> \in Seq(Byte)
  OBVIOUS
<1> QED
  BY <1>1 DEF Init, Begun

LEMMA BegunStays == Begun /\ [Next]_vars => Begun'
<1> SUFFICES ASSUME Begun, [Next]_vars PROVE Begun'
  OBVIOUS
<1>1. /\ now \in Nat /\ snapshot \in Snapshots
      /\ log \in Seq(Byte) /\ chunk \in ChunkSizes /\ offset \in Nat
      /\ pending \in Workload \cup {None} /\ Len(log) \in Nat
      /\ chunk \in Nat /\ chunk # 0
  BY LogInputs, LenProperties DEF Begun
<1>2. ASSUME snapshot' = snapshot, db' = db, stage' = stage, buf' = buf, offset' = offset,
             log' = log, chunk' = chunk, pending' = pending, now' \in Nat
      PROVE  Begun'
  <2>1. Loads' = Loads
    BY <1>2 DEF Loads
  <2> QED
    BY <1>1, <1>2, <2>1 DEF Begun
<1>3. ASSUME snapshot' = snapshot, stage' \notin {"loading", "failed"}, offset' \in Nat,
             log' \in Seq(Byte), chunk' = chunk, pending' \in Workload \cup {None},
             now' = now
      PROVE  Begun'
  BY <1>1, <1>3 DEF Begun
<1>4. stage \in {"loading", "failed"} /\ offset = 0 => TryParse(buf) = More
  BY DEF Begun, TryParse
<1>5. CASE Start
  <2>1. Loads' = Loads
    BY <1>5 DEF Start, Loads
  <2>2. Loads => db' = LoadedAt(snapshot.file, now)
    BY <1>5, LoadedNow DEF Start
  <2>3. /\ now' = now /\ snapshot' = snapshot /\ log' = log /\ chunk' \in ChunkSizes
        /\ offset' = 0 /\ buf' = <<>> /\ pending' = pending
        /\ stage' = IF Loads THEN "loading" ELSE "failed"
    BY <1>5 DEF Start
  <2> HIDE DEF Loads
  <2> QED
    BY <1>1, <2>1, <2>2, <2>3 DEF Begun
<1>6. CASE Feed
  <2> DEFINE n == Lesser(chunk, Len(log) - offset)
  <2>1. /\ offset < Len(log) /\ offset' = offset + n
        /\ UNCHANGED <<now, snapshot, log, chunk, pending>>
    BY <1>6 DEF Feed
  <2>2. n \in Nat /\ n # 0
    BY <1>1, <2>1 DEF Lesser
  <2> HIDE DEF n
  <2>3. offset' \in Nat /\ offset' # 0
    BY <1>1, <2>1, <2>2
  <2> QED
    BY <1>1, <2>1, <2>3 DEF Begun
<1>7. CASE Replay
  <2>1. /\ stage = "loading" /\ TryParse(buf).kind = "command"
        /\ UNCHANGED <<now, snapshot, log, chunk, offset, pending>>
    BY <1>7 DEF Replay
  <2>2. offset # 0
    BY <1>4, <2>1 DEF More
  <2> QED
    BY <1>1, <2>1, <2>2 DEF Begun
<1>8. CASE ReplayRaises
  <2>1. /\ stage = "loading" /\ TryParse(buf) \in {Malformed, Raised}
        /\ UNCHANGED <<now, snapshot, log, chunk, offset, pending>>
    BY <1>8 DEF ReplayRaises
  <2>2. offset # 0
    BY <1>4, <2>1 DEF More, Malformed, Raised
  <2> QED
    BY <1>1, <2>1, <2>2 DEF Begun
<1>9. CASE Serve
  BY <1>1, <1>3, <1>9 DEF Serve
<1>10. ASSUME NEW cmd \in Workload, Execute(cmd)
       PROVE  Begun'
  <2>1. stage' \notin {"loading", "failed"} /\ pending' \in Workload \cup {None}
    BY <1>10 DEF Execute, MayExecute, Dies
  <2>2. UNCHANGED <<now, snapshot, log, chunk, offset>>
    BY <1>10 DEF Execute
  <2> QED
    BY <1>1, <1>3, <2>1, <2>2
<1>11. ASSUME NEW cmd \in Workload, ExecuteOnly(cmd)
       PROVE  Begun'
  <2>1. stage' \notin {"loading", "failed"}
    BY <1>11 DEF ExecuteOnly, MayExecute, Dies
  <2>2. UNCHANGED <<now, snapshot, log, chunk, offset, pending>>
    BY <1>11 DEF ExecuteOnly
  <2> QED
    BY <1>1, <1>3, <2>1, <2>2
<1>12. CASE AppendToAof
  <2>1. /\ stage = "serving" /\ stage' = stage /\ pending # None /\ pending' = None
        /\ log' = log \o Encode(WordsOf(pending))
        /\ UNCHANGED <<now, snapshot, chunk, offset>>
    BY <1>12 DEF AppendToAof
  <2>2. Encode(WordsOf(pending)) \in Seq(Byte)
    BY <1>1, <2>1, WordsRead
  <2>3. log' \in Seq(Byte)
    BY <1>1, <2>1, <2>2, ConcatProperties
  <2> QED
    BY <1>1, <1>3, <2>1, <2>3
<1>13. ASSUME NEW n \in Cuts, AppendFails(n)
       PROVE  Begun'
  <2> DEFINE e == Encode(WordsOf(pending))
             t == SubSeq(e, 1, n)
  <2>1. /\ stage' = "down" /\ pending # None /\ pending' = None /\ n < Len(e)
        /\ log' = log \o t
        /\ UNCHANGED <<now, snapshot, chunk, offset>>
    BY <1>13 DEF AppendFails, Dies
  <2>2. e \in Seq(Byte) /\ Len(e) \in Nat
    BY <1>1, <2>1, WordsRead
  <2>3. n \in Nat
    BY LogInputs
  <2> HIDE DEF e
  <2>4. t \in Seq(Byte)
    <3>1. n \in Int /\ 1 \in Int /\ \A i \in 1..n : i \in 1..Len(e)
      BY <2>1, <2>2, <2>3
    <3>2. \A i \in 1..n : e[i] \in Byte
      BY <2>2, <3>1, ElementOfSeq
    <3> QED
      BY <3>1, <3>2, SubSeqProperties
  <2> HIDE DEF t
  <2>5. log' \in Seq(Byte)
    BY <1>1, <2>1, <2>4, ConcatProperties
  <2> QED
    BY <1>1, <1>3, <2>1, <2>5
<1>14. CASE Crash
  <2>1. stage' = "down" /\ pending' = None /\ UNCHANGED <<now, snapshot, log, chunk, offset>>
    BY <1>14 DEF Crash, Dies
  <2> QED
    BY <1>1, <1>3, <2>1
<1>15. CASE Tick \/ UNCHANGED vars
  <2>1. now' \in Nat /\ UNCHANGED <<snapshot, db, stage, buf, offset, log, chunk, pending>>
    BY <1>1, <1>15 DEF Tick, vars
  <2> QED
    BY <1>2, <2>1
<1> QED
  BY <1>5, <1>6, <1>7, <1>8, <1>9, <1>10, <1>11, <1>12, <1>13, <1>14, <1>15 DEF Next

LEMMA BegunLoads ==
  ASSUME \A s \in Snapshots : Described(s)
  PROVE  Begun => SnapshotIsLoaded
<1> SUFFICES ASSUME Begun, offset = 0, stage \in {"loading", "failed"}
             PROVE  IF snapshot.holds = None THEN stage = "failed"
                    ELSE /\ stage = "loading"
                         /\ db.data = snapshot.holds
                         /\ \A k \in Key : db.expires[k] = None
  BY DEF SnapshotIsLoaded
<1>1. snapshot \in Snapshots
  BY DEF Begun
<1>2. IF Loads THEN stage = "loading" /\ \E t \in Nat : db = LoadedAt(snapshot.file, t)
      ELSE stage = "failed"
  BY DEF Begun
<1>3. CASE snapshot.holds = None
  <2>1. 0 \in Nat
    OBVIOUS
  <2>2. ~Loads
    BY <1>1, <1>3, <2>1, DescribedLoads DEF Loads
  <2> QED
    BY <1>2, <1>3, <2>2
<1>4. CASE snapshot.holds # None
  <2>1. \A t \in Nat : /\ snapshot.file = None \/ LoadRdb(snapshot.file).ok
                       /\ LoadedAt(snapshot.file, t).data = snapshot.holds
                       /\ \A k \in Key : LoadedAt(snapshot.file, t).expires[k] = None
    BY <1>1, <1>4, DescribedLoads
  <2>2. Loads
    <3>1. 0 \in Nat
      OBVIOUS
    <3> QED
      BY <2>1, <3>1 DEF Loads
  <2> QED
    BY <1>2, <1>4, <2>1, <2>2
<1> QED
  BY <1>3, <1>4

(* If each snapshot is written in the part of the format that the loader   *)
(* knows, without auxiliary fields, or cannot be read, a start loads what  *)
(* it holds - for a key with an expiry time, no other value - and gives    *)
(* the other keys no deadline, or it fails, whatever is in the append-only *)
(* file (server.py:65-82, rdb.py:20-135).                                  *)
THEOREM SnapshotsAreLoaded ==
  ASSUME \A s \in Snapshots : Described(s)
  PROVE  Spec => []SnapshotIsLoaded
<1>1. Init => Begun
  BY BegunHolds
<1>2. Begun /\ [Next]_vars => Begun'
  BY BegunStays
<1>3. Begun => SnapshotIsLoaded
  BY BegunLoads
<1> QED
  BY <1>1, <1>2, <1>3, PTL DEF Spec

=============================================================================
